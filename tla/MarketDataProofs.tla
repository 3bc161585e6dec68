-------------------------- MODULE MarketDataProofs --------------------------
(***************************************************************************)
(* Theorems about MarketData for any number of threads and any limits,     *)
(* timeout and bound on the clock.                                         *)
(***************************************************************************)
EXTENDS MarketData, TLAPS

\* No clock that was read is ahead, and Banxico keeps a thread for at most Timeout.
ClockInv ==
  /\ \A t \in Threads : now[t] <= time /\ (pc[t] = "fetch" => time <= now[t] + Timeout)
  /\ expiry # None => expiry - limits.ttl <= time
  /\ lastAt # None => lastAt <= time

\* The expiry and the time of the last request, and those about to be assigned, are
\* at most one timeout younger than the quote.
CacheInv ==
  /\ \A t \in Threads : pc[t] \in {"expiry", "last"} => cached # None /\ now[t] <= cached + Timeout
  /\ expiry # None => cached # None /\ expiry - limits.ttl <= cached + Timeout
  /\ lastAt # None => cached # None /\ lastAt <= cached + Timeout

\* A thread that found the cache good will read a quote young enough from it.
HitInv ==
  \A t \in Threads : pc[t] = "hit" =>
    cached # None /\ Longer > 0 /\ time - cached < Longer + Timeout

\* Where a quote was answered there is one in the cache.
AnswerInv == \A t \in Threads : answer[t] \in Quote => cached # None

IInv == TypeOK /\ ClockInv /\ CacheInv /\ HitInv /\ AnswerInv

-----------------------------------------------------------------------------
USE TimeAssumption, NamesAssumption

LEMMA LimitsTyped == TypeOK => limits.ttl \in Nat /\ limits.interval \in Nat
BY DEF TypeOK

LEMMA TypeStep == TypeOK /\ [Next]_vars => TypeOK'
<1> SUFFICES ASSUME TypeOK, [Next]_vars PROVE TypeOK'
  OBVIOUS
<1>0. limits.ttl \in Nat
  BY LimitsTyped
<1> USE DEF TypeOK, Quote, PC, Goto, Respond, manualVars, cacheVars
<1>1. CASE Tick
  BY <1>1 DEF Tick
<1>2. CASE SetManual
  <2>1. manual' \in BOOLEAN /\ sigma' \in BOOLEAN
    BY <1>2 DEF SetManual
  <2> QED BY <1>2, <2>1 DEF SetManual
<1>3. ASSUME NEW t \in Threads, Request(t) \/ RequestIv(t) \/ Check(t) \/ Hit(t) \/ FetchFails(t)
      PROVE  TypeOK'
  BY <1>3 DEF Request, RequestIv, Check, Hit, FetchFails
<1>4. ASSUME NEW t \in Threads, StoreQuote(t) \/ StoreLast(t) PROVE TypeOK'
  BY <1>4 DEF StoreQuote, StoreLast
<1>5. ASSUME NEW t \in Threads, StoreExpiry(t) PROVE TypeOK'
  <2>1. expiry' \in 0..(MaxTime + limits.ttl)
    BY <1>0, <1>5 DEF StoreExpiry, Lifetime
  <2> QED BY <1>5, <2>1 DEF StoreExpiry
<1>6. CASE UNCHANGED vars
  BY <1>6 DEF vars
<1> QED BY <1>1, <1>2, <1>3, <1>4, <1>5, <1>6 DEF Next, Step

LEMMA ClockStep == TypeOK /\ ClockInv /\ [Next]_vars => ClockInv'
<1> SUFFICES ASSUME TypeOK, ClockInv, [Next]_vars PROVE ClockInv'
  OBVIOUS
<1>0. /\ limits.ttl \in Nat /\ time \in Nat /\ pc \in [Threads -> PC]
      /\ now \in [Threads -> 0..MaxTime] /\ \A t \in Threads : now[t] \in Nat
      /\ expiry # None => expiry \in Nat
      /\ lastAt # None => lastAt \in Nat
  BY LimitsTyped DEF TypeOK, Quote
<1> USE DEF Goto, Respond, manualVars, cacheVars
<1>1. CASE Tick
  <2>1. /\ time' = time + 1 /\ UNCHANGED <<limits, expiry, lastAt, pc, now>>
        /\ \A t \in Threads : pc[t] = "fetch" => time < now[t] + Timeout
    BY <1>1 DEF Tick
  <2> QED BY <1>0, <2>1 DEF ClockInv
<1>2. CASE UNCHANGED <<limits, time, expiry, lastAt, now>>
           /\ \A t \in Threads : pc'[t] = "fetch" => pc[t] = "fetch"
  BY <1>2 DEF ClockInv
<1>3. CASE SetManual \/ UNCHANGED vars
  BY <1>2, <1>3 DEF SetManual, vars
<1>4. ASSUME NEW t \in Threads,
             Request(t) \/ RequestIv(t) \/ Hit(t) \/ FetchFails(t) \/ StoreQuote(t)
      PROVE  ClockInv'
  BY <1>0, <1>2, <1>4 DEF Request, RequestIv, Hit, FetchFails, StoreQuote
<1>5. ASSUME NEW t \in Threads, Check(t) PROVE ClockInv'
  BY <1>0, <1>5 DEF Check, ClockInv
<1>6. ASSUME NEW t \in Threads, StoreExpiry(t) PROVE ClockInv'
  BY <1>0, <1>6 DEF StoreExpiry, Lifetime, ClockInv
<1>7. ASSUME NEW t \in Threads, StoreLast(t) PROVE ClockInv'
  BY <1>0, <1>7 DEF StoreLast, ClockInv
<1> QED BY <1>1, <1>3, <1>4, <1>5, <1>6, <1>7 DEF Next, Step

LEMMA CacheStep == TypeOK /\ ClockInv /\ CacheInv /\ [Next]_vars => CacheInv'
<1> SUFFICES ASSUME TypeOK, ClockInv, CacheInv, [Next]_vars PROVE CacheInv'
  OBVIOUS
<1>0. /\ limits.ttl \in Nat /\ time \in Nat /\ pc \in [Threads -> PC]
      /\ now \in [Threads -> 0..MaxTime] /\ \A t \in Threads : now[t] \in Nat
      /\ cached # None => cached \in Nat
      /\ expiry # None => expiry \in Nat
      /\ lastAt # None => lastAt \in Nat
  BY LimitsTyped DEF TypeOK, Quote
<1> USE DEF Goto, Respond, manualVars, cacheVars
<1>1. CASE UNCHANGED <<limits, cached, expiry, lastAt>>
           /\ \A t \in Threads : pc'[t] \in {"expiry", "last"} => pc[t] = pc'[t] /\ now'[t] = now[t]
  BY <1>1 DEF CacheInv
<1>2. CASE Tick \/ SetManual \/ UNCHANGED vars
  BY <1>1, <1>2 DEF Tick, SetManual, vars
<1>3. ASSUME NEW t \in Threads,
             Request(t) \/ RequestIv(t) \/ Hit(t) \/ FetchFails(t) \/ Check(t)
      PROVE  CacheInv'
  BY <1>0, <1>1, <1>3 DEF Request, RequestIv, Hit, FetchFails, Check
<1>4. ASSUME NEW t \in Threads, StoreQuote(t) PROVE CacheInv'
  <2>1. /\ cached' = now[t] /\ UNCHANGED <<limits, expiry, lastAt, now>>
        /\ time <= now[t] + Timeout /\ cached' # None
    BY <1>0, <1>4 DEF StoreQuote, ClockInv
  <2>2. /\ \A u \in Threads : now[u] <= cached' + Timeout
        /\ expiry # None => expiry - limits.ttl <= cached' + Timeout
        /\ lastAt # None => lastAt <= cached' + Timeout
    BY <1>0, <2>1 DEF ClockInv
  <2> QED BY <2>1, <2>2 DEF CacheInv
<1>5. ASSUME NEW t \in Threads, StoreExpiry(t) PROVE CacheInv'
  <2>1. /\ pc[t] = "expiry" /\ pc' = [pc EXCEPT ![t] = "last"]
        /\ expiry' = now[t] + limits.ttl /\ UNCHANGED <<limits, cached, lastAt, now>>
    BY <1>5 DEF StoreExpiry, Lifetime
  <2>2. expiry' - limits'.ttl = now[t]
    BY <1>0, <2>1
  <2> QED BY <1>0, <2>1, <2>2 DEF CacheInv
<1>6. ASSUME NEW t \in Threads, StoreLast(t) PROVE CacheInv'
  BY <1>0, <1>6 DEF StoreLast, CacheInv
<1> QED BY <1>2, <1>3, <1>4, <1>5, <1>6 DEF Next, Step

LEMMA HitStep == TypeOK /\ ClockInv /\ CacheInv /\ HitInv /\ [Next]_vars => HitInv'
<1> SUFFICES ASSUME TypeOK, ClockInv, CacheInv, HitInv, [Next]_vars PROVE HitInv'
  OBVIOUS
<1>0. /\ limits.ttl \in Nat /\ limits.interval \in Nat /\ time \in Nat /\ pc \in [Threads -> PC]
      /\ now \in [Threads -> 0..MaxTime] /\ \A t \in Threads : now[t] \in Nat
      /\ cached # None => cached \in Nat
      /\ expiry # None => expiry \in Nat
      /\ lastAt # None => lastAt \in Nat
      /\ Longer \in Nat /\ limits.ttl <= Longer /\ limits.interval <= Longer
  BY LimitsTyped DEF TypeOK, Quote, Longer
<1> USE DEF Goto, Respond, manualVars, cacheVars
<1>1. CASE UNCHANGED <<limits, time, cached>>
           /\ \A t \in Threads : pc'[t] = "hit" => pc[t] = "hit"
  BY <1>1 DEF HitInv, Longer
<1>2. CASE Tick
  BY <1>2 DEF Tick, HitInv
<1>3. CASE SetManual \/ UNCHANGED vars
  BY <1>1, <1>3 DEF SetManual, vars
<1>4. ASSUME NEW t \in Threads,
             Request(t) \/ RequestIv(t) \/ Hit(t) \/ FetchFails(t) \/ StoreExpiry(t) \/ StoreLast(t)
      PROVE  HitInv'
  BY <1>0, <1>1, <1>4 DEF Request, RequestIv, Hit, FetchFails, StoreExpiry, StoreLast
<1>5. ASSUME NEW t \in Threads, Check(t) PROVE HitInv'
  <2>1. /\ UNCHANGED <<limits, time, cached>>
        /\ \/ pc' = [pc EXCEPT ![t] = "hit"] /\ cached # None /\ (Fresh \/ Limited)
           \/ pc' = [pc EXCEPT ![t] = "fetch"]
    BY <1>5 DEF Check
  <2>2. ASSUME cached # None, Fresh \/ Limited
        PROVE  Longer > 0 /\ time - cached < Longer + Timeout
    <3>1. CASE Fresh
      <4>1. /\ time < expiry /\ expiry \in Nat /\ expiry - limits.ttl <= cached + Timeout
            /\ expiry - limits.ttl <= time
        BY <1>0, <3>1 DEF Fresh, ClockInv, CacheInv
      <4> QED BY <1>0, <2>2, <4>1
    <3>2. CASE Limited
      <4>1. /\ time - lastAt < limits.interval /\ lastAt \in Nat
            /\ lastAt <= cached + Timeout /\ lastAt <= time
        BY <1>0, <3>2 DEF Limited, ClockInv, CacheInv
      <4> QED BY <1>0, <2>2, <4>1
    <3> QED BY <2>2, <3>1, <3>2
  <2>3. Longer' = Longer
    BY <2>1 DEF Longer
  <2> QED BY <1>0, <2>1, <2>2, <2>3 DEF HitInv
<1>6. ASSUME NEW t \in Threads, StoreQuote(t) PROVE HitInv'
  <2>1. /\ cached' = now[t] /\ UNCHANGED <<limits, time>>
        /\ pc' = [pc EXCEPT ![t] = "expiry"]
        /\ time <= now[t] + Timeout /\ cached' # None
    BY <1>0, <1>6 DEF StoreQuote, ClockInv
  <2>2. Longer' = Longer
    BY <2>1 DEF Longer
  <2>3. Longer > 0 => time' - cached' < Longer + Timeout
    BY <1>0, <2>1
  <2> QED BY <1>0, <2>1, <2>2, <2>3 DEF HitInv
<1> QED BY <1>2, <1>3, <1>4, <1>5, <1>6 DEF Next, Step

LEMMA AnswerStep ==
  TypeOK /\ CacheInv /\ HitInv /\ AnswerInv /\ [Next]_vars =>
    /\ AnswerInv'
    /\ cached # None => cached' # None
    /\ \A t \in Threads : answer'[t] = Error /\ answer[t] # Error => cached = None
<1> DEFINE Goal == /\ AnswerInv'
                   /\ cached # None => cached' # None
                   /\ \A t \in Threads : answer'[t] = Error /\ answer[t] # Error => cached = None
<1> SUFFICES ASSUME TypeOK, CacheInv, HitInv, AnswerInv, [Next]_vars PROVE Goal
  OBVIOUS
<1>0. /\ now \in [Threads -> 0..MaxTime] /\ cached \in Quote \cup {None}
      /\ answer \in [Threads -> Quote \cup {None, Manual, Error, NotFound}]
      /\ \A q \in Quote : q \notin {None, Manual, Error, NotFound}
  BY DEF TypeOK, Quote
<1> USE DEF Goto, Respond, manualVars, cacheVars
<1>1. ASSUME answer' = answer, cached' = cached \/ cached' # None PROVE Goal
  BY <1>1 DEF AnswerInv
<1>2. CASE Tick \/ SetManual \/ UNCHANGED vars
  BY <1>1, <1>2 DEF Tick, SetManual, vars
<1>3. ASSUME NEW t \in Threads, NEW what, cached' = cached,
             answer' = [answer EXCEPT ![t] = what],
             what \in Quote => cached # None,
             what = Error => cached = None
      PROVE  Goal
  BY <1>0, <1>3 DEF AnswerInv
<1>4. ASSUME NEW t \in Threads, Request(t) \/ RequestIv(t) PROVE Goal
  BY <1>0, <1>1, <1>3, <1>4 DEF Request, RequestIv
<1>5. ASSUME NEW t \in Threads, Check(t) \/ StoreExpiry(t) PROVE Goal
  BY <1>1, <1>5 DEF Check, StoreExpiry
<1>6. ASSUME NEW t \in Threads, StoreQuote(t) PROVE Goal
  BY <1>0, <1>1, <1>6 DEF StoreQuote, Quote
<1>7. ASSUME NEW t \in Threads, Hit(t) PROVE Goal
  <2>1. cached # None
    BY <1>7 DEF Hit, HitInv
  <2> QED BY <1>0, <1>3, <1>7, <2>1 DEF Hit
<1>8. ASSUME NEW t \in Threads, StoreLast(t) PROVE Goal
  <2>1. cached # None /\ now[t] \in Quote
    BY <1>0, <1>8 DEF StoreLast, CacheInv, Quote
  <2> QED BY <1>0, <1>3, <1>8, <2>1 DEF StoreLast
<1>9. ASSUME NEW t \in Threads, FetchFails(t) PROVE Goal
  <2>1. CASE cached = None
    BY <1>0, <1>3, <1>9, <2>1 DEF FetchFails
  <2>2. CASE cached # None
    BY <1>0, <1>3, <1>9, <2>2 DEF FetchFails
  <2> QED BY <2>1, <2>2
<1> QED
  BY <1>2, <1>4, <1>5, <1>6, <1>7, <1>8, <1>9 DEF Next, Step

-----------------------------------------------------------------------------
LEMMA FixInvariant == Spec => []IInv
<1>1. Init => IInv
  <2> SUFFICES ASSUME Init PROVE IInv
    OBVIOUS
  <2>1. 0 \in 0..MaxTime /\ None \notin Quote
    BY DEF Quote
  <2>2. TypeOK
    BY <2>1 DEF Init, TypeOK, PC
  <2>3. ClockInv /\ CacheInv /\ HitInv
    BY DEF Init, ClockInv, CacheInv, HitInv
  <2>4. AnswerInv
    BY <2>1 DEF Init, AnswerInv
  <2> QED BY <2>2, <2>3, <2>4 DEF IInv
<1>2. IInv /\ [Next]_vars => IInv'
  BY TypeStep, ClockStep, CacheStep, HitStep, AnswerStep DEF IInv
<1> QED BY <1>1, <1>2, PTL DEF Spec

\* banxico_fix.py: every variable keeps its type.
THEOREM TypeCorrect == Spec => []TypeOK
<1> QED BY FixInvariant, PTL DEF IInv

\* get_latest_fix without a lock: what it takes from the cache was asked for less than
\* the longer limit and one timeout ago.
THEOREM HitsRecent == Spec => HitIsRecent
<1>1. ASSUME IInv, [Next]_vars, NEW t \in Threads, pc[t] = "hit", pc'[t] = "idle"
      PROVE  time - answer'[t] < Longer + Timeout
  <2>0. TypeOK /\ pc \in [Threads -> PC]
        /\ answer \in [Threads -> Quote \cup {None, Manual, Error, NotFound}]
    BY <1>1 DEF IInv, TypeOK
  <2>1. Hit(t)
    <3>1. pc' # pc
      BY <1>1
    <3>2. ASSUME NEW u \in Threads, Step(u) PROVE Hit(t)
      BY <1>1, <2>0, <3>2 DEF Step, Request, RequestIv, Check, Hit, StoreQuote, StoreExpiry,
                              StoreLast, FetchFails, Goto, Respond
    <3> QED BY <1>1, <3>1, <3>2 DEF Next, Tick, SetManual, vars
  <2>2. answer'[t] = cached
    BY <2>0, <2>1 DEF Hit, Respond
  <2> QED BY <1>1, <2>2 DEF IInv, HitInv
<1>2. IInv /\ [Next]_vars =>
        [\A t \in Threads : (pc[t] = "hit" /\ pc'[t] = "idle") =>
           time - answer'[t] < Longer + Timeout]_vars
  BY <1>1
<1> QED BY <1>2, FixInvariant, PTL DEF Spec, HitIsRecent

\* get_latest_fix keeps the quote it has when a fetch fails: an answer with a FIX is
\* never followed by a new 503.
THEOREM OutagesBridged == Spec => OutageIsBridged
<1>1. IInv /\ [Next]_vars =>
        [(\E t \in Threads : answer[t] \in Quote) =>
           \A t \in Threads : answer'[t] = Error => answer[t] = Error]_vars
  BY AnswerStep DEF IInv, AnswerInv
<1> QED BY <1>1, FixInvariant, PTL DEF Spec, OutageIsBridged
=============================================================================
