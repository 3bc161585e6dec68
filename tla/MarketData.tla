----------------------------- MODULE MarketData -----------------------------
(***************************************************************************)
(* The market data service (services/market_data).  GET /fx/spot asks the  *)
(* manual store first and the cached Banxico FIX behind it; GET /iv/atm    *)
(* has only a manual store.                                                *)
(*                                                                         *)
(* The server runs requests as threads over one BanxicoFixClient, which    *)
(* has no lock: each attribute it assigns is a step of its own.  Time is   *)
(* counted in units of seconds; it passes while a thread waits for         *)
(* Banxico, at most Timeout, and the steps of Python take none.            *)
(*                                                                         *)
(* A quote is named by the time at which it was asked for, its value left  *)
(* out, and so are the pair and tenor of a manual entry.  The pair of a    *)
(* request is USDMXN: another is refused once the manual store lacks it.   *)
(*                                                                         *)
(* A definition followed by another of the same shape that nothing uses    *)
(* (FetchFailsKeeping, ...) is a plausible mistake; the README says which  *)
(* property finds it.                                                      *)
(***************************************************************************)
EXTENDS Integers

CONSTANTS
  Threads,
  None,             \* not set
  Manual, Error,    \* an answer from a manual store, a 503
  NotFound,         \* a 404
  Limits,           \* values of cache_ttl and min_request_interval
  Timeout,          \* of urlopen
  MaxTime           \* bound on the clock

ASSUME TimeAssumption ==
  /\ Limits \subseteq [ttl : Nat, interval : Nat] /\ Timeout \in Nat /\ MaxTime \in Nat

ASSUME NamesAssumption ==
  /\ \A name \in {None, Manual, Error, NotFound} : name \notin Nat
  /\ Error \notin {None, Manual, NotFound}

VARIABLES
  limits,     \* those the client was made with
  time,       \* the clock
  manual,     \* ManualSpotStore has an entry for the pair
  sigma,      \* ManualIVStore has one for the pair and the tenor
  cached,     \* _cached_quote
  expiry,     \* _cache_expiry
  lastAt,     \* _last_request_at
  pc, now,    \* where each request is and the clock it read
  answer      \* what it was answered with

cacheVars == <<cached, expiry, lastAt>>
manualVars == <<manual, sigma>>
vars == <<limits, time, manualVars, cacheVars, pc, now, answer>>

Quote == 0..MaxTime

PC == {"idle", "check", "hit", "fetch", "expiry", "last"}

Goto(t, label) == pc' = [pc EXCEPT ![t] = label]

Respond(t, what) == Goto(t, "idle") /\ answer' = [answer EXCEPT ![t] = what]

Init ==
  /\ limits \in Limits
  /\ time = 0 /\ manual = FALSE /\ sigma = FALSE
  /\ cached = None /\ expiry = None /\ lastAt = None
  /\ pc = [t \in Threads |-> "idle"] /\ now = [t \in Threads |-> 0]
  /\ answer = [t \in Threads |-> None]

Tick ==
  /\ time < MaxTime
  /\ \A t \in Threads : pc[t] = "idle" \/ (pc[t] = "fetch" /\ time < now[t] + Timeout)
  /\ time' = time + 1
  /\ UNCHANGED <<limits, manualVars, cacheVars, pc, now, answer>>

\* set_fix and clear, set_sigma and clear.
SetManual ==
  /\ \/ manual' = ~manual /\ UNCHANGED sigma
     \/ sigma' = ~sigma /\ UNCHANGED manual
  /\ UNCHANGED <<limits, time, cacheVars, pc, now, answer>>

\* _handle_spot asks the manual store first.
Request(t) ==
  /\ pc[t] = "idle"
  /\ IF manual THEN Respond(t, Manual) ELSE Goto(t, "check") /\ UNCHANGED answer
  /\ UNCHANGED <<limits, time, manualVars, cacheVars, now>>

\* _handle_iv has nothing behind its store.
RequestIv(t) ==
  /\ pc[t] = "idle"
  /\ Respond(t, IF sigma THEN Manual ELSE NotFound)
  /\ UNCHANGED <<limits, time, manualVars, cacheVars, now>>

Fresh   == expiry # None /\ time < expiry
Limited == lastAt # None /\ time - lastAt < limits.interval

\* get_latest_fix: the cache is good, or asked for too recently, or it fetches.
CheckDiscards(t) ==
  /\ pc[t] = "check"
  /\ now' = [now EXCEPT ![t] = time]
  /\ IF cached # None /\ (Fresh \/ Limited)
     THEN Goto(t, "hit") /\ cached' = cached
     ELSE Goto(t, "fetch") /\ cached' = None
  /\ UNCHANGED <<limits, time, manualVars, expiry, lastAt, answer>>

Check(t) ==
  /\ pc[t] = "check"
  /\ now' = [now EXCEPT ![t] = time]
  /\ Goto(t, IF cached # None /\ (Fresh \/ Limited) THEN "hit" ELSE "fetch")
  /\ UNCHANGED <<limits, time, manualVars, cacheVars, answer>>

\* The cache is read again for the answer.
Hit(t) ==
  /\ pc[t] = "hit"
  /\ Respond(t, cached)
  /\ UNCHANGED <<limits, time, manualVars, cacheVars, now>>

\* The answer of Banxico arrives and is stored.
StoreQuote(t) ==
  /\ pc[t] = "fetch"
  /\ cached' = now[t]
  /\ Goto(t, "expiry")
  /\ UNCHANGED <<limits, time, manualVars, expiry, lastAt, now, answer>>

\* The lifetime is counted from the request.
Lifetime(t) == now[t] + limits.ttl

StoreExpiry(t) ==
  /\ pc[t] = "expiry"
  /\ expiry' = Lifetime(t)
  /\ Goto(t, "last")
  /\ UNCHANGED <<limits, time, manualVars, cached, lastAt, now, answer>>

StoreLast(t) ==
  /\ pc[t] = "last"
  /\ lastAt' = now[t]
  /\ Respond(t, now[t])
  /\ UNCHANGED <<limits, time, manualVars, cached, expiry, now>>

\* The fetch fails or times out: the cached quote if there is one, else 503.
FetchFailsKeeping(t) ==
  /\ pc[t] = "fetch"
  /\ Respond(t, IF cached = None THEN Error ELSE cached)
  /\ expiry' = IF cached = None THEN expiry ELSE time + limits.ttl
  /\ UNCHANGED <<limits, time, manualVars, cached, lastAt, now>>

FetchFails(t) ==
  /\ pc[t] = "fetch"
  /\ Respond(t, IF cached = None THEN Error ELSE cached)
  /\ UNCHANGED <<limits, time, manualVars, cacheVars, now>>

Step(t) ==
  \/ Request(t) \/ RequestIv(t) \/ Check(t) \/ Hit(t)
  \/ StoreQuote(t) \/ StoreExpiry(t) \/ StoreLast(t) \/ FetchFails(t)

Next == Tick \/ SetManual \/ \E t \in Threads : Step(t)

Spec == Init /\ [][Next]_vars

-----------------------------------------------------------------------------
(* Properties.                                                             *)

\* Every variable has its type.
TypeOK ==
  /\ limits \in Limits
  /\ time \in 0..MaxTime /\ manual \in BOOLEAN /\ sigma \in BOOLEAN
  /\ cached \in Quote \cup {None}
  /\ expiry \in (0..(MaxTime + limits.ttl)) \cup {None} /\ lastAt \in Quote \cup {None}
  /\ pc \in [Threads -> PC] /\ now \in [Threads -> 0..MaxTime]
  /\ answer \in [Threads -> Quote \cup {None, Manual, Error, NotFound}]

Longer == IF limits.ttl > limits.interval THEN limits.ttl ELSE limits.interval

\* A quote taken from the cache was asked for less than the longer of the two
\* limits and one timeout of Banxico ago, however the unlocked assignments of two
\* fetches mix: a late one may put an older quote under a younger expiry.
HitIsRecent ==
  [][\A t \in Threads :
       (pc[t] = "hit" /\ pc'[t] = "idle") =>
         time - answer'[t] < Longer + Timeout]_vars

\* test_banxico_client_returns_cached_on_failure, for any number of threads: once a
\* request was answered with a FIX, no failure of Banxico turns another into a 503.
OutageIsBridged ==
  [][(\E t \in Threads : answer[t] \in Quote) =>
       \A t \in Threads : answer'[t] = Error => answer[t] = Error]_vars
=============================================================================
