--------------------------- MODULE QuoteCardProofs ---------------------------
(***************************************************************************)
(* Theorems about Quotes and QuoteCard for any number of requests, any     *)
(* positions of the slider and any premiums, cap, validity and latency     *)
(* limit.                                                                  *)
(***************************************************************************)
EXTENDS QuoteCard, TLAPS, SequenceTheorems

\* A call under way has its exposure, behind the gateway that of a request that was
\* sent; the quote it makes is for it, from a snapshot, and valid from its beginning.
StageInv ==
  \A h \in Handlers :
    /\ pc[h] # "idle" => exposure[h] # None
    /\ exposure[h] # None => listener \/ h \in 1..active
    /\ pc[h] \in {"idle", "fetch", "price", "manual"} => quote[h] = None
    /\ pc[h] = "price" => market[h] # None
    /\ pc[h] \in {"save", "publish", "check", "quoted", "late"} => quote[h] # None
    /\ quote[h] # None => /\ quote[h].exposure = exposure[h]
                          /\ quote[h].until = start[h] + Validity

\* The quote is stored before it is announced, and announced before the call is
\* answered; what the gateway has not published is on no bus.
EffectInv ==
  \A h \in Handlers :
    /\ pc[h] \in {"publish", "check", "quoted", "late"} => Stored(h)
    /\ pc[h] \in {"check", "quoted", "late"} => Announced(h)
    /\ ~listener /\ pc[h] \notin {"check", "quoted", "late", "failed"} => bus[h] = <<>>

IInv == active \in Nat /\ TypeOK /\ StageInv /\ EffectInv /\ EventHasQuote

-----------------------------------------------------------------------------
\* What a step is to the orchestrator: nothing, time, the beginning of a call, a step
\* of one, or a request sent by the card.
LEMMA StepMoves ==
  ASSUME TypeOK, [Next]_vars
  PROVE  \/ UNCHANGED <<quoteVars, active>>
         \/ Tick /\ active' = active
         \/ \E h \in Handlers : \E e \in Exposures :
              Receive(h, e) /\ active' = active /\ (listener \/ exposure[h] = e)
         \/ \E h \in Handlers : HandlerStep(h) /\ active' = active
         \/ ~listener /\ \E position \in Exposures : RunEffect(position)
<1>0. slider \in Exposures /\ exposure \in [Handlers -> Exposures \cup {None}]
  BY DEF TypeOK, QuotesTypeOK
<1>1. CASE QuoteNext /\ UNCHANGED cardVars
  BY <1>1 DEF QuoteNext, Event, cardVars
<1>2. CASE Load
  BY <1>0, <1>2 DEF Load
<1>3. CASE Slide
  <2>1. PICK position \in Exposures :
          \/ RunEffect(position)
          \/ UNCHANGED <<quoteVars, active>>
    BY <1>3 DEF Slide
  <2> QED BY <1>3, <2>1 DEF Slide
<1>4. CASE Leave
  BY <1>4 DEF Leave
<1>5. ASSUME NEW h \in Handlers, Arrive(h)
      PROVE  \E e \in Exposures : Receive(h, e) /\ active' = active /\ exposure[h] = e
  BY <1>0, <1>5 DEF Arrive, cardVars
<1>6. ASSUME NEW h \in Handlers, ShowAnswer(h) \/ Unreachable(h)
      PROVE  UNCHANGED <<quoteVars, active>>
  BY <1>6 DEF ShowAnswer, Unreachable
<1>7. CASE UNCHANGED vars
  BY <1>7 DEF vars, cardVars
<1> QED BY <1>1, <1>2, <1>3, <1>4, <1>5, <1>6, <1>7 DEF Next

LEMMA CardTyped ==
  TypeOK /\ active \in Nat /\ [Next]_vars =>
    /\ active' \in Nat
    /\ (/\ wrapped \in BOOLEAN /\ loaded \in BOOLEAN /\ left \in BOOLEAN /\ error \in BOOLEAN
        /\ slider \in Exposures /\ settled \subseteq Handlers
        /\ active \in Handlers \cup {0} /\ shown \in 0..active)'
<1> SUFFICES ASSUME TypeOK, active \in Nat, [Next]_vars
             PROVE  /\ active' \in Nat
                    /\ (/\ wrapped \in BOOLEAN /\ loaded \in BOOLEAN /\ left \in BOOLEAN
                        /\ error \in BOOLEAN
                        /\ slider \in Exposures /\ settled \subseteq Handlers
                        /\ active \in Handlers \cup {0} /\ shown \in 0..active)'
  OBVIOUS
<1> USE DEF TypeOK
<1>1. CASE UNCHANGED cardVars
  BY <1>1 DEF cardVars
<1>2. CASE (QuoteNext /\ UNCHANGED cardVars) \/ UNCHANGED vars \/ \E h \in Handlers : Arrive(h)
  BY <1>1, <1>2 DEF vars, Arrive
<1>3. ASSUME NEW position \in Exposures, RunEffect(position),
             UNCHANGED <<wrapped, settled, shown, left>>,
             slider' \in Exposures, loaded' \in BOOLEAN
      PROVE  /\ active' \in Nat
             /\ (/\ wrapped \in BOOLEAN /\ loaded \in BOOLEAN /\ left \in BOOLEAN
                 /\ error \in BOOLEAN
                 /\ slider \in Exposures /\ settled \subseteq Handlers
                 /\ active \in Handlers \cup {0} /\ shown \in 0..active)'
  <2>1. active' = active + 1 /\ active' \in Handlers /\ error' = FALSE
    BY <1>3 DEF RunEffect
  <2>2. shown' \in 0..active' /\ active' \in Nat
    BY <1>3, <2>1
  <2>3. /\ wrapped' \in BOOLEAN /\ loaded' \in BOOLEAN /\ left' \in BOOLEAN
        /\ error' \in BOOLEAN
    BY <1>3, <2>1
  <2>4. /\ slider' \in Exposures /\ settled' \subseteq Handlers
        /\ active' \in Handlers \cup {0}
    BY <1>3, <2>1
  <2> QED BY <2>2, <2>3, <2>4
<1>4. CASE Load
  BY <1>3, <1>4 DEF Load
<1>5. CASE Slide
  <2>1. PICK position \in Exposures :
          /\ slider' = position
          /\ IF loaded THEN RunEffect(position) ELSE UNCHANGED <<quoteVars, active, error>>
    BY <1>5 DEF Slide
  <2>2. UNCHANGED <<wrapped, loaded, settled, shown, left>>
    BY <1>5 DEF Slide
  <2>3. CASE loaded
    BY <1>3, <2>1, <2>2, <2>3
  <2>4. CASE ~loaded
    BY <2>1, <2>2, <2>4
  <2> QED BY <2>3, <2>4
<1>6. CASE Leave
  BY <1>6 DEF Leave
<1>7. ASSUME NEW h \in Handlers, ShowAnswer(h) \/ Unreachable(h)
      PROVE  /\ active' = active /\ shown' \in {shown, active}
             /\ UNCHANGED <<wrapped, loaded, slider, left>>
             /\ settled' = settled \cup {h} /\ error' \in BOOLEAN
  BY <1>7 DEF ShowAnswer, Unreachable, NotCancelled
<1>8. CASE \E h \in Handlers : ShowAnswer(h) \/ Unreachable(h)
  <2>1. PICK h \in Handlers : ShowAnswer(h) \/ Unreachable(h)
    BY <1>8
  <2>2. /\ active' = active /\ shown' \in {shown, active}
        /\ UNCHANGED <<wrapped, loaded, slider, left>>
        /\ settled' = settled \cup {h} /\ error' \in BOOLEAN
    BY <1>7, <2>1
  <2>3. shown' \in 0..active' /\ active' \in Nat
    BY <2>2
  <2>4. wrapped' \in BOOLEAN /\ loaded' \in BOOLEAN /\ left' \in BOOLEAN
    BY <2>2
  <2>5. /\ slider' \in Exposures /\ settled' \subseteq Handlers
        /\ active' \in Handlers \cup {0}
    BY <2>2
  <2> QED BY <2>2, <2>3, <2>4, <2>5
<1> QED BY <1>2, <1>4, <1>5, <1>6, <1>8 DEF Next

\* The engine makes a quote of the call's own exposure, not above the cap.
LEMMA PriceMakesQuote ==
  ASSUME TypeOK, StageInv, NEW h \in Handlers, Price(h)
  PROVE  /\ quote' \in [Handlers -> Quote \cup {None}] /\ quote'[h] \in Quote
         /\ quote'[h].exposure = exposure[h] /\ quote'[h].until = start[h] + Validity
         /\ \A g \in Handlers : g # h => quote'[g] = quote[g]
<1> USE QuoteAssumption
<1>0. /\ exposure \in [Handlers -> Exposures \cup {None}] /\ start \in [Handlers -> 0..MaxTime]
      /\ quote \in [Handlers -> Quote \cup {None}] /\ market \in [Handlers -> Snapshot \cup {None}]
  BY DEF TypeOK, QuotesTypeOK
<1>1. quote' = [quote EXCEPT ![h] =
        [exposure |-> exposure[h], price |-> Capped(market[h]),
         volatility |-> market[h].volatility, until |-> start[h] + Validity]]
  BY DEF Price
<1>2. exposure[h] \in Exposures /\ market[h] \in Snapshot
  BY <1>0, NoneAssumption DEF Price, StageInv
<1>3. Capped(market[h]) \in 0..Cap /\ market[h].volatility \in Volatilities
  <2>1. market[h].premium \in Premiums \cup {0} /\ market[h].volatility \in Volatilities
    BY ONLY <1>2 DEF Snapshot
  <2>2. Premiums \subseteq Nat /\ 0 \in Nat
    OBVIOUS
  <2>3. market[h].premium \in Nat
    BY ONLY <2>1, <2>2
  <2> QED BY <2>1, <2>3 DEF Capped
<1>4. start[h] + Validity \in Validity..(MaxTime + Validity)
  BY <1>0
<1> QED BY <1>0, <1>1, <1>2, <1>3, <1>4 DEF Quote

LEMMA QuotesTyped == TypeOK /\ StageInv /\ [Next]_vars => QuotesTypeOK'
<1> SUFFICES ASSUME TypeOK, StageInv, [Next]_vars PROVE QuotesTypeOK'
  OBVIOUS
<1>0. QuotesTypeOK
  BY DEF TypeOK
<1> USE QuoteAssumption DEF QuotesTypeOK, Goto, storeVars
<1>1. CASE UNCHANGED quoteVars
  BY <1>0, <1>1 DEF quoteVars
<1>2. CASE Tick
  BY <1>0, <1>2 DEF Tick
<1>3. ASSUME NEW h \in Handlers, NEW e \in Exposures, Receive(h, e) PROVE QuotesTypeOK'
  BY <1>0, <1>3 DEF Receive, PC
<1>4. ASSUME NEW position \in Exposures, RunEffect(position) PROVE QuotesTypeOK'
  BY <1>0, <1>4 DEF RunEffect
<1>5. ASSUME NEW h \in Handlers, Fetch(h) PROVE QuotesTypeOK'
  <2>1. PICK s \in Offered(h) :
          /\ market' = [market EXCEPT ![h] = s]
          /\ pc' = [pc EXCEPT ![h] = "price"]
    BY <1>5 DEF Fetch
  <2>2. s \in Snapshot
    BY DEF Offered, Snapshot
  <2> QED BY <1>0, <1>5, <2>1, <2>2 DEF Fetch, PC, Outcomes
<1>6. ASSUME NEW h \in Handlers, FetchFails(h) \/ Raises(h) \/ Finish(h) PROVE QuotesTypeOK'
  BY <1>0, <1>6 DEF FetchFails, Raises, Finish, PC, Outcomes
<1>7. ASSUME NEW h \in Handlers, Price(h) PROVE QuotesTypeOK'
  BY <1>0, <1>7, PriceMakesQuote DEF Price, PC, After
<1>8. ASSUME NEW h \in Handlers, Save(h) PROVE QuotesTypeOK'
  <2>1. /\ Store(h) \in Stores /\ exposure[h] \in Exposures
        /\ quote[h] \in Quote \cup {None} /\ repo[Store(h)] \in [Exposures -> Quote \cup {None}]
    BY <1>0, <1>8 DEF Save, StageInv, Store, Stores
  <2>2. repo' = [repo EXCEPT ![Store(h)] = [repo[Store(h)] EXCEPT ![exposure[h]] = quote[h]]]
    BY <1>8 DEF Save
  <2>3. repo' \in [Stores -> [Exposures -> Quote \cup {None}]]
    BY <1>0, <2>1, <2>2
  <2> QED BY <1>0, <1>8, <2>3 DEF Save, PC, After
<1>9. ASSUME NEW h \in Handlers, Publish(h) PROVE QuotesTypeOK'
  <2>1. Store(h) \in Stores /\ quote[h] \in Quote
    BY <1>0, <1>9 DEF Publish, StageInv, Store, Stores
  <2>2. Append(bus[Store(h)], quote[h]) \in Seq(Quote)
    BY <1>0, <2>1, AppendProperties
  <2>3. bus' \in [Stores -> Seq(Quote)]
    BY <1>0, <1>9, <2>2 DEF Publish
  <2> QED BY <1>0, <1>9, <2>3 DEF Publish, PC, After
<1> QED
  BY <1>1, <1>2, <1>3, <1>4, <1>5, <1>6, <1>7, <1>8, <1>9, StepMoves DEF HandlerStep

LEMMA StageStep ==
  TypeOK /\ active \in Nat /\ StageInv /\ [Next]_vars => StageInv'
<1> SUFFICES ASSUME TypeOK, active \in Nat, StageInv, [Next]_vars PROVE StageInv'
  OBVIOUS
<1>0. /\ pc \in [Handlers -> PC] /\ exposure \in [Handlers -> Exposures \cup {None}]
      /\ quote \in [Handlers -> Quote \cup {None}] /\ start \in [Handlers -> 0..MaxTime]
      /\ market \in [Handlers -> Snapshot \cup {None}]
  BY DEF TypeOK, QuotesTypeOK
<1> USE NoneAssumption DEF StageInv, Goto, storeVars
<1>1. CASE UNCHANGED <<quoteVars, active>>
  BY <1>1 DEF quoteVars
<1>2. CASE Tick /\ active' = active
  BY <1>2 DEF Tick
<1>3. ASSUME NEW h \in Handlers, NEW e \in Exposures,
             Receive(h, e), active' = active, listener \/ exposure[h] = e
      PROVE  StageInv'
  BY <1>0, <1>3 DEF Receive
<1>4. ASSUME NEW position \in Exposures, ~listener, RunEffect(position) PROVE StageInv'
  <2>1. PICK n \in Handlers : /\ n = active + 1 /\ active' = n
                              /\ exposure' = [exposure EXCEPT ![n] = position]
    BY <1>4 DEF RunEffect
  <2>2. UNCHANGED <<listener, pc, start, market, quote>>
    BY <1>4 DEF RunEffect
  <2>3. n \notin 1..active /\ n \in 1..active' /\ 1..active \subseteq 1..active'
    BY <2>1
  <2>4. pc[n] = "idle" /\ quote[n] = None
    BY <1>4, <2>3
  <2> QED BY <1>0, <2>1, <2>2, <2>3, <2>4
<1>5. ASSUME NEW h \in Handlers, active' = active,
             FetchFails(h) \/ Save(h) \/ Publish(h) \/ Raises(h) \/ Finish(h)
      PROVE  StageInv'
  BY <1>0, <1>5 DEF FetchFails, Save, Publish, Raises, Finish, After
<1>6. ASSUME NEW h \in Handlers, active' = active, Fetch(h) PROVE StageInv'
  <2>1. PICK s \in Snapshot : market' = [market EXCEPT ![h] = s]
    BY <1>6 DEF Fetch, Offered, Snapshot
  <2>2. s # None
    BY <2>1
  <2>3. /\ pc[h] = "fetch" /\ pc' = [pc EXCEPT ![h] = "price"]
        /\ UNCHANGED <<listener, exposure, start, quote>>
    BY <1>6 DEF Fetch
  <2> QED BY <1>0, <1>6, <2>1, <2>2, <2>3
<1>7. ASSUME NEW h \in Handlers, active' = active, Price(h) PROVE StageInv'
  <2>1. /\ quote'[h].exposure = exposure[h] /\ quote'[h].until = start[h] + Validity
        /\ quote'[h] \in Quote /\ \A g \in Handlers : g # h => quote'[g] = quote[g]
    BY <1>7, PriceMakesQuote
  <2> QED BY <1>0, <1>7, <2>1 DEF Price, After
<1> QED BY <1>1, <1>2, <1>3, <1>4, <1>5, <1>6, <1>7, StepMoves DEF HandlerStep

\* No quote leaves a repository, and none leaves a bus.
LEMMA StoresGrow ==
  ASSUME TypeOK, StageInv, [Next]_vars
  PROVE  /\ listener' = listener
         /\ \A s \in Stores, e \in Exposures : repo[s][e] # None => repo'[s][e] # None
         /\ \A s \in Stores : /\ Len(bus[s]) \in Nat /\ Len(bus'[s]) \in Nat
                              /\ Len(bus[s]) <= Len(bus'[s])
                              /\ \A i \in 1..Len(bus[s]) : bus'[s][i] = bus[s][i]
<1> DEFINE RepoGrows == \A s \in Stores, e \in Exposures : repo[s][e] # None => repo'[s][e] # None
           BusGrows == \A s \in Stores : /\ Len(bus[s]) \in Nat /\ Len(bus'[s]) \in Nat
                                         /\ Len(bus[s]) <= Len(bus'[s])
                                         /\ \A i \in 1..Len(bus[s]) : bus'[s][i] = bus[s][i]
<1>0. /\ bus \in [Stores -> Seq(Quote)] /\ repo \in [Stores -> [Exposures -> Quote \cup {None}]]
      /\ \A s \in Stores : Len(bus[s]) \in Nat
  <2>1. bus \in [Stores -> Seq(Quote)] /\ repo \in [Stores -> [Exposures -> Quote \cup {None}]]
    BY DEF TypeOK, QuotesTypeOK
  <2> QED BY <2>1, LenProperties
<1>1. ASSUME bus' = bus, repo' = repo PROVE RepoGrows /\ BusGrows
  BY <1>0, <1>1
<1>2. ASSUME NEW h \in Handlers, Save(h) PROVE RepoGrows /\ BusGrows
  <2>1. repo' = [repo EXCEPT ![Store(h)] = [repo[Store(h)] EXCEPT ![exposure[h]] = quote[h]]]
    BY <1>2 DEF Save
  <2>2. quote[h] # None /\ bus' = bus
    BY <1>2 DEF Save, StageInv
  <2> QED BY <1>0, <2>1, <2>2
<1>3. ASSUME NEW h \in Handlers, Publish(h) PROVE RepoGrows /\ BusGrows
  <2>1. quote[h] \in Quote /\ repo' = repo
        /\ bus' = [bus EXCEPT ![Store(h)] = Append(bus[Store(h)], quote[h])]
    BY <1>3 DEF Publish, StageInv, TypeOK, QuotesTypeOK
  <2> SUFFICES ASSUME NEW s \in Stores
               PROVE  /\ Len(bus'[s]) \in Nat
                      /\ Len(bus[s]) <= Len(bus'[s])
                      /\ \A i \in 1..Len(bus[s]) : bus'[s][i] = bus[s][i]
    BY <1>0, <2>1
  <2>2. CASE s = Store(h)
    <3>1. bus'[s] = Append(bus[s], quote[h]) /\ bus[s] \in Seq(Quote)
      BY <1>0, <2>1, <2>2
    <3>2. /\ Len(bus'[s]) = Len(bus[s]) + 1
          /\ \A i \in 1..Len(bus[s]) : bus'[s][i] = bus[s][i]
      BY <2>1, <3>1, AppendProperties
    <3> QED BY <1>0, <3>2
  <2>3. CASE s # Store(h)
    BY <1>0, <2>1, <2>3
  <2> QED BY <2>2, <2>3
<1>4. listener' = listener /\ RepoGrows /\ BusGrows
  <2>1. CASE UNCHANGED <<quoteVars, active>>
    BY <1>1, <2>1 DEF quoteVars, storeVars
  <2>2. CASE Tick
    BY <1>1, <2>2 DEF Tick, storeVars
  <2>3. ASSUME NEW h \in Handlers, NEW e \in Exposures, Receive(h, e)
        PROVE  listener' = listener /\ RepoGrows /\ BusGrows
    BY <1>1, <2>3 DEF Receive, storeVars
  <2>4. ASSUME NEW position \in Exposures, RunEffect(position)
        PROVE  listener' = listener /\ RepoGrows /\ BusGrows
    BY <1>1, <2>4 DEF RunEffect, storeVars
  <2>5. ASSUME NEW h \in Handlers,
               Fetch(h) \/ FetchFails(h) \/ Price(h) \/ Raises(h) \/ Finish(h)
        PROVE  listener' = listener /\ RepoGrows /\ BusGrows
    BY <1>1, <2>5 DEF Fetch, FetchFails, Price, Raises, Finish, storeVars
  <2>6. ASSUME NEW h \in Handlers, Save(h) \/ Publish(h)
        PROVE  listener' = listener /\ RepoGrows /\ BusGrows
    BY <1>2, <1>3, <2>6 DEF Save, Publish
  <2> QED BY <2>1, <2>2, <2>3, <2>4, <2>5, <2>6, StepMoves DEF HandlerStep
<1> QED BY <1>4

LEMMA EffectStep ==
  TypeOK /\ active \in Nat /\ StageInv /\ EffectInv /\ [Next]_vars => EffectInv'
<1> SUFFICES ASSUME TypeOK, active \in Nat, StageInv, EffectInv, [Next]_vars
             PROVE  EffectInv'
  OBVIOUS
<1> DEFINE Ok(h) ==
      /\ pc[h] \in {"publish", "check", "quoted", "late"} => Stored(h)
      /\ pc[h] \in {"check", "quoted", "late"} => Announced(h)
      /\ ~listener /\ pc[h] \notin {"check", "quoted", "late", "failed"} => bus[h] = <<>>
<1>0. /\ pc \in [Handlers -> PC] /\ exposure \in [Handlers -> Exposures \cup {None}]
      /\ quote \in [Handlers -> Quote \cup {None}]
      /\ \A h \in Handlers : Store(h) \in Stores /\ h \in Stores
  BY DEF TypeOK, QuotesTypeOK, Store, Stores
\* What a call has done stays done.
<1>1. ASSUME NEW h \in Handlers, exposure'[h] = exposure[h], exposure[h] # None, Stored(h)
      PROVE  Stored(h)'
  BY <1>0, <1>1, StoresGrow DEF Stored, Store
<1>2. ASSUME NEW h \in Handlers, quote'[h] = quote[h], Announced(h) PROVE Announced(h)'
  <2>1. PICK s \in Stores : s = Store(h)
    BY <1>0
  <2>2. PICK i \in 1..Len(bus[s]) : bus[s][i] = quote[h]
    BY <1>2, <2>1 DEF Announced
  <2>3. i \in 1..Len(bus'[s]) /\ bus'[s][i] = quote'[h] /\ listener' = listener
    BY <1>2, <2>2, StoresGrow
  <2> QED BY <2>1, <2>3 DEF Announced, Store
<1>3. ASSUME NEW h \in Handlers, quote'[h] = quote[h] \/ pc'[h] \in {"save", "price"},
             exposure'[h] = exposure[h] \/ pc'[h] \in {"idle", "fetch"}, bus'[h] = bus[h],
             \/ pc'[h] = pc[h]
             \/ pc'[h] \notin {"publish", "check", "quoted", "late"} /\ (~listener =>
                    pc[h] \notin {"check", "quoted", "late", "failed"})
             \/ pc[h] = "check" /\ pc'[h] \in {"quoted", "late"}
      PROVE  Ok(h)'
  <2>1. Ok(h) /\ (pc[h] # "idle" => exposure[h] # None) /\ listener' = listener
    BY StoresGrow DEF EffectInv, StageInv
  <2>2. pc'[h] \in {"publish", "check", "quoted", "late"} => Stored(h)'
    BY <1>1, <1>3, <2>1
  <2>3. pc'[h] \in {"check", "quoted", "late"} => Announced(h)'
    BY <1>2, <1>3, <2>1
  <2>4. ~listener' /\ pc'[h] \notin {"check", "quoted", "late", "failed"} => bus'[h] = <<>>
    BY <1>3, <2>1
  <2> QED BY <2>2, <2>3, <2>4
<1>4. CASE UNCHANGED <<quoteVars, active>>
  BY <1>3, <1>4 DEF quoteVars, storeVars, EffectInv
<1>5. CASE Tick
  BY <1>3, <1>5 DEF Tick, storeVars, EffectInv
<1>6. ASSUME NEW h \in Handlers, NEW e \in Exposures, Receive(h, e) PROVE EffectInv'
  <2> SUFFICES ASSUME NEW g \in Handlers PROVE Ok(g)'
    BY DEF EffectInv
  <2>1. /\ pc[h] = "idle" /\ pc' = [pc EXCEPT ![h] = "fetch"]
        /\ exposure' = [exposure EXCEPT ![h] = e] /\ quote' = quote /\ bus' = bus
    BY <1>6 DEF Receive, Goto, storeVars
  <2> QED BY <1>0, <1>3, <2>1
<1>7. ASSUME NEW position \in Exposures, ~listener, RunEffect(position) PROVE EffectInv'
  <2> SUFFICES ASSUME NEW g \in Handlers PROVE Ok(g)'
    BY DEF EffectInv
  <2>1. PICK n \in Handlers : /\ n = active + 1
                              /\ exposure' = [exposure EXCEPT ![n] = position]
    BY <1>7 DEF RunEffect
  <2>2. pc' = pc /\ quote' = quote /\ bus' = bus
    BY <1>7 DEF RunEffect, storeVars
  <2>3. n \notin 1..active
    BY <2>1
  <2>4. pc[n] = "idle"
    BY <1>7, <2>3 DEF StageInv
  <2> QED BY <1>0, <1>3, <2>1, <2>2, <2>4
<1>8. ASSUME NEW h \in Handlers,
             Fetch(h) \/ FetchFails(h) \/ Raises(h) \/ Finish(h) \/ Price(h)
      PROVE  EffectInv'
  <2> SUFFICES ASSUME NEW g \in Handlers PROVE Ok(g)'
    BY DEF EffectInv
  <2>1. bus' = bus /\ exposure' = exposure
    BY <1>8 DEF Fetch, FetchFails, Raises, Finish, Price, storeVars
  <2>2. /\ quote' = quote
        /\ \/ pc[h] = "fetch" /\ pc' \in {[pc EXCEPT ![h] = "price"], [pc EXCEPT ![h] = "manual"]}
           \/ listener /\ pc' = [pc EXCEPT ![h] = "failed"]
           \/ pc[h] = "check" /\ pc' \in {[pc EXCEPT ![h] = "late"], [pc EXCEPT ![h] = "quoted"]}
        \/ /\ pc[h] = "price" /\ pc' = [pc EXCEPT ![h] = "save"]
           /\ g # h => quote'[g] = quote[g]
    <3>1. CASE Price(h)
      <4>1. g # h => quote'[g] = quote[g]
        BY <3>1, PriceMakesQuote
      <4> QED BY <3>1, <4>1 DEF Price, Goto, After
    <3>2. CASE Fetch(h)
      BY <3>2 DEF Fetch, Goto
    <3>3. CASE FetchFails(h) \/ Raises(h) \/ Finish(h)
      BY <3>3 DEF FetchFails, Raises, Finish, Goto
    <3> QED BY <1>8, <3>1, <3>2, <3>3
  <2> QED BY <1>0, <1>3, <2>1, <2>2
<1>9. ASSUME NEW h \in Handlers, Save(h) PROVE EffectInv'
  <2>1. /\ pc[h] = "save" /\ pc' = [pc EXCEPT ![h] = "publish"]
        /\ repo' = [repo EXCEPT ![Store(h)] = [repo[Store(h)] EXCEPT ![exposure[h]] = quote[h]]]
        /\ UNCHANGED <<listener, exposure, quote, bus>>
    BY <1>9 DEF Save, Goto, After
  <2>2. repo \in [Stores -> [Exposures -> Quote \cup {None}]]
    BY DEF TypeOK, QuotesTypeOK
  <2>3. quote[h] # None /\ exposure[h] \in Exposures
    BY <1>0, <2>1 DEF StageInv
  <2>4. Stored(h)'
    BY <1>0, <2>1, <2>2, <2>3 DEF Stored, Store
  <2>5. Ok(h)'
    BY <1>0, <2>1, <2>4 DEF EffectInv
  <2>6. ASSUME NEW g \in Handlers, g # h PROVE Ok(g)'
    BY <1>0, <1>3, <2>1, <2>6
  <2> QED BY <2>5, <2>6 DEF EffectInv
<1>10. ASSUME NEW h \in Handlers, Publish(h) PROVE EffectInv'
  <2>1. /\ pc[h] = "publish" /\ pc' = [pc EXCEPT ![h] = "check"]
        /\ bus' = [bus EXCEPT ![Store(h)] = Append(bus[Store(h)], quote[h])]
        /\ UNCHANGED <<listener, exposure, quote, repo>>
    BY <1>10 DEF Publish, Goto, After
  <2>2. bus \in [Stores -> Seq(Quote)] /\ quote[h] \in Quote /\ exposure[h] # None
    BY <1>0, <2>1 DEF TypeOK, QuotesTypeOK, StageInv
  <2>3. PICK s \in Stores : s = Store(h)
    BY <1>0
  <2>4. bus'[s] = Append(bus[s], quote[h])
    BY <2>1, <2>2, <2>3
  <2>5. Len(bus'[s]) \in 1..Len(bus'[s]) /\ bus'[s][Len(bus'[s])] = quote[h]
    BY <2>2, <2>3, <2>4, AppendProperties, LenProperties
  <2>6. Announced(h)'
    BY <2>1, <2>3, <2>5 DEF Announced, Store
  <2>7. Stored(h)'
    BY <1>1, <2>1, <2>2 DEF EffectInv
  <2>8. Ok(h)'
    BY <1>0, <2>1, <2>6, <2>7
  <2>9. ASSUME NEW g \in Handlers, g # h PROVE Ok(g)'
    <3>1. Ok(g) /\ (pc[g] # "idle" => exposure[g] # None)
      BY DEF EffectInv, StageInv
    <3>2. pc'[g] = pc[g] /\ quote'[g] = quote[g] /\ exposure'[g] = exposure[g]
      BY <1>0, <2>1, <2>9
    <3>3. ~listener => bus'[g] = bus[g]
      BY <1>0, <2>1, <2>2, <2>9 DEF Store
    <3> QED BY <1>1, <1>2, <2>1, <3>1, <3>2, <3>3
  <2> QED BY <2>8, <2>9 DEF EffectInv
<1> QED
  BY <1>4, <1>5, <1>6, <1>7, <1>8, <1>9, <1>10, StepMoves DEF HandlerStep

LEMMA EventStep ==
  TypeOK /\ StageInv /\ EffectInv /\ EventHasQuote /\ [Next]_vars => EventHasQuote'
<1> SUFFICES ASSUME TypeOK, StageInv, EffectInv, EventHasQuote, [Next]_vars,
                    NEW s \in Stores, NEW i \in 1..Len(bus'[s])
             PROVE  repo'[s][bus'[s][i].exposure] # None
  BY DEF EventHasQuote
<1>0. bus \in [Stores -> Seq(Quote)] /\ quote \in [Handlers -> Quote \cup {None}]
  BY DEF TypeOK, QuotesTypeOK
<1>1. ASSUME i \in 1..Len(bus[s]), bus'[s][i] = bus[s][i]
      PROVE  repo'[s][bus'[s][i].exposure] # None
  <2>1. bus[s][i] \in Quote
    BY <1>0, <1>1, ElementOfSeq
  <2>2. bus[s][i].exposure \in Exposures
    BY <2>1 DEF Quote
  <2> QED BY <1>1, <2>2, StoresGrow DEF EventHasQuote
<1>2. CASE i \in 1..Len(bus[s])
  BY <1>1, <1>2, StoresGrow
<1>3. CASE i \notin 1..Len(bus[s])
  <2>1. ASSUME bus' = bus PROVE FALSE
    BY <1>3, <2>1
  <2>2. PICK h \in Handlers : Publish(h)
    <3>1. CASE UNCHANGED <<quoteVars, active>>
      BY <2>1, <3>1 DEF quoteVars, storeVars
    <3>2. CASE Tick
      BY <2>1, <3>2 DEF Tick, storeVars
    <3>3. ASSUME NEW h \in Handlers, NEW e \in Exposures, Receive(h, e) PROVE FALSE
      BY <2>1, <3>3 DEF Receive, storeVars
    <3>4. ASSUME NEW position \in Exposures, RunEffect(position) PROVE FALSE
      BY <2>1, <3>4 DEF RunEffect, storeVars
    <3>5. ASSUME NEW h \in Handlers,
                 Fetch(h) \/ FetchFails(h) \/ Price(h) \/ Save(h) \/ Raises(h) \/ Finish(h)
          PROVE  FALSE
      BY <2>1, <3>5 DEF Fetch, FetchFails, Price, Save, Raises, Finish, storeVars
    <3> QED BY <3>1, <3>2, <3>3, <3>4, <3>5, StepMoves DEF HandlerStep
  <2>3. /\ pc[h] = "publish" /\ repo' = repo
        /\ bus' = [bus EXCEPT ![Store(h)] = Append(bus[Store(h)], quote[h])]
    BY <2>2 DEF Publish
  <2>4. /\ quote[h] \in Quote /\ quote[h].exposure = exposure[h] /\ Stored(h)
    BY <1>0, <2>3 DEF StageInv, EffectInv
  <2>5. s = Store(h)
    BY <1>0, <1>3, <2>3
  <2>6. bus'[s] = Append(bus[s], quote[h]) /\ bus[s] \in Seq(Quote)
    BY <1>0, <2>3, <2>5
  <2>7. /\ Len(bus'[s]) = Len(bus[s]) + 1 /\ bus'[s][Len(bus[s]) + 1] = quote[h]
        /\ Len(bus[s]) \in Nat
    BY <2>4, <2>6, AppendProperties, LenProperties
  <2>8. i = Len(bus[s]) + 1
    BY <1>3, <2>7
  <2> QED BY <2>3, <2>4, <2>5, <2>7, <2>8 DEF Stored
<1> QED BY <1>2, <1>3

-----------------------------------------------------------------------------
LEMMA CardInit == Init => IInv
<1> SUFFICES ASSUME Init PROVE IInv
  OBVIOUS
<1> USE QuoteAssumption DEF Init, QuoteInit
<1>1. QuotesTypeOK
  BY EmptySeq DEF QuotesTypeOK, PC
<1>2. /\ active \in Nat
      /\ wrapped \in BOOLEAN /\ loaded \in BOOLEAN /\ left \in BOOLEAN /\ error \in BOOLEAN
      /\ slider \in Exposures /\ settled \subseteq Handlers
      /\ active \in Handlers \cup {0} /\ shown \in 0..active
  <2>1. 0 \in Nat /\ 0 \in 0..0
    OBVIOUS
  <2> QED BY <2>1
<1>3. StageInv
  BY DEF StageInv
<1>4. \A s \in Stores : bus[s] = <<>> /\ Len(bus[s]) = 0
  BY EmptySeq
<1>5. EffectInv
  BY <1>4 DEF EffectInv, Stores
<1>6. EventHasQuote
  BY <1>4 DEF EventHasQuote
<1> QED BY <1>1, <1>2, <1>3, <1>5, <1>6 DEF IInv, TypeOK

LEMMA CardInvariant == Spec => []IInv
<1>1. IInv /\ [Next]_vars => (active \in Nat /\ TypeOK)'
  BY CardTyped, QuotesTyped DEF IInv, TypeOK
<1>2. IInv /\ [Next]_vars => StageInv'
  BY StageStep DEF IInv
<1>3. IInv /\ [Next]_vars => EffectInv'
  BY EffectStep DEF IInv
<1>4. IInv /\ [Next]_vars => EventHasQuote'
  BY EventStep DEF IInv
<1>5. IInv /\ [Next]_vars => IInv'
  BY <1>1, <1>2, <1>3, <1>4 DEF IInv
<1> QED BY <1>5, CardInit, PTL DEF Spec

\* pricing/orchestrator.py and quote-slider-card.tsx: every variable keeps its type, no
\* price is above the cap, at any volatility, and the card shows nothing it did not ask for.
THEOREM TypeCorrect == Spec => []TypeOK
<1> QED BY CardInvariant, PTL DEF IInv

\* The event of a quote is published after its save and nothing deletes a quote.
THEOREM NoEventAlone == Spec => []EventHasQuote
<1> QED BY CardInvariant, PTL DEF IInv

\* handle_exposure_created: an answer, also SLAExceededError, comes after both effects,
\* and ManualVolRequired before either.
THEOREM EffectsOfOutcome == Spec => []OutcomeMatchesEffects
<1>1. IInv => OutcomeMatchesEffects
  BY DEF IInv, StageInv, EffectInv, OutcomeMatchesEffects
<1> QED BY <1>1, CardInvariant, PTL

\* The latency is that of the whole call, and the validity is counted from its
\* beginning: an answer is fresh.
THEOREM AnswersFresh == Spec => AnsweredIsFresh
<1>1. ASSUME IInv, [Next]_vars, NEW h \in Handlers, pc[h] # "quoted", pc'[h] = "quoted"
      PROVE  quote'[h].until - time >= Validity - Sla
  <2>0. /\ pc \in [Handlers -> PC] /\ start \in [Handlers -> 0..MaxTime]
        /\ time \in 0..MaxTime /\ TypeOK
    BY <1>1 DEF IInv, TypeOK, QuotesTypeOK
  <2>1. Finish(h)
    <3>1. pc' # pc
      BY <1>1
    <3>2. ASSUME NEW g \in Handlers, HandlerStep(g) PROVE Finish(h)
      BY <1>1, <2>0, <3>2 DEF HandlerStep, Fetch, FetchFails, Price, Save, Publish, Raises,
                              Finish, Goto, After
    <3>3. ASSUME NEW g \in Handlers, NEW e \in Exposures, Receive(g, e) PROVE FALSE
      BY <1>1, <2>0, <3>3 DEF Receive, Goto
    <3> QED BY <1>1, <2>0, <3>1, <3>2, <3>3, StepMoves DEF quoteVars, Tick, RunEffect
  <2>2. /\ pc[h] = "check" /\ quote' = quote /\ ~(time - start[h] > Sla)
    BY <1>1, <2>0, <2>1 DEF Finish, Goto, Latency
  <2>3. quote[h].until = start[h] + Validity
    BY <1>1, <2>2 DEF IInv, StageInv
  <2>4. start[h] \in Nat /\ time \in Nat /\ Validity \in Nat /\ Sla \in Nat
    BY <2>0, QuoteAssumption
  <2> QED BY <2>2, <2>3, <2>4
<1>2. IInv /\ [Next]_vars =>
        [\A h \in Handlers :
           pc[h] # "quoted" /\ pc'[h] = "quoted" => quote'[h].until - time >= Validity - Sla]_quoteVars
  BY <1>1
<1> QED BY <1>2, CardInvariant, PTL DEF Spec, AnsweredIsFresh

\* quote-slider-card.tsx: the cancelled flag of each effect makes the card the display
\* of QuoteDisplay, in whatever order the answers come.
THEOREM CardImplementsDisplay == Spec => DisplaySpec
<1>1. Init => Display!Init
  BY DEF Init, Display!Init
<1>2. ASSUME [Next]_vars PROVE [Display!Select \/ Display!Show]_<<active, shown>>
  <2>1. CASE UNCHANGED <<active, shown>>
    BY <2>1
  <2>2. CASE \/ QuoteNext /\ UNCHANGED cardVars
             \/ Leave \/ UNCHANGED vars
             \/ \E h \in Handlers : Arrive(h) \/ Unreachable(h)
    BY <2>1, <2>2 DEF Leave, Arrive, Unreachable, vars, cardVars
  <2>3. ASSUME NEW position \in Exposures, RunEffect(position), shown' = shown
        PROVE  Display!Select
    BY <2>3 DEF RunEffect, Display!Select
  <2>4. CASE Load
    <3>1. RunEffect(slider) /\ shown' = shown
      BY <2>4 DEF Load
    <3> QED BY <3>1 DEF RunEffect, Display!Select
  <2>5. CASE Slide
    <3>1. shown' = shown /\ \E position \in Exposures :
            RunEffect(position) \/ UNCHANGED <<quoteVars, active>>
      BY <2>5 DEF Slide
    <3> QED BY <2>1, <2>3, <3>1
  <2>6. ASSUME NEW h \in Handlers, ShowAnswer(h)
        PROVE  [Display!Select \/ Display!Show]_<<active, shown>>
    BY <2>6 DEF ShowAnswer, NotCancelled, Display!Show
  <2> QED BY <1>2, <2>2, <2>4, <2>5, <2>6 DEF Next
<1> QED BY <1>1, <1>2, PTL DEF Spec, DisplaySpec, Display!Spec
=============================================================================
