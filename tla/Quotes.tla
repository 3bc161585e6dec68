------------------------------- MODULE Quotes -------------------------------
(***************************************************************************)
(* QuoteOrchestrator.handle_exposure_created of the pricing orchestrator:  *)
(* market data, price, save, publish, and the latency check that comes     *)
(* after both effects.                                                     *)
(*                                                                         *)
(* A handler is one call.  As the listener of ExposureCreated that the     *)
(* README of the service describes, all calls share one repository and one *)
(* bus, and any collaborator may raise.  Behind POST /api/quotes/binding   *)
(* each call has a repository, a bus and a snapshot of its own, held in    *)
(* memory, which never raise.  Time passes between any two steps; one      *)
(* clock stands for perf_counter and clock.now.                            *)
(*                                                                         *)
(* Black-Scholes itself is left out: the premium that it makes of a        *)
(* snapshot, before the cap, is part of the snapshot.  Any premium goes    *)
(* with any volatility, since it depends on spot and strike as well.       *)
(* A definition that nothing uses, before another of the same shape        *)
(* (CappedWhenCalm, ...), is a plausible mistake; the README says which    *)
(* property finds it.                                                      *)
(***************************************************************************)
EXTENDS Integers, Sequences

CONSTANTS
  Handlers, Exposures,
  Shared,        \* the repository and bus of the listener, none of Handlers
  None,
  Premiums,      \* what the engine computes
  Volatilities,  \* implied ones
  Cap,           \* DEFAULT_CAP
  Threshold,     \* DEFAULT_VOLATILITY_THRESHOLD, passed to the engine, which ignores it
  Validity,      \* QUOTE_VALIDITY_SECONDS
  Sla,           \* SLA_P99_THRESHOLD_MS
  MaxTime        \* bound on the clock

ASSUME QuoteAssumption ==
  /\ Premiums \subseteq Nat /\ Cap \in Nat /\ MaxTime \in Nat
  /\ Volatilities \subseteq Nat /\ Threshold \in Nat
  /\ Sla \in Nat /\ Validity \in Nat /\ Sla < Validity
  /\ Shared \notin Handlers

VARIABLES
  listener,   \* the deployment: a listener, or the endpoint of the gateway
  time,
  pc,         \* where each handler is, or how it ended
  exposure,   \* event.exposure_id
  start,      \* the clock when the call began
  market,     \* what fetch returned
  quote,      \* quote_with_validity
  repo,       \* stored quotes, by repository and exposure
  bus         \* published events, by bus

storeVars == <<repo, bus>>
quoteVars == <<listener, time, pc, exposure, start, market, quote, storeVars>>

\* A snapshot with all values, and what the engine makes of it: the premium of
\* Black-Scholes, or zero without a positive spot.
Snapshot == [premium : Premiums \cup {0}, volatility : Volatilities]
Quote    == [exposure : Exposures, price : 0..Cap, volatility : Volatilities,
             until : Validity..(MaxTime + Validity)]
ASSUME NoneAssumption == None \notin Exposures \cup Snapshot \cup Quote

Stores   == Handlers \cup {Shared}
Store(h) == IF listener THEN Shared ELSE h

Outcomes == {"quoted", "manual", "late", "failed"}
PC == {"idle", "fetch", "price", "save", "publish", "check"} \cup Outcomes

Goto(h, label) == pc' = [pc EXCEPT ![h] = label]

QuoteInit ==
  /\ listener \in BOOLEAN
  /\ time = 0
  /\ pc = [h \in Handlers |-> "idle"]
  /\ exposure = [h \in Handlers |-> None] /\ start = [h \in Handlers |-> 0]
  /\ market = [h \in Handlers |-> None] /\ quote = [h \in Handlers |-> None]
  /\ repo = [s \in Stores |-> [e \in Exposures |-> None]]
  /\ bus = [s \in Stores |-> <<>>]

Tick ==
  /\ time < MaxTime
  /\ time' = time + 1
  /\ UNCHANGED <<listener, pc, exposure, start, market, quote, storeVars>>

\* The call begins: both clocks are read before anything else.
Receive(h, e) ==
  /\ pc[h] = "idle"
  /\ exposure' = [exposure EXCEPT ![h] = e]
  /\ start' = [start EXCEPT ![h] = time]
  /\ Goto(h, "fetch")
  /\ UNCHANGED <<listener, time, market, quote, storeVars>>

\* BindingQuoteRequest only admits complete snapshots with a positive spot.
Offered(h) ==
  IF listener THEN Snapshot ELSE [premium : Premiums, volatility : Volatilities]

Fetch(h) ==
  /\ pc[h] = "fetch"
  /\ \E s \in Offered(h) : market' = [market EXCEPT ![h] = s]
  /\ Goto(h, "price")
  /\ UNCHANGED <<listener, time, exposure, start, quote, storeVars>>

\* The provider raises, or its snapshot lacks a value: the caller is told to give a
\* manual sigma.
FetchFails(h) ==
  /\ pc[h] = "fetch" /\ listener
  /\ Goto(h, "manual")
  /\ UNCHANGED <<listener, time, exposure, start, market, quote, storeVars>>

\* The README of the service ties the cap to a volatility below the threshold, which is
\* passed to the engine with the cap; the engine does not look at it.
CappedWhenCalm(s) ==
  IF s.premium > Cap /\ s.volatility < Threshold THEN Cap ELSE s.premium
Capped(s) == IF s.premium > Cap THEN Cap ELSE s.premium

\* What comes after each effect: save, then publish.
AfterPublishFirst == [price |-> "publish", publish |-> "save", save |-> "check"]
After             == [price |-> "save", save |-> "publish", publish |-> "check"]

\* The engine prices, and the quote is valid from the clock read at the beginning.
Price(h) ==
  /\ pc[h] = "price"
  /\ quote' = [quote EXCEPT ![h] =
       [exposure |-> exposure[h], price |-> Capped(market[h]),
        volatility |-> market[h].volatility, until |-> start[h] + Validity]]
  /\ Goto(h, After.price)
  /\ UNCHANGED <<listener, time, exposure, start, market, storeVars>>

\* The repository keeps one quote per exposure, the last one saved.
Save(h) ==
  /\ pc[h] = "save"
  /\ repo' = [repo EXCEPT ![Store(h)][exposure[h]] = quote[h]]
  /\ Goto(h, After.save)
  /\ UNCHANGED <<listener, time, exposure, start, market, quote, bus>>

Publish(h) ==
  /\ pc[h] = "publish"
  /\ bus' = [bus EXCEPT ![Store(h)] = Append(@, quote[h])]
  /\ Goto(h, After.publish)
  /\ UNCHANGED <<listener, time, exposure, start, market, quote, repo>>

\* Nothing catches an error of the engine, the repository or the bus; the gateway's
\* raise none.
RaiseSwallowed(h) ==
  /\ pc[h] \in {"price", "save", "publish"} /\ listener
  /\ Goto(h, "check")
  /\ UNCHANGED <<listener, time, exposure, start, market, quote, storeVars>>

Raises(h) ==
  /\ pc[h] \in {"price", "save", "publish"} /\ listener
  /\ Goto(h, "failed")
  /\ UNCHANGED <<listener, time, exposure, start, market, quote, storeVars>>

\* latency_ms > SLA_P99_THRESHOLD_MS, from the beginning of the call.
LatencyFromNow(h) == 0
Latency(h)        == time - start[h]

Finish(h) ==
  /\ pc[h] = "check"
  /\ Goto(h, IF Latency(h) > Sla THEN "late" ELSE "quoted")
  /\ UNCHANGED <<listener, time, exposure, start, market, quote, storeVars>>

HandlerStep(h) ==
  \/ Fetch(h) \/ FetchFails(h) \/ Price(h)
  \/ Save(h) \/ Publish(h) \/ Raises(h) \/ Finish(h)

\* ExposureCreated comes to the listener.
Event(h) == listener /\ \E e \in Exposures : Receive(h, e)

QuoteNext == Tick \/ \E h \in Handlers : Event(h) \/ HandlerStep(h)

-----------------------------------------------------------------------------
(* Properties.                                                             *)

\* Every variable has its type; no price is above the cap, also at volatilities for which
\* the README of the service names none.
QuotesTypeOK ==
  /\ listener \in BOOLEAN /\ time \in 0..MaxTime
  /\ pc \in [Handlers -> PC] /\ start \in [Handlers -> 0..MaxTime]
  /\ exposure \in [Handlers -> Exposures \cup {None}]
  /\ market \in [Handlers -> Snapshot \cup {None}]
  /\ quote \in [Handlers -> Quote \cup {None}]
  /\ repo \in [Stores -> [Exposures -> Quote \cup {None}]]
  /\ bus \in [Stores -> Seq(Quote)]

Stored(h)    == repo[Store(h)][exposure[h]] # None
Announced(h) == \E i \in 1..Len(bus[Store(h)]) : bus[Store(h)][i] = quote[h]

\* What the caller is told agrees with what was done.  A quote that is answered,
\* and also one whose caller got SLAExceededError (test_latency_sla_violation_raises),
\* was saved and announced; the demand for a manual sigma left no trace.
OutcomeMatchesEffects ==
  \A h \in Handlers :
    /\ pc[h] \in {"quoted", "late"} => Stored(h) /\ Announced(h)
    /\ pc[h] = "manual" => quote[h] = None /\ (~listener => bus[h] = <<>>)

\* Whoever reacts to an event finds a quote for its exposure in the repository,
\* however many calls for it overlap and fail.
EventHasQuote ==
  \A s \in Stores : \A i \in 1..Len(bus[s]) : repo[s][bus[s][i].exposure] # None

\* An answered quote binds for at least the validity less the latency allowed: a
\* call that was slow anywhere, the market data included, gives no answer.
AnsweredIsFresh ==
  [][\A h \in Handlers :
       pc[h] # "quoted" /\ pc'[h] = "quoted" => quote'[h].until - time >= Validity - Sla]_quoteVars
=============================================================================
