----------------------------- MODULE QuoteCard ------------------------------
(***************************************************************************)
(* The quote card of the portal (components/ui/quote-slider-card.tsx), the *)
(* gateway's POST /api/quotes/binding behind it, and the orchestrator      *)
(* behind that (Quotes).                                                   *)
(*                                                                         *)
(* The handlers of Quotes are numbered: the card's n-th request is handler *)
(* n, in flight beside the ones before it.  An effect of React and its     *)
(* cleanup run in the step that moves the slider, since input events are   *)
(* flushed synchronously.  Each position of the slider is an exposure id   *)
(* (demo-<value>) of its own.                                              *)
(*                                                                         *)
(* The gateway answers with the quote itself, while requestBindingQuote    *)
(* takes the field "quote" of the answer: wrapped says whether the API at  *)
(* NEXT_PUBLIC_API_BASE_URL answers in the form that lib/api.ts reads.     *)
(***************************************************************************)
EXTENDS Quotes

VARIABLES
  wrapped,    \* the answer has the quote in a field
  loaded,     \* marketData is set
  slider,     \* sliderValue
  active,     \* the request whose effect is not cancelled, 0 before the first
  settled,    \* requests whose fetch has resolved or rejected
  shown,      \* the request whose answer is on the card, 0 when none is
  error,      \* an error message is set
  left        \* the card is unmounted

cardVars == <<wrapped, loaded, slider, active, settled, shown, error, left>>
vars == <<quoteVars, cardVars>>

Init ==
  /\ QuoteInit
  /\ wrapped \in BOOLEAN
  /\ slider \in Exposures
  /\ loaded = FALSE /\ active = 0 /\ settled = {} /\ shown = 0
  /\ error = FALSE /\ left = FALSE

\* The effect runs anew: the request before is cancelled, another one is sent.
RunEffect(position) ==
  /\ active' = active + 1 /\ active' \in Handlers
  /\ exposure' = [exposure EXCEPT ![active'] = position]
  /\ error' = FALSE
  /\ UNCHANGED <<listener, time, pc, start, market, quote, storeVars>>

\* fetchMarketData ends with the same snapshot whether or not its own request
\* succeeds.
Load ==
  /\ ~listener /\ ~loaded /\ ~left
  /\ loaded' = TRUE
  /\ RunEffect(slider)
  /\ UNCHANGED <<wrapped, slider, settled, shown, left>>

\* handleRangeChange; the same value again renders nothing.
Slide ==
  /\ ~listener /\ ~left
  /\ \E position \in Exposures \ {slider} :
       /\ slider' = position
       /\ IF loaded THEN RunEffect(position)
          ELSE UNCHANGED <<quoteVars, active, error>>
  /\ UNCHANGED <<wrapped, loaded, settled, shown, left>>

\* The request reaches the gateway.
Arrive(h) ==
  /\ ~listener /\ exposure[h] # None /\ h \notin settled
  /\ Receive(h, exposure[h])
  /\ UNCHANGED cardVars

\* The last effect's own cancelled flag.
NotCancelledEver(h) == TRUE
NotCancelled(h)     == h = active /\ ~left

\* binding_quote answers with 200 only a quote; an SLAExceededError is a 500, and
\* either is lost when the connection is.
Succeeds(h) == pc[h] = "quoted" /\ wrapped

ShowQuoteOnly(h) ==
  /\ ~listener /\ h \notin settled /\ pc[h] \in Outcomes
  /\ settled' = settled \cup {h}
  /\ shown' = IF NotCancelled(h) /\ Succeeds(h) THEN h ELSE shown
  /\ UNCHANGED <<quoteVars, wrapped, loaded, slider, active, error, left>>

ShowAnswer(h) ==
  /\ ~listener /\ h \notin settled /\ pc[h] \in Outcomes
  /\ settled' = settled \cup {h}
  /\ shown' = IF NotCancelled(h) /\ Succeeds(h) THEN h ELSE shown
  /\ error' = IF NotCancelled(h) /\ ~Succeeds(h) THEN TRUE ELSE error
  /\ UNCHANGED <<quoteVars, wrapped, loaded, slider, active, left>>

Unreachable(h) ==
  /\ ~listener /\ h \notin settled /\ exposure[h] # None
  /\ settled' = settled \cup {h}
  /\ error' = IF NotCancelled(h) THEN TRUE ELSE error
  /\ UNCHANGED <<quoteVars, wrapped, loaded, slider, active, shown, left>>

Leave ==
  /\ ~listener /\ ~left
  /\ left' = TRUE
  /\ UNCHANGED <<quoteVars, wrapped, loaded, slider, active, settled, shown, error>>

Next ==
  \/ QuoteNext /\ UNCHANGED cardVars
  \/ Load \/ Slide \/ Leave
  \/ \E h \in Handlers : Arrive(h) \/ ShowAnswer(h) \/ Unreachable(h)

Spec == Init /\ [][Next]_vars

\* The gateway's threads run, and a request that was sent reaches it and is answered,
\* or its connection is lost.
FairSpec ==
  /\ Spec
  /\ \A h \in Handlers :
       /\ WF_vars(HandlerStep(h) /\ UNCHANGED cardVars)
       /\ WF_vars(Arrive(h) \/ ShowAnswer(h) \/ Unreachable(h))

-----------------------------------------------------------------------------
(* Properties.                                                             *)

\* Every variable has its type, and the card shows only what it asked for.  A premium is
\* cut to the cap at any volatility, although the README of the service speaks of a cap
\* below the threshold only: the rule it gives would break this (CappedWhenCalm).
TypeOK ==
  /\ QuotesTypeOK
  /\ wrapped \in BOOLEAN /\ loaded \in BOOLEAN /\ left \in BOOLEAN /\ error \in BOOLEAN
  /\ slider \in Exposures /\ settled \subseteq Handlers
  /\ active \in Handlers \cup {0} /\ shown \in 0..active

\* The card implements the display it promises: answers that come late, in
\* another order or after an error never put an older setting's premium up.
Display == INSTANCE QuoteDisplay WITH wanted <- active

DisplaySpec == Display!Spec

\* The setting at which the slider comes to rest is settled: its premium is shown or
\* an error is set, whichever of the requests before it are late, refused or lost.
SettingSettles ==
  \A n \in Handlers :
    active = n ~> shown = n \/ error \/ active # n \/ left
=============================================================================
