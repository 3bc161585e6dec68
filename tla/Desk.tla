-------------------------------- MODULE Desk --------------------------------
(***************************************************************************)
(* The desk behind the gateway: POST /api/risk/plan nets a book            *)
(* (RiskPlan), and each recommendation of the plan may be hedged as a      *)
(* request to an execution service (Ladder), as may any other request.     *)
(*                                                                         *)
(* That a recommendation becomes a request is done by whoever calls the    *)
(* gateway: its expiry is the due date, its qty the quantity.              *)
(***************************************************************************)
EXTENDS Ladder, RiskPlan

CONSTANTS
  Books,      \* [exposures, hedges], two lists of positions as the caller gives them
  Calendar,   \* dates the plan may name, as <<year, month, day>>
  Today,      \* the date of the valuation
  Terms       \* [layers, count, step, slippage] the desk hedges with

ASSUME BooksAssumption ==
  NoRequest \notin Books /\ \A b \in Books : IsBook(b.exposures) /\ IsBook(b.hedges)
ASSUME TermsAssumption ==
  /\ IsDate(Today)
  /\ \A t \in Terms : /\ t.layers \in Nat \ {0} /\ t.count \in Nat \ {0}
                     /\ t.step \in Nat \ {0} /\ t.slippage \in Nat
\* The calendar has every day from the expiry of a position to the end of its week.
ASSUME CalendarAssumption ==
  /\ \A d \in Calendar : IsDate(d)
  /\ \A b \in Books : \A p \in Range(b.exposures) \cup Range(b.hedges) : \A n \in 0..6 :
       \E d \in Calendar : Ordinal(d[1], d[2], d[3]) = p.expiry + n

VARIABLES
  book,       \* what was sent to /api/risk/plan
  plan,       \* what it answered
  item        \* the recommendation being hedged

deskVars == <<book, plan, item>>
allVars == <<vars, deskVars>>

DeskInit == Init /\ book = NoRequest /\ plan = NoRequest /\ item = NoRequest

AskPlan ==
  /\ book = NoRequest /\ request = NoRequest
  /\ book' \in Books
  /\ plan' = GeneratePlan(book'.exposures, book'.hedges)
  /\ UNCHANGED <<vars, item>>

DateOf(day) == CHOOSE d \in Calendar : Ordinal(d[1], d[2], d[3]) = day

\* ExecutionOrderRequest.normalise_side.
OrderSide(side) == IF side = "buy" THEN "BUY" ELSE "SELL"

\* The request for a recommendation, on the desk's terms.
RequestFor(rec, t) ==
  [due |-> DateOf(rec.expiry), today |-> Today, quantity |-> rec.qty, layers |-> t.layers,
   count |-> t.count, step |-> t.step, slippage |-> t.slippage, side |-> OrderSide(rec.side)]

Hedge ==
  /\ plan # NoRequest /\ request = NoRequest
  /\ item' \in plan.executionPlan
  /\ \E t \in Terms : request' = RequestFor(item', t)
  /\ UNCHANGED <<book, plan, orders, legs>>

DeskNext ==
  \/ AskPlan \/ Hedge
  \/ book = NoRequest /\ Ask /\ UNCHANGED deskVars
  \/ (BuildSync \/ BuildAsync) /\ UNCHANGED deskVars

DeskSpec == DeskInit /\ [][DeskNext]_allVars

-----------------------------------------------------------------------------
(* Properties.                                                             *)

\* The plan was just answered; book and plan do not change after that.
Answered == book # NoRequest /\ request = NoRequest

Netted(more) == GeneratePlan(book.exposures, book.hedges \o more)

\* The plan does what it is for: with its recommendations added to the hedges
\* nothing is left to recommend, nothing is at risk, and all of the delta is saved.
Flat(after) ==
  /\ after.executionPlan = {}
  /\ \A key \in DOMAIN after.buckets : after.buckets[key].postVar = 0
  /\ DOMAIN after.buckets = DOMAIN plan.buckets
  /\ after.deltaSavings =
       SumFunction([key \in DOMAIN after.buckets |-> AbsValue(after.buckets[key].preDelta)])
PlanFlattens == Answered => Flat(Netted(SetToSeq(plan.executionPlan)))

\* From the book to the broker: the orders built for a recommendation, taken
\* together as a hedge, close its week, and none expires before that week ends.
OrdersCloseBucket ==
  item # NoRequest /\ orders # <<>> =>
    LET placed == [item EXCEPT !.side = IF request.side = "BUY" THEN "buy" ELSE "sell",
                               !.qty = Total(orders)]
    IN /\ Netted(<<placed>>).buckets[Key(item)].postDelta = 0
       /\ \A o \in Range(orders) : o.expiry >= item.expiry

\* A position booked as two that add up to it nets to the same plan and the same
\* buckets: averages and mixes are weighted by delta, not counted.
Halves(p) == << [p EXCEPT !.delta = p.delta - 1], [p EXCEPT !.delta = 1] >>

SplitChangesNothing ==
  Answered =>
    \A i \in 1..Len(book.exposures) :
      book.exposures[i].delta \in Nat \ {0, 1} =>
        GeneratePlan(Halves(book.exposures[i]) \o RemoveAt(book.exposures, i), book.hedges) = plan

\* The average tenor of a bucket lies between the shortest and the longest of its
\* positions with a delta, rounding and expired positions included.
TenorInRange ==
  Answered =>
    \A key \in DOMAIN plan.buckets :
      LET all   == book.exposures \o book.hedges
          live  == {i \in In(all, key) : Weight(Coerce(all[i])) # 0}
          tenor == plan.buckets[key].averageDays
      IN live # {} => \E i, j \in live : Days(all[i]) <= tenor /\ tenor <= Days(all[j])
=============================================================================
