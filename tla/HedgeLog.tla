------------------------------ MODULE HedgeLog ------------------------------
(***************************************************************************)
(* What orders.jsonl and fills.jsonl of services/execution promise to a    *)
(* reader, without connections, tasks or failures: an order is listed      *)
(* once, its reports come after it, what they say was filled never goes    *)
(* down, and nothing but the same report follows a final one.              *)
(***************************************************************************)
EXTENDS Naturals

CONSTANTS
  Trades, \* orders that may be placed
  Lot     \* contracts in each

VARIABLES
  listed, \* orders in orders.jsonl
  report  \* the newest report of each order in fills.jsonl

vars == <<listed, report>>

Report(t) == [status : {"none", "Submitted", "Filled", "Cancelled"}, filled : 0..Lot[t]]
NoReport == [status |-> "none", filled |-> 0]
Final(rep) == rep.status \in {"Filled", "Cancelled"}

Init == listed = {} /\ report = [t \in Trades |-> NoReport]

\* _register_trade appends the order.
Place(t) ==
  /\ t \notin listed
  /\ listed' = listed \cup {t}
  /\ UNCHANGED report

\* _record_fill appends what the trade says now.
Tell(t) ==
  /\ t \in listed /\ ~Final(report[t])
  /\ \E rep \in Report(t) :
       /\ rep.status # "none" /\ rep.filled >= report[t].filled
       /\ rep.status = "Filled" <=> rep.filled = Lot[t]
       /\ report' = [report EXCEPT ![t] = rep]
  /\ UNCHANGED listed

Next == \E t \in Trades : Place(t) \/ Tell(t)

Spec == Init /\ [][Next]_vars
=============================================================================
