---------------------------- MODULE PaymentLedger ----------------------------
(***************************************************************************)
(* What the payments service promises about collections, without calls,    *)
(* locks, queues or crashes: a key buys at most one payment, a payment is  *)
(* announced only once it is in the ledger and settled only once it has    *)
(* been announced.  payments.status and the PaymentSettled events of       *)
(* services/payments refine it (LedgerSpec in Payments).                   *)
(***************************************************************************)
CONSTANTS Payments, Keys, None

VARIABLES keyOf, state, announced

vars == <<keyOf, state, announced>>

Init ==
  /\ keyOf = [p \in Payments |-> None]
  /\ state = [p \in Payments |-> "absent"]
  /\ announced = {}

\* create_collect as one step.
Accept(p, k) ==
  /\ state[p] = "absent"
  /\ k # None => \A q \in Payments : keyOf[q] # k
  /\ state' = [state EXCEPT ![p] = "pending"]
  /\ keyOf' = [keyOf EXCEPT ![p] = k]
  /\ UNCHANGED announced

Announce(p) ==
  /\ state[p] # "absent"
  /\ announced' = announced \cup {p}
  /\ UNCHANGED <<keyOf, state>>

Settle(p) ==
  /\ state[p] = "pending"
  /\ p \in announced
  /\ state' = [state EXCEPT ![p] = "settled"]
  /\ UNCHANGED <<keyOf, announced>>

Next == \E p \in Payments :
  \/ \E k \in Keys \cup {None} : Accept(p, k)
  \/ Announce(p)
  \/ Settle(p)

Spec == Init /\ [][Next]_vars
=============================================================================
