----------------------------- MODULE MCPayments -----------------------------
(* Instances of Payments for TLC.                                          *)
EXTENDS Payments, TLC

\* Calls of one kind are interchangeable, and so are webhooks and keys: no
\* safety property of Payments tells one from another.
Symmetry == Permutations(Collects) \cup Permutations(PayoutCalls)
              \cup Permutations(Webhooks)
=============================================================================
