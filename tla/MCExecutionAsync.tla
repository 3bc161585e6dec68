-------------------------- MODULE MCExecutionAsync --------------------------
(* Instances of ExecutionAsync for TLC.                                    *)
EXTENDS ExecutionAsync

\* One call covers two expiries with a contract each, the others one with two.
Split  == CHOOSE h \in Hedges : TRUE
LegsOf == [h \in Hedges |-> IF h = Split THEN 2 ELSE 1]
LotOf  == [h \in Hedges |-> IF h = Split THEN 1 ELSE 2]
=============================================================================
