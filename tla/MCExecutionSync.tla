-------------------------- MODULE MCExecutionSync --------------------------
(* Instances of ExecutionSync for TLC.                                     *)
EXTENDS ExecutionSync
=============================================================================
