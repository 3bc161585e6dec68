----------------------------- MODULE MCAuditLog -----------------------------
(* Instances of AuditLog for TLC.                                          *)
EXTENDS AuditLog, TLC

\* No property tells one writer, or one auditor, from another.
Symmetry == Permutations(Writers) \cup Permutations(Auditors)
=============================================================================
