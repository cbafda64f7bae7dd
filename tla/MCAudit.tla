------------------------------ MODULE MCAudit -------------------------------
(* Model-checking instance of Audit. *)
EXTENDS Audit, TLC

Symmetry == Permutations(Accounts) \cup Permutations(Calls)
=============================================================================
