------------------------------- MODULE MCRbac -------------------------------
(* Model-checking instance of Rbac: machines and requests are interchangeable. *)
EXTENDS Rbac, TLC

RbacSymmetry == Permutations(Machines) \cup Permutations(Requests)
=============================================================================
