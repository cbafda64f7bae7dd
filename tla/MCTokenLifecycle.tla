-------------------------- MODULE MCTokenLifecycle --------------------------
(* Model-checking instance of TokenLifecycle: requests are interchangeable. *)
EXTENDS TokenLifecycle, TLC

RequestSymmetry == Permutations(Requests)
=============================================================================
