------------------------------ MODULE MCSignIn ------------------------------
(* Model-checking instance of SignIn: an OIDC administrator and a newcomer. *)
EXTENDS SignIn, TLC

CONSTANTS root, ann
OwnHandle == (root :> "root") @@ (ann :> "ann")
Symmetry == Permutations(Flows) \cup Permutations(Issuers)
=============================================================================
