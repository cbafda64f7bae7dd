---------------------------- MODULE MCOtpLockout ----------------------------
(* Model-checking instance of OtpLockout. *)
EXTENDS OtpLockout, TLC

RequestSymmetry == Permutations(Verifications)
=============================================================================
