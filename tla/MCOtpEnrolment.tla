--------------------------- MODULE MCOtpEnrolment ---------------------------
(* Model-checking instance of OtpEnrolment. *)
EXTENDS OtpEnrolment, TLC

Symmetry == Permutations(FactorRequests)
=============================================================================
