------------------------------ MODULE MCClient ------------------------------
(* Model-checking instance of Client: two terminals and a desktop; a cast  *)
(* with an input event, two events at once and a long last gap.            *)
EXTENDS Client, TLC

CONSTANTS t1, t2

Event(at, output) == [at |-> at, output |-> output]
Recording == << Event(0, TRUE), Event(1, TRUE), Event(1, FALSE), Event(3, TRUE),
                Event(4, TRUE), Event(5, TRUE), Event(5, TRUE) >>
TwoSpeeds == <<1, 2>>

Symmetry == Permutations({t1, t2}) \cup Permutations(GroupIds)
=============================================================================
