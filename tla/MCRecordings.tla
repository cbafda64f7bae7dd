---------------------------- MODULE MCRecordings ----------------------------
(* Model-checking instances of Recordings. *)
EXTENDS Recordings

\* Policies that differ in both their value and their unit.
OneHourTwoDays == {<<1, "hour">>, <<2, "day">>}
OneHour == {<<1, "hour">>}
Units == [hour |-> 1, day |-> 2]
=============================================================================
