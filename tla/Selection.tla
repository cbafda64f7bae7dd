----------------------------- MODULE Selection -----------------------------
(***************************************************************************)
(* Array.prototype.filter: what a sequence holds of a set, in its order.   *)
(* A recursive function, where the operator of Sequences takes a test.     *)
(***************************************************************************)
EXTENDS Naturals, Sequences

Kept(seq, S) ==
  LET kept[n \in 0 .. Len(seq)] ==
        IF n = 0 THEN <<>>
        ELSE IF seq[n] \in S THEN Append(kept[n - 1], seq[n])
        ELSE kept[n - 1]
  IN  kept[Len(seq)]
=============================================================================
