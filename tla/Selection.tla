------------------------------ MODULE Selection ------------------------------
(***************************************************************************)
(* The elements of a sequence that are in a set, in the order of the       *)
(* sequence: Array.prototype.filter. (SelectSeq with a set for the test:   *)
(* what it returns can then be stated, and proved, for every set.)         *)
(***************************************************************************)
EXTENDS Naturals, Sequences

Selected(seq, S) ==
  LET among[n \in 0 .. Len(seq)] ==
        IF n = 0 THEN <<>>
        ELSE IF seq[n] \in S THEN Append(among[n - 1], seq[n]) ELSE among[n - 1]
  IN  among[Len(seq)]
=============================================================================
