------------------------------- MODULE Lists -------------------------------
(***************************************************************************)
(* Lists of paths (State) and of names (Synchronizer) are compared in      *)
(* loops that keep some of their elements.                                 *)
(***************************************************************************)
EXTENDS Integers, Sequences

(* the elements of a list that are not in a set, in their order; a         *)
(* recursive function, and not SelectSeq, so that it can be reasoned about *)
Without(seq, set) ==
  LET rest[n \in 0..Len(seq)] ==
        IF n = 0 THEN <<>>
        ELSE IF seq[n] \in set THEN rest[n - 1] ELSE Append(rest[n - 1], seq[n])
  IN  rest[Len(seq)]
=============================================================================
