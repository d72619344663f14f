------------------------------ MODULE Selection ------------------------------
(***************************************************************************)
(* Choosing elements of a sequence by their positions, as filtering an     *)
(* array or deleting entries of a Map does: those that stay keep their     *)
(* order.                                                                  *)
(***************************************************************************)
EXTENDS Naturals, Sequences

\* The elements of s at the positions in I.
Selected(s, I) ==
  LET upTo[n \in 0 .. Len(s)] ==
        IF n = 0 THEN <<>>
        ELSE IF n \in I THEN Append(upTo[n - 1], s[n]) ELSE upTo[n - 1]
  IN  upTo[Len(s)]
=============================================================================
