------------------------------- MODULE Lists -------------------------------
(* A loop over a list that several components have, as a recursive function. *)
EXTENDS Integers, Sequences

\* The elements of s at the positions in I, in their order: what a loop appends that
\* goes through s and skips the rest.
Picked(s, I) ==
    LET upTo[n \in 0..Len(s)] ==
          IF n = 0 THEN <<>> ELSE IF n \in I THEN Append(upTo[n - 1], s[n]) ELSE upTo[n - 1]
    IN upTo[Len(s)]
=============================================================================
