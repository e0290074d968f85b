-------------------------------- MODULE Kept --------------------------------
(***************************************************************************)
(* What the loops do that filter a slice in place, keeping the order of    *)
(* what they keep (live := s[:0], then append): SelectSeq of the standard  *)
(* modules, with a set for the test and as a recursive function, which can *)
(* be reasoned about.                                                      *)
(***************************************************************************)
EXTENDS Naturals, Sequences

\* The elements of s that are in S, in their order.
Kept(s, S) ==
    LET live[n \in 0..Len(s)] ==
            IF n = 0 THEN <<>>
            ELSE IF s[n] \in S THEN Append(live[n - 1], s[n]) ELSE live[n - 1]
    IN live[Len(s)]

\* The elements of s.
In(s) == {s[i] : i \in 1..Len(s)}
=============================================================================
