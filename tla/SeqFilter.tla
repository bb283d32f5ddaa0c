----------------------------- MODULE SeqFilter ------------------------------
(***************************************************************************)
(* Iterator::filter and Vec::retain over a list, with the elements to keep *)
(* given as a set.                                                         *)
(***************************************************************************)
EXTENDS Naturals, Sequences

\* The elements of s that are in keep, in their order.
Only(s, keep) ==
  LET kept[n \in 0..Len(s)] ==
        IF n = 0 THEN <<>>
        ELSE IF s[n] \in keep THEN Append(kept[n - 1], s[n])
        ELSE kept[n - 1]
  IN  kept[Len(s)]

=============================================================================
