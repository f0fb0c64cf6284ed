----------------------------- MODULE Selection -----------------------------
(***************************************************************************)
(* A filter of a sequence (retain, filter and the halves of a stable sort  *)
(* by a Boolean key), by the set of the members to keep: written as a      *)
(* recursive function so that it can be reasoned about.                    *)
(***************************************************************************)
EXTENDS Naturals, Sequences

\* The members of a sequence that are in S, in their order.
Select(s, S) ==
  LET kept[k \in 0..Len(s)] ==
        IF k = 0 THEN <<>>
        ELSE IF s[k] \in S THEN Append(kept[k - 1], s[k]) ELSE kept[k - 1]
  IN kept[Len(s)]
=============================================================================
