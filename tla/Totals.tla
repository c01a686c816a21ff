------------------------------- MODULE Totals -------------------------------
(***************************************************************************)
(* Sums over the parts of a message, without recursion: how many places    *)
(* the parts have together.                                                *)
(***************************************************************************)
EXTENDS Integers, FiniteSets

\* the places of the first c parts, of which part l has size[l]
PlacesOf(size, c) == UNION {{l} \X (1 .. size[l]) : l \in 1 .. c}

\* size[1] + ... + size[c]
Total(size, c) == Cardinality(PlacesOf(size, c))
=============================================================================
