------------------------------ MODULE MCBtree ------------------------------
(***************************************************************************)
(* Instances of LsmBtree: trees filled with even keys in ascending order,   *)
(* of one to three levels, and operations on keys of them and between them. *)
(***************************************************************************)
EXTENDS LsmBtree

Ascending == [i \in 1..10 |-> 2 * i]

\* Ranges that meet, overlap or lie within each other, and reach over the ends.
SomeRanges == {<<4, 9>>, <<5, 21>>, <<1, 7>>, <<6, 8>>, <<9, 14>>}
=============================================================================
