----------------------------- MODULE MCUbiIndex -----------------------------
(* Instances of UbiIndex: two logical blocks. *)
EXTENDS UbiIndex, TLC

CONSTANTS l1, l2, b1, b2, b3, b4, f1, f2, f3, FreeBlocks

MCLogBlock == {l1, l2}
MCPhyBlock == {b1, b2, b3, b4} \cup FreeBlocks
MCFormatted == [l \in MCLogBlock |-> IF l = l1 THEN b1 ELSE b2]

\* A device whose free blocks have all been in use more than the tables.
MCWorn == {b1, b2} \cup FreeBlocks

\* The blocks free at the start are alike.
Symmetry == Permutations(FreeBlocks)

\* Bound: stop where a block in use has been erased.
TablesInOrder == ~early

=============================================================================
