----------------------------- MODULE MCFtlData -----------------------------
(***************************************************************************)
(* Model-checking instances of FtlData.                                    *)
(***************************************************************************)
EXTENDS FtlDataRefinement, TLC

\* Addresses and contents are only compared with each other.
Symmetry == Permutations(Addr) \cup Permutations(Data)

\* The contents of a page that is neither mapped nor the target of spare[2]
\* of a mapped page can never be read again: no action looks further than at
\* whether the page is erased.  Two states that differ only there are one.
Referenced ==
  {CellAt(pmt[a]).old : a \in {b \in Addr : /\ Mapped(b)
                                            /\ CellAt(pmt[b]).kind = "data"}}

Readable(b, p) ==
  \/ nand[b][p].kind # "data"
  \/ pmt[nand[b][p].addr] = [blk |-> b, pg |-> p]
  \/ [blk |-> b, pg |-> p] \in Referenced

\* Nothing is promised of the contents of a starved device either, and no
\* action looks at the request that was served last: only steps do, and TLC
\* checks every step it generates.
ReadableView ==
  <<[b \in Block |-> [p \in Page |->
       IF ~Readable(b, p) THEN [kind |-> "unreadable"]
       ELSE IF starved /\ nand[b][p].kind = "data" THEN nand[b][p].addr
       ELSE nand[b][p]]],
    pmt, bdt, backup_block_count, journal, reclaim, pc, starved,
    IF starved THEN <<>> ELSE <<latest, benign>> >>

\* An uninitialised PM_NODE_ADDR: an out-of-range value, or a page of the
\* block the device hands out last.
MCStackValues == {INVALID_PM_NODE, [blk |-> NBlock - 1, pg |-> 0]}

\* Bound: stop at the first starved state.
NotStarved == ~starved

=============================================================================
