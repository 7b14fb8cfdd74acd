----------------------------- MODULE MCFtlMount -----------------------------
(***************************************************************************)
(* Model-checking instances of FtlMount.                                   *)
(***************************************************************************)
EXTENDS FtlMount, TLC

\* Every address has a mapping cluster of its own.
MCCluster == [a \in Addr |-> a]

MCStackValues == {INVALID_PM_NODE}

Symmetry == Permutations(Addr) \cup Permutations(Data)

\* When no further power loss is possible (see CanLosePower) nothing that
\* matters depends on the committed tables, the editions or the cache.
LastMount == power # "off" /\ (losses = MaxLosses \/ starved)

\* A page can be read through the mapping table in RAM or the committed one,
\* by a replay, or through spare[2] of a page that can be read so.
Tails(j) == UNION {{[blk |-> j[t].blk, pg |-> p] : p \in {q \in Page : q >= j[t].pg}} : t \in Temp}
InTail == (IF power = "on" THEN {} ELSE Tails(journal))
          \cup (IF LastMount THEN {} ELSE Tails(root.journal))
Direct == {pmt[a] : a \in Addr} \cup InTail
          \cup (IF LastMount THEN {} ELSE {root.pmt[a] : a \in Addr})
Referenced ==
  LET direct == Direct
  IN  direct \cup {CellAt(n).old : n \in {m \in direct \ {INVALID_PM_NODE} :
                                           CellAt(m).kind = "data"}}

\* States that differ only in pages nobody can read, in editions no replay
\* looks at, or in the contents and the history of a starved device, which is
\* promised nothing, are one.
ReadableNand ==
  LET read == Referenced
  IN  [b \in Block |-> [p \in Page |->
         IF nand[b][p].kind # "data" THEN nand[b][p]
         ELSE IF [blk |-> b, pg |-> p] \notin read THEN [kind |-> "unreadable"]
         ELSE IF starved THEN nand[b][p].addr
         ELSE nand[b][p]]]
TailEditions ==
  LET tails == InTail
  IN  [b \in Block |-> [p \in Page |-> IF [blk |-> b, pg |-> p] \in tails THEN spare1[b][p]
                                       ELSE NoEdition]]

MountView ==
  <<ReadableNand, pmt, bdt, backup_block_count, journal, reclaim, pc,
    starved, power, losses, risks,
    IF starved THEN <<>> ELSE <<latest, benign>>,
    IF power = "on" /\ LastMount THEN <<>> ELSE <<TailEditions, edition>>,
    IF LastMount THEN <<>> ELSE <<root, cached, torn>> >>

\* Bound: stop at the first starved state.
NotStarved == ~starved

\* Bound: of the risks a power loss leaves only that of the dropped pins; and
\* one address at a time holds data, the other is only read.  Before the first
\* power loss and the first copying reclaim both may hold the same, until the
\* cold journal is full; its reclaim may starve the device, which then goes on
\* until that journal has run into a programmed page.
Holding == {a \in Addr : Mapped(a) \/ latest[a] # NoData}
Committed == {a \in Addr : root.pmt[a] # INVALID_PM_NODE}
ColdBlocked == IsFull(journal["cold"]) \/ ~CanProgram(journal["cold"])
OneWritten ==
  /\ risks \subseteq {"threshold"}
  /\ \/ ~starved /\ Cardinality(Holding) <= 1
     \/ /\ losses = 0 /\ \A a, b \in Addr : latest[a] = latest[b]
        /\ \/ starved /\ ColdBlocked
           \/ ~starved /\ reclaim = 2 /\ pc = "cold"
           \/ /\ ~starved /\ reclaim = 2
              /\ backup_block_count = 0 /\ Cardinality(Committed) <= 1

=============================================================================
