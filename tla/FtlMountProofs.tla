--------------------------- MODULE FtlMountProofs ---------------------------
(***************************************************************************)
(* Proofs about FtlMount, for every value of the constants: the invariant  *)
(* behind its properties is inductive, so that the mount ends, what was    *)
(* written and what was retained survive power losses, no ASSERT fails     *)
(* after a mount, the pins stay counted, and a host without tags is never  *)
(* starved, as long as no power loss has left a risk the theorem names.    *)
(***************************************************************************)
EXTENDS FtlMount, FtlDataProofs

(***************************************************************************)
(* Tables and the flash.                                                   *)
(***************************************************************************)

LEMMA RamType == TypeOK => Ram \in TableType
BY DEF TypeOK, Ram, TableType

LEMMA TableFacts ==
  ASSUME NEW s \in TableType
  PROVE  /\ s.pmt \in [Addr -> MaybeNode] /\ s.bdt \in [Block -> Nat]
         /\ s.count \in Nat /\ s.reclaim \in Block
         /\ s.journal \in [Temp -> [blk : 0 .. NBlock, pg : Page]]
         /\ \A t \in Temp : /\ s.journal[t].blk \in 0 .. NBlock
                            /\ s.journal[t].pg \in Page
                            /\ s.journal[t].pg \in Int
BY SizeFacts DEF TableType

\* What holds of the tables in RAM is what FtlData says of them.
LEMMA RamFacts == TypeOK => (Sound <=> SoundIn(Ram)) /\ (Exact <=> ExactIn(Ram))
<1> SUFFICES ASSUME TypeOK
             PROVE  (Sound <=> SoundIn(Ram)) /\ (Exact <=> ExactIn(Ram))
  OBVIOUS
<1>1. \A b : LivePages(b) = LiveIn(Ram, b) /\ Written(b) = WrittenIn(Ram, b)
  BY DEF LivePages, LiveIn, Written, WrittenIn, Ram
<1>2. \A b : IsJournal(b) <=> InJournal(Ram, b)
  BY DEF IsJournal, InJournal, Ram
<1>3. Roles <=> RolesIn(Ram)
  BY DEF Roles, RolesIn, Ram
<1>4. ReclaimReady <=> ReclaimReadyIn(Ram)
  BY DEF ReclaimReady, ReclaimReadyIn, Ram
<1>5. MetaInv <=> MetaIn(Ram)
  BY <1>2 DEF MetaInv, MetaIn, Ram
<1>6. MapInv <=> MapIn(Ram)
  BY DEF MapInv, MapIn, Mapped, Ram
<1>7. Bounded <=> BoundedIn(Ram)
  BY <1>1 DEF Bounded, BoundedIn, Flagged, Ram
<1>8. Exact <=> ExactIn(Ram)
  <2>1. \A b \in Block : bdt[b] \in Nat /\ BACKUPFLAG \in Nat
    BY DEF TypeOK, BACKUPFLAG
  <2>2. \A b \in Block : bdt[b] < BACKUPFLAG <=> ~Flagged(b)
    BY <2>1 DEF Flagged
  <2>3. QED
    BY <1>1, <2>2 DEF Exact, ExactIn, Ram
<1>9. QED
  BY <1>3, <1>4, <1>5, <1>6, <1>7, <1>8 DEF Sound, SoundIn

\* A data page holds a page of an address.
LEMMA DataCellFacts ==
  ASSUME TypeOK, NEW b \in Block, NEW p \in Page, nand[b][p].kind = "data"
  PROVE  nand[b][p] \in DataCell /\ nand[b][p].addr \in Addr /\ nand[b][p] # Erased
<1>1. nand[b][p] \in Cell
  BY DEF TypeOK
<1>2. nand[b][p] \in DataCell
  BY <1>1 DEF Cell, Erased, MetaPage
<1>3. QED
  BY <1>2 DEF DataCell, Erased

LEMMA DataCellFactsPrime ==
  ASSUME TypeOK', NEW b \in Block, NEW p \in Page, nand'[b][p].kind = "data"
  PROVE  nand'[b][p] \in DataCell /\ nand'[b][p].addr \in Addr /\ nand'[b][p] # Erased
<1>1. nand'[b][p] \in Cell
  BY DEF TypeOK
<1>2. nand'[b][p] \in DataCell
  BY <1>1 DEF Cell, Erased, MetaPage
<1>3. QED
  BY <1>2 DEF DataCell, Erased

\* The flash changes at most where the journals of tables s go on.
AppendedTo(s) ==
  \A b \in Block, p \in Page :
    \/ nand'[b][p] = nand[b][p]
    \/ \E t \in Temp : b = s.journal[t].blk /\ p >= s.journal[t].pg

\* No table entry points there.
LEMMA MappedKept ==
  ASSUME NEW s \in TableType, MapIn(s), AppendedTo(s), NEW a \in Addr,
         s.pmt[a] # INVALID_PM_NODE
  PROVE  /\ s.pmt[a].blk \in Block /\ s.pmt[a].pg \in DataPage
         /\ nand'[s.pmt[a].blk][s.pmt[a].pg] = nand[s.pmt[a].blk][s.pmt[a].pg]
<1>1. s.pmt[a] \in PmNode
  BY TableFacts DEF MaybeNode
<1>2. /\ s.pmt[a].pg \in DataPage
      /\ \A t \in Temp : s.pmt[a].blk = s.journal[t].blk => s.pmt[a].pg < s.journal[t].pg
  BY DEF MapIn
<1>3. s.pmt[a].blk \in Block /\ s.pmt[a].pg \in Page /\ s.pmt[a].pg \in Int
  BY <1>1, SizeFacts DEF PmNode
<1>4. ~\E t \in Temp : s.pmt[a].blk = s.journal[t].blk /\ s.pmt[a].pg >= s.journal[t].pg
  BY <1>2, <1>3, TableFacts
<1>5. QED
  BY <1>2, <1>3, <1>4 DEF AppendedTo

LEMMA LiveKept ==
  ASSUME TypeOK, TypeOK', NEW s \in TableType, MapIn(s), AppendedTo(s), NEW b \in Block
  PROVE  LiveIn(s, b)' = LiveIn(s, b)
<1>1. ASSUME NEW p \in DataPage, NEW c \in Addr, s.pmt[c] = [blk |-> b, pg |-> p]
      PROVE  nand'[b][p] = nand[b][p]
  <2>1. s.pmt[c] # INVALID_PM_NODE /\ s.pmt[c].blk = b /\ s.pmt[c].pg = p
    BY <1>1, NBlockAssumption DEF INVALID_PM_NODE, Block
  <2>2. QED
    BY <2>1, MappedKept
<1>2. ASSUME NEW p \in DataPage
      PROVE  /\ nand[b][p].kind = "data" => nand[b][p].addr \in Addr
             /\ nand'[b][p].kind = "data" => nand'[b][p].addr \in Addr
  BY SizeFacts, DataCellFacts, DataCellFactsPrime
<1>3. ASSUME NEW p \in DataPage
      PROVE  (nand'[b][p].kind = "data" /\ s.pmt[nand'[b][p].addr] = [blk |-> b, pg |-> p])
             <=> (nand[b][p].kind = "data" /\ s.pmt[nand[b][p].addr] = [blk |-> b, pg |-> p])
  BY <1>1, <1>2
<1>4. QED
  BY <1>3 DEF LiveIn

\* Tables that fit the flash go on fitting it while their journals fill.
LEMMA SoundKept ==
  ASSUME TypeOK, TypeOK', NEW s \in TableType, SoundIn(s), AppendedTo(s)
  PROVE  SoundIn(s)' /\ (ExactIn(s) => ExactIn(s)')
<1>1. RolesIn(s) /\ ReclaimReadyIn(s) /\ MetaIn(s) /\ MapIn(s) /\ BoundedIn(s)
  BY DEF SoundIn
<1>2. \A b \in Block : LiveIn(s, b)' = LiveIn(s, b)
  BY <1>1, LiveKept
<1>3. \A b \in Block : ~InJournal(s, b) => \A p \in Page : nand'[b][p] = nand[b][p]
  BY DEF AppendedTo, InJournal
<1>4. RolesIn(s)'
  BY <1>1 DEF RolesIn
<1>5. ReclaimReadyIn(s)'
  <2>1. s.reclaim \in Block /\ ~InJournal(s, s.reclaim)
    BY <1>1, TableFacts DEF RolesIn, InJournal
  <2>2. QED
    BY <1>1, <1>3, <2>1 DEF ReclaimReadyIn
<1>6. MetaIn(s)'
  BY <1>1, <1>3, SizeFacts DEF MetaIn, InJournal
<1>7. MapIn(s)'
  BY <1>1, MappedKept DEF MapIn, CellAt
<1>8. BoundedIn(s)' /\ (ExactIn(s) => ExactIn(s)')
  BY <1>1, <1>2 DEF BoundedIn, ExactIn, WrittenIn
<1>9. QED
  BY <1>4, <1>5, <1>6, <1>7, <1>8 DEF SoundIn

(***************************************************************************)
(* Committed tables: what makes them go on describing RAM.                 *)
(***************************************************************************)

\* Tables describe themselves.
LEMMA CommittedNow == TypeOK /\ Sound => CommittedIn(Ram, NoEditions)
<1> SUFFICES ASSUME TypeOK, Sound PROVE CommittedIn(Ram, NoEditions)
  OBVIOUS
<1>1. SoundIn(Ram)
  BY RamFacts
<1>2. \A t \in Temp : journal[t].pg \in Int
  BY SizeFacts DEF TypeOK
<1>3. \A t \in Temp : Since(Ram, t) = {}
  <2> SUFFICES ASSUME NEW t \in Temp, NEW p \in DataPage,
                      journal[t].pg <= p, p < journal[t].pg
               PROVE  FALSE
    BY DEF Since, Ram
  <2>1. QED
    BY <1>2, SizeFacts DEF DataPage
<1>4. \A t \in Temp, a \in Addr : SinceOf(Ram, t, a) = {}
  BY <1>3 DEF SinceOf
<1>5. Ram.reclaim = reclaim /\ Ram.journal = journal /\ Ram.pmt = pmt
  BY DEF Ram
<1>6. \A t \in Temp : journal[t].pg + NoEditions[t] = journal[t].pg
  BY <1>2 DEF NoEditions
<1>7. QED
  BY <1>1, <1>3, <1>4, <1>5, <1>6 DEF CommittedIn

\* The journals of committed tables are those in RAM, a few pages back.
LEMMA CommittedJournals ==
  ASSUME TypeOK, NEW s \in TableType, NEW e \in [Temp -> Nat], CommittedIn(s, e)
  PROVE  /\ \A t \in Temp : /\ s.journal[t].blk = journal[t].blk
                            /\ journal[t].blk \in Block
                            /\ s.journal[t].pg \in Int /\ journal[t].pg \in Int
                            /\ s.journal[t].pg <= journal[t].pg
                            /\ journal[t].pg = s.journal[t].pg + e[t]
         /\ \A t, u \in Temp : journal[t].blk = journal[u].blk => t = u
         /\ \A t \in Temp : journal[t].blk # reclaim
         /\ s.reclaim = reclaim
<1>1. RolesIn(s) /\ s.reclaim = reclaim
  BY DEF CommittedIn, SoundIn
<1>2. ASSUME NEW t \in Temp
      PROVE  /\ s.journal[t].blk = journal[t].blk
             /\ journal[t].blk \in Block
             /\ s.journal[t].pg \in Int /\ journal[t].pg \in Int
             /\ s.journal[t].pg <= journal[t].pg
             /\ journal[t].pg = s.journal[t].pg + e[t]
  <2>1. s.journal[t].blk = journal[t].blk /\ s.journal[t].pg + e[t] = journal[t].pg
    BY DEF CommittedIn
  <2>2. s.journal[t].pg \in Int /\ journal[t].pg \in Int /\ e[t] \in Nat
    BY TableFacts, SizeFacts DEF TypeOK
  <2>3. s.journal[t].blk \in Block
    BY <1>1 DEF RolesIn, Temp
  <2>4. QED
    BY <2>1, <2>2, <2>3
<1>3. \A t, u \in Temp : journal[t].blk = journal[u].blk => t = u
  BY <1>1, <1>2 DEF RolesIn, Temp
<1>4. \A t \in Temp : journal[t].blk # reclaim
  BY <1>1, <1>2 DEF RolesIn
<1>5. QED
  BY <1>1, <1>2, <1>3, <1>4

LEMMA AppendedBack ==
  ASSUME TypeOK, NEW s \in TableType, NEW e \in [Temp -> Nat], CommittedIn(s, e),
         AppendedTo(Ram)
  PROVE  AppendedTo(s)
<1> SUFFICES ASSUME NEW b \in Block, NEW p \in Page, nand'[b][p] # nand[b][p]
             PROVE  \E t \in Temp : b = s.journal[t].blk /\ p >= s.journal[t].pg
  BY DEF AppendedTo
<1>1. PICK t \in Temp : b = journal[t].blk /\ p >= journal[t].pg
  BY DEF AppendedTo, Ram
<1>2. b = s.journal[t].blk /\ p >= s.journal[t].pg
  BY <1>1, CommittedJournals, SizeFacts
<1>3. QED
  BY <1>2

\* A step that moves no journal, and drops entries of the mapping table at
\* most.
LEMMA KeptCommitted ==
  ASSUME TypeOK, TypeOK', NEW s \in TableType, NEW e \in [Temp -> Nat],
         CommittedIn(s, e), AppendedTo(Ram),
         journal' = journal, reclaim' = reclaim, spare1' = spare1,
         \A a \in Addr : pmt'[a] \in {pmt[a], INVALID_PM_NODE}
  PROVE  CommittedIn(s, e)' /\ (ExactIn(s) => ExactIn(s)')
<1>1. AppendedTo(s) /\ SoundIn(s)
  BY AppendedBack DEF CommittedIn
<1>2. SoundIn(s)' /\ (ExactIn(s) => ExactIn(s)')
  BY <1>1, SoundKept
<1>3. \A t \in Temp : Since(s, t)' = Since(s, t)
  BY DEF Since
<1>4. \A t \in Temp : \A p \in Since(s, t) :
        nand'[journal[t].blk][p] = nand[journal[t].blk][p]
  <2> SUFFICES ASSUME NEW t \in Temp, NEW p \in Since(s, t)
               PROVE  nand'[journal[t].blk][p] = nand[journal[t].blk][p]
    OBVIOUS
  <2>1. p \in Page /\ p \in Int /\ p < journal[t].pg
    BY SizeFacts DEF Since
  <2>2. ~\E u \in Temp : journal[t].blk = journal[u].blk /\ p >= journal[u].pg
    BY <2>1, CommittedJournals
  <2>3. journal[t].blk \in Block
    BY CommittedJournals
  <2>4. QED
    BY <2>1, <2>2, <2>3 DEF AppendedTo, Ram
<1>5. \A t \in Temp, a \in Addr : SinceOf(s, t, a)' = SinceOf(s, t, a)
  BY <1>3, <1>4 DEF SinceOf
<1>6. \A a \in Addr : Mapped(a)' => Mapped(a) /\ pmt'[a] = pmt[a]
  BY DEF Mapped
<1>7. \A t \in Temp, a \in Addr : Mapped(a)' /\ LastSince(s, t, a) => LastSince(s, t, a)'
  BY <1>5, <1>6 DEF LastSince
<1>8. \A a \in Addr : Mapped(a)' =>
        \/ \E t \in Temp : LastSince(s, t, a)'
        \/ pmt'[a] = s.pmt[a] /\ \A t \in Temp : SinceOf(s, t, a)' = {}
  BY <1>5, <1>6, <1>7 DEF CommittedIn
<1>9. \A t \in Temp :
        /\ s.journal[t].blk = journal'[t].blk
        /\ s.journal[t].pg + e[t] = journal'[t].pg
        /\ \A p \in Since(s, t)' : /\ nand'[journal'[t].blk][p].kind = "data"
                                   /\ spare1'[journal'[t].blk][p] = p - s.journal[t].pg
  BY <1>3, <1>4 DEF CommittedIn
<1>10. s.reclaim = reclaim'
  BY DEF CommittedIn
<1>11. QED
  BY <1>2, <1>8, <1>9, <1>10 DEF CommittedIn

\* A journal goes on by one page, to which its address is remapped; the page
\* has the edition that comes next.
LEMMA RemapCommitted ==
  ASSUME TypeOK, TypeOK', NEW s \in TableType, NEW e \in [Temp -> Nat],
         CommittedIn(s, e), NEW a \in Addr, NEW t \in Temp, RemapEffect(a, t),
         spare1'[journal[t].blk][journal[t].pg] = e[t],
         \A b \in Block, q \in Page :
           b # journal[t].blk \/ q # journal[t].pg => spare1'[b][q] = spare1[b][q]
  PROVE  /\ CommittedIn(s, [e EXCEPT ![t] = e[t] + 1])'
         /\ ExactIn(s) => ExactIn(s)'
<1> DEFINE j == journal[t].blk
           p == journal[t].pg
           e1 == [e EXCEPT ![t] = e[t] + 1]
<1>1. /\ j \in Block /\ p \in DataPage /\ p \in Page /\ p \in Int
      /\ journal' = [journal EXCEPT ![t] = [blk |-> j, pg |-> p + 1]]
      /\ reclaim' = reclaim
      /\ pmt' = [pmt EXCEPT ![a] = [blk |-> j, pg |-> p]]
      /\ nand'[j][p].kind = "data" /\ nand'[j][p].addr = a
      /\ \A b \in Block : b # j => nand'[b] = nand[b]
      /\ \A q \in DataPage : q # p => nand'[j][q] = nand[j][q]
      /\ journal \in [Temp -> [blk : 0 .. NBlock, pg : Page]]
      /\ pmt \in [Addr -> MaybeNode]
  BY SizeFacts DEF RemapEffect, TypeOK
<1>2. /\ s.journal[t].blk = j /\ s.journal[t].pg <= p /\ s.journal[t].pg \in Int
      /\ p = s.journal[t].pg + e[t]
      /\ \A u, v \in Temp : journal[u].blk = journal[v].blk => u = v
      /\ \A u \in Temp : journal[u].blk \in Block
  BY CommittedJournals
<1>3. AppendedTo(s)
  <2> SUFFICES ASSUME NEW b \in Block, NEW q \in Page, nand'[b][q] # nand[b][q]
               PROVE  b = s.journal[t].blk /\ q >= s.journal[t].pg
    BY DEF AppendedTo
  <2>1. b = j /\ (q = p \/ q \notin DataPage)
    BY <1>1
  <2>2. q \in DataPage \/ q = MAX_DIRTY_PAGES
    BY SizeFacts DEF Page, DataPage
  <2>3. MAX_DIRTY_PAGES >= p
    BY <1>1, SizeFacts DEF DataPage
  <2>4. QED
    BY <1>1, <1>2, <2>1, <2>2, <2>3, SizeFacts, SMTT(30)
<1>4. SoundIn(s)' /\ (ExactIn(s) => ExactIn(s)')
  BY <1>3, SoundKept DEF CommittedIn
<1>5. /\ journal'[t].blk = j /\ journal'[t].pg = p + 1
      /\ \A u \in Temp : u # t => journal'[u] = journal[u] /\ journal[u].blk # j
  BY <1>1, <1>2
<1>6. ASSUME NEW u \in Temp, NEW q \in DataPage
      PROVE  /\ q \in Since(s, u)' <=> (q \in Since(s, u) \/ (u = t /\ q = p))
             /\ q \in Since(s, u) => /\ u # t \/ q # p
                                     /\ nand'[journal[u].blk][q] = nand[journal[u].blk][q]
                                     /\ spare1'[journal[u].blk][q] = spare1[journal[u].blk][q]
  <2>1. q \in Int /\ q \in Page /\ journal[u].pg \in Int /\ s.journal[u].pg \in Int
    BY SizeFacts, TableFacts DEF TypeOK
  <2>2. q \in Since(s, u)' <=> (q \in Since(s, u) \/ (u = t /\ q = p))
    <3>1. CASE u = t
      <4>1. p \in Int /\ s.journal[u].pg <= p /\ journal[u].pg = p /\ journal'[u].pg = p + 1
        BY <1>1, <1>2, <1>5, <3>1
      <4>2. (s.journal[u].pg <= q /\ q < p + 1) <=> ((s.journal[u].pg <= q /\ q < p) \/ q = p)
        BY <2>1, <4>1
      <4>3. QED
        BY <3>1, <4>1, <4>2 DEF Since
    <3>2. CASE u # t
      BY <1>5, <3>2 DEF Since
    <3>3. QED
      BY <3>1, <3>2
  <2>3. q \in Since(s, u) => u # t \/ q # p
    BY <1>1, <2>1 DEF Since
  <2>4. QED
    BY <1>1, <1>2, <1>5, <2>1, <2>2, <2>3, SMTT(30)
<1>7. \A u \in Temp : journal'[u].blk = journal[u].blk
  BY <1>5
<1>8. ASSUME NEW u \in Temp
      PROVE  /\ s.journal[u].blk = journal'[u].blk
             /\ s.journal[u].pg + e1[u] = journal'[u].pg
             /\ \A q \in Since(s, u)' : /\ nand'[journal'[u].blk][q].kind = "data"
                                        /\ spare1'[journal'[u].blk][q] = q - s.journal[u].pg
  <2>1. s.journal[u].blk = journal'[u].blk
    BY <1>7, CommittedJournals
  <2>2. s.journal[u].pg + e1[u] = journal'[u].pg
    <3>1. CASE u = t
      <4>1. e1[u] = e[t] + 1 /\ e[t] \in Nat
        BY <3>1
      <4>2. journal'[u].pg = p + 1 /\ p = s.journal[u].pg + e[t] /\ s.journal[u].pg \in Int
        BY <1>2, <1>5, <3>1
      <4> HIDE DEF e1, p
      <4>3. QED
        BY <4>1, <4>2
    <3>2. CASE u # t
      BY <1>5, <3>2, CommittedJournals
    <3>3. QED
      BY <3>1, <3>2
  <2>3. ASSUME NEW q \in Since(s, u)'
        PROVE  /\ nand'[journal'[u].blk][q].kind = "data"
               /\ spare1'[journal'[u].blk][q] = q - s.journal[u].pg
    <3>1. q \in DataPage
      BY <2>3 DEF Since
    <3>2. CASE q \in Since(s, u)
      <4>1. /\ nand[journal[u].blk][q].kind = "data"
            /\ spare1[journal[u].blk][q] = q - s.journal[u].pg
        BY <3>2 DEF CommittedIn
      <4>2. QED
        BY <1>6, <1>7, <3>1, <3>2, <4>1
    <3>3. CASE u = t /\ q = p
      <4>1. nand'[j][p].kind = "data" /\ spare1'[j][p] = e[t]
        BY <1>1
      <4>2. journal'[t].blk = j /\ s.journal[t].pg \in Int /\ e[t] \in Nat
            /\ p = s.journal[t].pg + e[t]
        BY <1>2, <1>5
      <4>3. e[t] = p - s.journal[t].pg
        <5> HIDE DEF p
        <5>1. QED
          BY <4>2
      <4>4. QED
        BY <3>3, <4>1, <4>2, <4>3
    <3>4. QED
      BY <1>6, <3>1, <3>2, <3>3
  <2>4. QED
    BY <2>1, <2>2, <2>3
<1>9. ASSUME NEW c \in Addr, Mapped(c)'
      PROVE  \/ \E u \in Temp : LastSince(s, u, c)'
             \/ pmt'[c] = s.pmt[c] /\ \A u \in Temp : SinceOf(s, u, c)' = {}
  <2>1. CASE c = a
    <3>1. pmt'[c].blk = journal'[t].blk /\ pmt'[c].pg = p
      BY <1>1, <1>5, <2>1
    <3>2. p \in SinceOf(s, t, c)'
      BY <1>1, <1>5, <1>6, <2>1 DEF SinceOf
    <3>3. \A q \in SinceOf(s, t, c)' : q <= p
      <4> SUFFICES ASSUME NEW q \in SinceOf(s, t, c)' PROVE q <= p
        OBVIOUS
      <4>1. q \in DataPage /\ q \in Int /\ q < p + 1
        BY <1>5, SizeFacts DEF SinceOf, Since
      <4>2. QED
        BY <1>1, <4>1
    <3>4. LastSince(s, t, c)'
      BY <3>1, <3>2, <3>3 DEF LastSince
    <3>5. QED
      BY <3>4
  <2>2. CASE c # a
    <3>1. Mapped(c) /\ pmt'[c] = pmt[c]
      BY <1>1, <1>9, <2>2 DEF Mapped
    <3>2. \A u \in Temp : SinceOf(s, u, c)' = SinceOf(s, u, c)
      <4> SUFFICES ASSUME NEW u \in Temp, NEW q \in DataPage
                   PROVE  q \in SinceOf(s, u, c)' <=> q \in SinceOf(s, u, c)
        BY DEF SinceOf, Since
      <4>1. q \in Since(s, u)' /\ nand'[journal'[u].blk][q].addr = c <=>
            q \in Since(s, u) /\ nand[journal[u].blk][q].addr = c
        BY <1>1, <1>5, <1>6, <1>7, <2>2
      <4>2. QED
        BY <4>1 DEF SinceOf
    <3>3. \A u \in Temp : LastSince(s, u, c) => LastSince(s, u, c)'
      BY <1>7, <3>1, <3>2 DEF LastSince
    <3>4. QED
      BY <3>1, <3>2, <3>3 DEF CommittedIn
  <2>3. QED
    BY <2>1, <2>2
<1>10. s.reclaim = reclaim'
  BY <1>1 DEF CommittedIn
<1> HIDE DEF e1
<1>11. CommittedIn(s, e1)'
  BY <1>4, <1>8, <1>9, <1>10 DEF CommittedIn
<1>12. QED
  BY <1>4, <1>11 DEF e1

(***************************************************************************)
(* The device is on: its calls are those of FtlData.                       *)
(***************************************************************************)

OnFacts ==
  /\ TypeOK /\ MountTypeOK /\ Layout /\ FillOrder /\ JournalFill /\ power = "on"
  /\ ~torn => CommittedIn(root, edition)

\* Of two journals at most one is full.
LEMMA OneOpen ==
  TypeOK /\ Layout =>
    \E t \in Temp : nand[journal[t].blk][MAX_DIRTY_PAGES - 1] = Erased
<1> SUFFICES ASSUME TypeOK, Layout
             PROVE  \E t \in Temp : nand[journal[t].blk][MAX_DIRTY_PAGES - 1] = Erased
  OBVIOUS
<1>1. PICK t \in Temp : ~IsFull(journal[t])
  BY DEF Layout, PcInv, Temp
<1>2. /\ MAX_DIRTY_PAGES - 1 \in Page /\ MAX_DIRTY_PAGES - 1 >= journal[t].pg
  BY <1>1, PPBAssumption DEF TypeOK, IsFull, Page, MAX_DIRTY_PAGES
<1>3. QED
  BY <1>1, <1>2 DEF Layout, JournalTail

LEMMA OnLayout == FlashInv /\ power = "on" => Layout
BY DEF FlashInv, TailInv, TailPage, Settled, PowerInv, Layout, JournalTail

LEMMA OnFlash == OnFacts => FlashInv
<1> SUFFICES ASSUME OnFacts PROVE FlashInv
  OBVIOUS
<1>0. /\ TypeOK /\ MountTypeOK /\ Layout /\ FillOrder /\ JournalFill /\ power = "on"
      /\ ~torn => CommittedIn(root, edition)
  BY DEF OnFacts
<1>1. TailInv
  BY <1>0 DEF Layout, JournalTail, TailInv, TailPage, Settled
<1>2. PowerInv
  BY <1>0, OneOpen DEF Layout, PowerInv
<1>3. QED
  BY <1>0, <1>1, <1>2 DEF FlashInv, Layout

LEMMA DataStep ==
  ASSUME FlashInv, power = "on", [Next]_vars, ~starved'
  PROVE  /\ TypeOK' /\ FillOrder' /\ JournalFill'
         /\ pc' # "hung" => Layout' /\ Carried
         /\ Exact => pc' # "hung"
         /\ pc' = "hung" => pc \in Temp
<1>1. TypeOK /\ FillOrder /\ JournalFill /\ Layout
  BY OnLayout DEF FlashInv
<1>2. FillOrder' /\ JournalFill'
  BY <1>1, StepHarmless DEF FillInv, Harmless
<1>3. QED
  BY <1>1, <1>2, TypeStep, DeviceStep

\* The tables that are committed in a step, or were before, when the step
\* moves no journal.
LEMMA LoadCommitted ==
  ASSUME TypeOK, TypeOK', root \in TableType, edition \in [Temp -> Nat], Sound,
         ~torn => CommittedIn(root, edition), AppendedTo(Ram),
         journal' = journal, reclaim' = reclaim, spare1' = spare1,
         \A a \in Addr : pmt'[a] \in {pmt[a], INVALID_PM_NODE},
         \/ root' = Ram /\ edition' = NoEditions
         \/ root' = root /\ edition' = edition /\ torn' = torn,
         ~torn'
  PROVE  /\ CommittedIn(root, edition)'
         /\ Exact /\ (~torn => ExactIn(root)) => ExactIn(root)'
<1>1. CASE root' = Ram /\ edition' = NoEditions
  <2>1. PICK r : r = Ram
    OBVIOUS
  <2>2. CommittedIn(r, NoEditions) /\ (Exact <=> ExactIn(r)) /\ r \in TableType
    BY <2>1, CommittedNow, RamFacts, RamType
  <2>3. NoEditions \in [Temp -> Nat]
    BY DEF NoEditions
  <2>4. CommittedIn(r, NoEditions)' /\ (ExactIn(r) => ExactIn(r)')
    BY <2>2, <2>3, KeptCommitted
  <2>5. QED
    BY <1>1, <2>1, <2>2, <2>4
<1>2. CASE root' = root /\ edition' = edition /\ torn' = torn
  <2>1. PICK r : r = root
    OBVIOUS
  <2>2. PICK e : e = edition
    OBVIOUS
  <2>3. CommittedIn(r, e) /\ r \in TableType /\ e \in [Temp -> Nat]
    BY <1>2, <2>1, <2>2
  <2>4. CommittedIn(r, e)' /\ (ExactIn(r) => ExactIn(r)')
    BY <2>3, KeptCommitted
  <2>5. QED
    BY <1>2, <2>1, <2>2, <2>4
<1>3. QED
  BY <1>1, <1>2

LEMMA WriteMount ==
  ASSUME FlashInv, NEW a \in Addr, NEW d \in Data, NEW t \in Temp, NEW tag \in Tags,
         FTL_Write(a, d, t, tag), ~starved'
  PROVE  FlashInv' /\ pc' # "hung" /\ Carried /\ (ExactInv => ExactInv')
<1> DEFINE ev == Evicts(a, cached)
           e0 == IF EvictsEarly(a, tag) THEN NoEditions ELSE edition
           j == journal[t].blk
           p == journal[t].pg
<1>1. /\ power = "on" /\ power' = "on" /\ DATA_Write(a, d, t, tag)
      /\ TypeOK /\ MountTypeOK /\ Layout /\ Sound
      /\ ~torn => CommittedIn(root, edition)
      /\ risks' = risks
  BY OnLayout DEF FTL_Write, FlashInv
<1>2. [Next]_vars /\ pc' # "hung"
  BY <1>1 DEF Next, DATA_Write, Temp
<1>3. TypeOK' /\ FillOrder' /\ JournalFill' /\ Layout' /\ Carried
  BY <1>1, <1>2, DataStep
<1>4. tag \in AllTags
  BY TagsAssumption
<1>5. WriteEffect(a, d, t, tag) /\ RemapEffect(a, t)
  BY <1>1, <1>4, WriteFacts, WriteRemaps
<1>6. j \in Block /\ p \in Page /\ p \in DataPage
  BY <1>5, SizeFacts DEF RemapEffect
<1>7. /\ edition \in [Temp -> Nat] /\ NoEditions \in [Temp -> Nat]
      /\ e0 \in [Temp -> Nat] /\ e0[t] \in Nat
      /\ PageEdition(a, t, tag) = e0[t]
      /\ spare1 \in [Block -> [Page -> Int]]
      /\ root \in TableType /\ Ram \in TableType
  BY <1>1, RamType DEF MountTypeOK, NoEditions, PageEdition
<1>8. /\ spare1' = [spare1 EXCEPT ![j][p] = e0[t]]
      /\ root' = IF ev THEN Ram ELSE root
      /\ torn' = IF ev THEN EvictsLate(a, tag) ELSE torn
      /\ edition' = IF EvictsLate(a, tag) THEN NoEditions ELSE
                      [(IF ev THEN NoEditions ELSE edition) EXCEPT ![t] = e0[t] + 1]
  BY <1>7 DEF FTL_Write
<1> HIDE DEF ev, e0, j, p
<1>9. MountTypeOK'
  <2>1. spare1' \in [Block -> [Page -> Int]]
    BY <1>6, <1>7, <1>8
  <2>2. edition' \in [Temp -> Nat]
    BY <1>7, <1>8
  <2>3. torn' \in BOOLEAN
    BY <1>1, <1>8 DEF MountTypeOK, EvictsLate, ev, Evicts
  <2>4. root' \in TableType
    BY <1>7, <1>8
  <2>5. QED
    BY <1>1, <2>1, <2>2, <2>3, <2>4 DEF MountTypeOK
<1>10. /\ spare1'[j][p] = e0[t]
       /\ \A b \in Block, q \in Page : b # j \/ q # p => spare1'[b][q] = spare1[b][q]
  BY <1>6, <1>7, <1>8
<1>11. ASSUME ~torn'
       PROVE  /\ CommittedIn(root, edition)'
              /\ Exact /\ (~torn => ExactIn(root)) => ExactIn(root)'
  <2>1. ~EvictsLate(a, tag) /\ (EvictsEarly(a, tag) <=> ev)
    BY <1>8, <1>11 DEF EvictsLate, EvictsEarly, ev
  <2>2. edition' = [e0 EXCEPT ![t] = e0[t] + 1]
    BY <1>8, <2>1 DEF e0
  <2>3. PICK r : r = IF ev THEN Ram ELSE root
    OBVIOUS
  <2>4. PICK e : e = e0
    OBVIOUS
  <2>5. CommittedIn(r, e) /\ (Exact /\ (~torn => ExactIn(root)) => ExactIn(r))
    BY <1>1, <1>8, <1>11, <2>1, <2>3, <2>4, CommittedNow, RamFacts DEF e0
  <2>6. r \in TableType /\ e \in [Temp -> Nat] /\ root' = r
    BY <1>7, <1>8, <2>3, <2>4
  <2>7. /\ CommittedIn(r, [e EXCEPT ![t] = e[t] + 1])'
        /\ ExactIn(r) => ExactIn(r)'
    BY <1>1, <1>3, <1>5, <1>10, <2>4, <2>5, <2>6, RemapCommitted DEF j, p
  <2>8. QED
    BY <2>2, <2>4, <2>5, <2>6, <2>7
<1>12. FlashInv'
  <2>1. OnFacts'
    BY <1>1, <1>3, <1>9, <1>11 DEF OnFacts
  <2>2. QED
    BY <2>1, OnFlash, PTL
<1>13. ExactInv => ExactInv'
  BY <1>2, <1>3, <1>11 DEF ExactInv, Carried
<1>14. QED
  BY <1>2, <1>3, <1>12, <1>13

LEMMA PmtLoadFacts ==
  ASSUME MountTypeOK, TypeOK, NEW a \in Addr, PMT_Load(a), spare1' = spare1,
         power' = power, risks' = risks
  PROVE  /\ MountTypeOK'
         /\ \/ root' = Ram /\ edition' = NoEditions /\ torn' = FALSE
            \/ root' = root /\ edition' = edition /\ torn' = torn
<1>1. Ram \in TableType /\ NoEditions \in [Temp -> Nat]
  BY RamType DEF NoEditions
<1>2. \/ root' = Ram /\ edition' = NoEditions /\ torn' = FALSE
      \/ root' = root /\ edition' = edition /\ torn' = torn
  BY DEF PMT_Load, DATA_Commit
<1>3. QED
  BY <1>1, <1>2 DEF MountTypeOK

\* A call that leaves the journals where they are, with or without a commit.
LEMMA StillMount ==
  ASSUME FlashInv, power = "on", power' = "on", [Next]_vars, ~starved', pc' # "hung",
         MountTypeOK', spare1' = spare1, journal' = journal, reclaim' = reclaim,
         nand' = nand, \A a \in Addr : pmt'[a] \in {pmt[a], INVALID_PM_NODE},
         \/ root' = Ram /\ edition' = NoEditions
         \/ root' = root /\ edition' = edition /\ torn' = torn
  PROVE  FlashInv' /\ Carried /\ (ExactInv => ExactInv')
<1>1. TypeOK' /\ FillOrder' /\ JournalFill' /\ Layout' /\ Carried
  BY DataStep
<1>2. /\ TypeOK /\ Sound /\ (~torn => CommittedIn(root, edition))
      /\ root \in TableType /\ edition \in [Temp -> Nat]
  BY DEF FlashInv, MountTypeOK
<1>3. AppendedTo(Ram)
  BY DEF AppendedTo
<1>4. ~torn' => /\ CommittedIn(root, edition)'
                /\ Exact /\ (~torn => ExactIn(root)) => ExactIn(root)'
  BY <1>1, <1>2, <1>3, LoadCommitted
<1>5. OnFacts'
  BY <1>1, <1>4 DEF OnFacts
<1>6. FlashInv'
  BY <1>5, OnFlash, PTL
<1>7. QED
  BY <1>1, <1>4, <1>6 DEF ExactInv, Carried

LEMMA TrimMount ==
  ASSUME FlashInv, NEW a \in Addr, NEW t \in Temp, Trim(a, t), ~starved'
  PROVE  FlashInv' /\ pc' # "hung" /\ Carried /\ (ExactInv => ExactInv')
<1>1. /\ power = "on" /\ power' = power /\ FTL_Trim(a, t) /\ PMT_Load(a)
      /\ spare1' = spare1 /\ risks' = risks /\ TypeOK /\ MountTypeOK
  BY DEF Trim, FlashInv
<1>2. [Next]_vars /\ pc' # "hung"
  BY <1>1 DEF Next, FTL_Trim, Temp
<1>3. /\ nand' = nand /\ journal' = journal /\ reclaim' = reclaim
      /\ \A c \in Addr : pmt'[c] \in {pmt[c], INVALID_PM_NODE}
  BY <1>1 DEF FTL_Trim, PMT_Update, TypeOK
<1>4. QED
  BY <1>1, <1>2, <1>3, PmtLoadFacts, StillMount

LEMMA ReadMount ==
  ASSUME FlashInv, NEW a \in Addr, FTL_Read(a), ~starved'
  PROVE  FlashInv' /\ pc' # "hung" /\ Carried /\ (ExactInv => ExactInv')
<1>1. /\ power = "on" /\ power' = power /\ PMT_Load(a) /\ UNCHANGED vars /\ pc = "idle"
      /\ spare1' = spare1 /\ risks' = risks /\ TypeOK /\ MountTypeOK
  BY DEF FTL_Read, FlashInv
<1>2. /\ nand' = nand /\ journal' = journal /\ reclaim' = reclaim /\ pmt' = pmt /\ pc' # "hung"
  BY <1>1 DEF vars, device
<1>3. QED
  BY <1>1, <1>2, PmtLoadFacts, StillMount

LEMMA FlushMount ==
  ASSUME FlashInv, FTL_Flush, ~starved'
  PROVE  FlashInv' /\ pc' # "hung" /\ Carried /\ (ExactInv => ExactInv')
<1>1. /\ power = "on" /\ power' = power /\ DATA_Commit /\ UNCHANGED vars /\ pc = "idle"
      /\ spare1' = spare1 /\ risks' = risks /\ TypeOK /\ MountTypeOK
  BY DEF FTL_Flush, FlashInv
<1>2. /\ nand' = nand /\ journal' = journal /\ reclaim' = reclaim /\ pmt' = pmt /\ pc' # "hung"
  BY <1>1 DEF vars, device
<1>3. root' = Ram /\ edition' = NoEditions /\ MountTypeOK'
  BY <1>1, RamType DEF DATA_Commit, MountTypeOK, NoEditions
<1>4. QED
  BY <1>1, <1>2, <1>3, StillMount

\* A reclaim that stops the device wrote to the reclaim block at most.
LEMMA HangKeeps ==
  ASSUME TypeOK, NEW t \in Temp, DATA_Reclaim(t), pc' = "hung"
  PROVE  \A b \in Block : b # reclaim => nand'[b] = nand[b]
<1>1. CASE ReclaimSearchForever(t)
  BY <1>1 DEF ReclaimSearchForever
<1>2. ASSUME NEW v \in Block, ReclaimErase(t, v)
      PROVE  FALSE
  BY <1>2 DEF ReclaimErase
<1>3. ASSUME NEW v \in Block, NEW live, NEW m,
             \/ ReclaimCopy(t, v, live, m) \/ ReclaimAssert(t, v, live, m)
             \/ ReclaimProgramAssert(t, v, live, m)
      PROVE  \A b \in Block : b # reclaim => nand'[b] = nand[b]
  BY <1>3 DEF ReclaimCopy, ReclaimAssert, ReclaimProgramAssert, TypeOK
<1>4. QED
  BY <1>1, <1>2, <1>3 DEF DATA_Reclaim

\* The commit of a reclaim names the tables the reclaim leaves.
LEMMA ReclaimMount ==
  ASSUME FlashInv, NEW t \in Temp, Reclaim(t), ~starved'
  PROVE  /\ pc' = "hung" => HungInv'
         /\ pc' # "hung" => FlashInv' /\ Carried
         /\ ExactInv => ExactInv'
<1>1. /\ power = "on" /\ power' = "on" /\ pc = t /\ risks' = risks
      /\ TypeOK /\ MountTypeOK /\ Layout
      /\ ~torn => CommittedIn(root, edition)
      /\ root \in TableType /\ edition \in [Temp -> Nat]
      /\ spare1 \in [Block -> [Page -> Int]]
  BY OnLayout DEF Reclaim, FlashInv, MountTypeOK
<1>2. DATA_Reclaim(t) /\ [Next]_vars
  <2>1. DATA_Reclaim(t)
    BY DEF Reclaim, DATA_Reclaim
  <2>2. QED
    BY <2>1 DEF Next
<1>3. /\ TypeOK' /\ FillOrder' /\ JournalFill'
      /\ pc' # "hung" => Layout' /\ Carried
      /\ Exact => pc' # "hung"
  BY <1>1, <1>2, DataStep
<1>4. ErasedEditions \in [Page -> Int]
  BY DEF ErasedEditions, NoEdition
<1>5. \/ pc' = "hung" /\ UNCHANGED <<root, edition, torn>>
      \/ pc' = "idle" /\ CommitReclaimed /\ spare1' \in [Block -> [Page -> Int]]
  <2>1. CASE ReclaimSearchForever(t) /\ UNCHANGED <<root, edition, torn, cached, spare1>>
    BY <2>1 DEF ReclaimSearchForever
  <2>2. ASSUME NEW v \in Block, ReclaimErase(t, v), CommitReclaimed,
               spare1' = [spare1 EXCEPT ![v] = ErasedEditions]
        PROVE  pc' = "idle" /\ spare1' \in [Block -> [Page -> Int]]
    BY <1>1, <1>4, <2>2 DEF ReclaimErase
  <2>3. ASSUME NEW v \in Block, NEW live, NEW m, ReclaimCopy(t, v, live, m),
               spare1' = [spare1 EXCEPT ![reclaim] = CopiedEditions(live, m),
                                        ![v] = ErasedEditions]
        PROVE  pc' = "idle" /\ spare1' \in [Block -> [Page -> Int]]
    <3>1. CopiedEditions(live, m) \in [Page -> Int]
      BY <1>1, SizeFacts DEF CopiedEditions, TypeOK
    <3> DEFINE copied == CopiedEditions(live, m)
    <3> HIDE DEF copied
    <3>2. spare1' \in [Block -> [Page -> Int]]
      BY <1>1, <1>4, <2>3, <3>1 DEF copied
    <3>3. QED
      BY <2>3, <3>2 DEF ReclaimCopy
  <2>4. ASSUME NEW v \in Block, NEW live, NEW m,
               ReclaimAssert(t, v, live, m) \/ ReclaimProgramAssert(t, v, live, m)
        PROVE  pc' = "hung"
    BY <2>4 DEF ReclaimAssert, ReclaimProgramAssert
  <2>5. QED
    BY <2>1, <2>2, <2>3, <2>4 DEF Reclaim
<1>6. CASE pc' = "hung" /\ UNCHANGED <<root, edition, torn>>
  <2>1. ASSUME ~torn PROVE MetaWritten(root.journal[t].blk)'
    <3>1. root.journal[t].blk = journal[t].blk
      BY <1>1, <2>1, CommittedJournals
    <3>2. /\ journal[t].blk \in Block /\ journal[t].blk # reclaim
          /\ nand[journal[t].blk][MAX_DIRTY_PAGES] = MetaPage
      BY <1>1, FullJournal
    <3>3. nand'[journal[t].blk] = nand[journal[t].blk]
      BY <1>1, <1>2, <1>6, <3>2, HangKeeps
    <3>4. QED
      BY <1>6, <3>1, <3>2, <3>3 DEF MetaWritten, MetaPage, Erased
  <2>2. HungInv'
    BY <1>1, <1>6, <2>1 DEF HungInv, MetaWritten
  <2>3. QED
    BY <1>3, <1>6, <2>2 DEF ExactInv
<1>7. CASE pc' = "idle" /\ CommitReclaimed /\ spare1' \in [Block -> [Page -> Int]]
  <2>1. pc' # "hung" /\ Layout' /\ Carried /\ Sound'
    BY <1>3, <1>7 DEF Layout
  <2>2. root' = Ram' /\ edition' = NoEditions /\ torn' = FALSE
    BY <1>7 DEF CommitReclaimed
  <2>3. (Ram \in TableType)'
    BY <1>3, RamType, PTL
  <2>4. MountTypeOK'
    BY <1>1, <1>7, <2>2, <2>3 DEF MountTypeOK, NoEditions
  <2>5. (TypeOK /\ Sound)'
    BY <1>3, <2>1
  <2>6. CommittedIn(Ram, NoEditions)'
    BY <2>5, CommittedNow, PTL
  <2>7. CommittedIn(root, edition)'
    BY <2>2, <2>6
  <2>8. OnFacts'
    BY <1>1, <1>3, <2>1, <2>4, <2>7 DEF OnFacts
  <2>9. FlashInv'
    BY <2>8, OnFlash, PTL
  <2>10. ExactInv => ExactInv'
    <3>1. (TypeOK => (Exact <=> ExactIn(Ram)))'
      <4>1. TypeOK => (Exact <=> ExactIn(Ram))
        BY RamFacts
      <4>2. QED
        BY RamFacts, PTL
    <3>2. QED
      BY <1>3, <2>1, <2>2, <3>1 DEF ExactInv, Carried
  <2>11. QED
    BY <2>1, <2>9, <2>10
<1>8. QED
  BY <1>5, <1>6, <1>7

(***************************************************************************)
(* Power loss.                                                             *)
(***************************************************************************)

\* A loss that leaves the device safe finds the tables committed outside a
\* write, and no journal block of theirs finished.
LEMMA SafeLoss ==
  ASSUME Safe', NewRisks \subseteq risks'
  PROVE  ~torn /\ \A t \in Temp : ~MetaWritten(root.journal[t].blk)
<1>1. "reclaim" \notin risks' /\ "torn" \notin risks'
  BY DEF Safe, NoRisk
<1>2. "reclaim" \notin NewRisks /\ "torn" \notin NewRisks
  BY <1>1
<1>3. QED
  BY <1>2 DEF NewRisks, Risks

LEMMA RamNext ==
  ASSUME TypeOK', NEW s, Ram' = s
  PROVE  (Sound' <=> SoundIn(s)') /\ (Exact' <=> ExactIn(s)')
<1>1. (TypeOK => (Sound <=> SoundIn(Ram)) /\ (Exact <=> ExactIn(Ram)))'
  BY RamFacts, PTL
<1>2. QED
  BY <1>1

\* The device is off: RAM stands for the committed tables.
LEMMA OffMount ==
  ASSUME TypeOK, TypeOK', NEW r \in TableType, SoundIn(r), AppendedTo(r),
         Ram' = r, root' = r, edition' = NoEditions, torn' = FALSE,
         power' = "off", pc' = "idle", MountTypeOK', FillOrder', JournalFill',
         TailInv',
         \E t \in Temp : nand'[r.journal[t].blk][MAX_DIRTY_PAGES - 1] = Erased
  PROVE  FlashInv' /\ (ExactIn(r) => ExactInv')
<1>1. SoundIn(r)' /\ (ExactIn(r) => ExactIn(r)')
  BY SoundKept
<1>2. Sound' /\ (Exact' <=> ExactIn(r)')
  BY <1>1, RamNext
<1>3. CommittedIn(root, edition)'
  <2>1. (TypeOK /\ Sound)'
    BY <1>2
  <2>2. CommittedIn(Ram, NoEditions)'
    BY <2>1, CommittedNow, PTL
  <2>3. QED
    BY <2>2
<1>4. PowerInv'
  <2>1. journal' = r.journal
    BY DEF Ram
  <2>2. QED
    BY <2>1 DEF PowerInv
<1>5. FlashInv'
  BY <1>2, <1>3, <1>4 DEF FlashInv
<1>6. ExactIn(r) => ExactInv'
  BY <1>1, <1>2 DEF ExactInv
<1>7. QED
  BY <1>5, <1>6

\* What LoseRam leaves in RAM.
LEMMA LostRam ==
  ASSUME NEW r \in TableType, LoseRam(r)
  PROVE  /\ Ram' = r /\ edition' = NoEditions /\ power' = "off" /\ pc' = "idle"
         /\ journal' = r.journal
         /\ pmt' \in [Addr -> MaybeNode] /\ bdt' \in [Block -> Nat]
         /\ backup_block_count' \in Nat /\ reclaim' \in Block
         /\ journal' \in [Temp -> [blk : 0 .. NBlock, pg : Page]]
         /\ pc' \in PcValues
<1>1. r = [pmt |-> r.pmt, bdt |-> r.bdt, count |-> r.count, journal |-> r.journal,
           reclaim |-> r.reclaim]
  BY DEF TableType
<1>2. QED
  BY <1>1, TableFacts DEF LoseRam, Ram, PcValues

\* The pages of a journal that the committed tables are behind.
LEMMA TailSince ==
  ASSUME TypeOK, TailInv, NEW r \in TableType, NEW e \in [Temp -> Nat],
         CommittedIn(r, e), NEW t \in Temp, NEW p \in Page, p >= r.journal[t].pg,
         p < journal[t].pg
  PROVE  /\ p \in Since(r, t) /\ p # MAX_DIRTY_PAGES
         /\ nand[journal[t].blk][p].kind = "data"
         /\ spare1[journal[t].blk][p] = 0 + (p - r.journal[t].pg)
<1>1. p \in Int /\ journal[t].pg \in Page /\ r.journal[t].pg \in Int
  BY SizeFacts, TableFacts DEF TypeOK
<1>2. p \in DataPage /\ p # MAX_DIRTY_PAGES
  BY <1>1, SizeFacts DEF Page, DataPage
<1>3. p \in Since(r, t)
  BY <1>1, <1>2 DEF Since
<1>4. spare1[journal[t].blk][p] = p - r.journal[t].pg /\ nand[journal[t].blk][p].kind = "data"
  BY <1>3 DEF CommittedIn
<1>5. QED
  BY <1>1, <1>2, <1>3, <1>4

LEMMA BackFill ==
  ASSUME TypeOK, JournalFill, NEW r \in TableType, NEW e \in [Temp -> Nat],
         CommittedIn(r, e), NEW t \in Temp, NEW p \in Page, p < r.journal[t].pg
  PROVE  nand[journal[t].blk][p] # Erased
<1>1. p < journal[t].pg /\ journal[t].blk \in Block
  BY CommittedJournals, SizeFacts
<1>2. QED
  BY <1>1 DEF JournalFill

LEMMA LossMount ==
  ASSUME FlashInv, PowerLoss, Safe'
  PROVE  FlashInv' /\ pc' # "hung" /\ (ExactInv => ExactInv')
<1>1. ~torn /\ \A t \in Temp : ~MetaWritten(root.journal[t].blk)
  BY SafeLoss DEF PowerLoss
<1>2. PICK r : r = root
  OBVIOUS
<1>3. PICK e : e = edition
  OBVIOUS
<1>4. /\ TypeOK /\ MountTypeOK /\ CommittedIn(r, e) /\ FillOrder /\ JournalFill
      /\ TailInv /\ PowerInv
      /\ r \in TableType /\ e \in [Temp -> Nat]
  BY <1>1, <1>2, <1>3 DEF FlashInv, MountTypeOK
<1>5. /\ LoseRam(r) /\ nand' = nand /\ root' = r /\ spare1' = spare1 /\ torn' = FALSE
      /\ latest' = latest /\ benign' = benign /\ asked' = asked /\ starved' = starved
      /\ risks' = risks \cup NewRisks
  BY <1>1, <1>2, <1>4 DEF PowerLoss, history, MountTypeOK
<1>6. /\ Ram' = r /\ edition' = NoEditions /\ power' = "off" /\ pc' = "idle"
      /\ journal' = r.journal
  BY <1>4, <1>5, LostRam
<1>7. TypeOK'
  BY <1>4, <1>5, LostRam DEF TypeOK
<1>8. MountTypeOK'
  BY <1>4, <1>5, <1>6 DEF MountTypeOK, NoEditions, NewRisks
<1>9. /\ SoundIn(r) /\ AppendedTo(r) /\ FillOrder'
  BY <1>4, <1>5 DEF CommittedIn, AppendedTo, FillOrder
<1>10. \A t \in Temp : r.journal[t].blk = journal[t].blk
  BY <1>4, CommittedJournals
<1>11. JournalFill'
  BY <1>4, <1>5, <1>6, <1>10, BackFill DEF JournalFill
<1>12. TailInv'
  <2> SUFFICES ASSUME NEW t \in Temp, NEW p \in Page, p >= r.journal[t].pg
               PROVE  LET cell == nand[journal[t].blk][p]
                      IN  \/ cell = Erased
                          \/ /\ p # MAX_DIRTY_PAGES /\ cell.kind = "data"
                             /\ spare1[journal[t].blk][p] = 0 + (p - r.journal[t].pg)
    BY <1>5, <1>6, <1>10 DEF TailInv, TailPage, Settled, NoEditions
  <2>1. CASE p < journal[t].pg
    BY <1>4, <2>1, TailSince
  <2>2. CASE p >= journal[t].pg
    <3>1. /\ TailPage(t, p) /\ p \in Int /\ journal[t].pg \in Int
          /\ r.journal[t].pg \in Int /\ e[t] \in Int
          /\ journal[t].pg = r.journal[t].pg + e[t]
      BY <1>4, <2>2, SizeFacts, CommittedJournals DEF TailInv
    <3>2. CASE Settled(t)
      <4>1. ASSUME IsFull(journal[t]) PROVE FALSE
        <5>1. p = MAX_DIRTY_PAGES
          BY <2>2, <3>1, <4>1, SizeFacts DEF IsFull, Page
        <5>2. nand[journal[t].blk][MAX_DIRTY_PAGES] = MetaPage
          BY <3>1, <3>2, <4>1, <5>1 DEF TailPage
        <5>3. QED
          BY <1>1, <1>2, <1>10, <5>2 DEF MetaWritten, MetaPage, Erased
      <4>2. QED
        BY <3>1, <3>2, <4>1 DEF TailPage
    <3>3. CASE ~Settled(t)
      <4>1. e[t] + (p - journal[t].pg) = 0 + (p - r.journal[t].pg)
        BY <3>1
      <4>2. QED
        BY <1>3, <3>1, <3>3, <4>1 DEF TailPage
    <3>4. QED
      BY <3>2, <3>3
  <2>3. QED
    <3>1. p < journal[t].pg \/ p >= journal[t].pg
      BY <1>4, SizeFacts, CommittedJournals
    <3>2. QED
      BY <2>1, <2>2, <3>1
<1>13. \E t \in Temp : nand'[r.journal[t].blk][MAX_DIRTY_PAGES - 1] = Erased
  BY <1>4, <1>5, <1>10 DEF PowerInv
<1>14. FlashInv' /\ (ExactIn(r) => ExactInv')
  BY <1>4, <1>5, <1>6, <1>7, <1>8, <1>9, <1>11, <1>12, <1>13, OffMount
<1>15. QED
  BY <1>1, <1>2, <1>6, <1>14 DEF ExactInv

\* The page is in the journal, and the committed tables are behind it.
LEMMA LossInWriteMount ==
  ASSUME FlashInv, NEW a \in Addr, NEW d \in Data, NEW t \in Temp, NEW tag \in Tags,
         PowerLossInWrite(a, d, t, tag), Safe'
  PROVE  FlashInv' /\ pc' # "hung" /\ (ExactInv => ExactInv')
<1> DEFINE j == journal[t].blk
           p == journal[t].pg
<1>1. ~torn
  BY SafeLoss DEF PowerLossInWrite
<1>2. /\ TypeOK /\ MountTypeOK /\ Layout /\ Sound /\ FillOrder /\ JournalFill /\ TailInv
      /\ CommittedIn(root, edition) /\ power = "on" /\ pc = "idle"
  BY <1>1, OnLayout DEF FlashInv, PowerLossInWrite
<1>3. PICK r : r = IF EvictsEarly(a, tag) THEN Ram ELSE root
  OBVIOUS
<1>4. PICK e : e = IF EvictsEarly(a, tag) THEN NoEditions ELSE edition
  OBVIOUS
<1>5. /\ CommittedIn(r, e) /\ r \in TableType /\ e \in [Temp -> Nat]
      /\ PageEdition(a, t, tag) = e[t]
      /\ ExactInv => ExactIn(r)
  <2>1. NoEditions \in [Temp -> Nat]
    BY DEF NoEditions
  <2>2. CASE EvictsEarly(a, tag)
    BY <1>2, <1>3, <1>4, <2>1, <2>2, CommittedNow, RamType, RamFacts
       DEF PageEdition, NoEditions, ExactInv
  <2>3. CASE ~EvictsEarly(a, tag)
    BY <1>1, <1>2, <1>3, <1>4, <2>3 DEF MountTypeOK, PageEdition, ExactInv
  <2>4. QED
    BY <2>2, <2>3
<1>6. /\ CanProgram(journal[t]) /\ p + 1 = MAX_DIRTY_PAGES
      /\ spare1' = [spare1 EXCEPT ![j][p] = e[t]]
      /\ root' = r /\ torn' = FALSE /\ LoseRam(r) /\ RecordWrite(a, d, tag)
      /\ starved' = starved
      /\ risks' = risks \cup NewRisks
           \cup (IF t = "hot" /\ a \in Tail(root, "cold") THEN {"order"} ELSE {})
           \cup (IF tag = "ransom" /\ Mapped(a) THEN {"pins"} ELSE {})
  BY <1>1, <1>3, <1>5 DEF PowerLossInWrite
<1>7. PICK old \in OldLogicAddr(a, tag) :
        nand' = [nand EXCEPT ![j][p] = [kind |-> "data", addr |-> a, data |-> d, old |-> old]]
  BY DEF PowerLossInWrite
<1> DEFINE cell == [kind |-> "data", addr |-> a, data |-> d, old |-> old]
<1>8. /\ j \in Block /\ p \in Page /\ p \in Int /\ p \in DataPage /\ p # MAX_DIRTY_PAGES
      /\ nand[j][p] = Erased
  <2>1. j \in Block /\ p \in Page /\ p \in Int /\ nand[j][p] = Erased
    BY <1>2, <1>6, SizeFacts DEF CanProgram, CellAt, TypeOK
  <2>2. p # MAX_DIRTY_PAGES
    BY <1>6, <2>1, SizeFacts
  <2>3. QED
    BY <2>1, <2>2, SizeFacts DEF Page, DataPage
<1>9. /\ nand'[j][p] = cell /\ cell # Erased /\ cell.kind = "data"
      /\ \A b \in Block, q \in Page : b # j \/ q # p => nand'[b][q] = nand[b][q]
      /\ spare1'[j][p] = e[t]
      /\ \A b \in Block, q \in Page : b # j \/ q # p => spare1'[b][q] = spare1[b][q]
  <2>1. cell # Erased /\ cell.kind = "data"
    BY DEF Erased
  <2> HIDE DEF cell, j, p
  <2>2. nand' = [nand EXCEPT ![j][p] = cell]
    BY <1>7 DEF cell, j, p
  <2>3. nand \in [Block -> [Page -> Cell]] /\ spare1 \in [Block -> [Page -> Int]]
    BY <1>2 DEF TypeOK, MountTypeOK
  <2>4. QED
    BY <1>6, <1>8, <2>1, <2>2, <2>3 DEF j, p
<1>10. /\ Ram' = r /\ edition' = NoEditions /\ power' = "off" /\ pc' = "idle"
       /\ journal' = r.journal
  BY <1>5, <1>6, LostRam
<1>11. cell \in Cell /\ tag \in AllTags
  <2>1. tag \in AllTags
    BY TagsAssumption
  <2>2. old \in MaybeNode
    BY <1>2, <1>7, <2>1, OldLogicAddrType
  <2>3. QED
    BY <2>1, <2>2 DEF Cell, DataCell
<1>12. TypeOK'
  <2>1. nand' \in [Block -> [Page -> Cell]]
    <3>1. nand \in [Block -> [Page -> Cell]]
      BY <1>2 DEF TypeOK
    <3>2. nand' = [nand EXCEPT ![j][p] = cell]
      BY <1>7
    <3> HIDE DEF cell, j, p
    <3>3. QED
      BY <1>8, <1>11, <3>1, <3>2
  <2>2. /\ latest' \in [Addr -> Data \cup {NoData}]
        /\ benign' \in [Addr -> Data \cup {NoData}]
    BY <1>2, <1>6, <1>11 DEF RecordWrite, TypeOK, AllTags
  <2>3. starved' \in BOOLEAN
    BY <1>2, <1>6 DEF TypeOK
  <2>4. asked' \in Request \cup {NoRequest}
    BY <1>6 DEF RecordWrite, Request
  <2>5. QED
    BY <1>5, <1>6, <2>1, <2>2, <2>3, <2>4, LostRam DEF TypeOK
<1>13. MountTypeOK'
  <2>1. spare1' \in [Block -> [Page -> Int]]
    <3>1. spare1 \in [Block -> [Page -> Int]] /\ e[t] \in Int
      BY <1>2, <1>5 DEF MountTypeOK
    <3> HIDE DEF j, p
    <3>2. QED
      BY <1>6, <1>8, <3>1
  <2>2. risks' \subseteq Risks
    BY <1>2, <1>6 DEF MountTypeOK, NewRisks, Risks
  <2>3. QED
    BY <1>5, <1>6, <1>10, <2>1, <2>2 DEF MountTypeOK, NoEditions
<1>14. /\ \A u \in Temp : /\ r.journal[u].blk = journal[u].blk
                          /\ journal[u].blk \in Block
                          /\ r.journal[u].pg \in Int /\ journal[u].pg \in Int
                          /\ r.journal[u].pg <= journal[u].pg
                          /\ journal[u].pg = r.journal[u].pg + e[u]
       /\ \A u, v \in Temp : journal[u].blk = journal[v].blk => u = v
  BY <1>2, <1>5, CommittedJournals
<1>15. SoundIn(r) /\ AppendedTo(r)
  BY <1>5, <1>9, <1>14 DEF CommittedIn, AppendedTo
<1>16. FillOrder'
  <2> SUFFICES ASSUME NEW b \in Block, NEW q \in Page, NEW s \in Page, q < s,
                      nand'[b][s] # Erased
               PROVE  nand'[b][q] # Erased
    BY DEF FillOrder
  <2>1. CASE b = j /\ q = p
    BY <1>9, <2>1
  <2>2. CASE ~(b = j /\ q = p)
    <3>1. nand'[b][q] = nand[b][q]
      BY <1>9, <2>2
    <3>2. CASE b = j /\ s = p
      BY <1>2, <1>8, <3>1, <3>2 DEF JournalFill
    <3>3. CASE ~(b = j /\ s = p)
      BY <1>2, <1>9, <3>1, <3>3 DEF FillOrder
    <3>4. QED
      BY <3>2, <3>3
  <2>3. QED
    BY <2>1, <2>2
<1>17. JournalFill'
  <2> SUFFICES ASSUME NEW u \in Temp, NEW q \in Page, q < r.journal[u].pg
               PROVE  nand'[journal[u].blk][q] # Erased
    BY <1>10, <1>14 DEF JournalFill
  <2>1. nand[journal[u].blk][q] # Erased
    BY <1>2, <1>5, BackFill
  <2>2. QED
    BY <1>9, <1>14, <2>1
<1>18. \A u \in Temp : journal[u].pg < MAX_DIRTY_PAGES /\ ~IsFull(journal[u])
  <2>1. \A u \in Temp : ~IsFull(journal[u])
    BY <1>2 DEF Layout, PcInv, Temp
  <2>2. QED
    BY <1>14, <2>1, SizeFacts DEF IsFull
<1>19. TailInv'
  <2> SUFFICES ASSUME NEW u \in Temp, NEW q \in Page, q >= r.journal[u].pg
               PROVE  LET c == nand'[journal[u].blk][q]
                      IN  \/ c = Erased
                          \/ /\ q # MAX_DIRTY_PAGES /\ c.kind = "data"
                             /\ spare1'[journal[u].blk][q] = 0 + (q - r.journal[u].pg)
    BY <1>10, <1>14 DEF TailInv, TailPage, Settled, NoEditions
  <2>0. q \in Int
    BY SizeFacts
  <2>1. CASE q < journal[u].pg
    <3>1. /\ q # MAX_DIRTY_PAGES /\ nand[journal[u].blk][q].kind = "data"
          /\ spare1[journal[u].blk][q] = 0 + (q - r.journal[u].pg)
      BY <1>2, <1>5, <2>1, TailSince
    <3>2. journal[u].blk # j \/ q # p
      BY <1>8, <1>14, <2>1
    <3>3. QED
      BY <1>9, <1>14, <3>1, <3>2
  <2>2. CASE q >= journal[u].pg
    <3>1. nand[journal[u].blk][q] = Erased
      BY <1>2, <1>18, <2>2 DEF Layout, JournalTail
    <3>2. CASE u = t /\ q = p
      <4>1. e[t] = 0 + (p - r.journal[t].pg)
        <5>1. e[t] \in Int
          BY <1>5
        <5>2. QED
          BY <1>14, <5>1
      <4>2. QED
        BY <1>8, <1>9, <3>2, <4>1
    <3>3. CASE ~(u = t /\ q = p)
      BY <1>9, <1>14, <3>1, <3>3
    <3>4. QED
      BY <3>2, <3>3
  <2>3. QED
    BY <1>14, <2>0, <2>1, <2>2
<1>20. \E u \in Temp : nand'[r.journal[u].blk][MAX_DIRTY_PAGES - 1] = Erased
  <2>1. Other(t) \in Temp /\ Other(t) # t
    BY DEF Other, Temp
  <2>2. /\ MAX_DIRTY_PAGES - 1 \in Page
        /\ MAX_DIRTY_PAGES - 1 >= journal[Other(t)].pg
    <3>1. MAX_DIRTY_PAGES - 1 \in Page
      BY PPBAssumption DEF Page, MAX_DIRTY_PAGES
    <3>2. QED
      BY <1>14, <1>18, <2>1, <3>1, SizeFacts
  <2>3. nand[journal[Other(t)].blk][MAX_DIRTY_PAGES - 1] = Erased
    BY <1>2, <1>18, <2>1, <2>2 DEF Layout, JournalTail
  <2>4. journal[Other(t)].blk # j
    BY <1>14, <2>1
  <2>5. QED
    BY <1>9, <1>14, <2>1, <2>2, <2>3, <2>4
<1>21. FlashInv' /\ (ExactIn(r) => ExactInv')
  BY <1>2, <1>5, <1>6, <1>10, <1>12, <1>13, <1>15, <1>16, <1>17, <1>19, <1>20, OffMount
<1>22. QED
  BY <1>5, <1>10, <1>21

\* Power lost in a reclaim leaves the risk that names it.
LEMMA LossInReclaimMount ==
  ASSUME FlashInv, NEW t \in Temp, PowerLossInReclaim(t), Safe'
  PROVE  FALSE
<1>1. ~torn /\ \A u \in Temp : ~MetaWritten(root.journal[u].blk)
  BY SafeLoss DEF PowerLossInReclaim
<1>2. /\ TypeOK /\ Layout /\ pc = t /\ CommittedIn(root, edition)
      /\ root \in TableType /\ edition \in [Temp -> Nat]
  BY <1>1, OnLayout DEF FlashInv, PowerLossInReclaim, MountTypeOK
<1>3. nand[journal[t].blk][MAX_DIRTY_PAGES] = MetaPage
  BY <1>2, FullJournal
<1>4. root.journal[t].blk = journal[t].blk
  BY <1>2, CommittedJournals
<1>5. QED
  BY <1>1, <1>3, <1>4 DEF MetaWritten, MetaPage, Erased

\* A device that hangs was not safe to lose power.
LEMMA HungLoss ==
  ASSUME HungInv, PowerLoss, Safe'
  PROVE  FALSE
BY SafeLoss DEF HungInv, PowerLoss

(***************************************************************************)
(* FTL_Init.                                                               *)
(***************************************************************************)

\* Without their flags the counts stay within bounds.
LEMMA UnpinSound ==
  ASSUME TypeOK, Sound, bdt' = Unpinned(bdt),
         nand' = nand, pmt' = pmt, journal' = journal, reclaim' = reclaim
  PROVE  Sound' /\ bdt' \in [Block -> Nat]
<1>1. Roles /\ ReclaimReady /\ MetaInv /\ MapInv /\ Bounded
  BY DEF Sound
<1>2. ASSUME NEW b \in Block
      PROVE  /\ bdt[b] \in Nat
             /\ bdt'[b] = IF bdt[b] >= BACKUPFLAG THEN bdt[b] - BACKUPFLAG ELSE bdt[b]
  BY DEF TypeOK, Unpinned
<1>3. Roles' /\ MapInv'
  BY <1>1 DEF Roles, MapInv, Mapped, CellAt
<1>4. ReclaimReady'
  <2>1. bdt[reclaim] = 0 /\ reclaim \in Block /\ ~(0 >= BACKUPFLAG)
    BY <1>1 DEF ReclaimReady, TypeOK, BACKUPFLAG
  <2>2. QED
    BY <1>1, <1>2, <2>1 DEF ReclaimReady
<1>5. MetaInv'
  <2>1. \A b \in Block : bdt[b] = MAX_DIRTY_PAGES => bdt'[b] = MAX_DIRTY_PAGES
    BY <1>2, SizeFacts DEF BACKUPFLAG
  <2>2. QED
    BY <1>1, <2>1 DEF MetaInv, IsJournal
<1>6. ASSUME NEW b \in Block
      PROVE  /\ bdt'[b] + Cardinality(LivePages(b)') <=
                  Written(b)' + (IF bdt'[b] >= BACKUPFLAG THEN BACKUPFLAG ELSE 0)
             /\ bdt'[b] \in Nat
  <2>1. LivePages(b)' = LivePages(b) /\ Written(b)' = Written(b)
    BY DEF LivePages, Written
  <2>2. /\ bdt[b] + Cardinality(LivePages(b)) <=
             Written(b) + (IF bdt[b] >= BACKUPFLAG THEN BACKUPFLAG ELSE 0)
        /\ Cardinality(LivePages(b)) \in Nat /\ Written(b) \in Nat
    <3>1. Written(b) \in Nat
      BY WrittenFacts
    <3>2. QED
      BY <1>1, <3>1, LivePagesFinite DEF Bounded, Flagged
  <2>3. PICK n \in Nat : n = Cardinality(LivePages(b))
    BY <2>2
  <2>4. PICK w \in Nat : w = Written(b)
    BY <2>2
  <2>5. /\ bdt'[b] + n <= w /\ bdt'[b] \in Nat
    BY <1>2, <2>2, <2>3, <2>4 DEF BACKUPFLAG
  <2>6. bdt'[b] + n <= w + (IF bdt'[b] >= BACKUPFLAG THEN BACKUPFLAG ELSE 0)
    BY <2>3, <2>4, <2>5 DEF BACKUPFLAG
  <2>7. QED
    BY <2>1, <2>3, <2>4, <2>5, <2>6
<1>7. Bounded'
  BY <1>6 DEF Bounded, Flagged
<1>8. bdt' \in [Block -> Nat]
  BY <1>6 DEF Unpinned
<1>9. QED
  BY <1>3, <1>4, <1>5, <1>7, <1>8 DEF Sound

LEMMA InitTablesMount ==
  ASSUME FlashInv, InitTables
  PROVE  FlashInv' /\ pc' # "hung" /\ (ExactInv /\ "threshold" \notin risks' => ExactInv')
<1> DEFINE drop == root.count >= THRESHOLD
<1>1. /\ TypeOK /\ MountTypeOK /\ Sound /\ FillOrder /\ JournalFill /\ TailInv /\ PowerInv
      /\ power = "off" /\ power' = "hot" /\ pc = "idle" /\ pc' = "idle"
      /\ root = Ram /\ edition = NoEditions /\ ~torn
      /\ CommittedIn(root, edition)
  BY DEF FlashInv, PowerInv, InitTables
<1>2. /\ pmt' = pmt /\ journal' = journal /\ reclaim' = reclaim
      /\ bdt' = IF drop THEN Unpinned(bdt) ELSE bdt
      /\ backup_block_count' = IF drop THEN 0 ELSE backup_block_count
      /\ risks' = risks \cup (IF drop THEN {"threshold"} ELSE {})
      /\ nand' = nand /\ spare1' = spare1 /\ root' = root /\ torn' = torn
      /\ edition' = edition
      /\ latest' = latest /\ benign' = benign /\ asked' = asked /\ starved' = starved
  BY <1>1 DEF InitTables, Ram, history
<1> HIDE DEF drop
<1>3. Sound' /\ bdt' \in [Block -> Nat] /\ (~drop /\ Exact => Exact')
  <2>1. CASE drop
    BY <1>1, <1>2, <2>1, UnpinSound
  <2>2. CASE ~drop
    <3>1. bdt' = bdt
      BY <1>2, <2>2
    <3>2. Sound'
      BY <1>1, <1>2, <3>1
         DEF Sound, Roles, ReclaimReady, MetaInv, MapInv, Bounded, IsJournal, Mapped,
             CellAt, LivePages, Written, Flagged
    <3>3. Exact => Exact'
      BY <1>2, <3>1 DEF Exact, Flagged, LivePages, Written
    <3>4. QED
      BY <1>1, <3>1, <3>2, <3>3 DEF TypeOK
  <2>3. QED
    BY <2>1, <2>2
<1>4. TypeOK'
  BY <1>1, <1>2, <1>3 DEF TypeOK
<1>5. MountTypeOK'
  BY <1>1, <1>2 DEF MountTypeOK, Risks, Temp
<1>6. FillOrder' /\ JournalFill'
  BY <1>1, <1>2 DEF FillOrder, JournalFill
<1>7. TailInv'
  BY <1>1, <1>2 DEF TailInv, TailPage, Settled
<1>8. PowerInv'
  BY <1>1, <1>2 DEF PowerInv, NoEditions, Temp
<1>9. CommittedIn(root, edition)' /\ (ExactIn(root) => ExactIn(root)')
  <2>1. PICK r : r = root
    OBVIOUS
  <2>2. PICK e : e = edition
    OBVIOUS
  <2>3. CommittedIn(r, e) /\ r \in TableType /\ e \in [Temp -> Nat]
    BY <1>1, <2>1, <2>2 DEF MountTypeOK
  <2>4. AppendedTo(Ram)
    BY <1>2 DEF AppendedTo
  <2>5. CommittedIn(r, e)' /\ (ExactIn(r) => ExactIn(r)')
    BY <1>1, <1>2, <1>4, <2>3, <2>4, KeptCommitted
  <2>6. QED
    BY <1>2, <2>1, <2>2, <2>5
<1>10. FlashInv'
  BY <1>3, <1>4, <1>5, <1>6, <1>7, <1>8, <1>9 DEF FlashInv
<1>11. ExactInv /\ "threshold" \notin risks' => ExactInv'
  <2>1. "threshold" \notin risks' => ~drop
    BY <1>2
  <2>2. QED
    BY <1>1, <1>3, <1>9, <2>1 DEF ExactInv
<1>12. QED
  BY <1>1, <1>10, <1>11

\* What DATA_Replay is at when it can read a page: a data page with the edition
\* that comes next.
LEMMA ReplayAt ==
  ASSUME FlashInv, NEW t \in Temp, Readable(t)
  PROVE  /\ power = t /\ pc = "idle" /\ journal[t].blk \in Block
         /\ journal[t].pg \in DataPage /\ journal[t].pg \in Page
         /\ journal[t].blk # reclaim
         /\ journal[t] = [blk |-> journal[t].blk, pg |-> journal[t].pg]
         /\ CellAt(journal[t]).kind = "data" /\ CellAt(journal[t]).addr \in Addr
         /\ Follows(t)
<1>1. /\ power = t /\ pc = "idle" /\ CellAt(journal[t]) # Erased
      /\ TypeOK /\ TailInv /\ MountTypeOK /\ Sound
  BY DEF Readable, FlashInv
<1>2. /\ journal[t] = [blk |-> journal[t].blk, pg |-> journal[t].pg]
      /\ journal[t].pg \in Page /\ journal[t].pg \in Int
  BY <1>1, SizeFacts DEF TypeOK
<1>3. journal[t].blk \in Block /\ journal[t].blk # reclaim
  BY <1>1 DEF Sound, Roles, Temp
<1>4. ~Settled(t)
  BY <1>1 DEF Settled, Temp
<1>5. TailPage(t, journal[t].pg)
  BY <1>1, <1>2 DEF TailInv
<1>6. /\ journal[t].pg # MAX_DIRTY_PAGES /\ CellAt(journal[t]).kind = "data"
      /\ spare1[journal[t].blk][journal[t].pg] = edition[t] + (journal[t].pg - journal[t].pg)
  BY <1>1, <1>4, <1>5 DEF TailPage, CellAt
<1>7. Follows(t)
  <2>1. edition[t] \in Nat
    BY <1>1 DEF MountTypeOK
  <2>2. QED
    BY <1>2, <1>6, <2>1 DEF Follows
<1>8. journal[t].pg \in DataPage
  BY <1>2, <1>6, SizeFacts DEF Page, DataPage
<1>9. CellAt(journal[t]).addr \in Addr
  BY <1>1, <1>2, <1>3, <1>6, DataCellFacts DEF CellAt
<1>10. QED
  BY <1>1, <1>2, <1>3, <1>6, <1>7, <1>8, <1>9

LEMMA ReplayRemaps ==
  ASSUME FlashInv, NEW t \in Temp, ReplayPage(t)
  PROVE  LET a == CellAt(journal[t]).addr
         IN  /\ a \in Addr /\ RemapEffect(a, t) /\ PMT_Update(a, journal[t], FALSE)
             /\ nand' = nand /\ journal[t].pg \in Int /\ power = t
<1> DEFINE a == CellAt(journal[t]).addr
<1>1. /\ Readable(t) /\ PMT_Update(a, journal[t], FALSE)
      /\ journal' = [journal EXCEPT ![t] = NextPage(journal[t])]
      /\ nand' = nand /\ reclaim' = reclaim
  BY DEF ReplayPage
<1>2. /\ journal[t].blk \in Block /\ journal[t].pg \in DataPage /\ journal[t].pg \in Page
      /\ journal[t].blk # reclaim /\ a \in Addr /\ CellAt(journal[t]).kind = "data"
      /\ journal[t] = [blk |-> journal[t].blk, pg |-> journal[t].pg]
      /\ power = t
  BY <1>1, ReplayAt
<1>3. NextPage(journal[t]) = [blk |-> journal[t].blk, pg |-> journal[t].pg + 1]
  <2>1. journal[t].pg < MAX_DIRTY_PAGES
    BY <1>2, SizeFacts DEF DataPage
  <2>2. QED
    BY <1>2, <2>1 DEF NextPage
<1>4. pmt' = [pmt EXCEPT ![a] = [blk |-> journal[t].blk, pg |-> journal[t].pg]]
  BY <1>1, <1>2 DEF PMT_Update
<1>5. RemapEffect(a, t)
  BY <1>1, <1>2, <1>3, <1>4 DEF RemapEffect, CellAt
<1>6. QED
  BY <1>1, <1>2, <1>5, SizeFacts

LEMMA ReplayPageMount ==
  ASSUME FlashInv, NEW t \in Temp, ReplayPage(t)
  PROVE  FlashInv' /\ pc' # "hung" /\ (ExactInv => ExactInv')
<1>0. PICK a : a = CellAt(journal[t]).addr
  OBVIOUS
<1>1. /\ TypeOK /\ MountTypeOK /\ Sound /\ FillOrder /\ JournalFill /\ TailInv /\ PowerInv
      /\ ~torn => CommittedIn(root, edition)
      /\ Readable(t) /\ Follows(t) /\ ReplayLoad(a, t)
      /\ journal' = [journal EXCEPT ![t] = NextPage(journal[t])]
      /\ nand' = nand /\ reclaim' = reclaim /\ pc' = pc /\ spare1' = spare1
      /\ latest' = latest /\ benign' = benign /\ asked' = asked /\ starved' = starved
      /\ power' = power /\ risks' = risks
  BY <1>0 DEF FlashInv, ReplayPage, history
<1>2. /\ a \in Addr /\ RemapEffect(a, t) /\ PMT_Update(a, journal[t], FALSE)
      /\ journal[t].pg \in Int /\ power = t
  BY <1>0, ReplayRemaps
<1>3. /\ journal[t].blk \in Block /\ journal[t].pg \in Page /\ pc = "idle"
      /\ journal[t].pg \in DataPage
      /\ CellAt(journal[t]) # Erased
  BY <1>1, ReplayAt DEF Readable
<1>4. /\ journal'[t].blk = journal[t].blk /\ journal'[t].pg = journal[t].pg + 1
      /\ \A u \in Temp : u # t => journal'[u] = journal[u]
      /\ \A u \in Temp : journal'[u].blk = journal[u].blk
  BY <1>1, <1>2 DEF RemapEffect, TypeOK
<1>5. TypeOK'
  <2>1. journal[t] \in PmNode
    BY <1>1, <1>3 DEF TypeOK, PmNode
  <2>2. journal' \in [Temp -> [blk : 0 .. NBlock, pg : Page]]
    BY <1>1, <2>1, NextPageType DEF TypeOK
  <2>3. /\ pmt' \in [Addr -> MaybeNode] /\ bdt' \in [Block -> Nat]
        /\ backup_block_count' \in Nat
    BY <1>1, <1>2, <2>1, PmtUpdateType DEF MaybeNode
  <2>4. QED
    BY <1>1, <2>2, <2>3 DEF TypeOK
<1>6. Sound' /\ (Exact => Exact')
  <2>1. FALSE \in BOOLEAN
    OBVIOUS
  <2>2. QED
    BY <1>1, <1>2, <2>1, RemapSound
<1>7. /\ root' = IF Evicts(a, cached) THEN Ram ELSE root
      /\ torn' = (torn \/ Evicts(a, cached))
      /\ edition' = [(IF Evicts(a, cached) THEN NoEditions ELSE edition)
                       EXCEPT ![t] = edition[t] + 1]
  BY <1>1 DEF ReplayLoad
<1>8. /\ edition \in [Temp -> Nat] /\ NoEditions \in [Temp -> Nat]
      /\ edition' \in [Temp -> Nat] /\ edition'[t] = edition[t] + 1 /\ edition[t] \in Nat
      /\ \A u \in Temp : u # t => edition'[u] \in {0, edition[u]}
  <2>1. edition \in [Temp -> Nat] /\ NoEditions \in [Temp -> Nat]
    BY <1>1 DEF MountTypeOK, NoEditions
  <2>2. QED
    BY <1>7, <2>1 DEF NoEditions
<1>9. MountTypeOK'
  <2>1. Ram \in TableType
    BY <1>1, RamType
  <2>2. torn' \in BOOLEAN
    BY <1>1, <1>7 DEF MountTypeOK, Evicts
  <2>3. QED
    BY <1>1, <1>7, <1>8, <2>1, <2>2 DEF MountTypeOK
<1>10. FillOrder' /\ JournalFill'
  <2>1. FillOrder'
    BY <1>1 DEF FillOrder
  <2>2. ASSUME NEW u \in Temp, NEW q \in Page, journal'[u].blk \in Block,
               q < journal'[u].pg
        PROVE  nand[journal[u].blk][q] # Erased
    <3>1. CASE u = t /\ q >= journal[t].pg
      <4>1. q = journal[t].pg
        BY <1>2, <1>4, <2>2, <3>1, SizeFacts
      <4>2. QED
        BY <1>3, <3>1, <4>1 DEF CellAt
    <3>2. CASE ~(u = t /\ q >= journal[t].pg)
      <4>1. q < journal[u].pg
        BY <1>2, <1>4, <2>2, <3>2, SizeFacts
      <4>2. QED
        BY <1>1, <1>4, <2>2, <4>1 DEF JournalFill
    <3>3. QED
      BY <3>1, <3>2
  <2>3. QED
    BY <1>1, <1>4, <2>1, <2>2 DEF JournalFill
<1>11. "cold" # t => edition'["cold"] = 0 \/ power # "hot"
  BY <1>1, <1>2, <1>8 DEF PowerInv, Temp
<1>12. TailInv'
  <2> SUFFICES ASSUME NEW u \in Temp, NEW q \in Page, q >= journal'[u].pg
               PROVE  TailPage(u, q)'
    BY DEF TailInv
  <2>1. CASE u = t
    <3>1. q >= journal[t].pg /\ q \in Int /\ ~Settled(t) /\ ~Settled(t)'
      <4>1. q >= journal[t].pg /\ q \in Int
        BY <1>2, <1>4, <2>1, SizeFacts
      <4>2. QED
        BY <1>1, <1>2, <4>1 DEF Settled, Temp
    <3>2. TailPage(t, q)
      BY <1>1, <3>1 DEF TailInv
    <3>3. edition[t] + (q - journal[t].pg) = edition'[t] + (q - journal'[t].pg)
      <4>1. PICK x \in Nat : x = edition[t]
        BY <1>8
      <4>2. PICK y \in Int : y = journal[t].pg
        BY <1>2
      <4>3. x + (q - y) = (x + 1) + (q - (y + 1))
        BY <3>1
      <4>4. QED
        BY <1>4, <1>8, <4>1, <4>2, <4>3
    <3>4. QED
      BY <1>1, <1>4, <2>1, <3>1, <3>2, <3>3 DEF TailPage
  <2>2. CASE u # t
    <3>1. journal'[u] = journal[u] /\ TailPage(u, q)
      BY <1>1, <1>4, <2>2 DEF TailInv
    <3>2. Settled(u)' <=> Settled(u)
      BY <1>1 DEF Settled
    <3>3. CASE Settled(u)
      BY <1>1, <3>1, <3>2, <3>3 DEF TailPage
    <3>4. CASE ~Settled(u)
      <4>1. u = "cold" /\ power = "hot"
        BY <1>2, <2>2, <3>4 DEF Settled, Temp
      <4>2. edition'[u] = edition[u]
        BY <1>1, <1>11, <2>2, <4>1 DEF PowerInv
      <4>3. QED
        BY <1>1, <3>1, <3>2, <3>4, <4>2 DEF TailPage
    <3>5. QED
      BY <3>3, <3>4
  <2>3. QED
    BY <2>1, <2>2
<1>13. PowerInv'
  <2>1. power = "hot" => edition'["cold"] = 0
    BY <1>2, <1>11
  <2>2. \E u \in Temp : nand'[journal'[u].blk][MAX_DIRTY_PAGES - 1] = Erased
    BY <1>1, <1>4 DEF PowerInv
  <2>3. power' = t /\ t # "on" /\ t # "off"
    BY <1>1, <1>2 DEF Temp
  <2>4. QED
    BY <1>1, <1>3, <2>1, <2>2, <2>3 DEF PowerInv
<1>14. ASSUME ~torn' PROVE CommittedIn(root, edition)' /\ (ExactIn(root) => ExactIn(root)')
  <2>1. PICK r : r = root
    OBVIOUS
  <2>2. PICK e : e = edition
    OBVIOUS
  <2>3. /\ ~torn /\ root' = r /\ edition' = [e EXCEPT ![t] = e[t] + 1]
        /\ CommittedIn(r, e) /\ r \in TableType /\ e \in [Temp -> Nat]
    BY <1>1, <1>7, <1>14, <2>1, <2>2 DEF MountTypeOK
  <2>4. spare1'[journal[t].blk][journal[t].pg] = e[t]
    BY <1>1, <2>2 DEF Follows
  <2>5. /\ CommittedIn(r, [e EXCEPT ![t] = e[t] + 1])'
        /\ ExactIn(r) => ExactIn(r)'
    BY <1>1, <1>2, <1>5, <2>3, <2>4, RemapCommitted
  <2>6. QED
    BY <2>1, <2>3, <2>5
<1>15. FlashInv'
  BY <1>5, <1>6, <1>9, <1>10, <1>12, <1>13, <1>14 DEF FlashInv
<1>16. ExactInv => ExactInv'
  <2>1. ~torn' => ~torn
    BY <1>7
  <2>2. QED
    BY <1>1, <1>3, <1>6, <1>14, <2>1 DEF ExactInv
<1>17. QED
  BY <1>1, <1>3, <1>15, <1>16

\* The editions of the pages left count on: the loop never spins.
LEMMA ReplaySpinsMount ==
  ASSUME FlashInv, NEW t \in Temp, ReplaySpins(t)
  PROVE  FALSE
BY ReplayAt DEF ReplaySpins

\* The end of DATA_Replay: what is left of the journal is erased, and the
\* meta data page is written exactly when the journal is full.
ReplayEffect(t) ==
  LET j == journal[t].blk
  IN  /\ power = t /\ pc = "idle" /\ j \in Block
      /\ \A q \in Page : q >= journal[t].pg => nand[j][q] = Erased
      /\ nand' = IF journal[t].pg = MAX_DIRTY_PAGES
                 THEN [nand EXCEPT ![j][MAX_DIRTY_PAGES] = MetaPage] ELSE nand
      /\ \A b \in Block, q \in Page :
           nand'[b][q] = IF b = j /\ q = MAX_DIRTY_PAGES
                            /\ journal[t].pg = MAX_DIRTY_PAGES
                         THEN MetaPage ELSE nand[b][q]
      /\ pmt' = pmt /\ bdt' = bdt /\ backup_block_count' = backup_block_count
      /\ journal' = journal /\ reclaim' = reclaim
      /\ latest' = latest /\ benign' = benign /\ asked' = asked /\ starved' = starved
      /\ root' = root /\ edition' = edition /\ spare1' = spare1 /\ torn' = torn
      /\ risks' = risks

LEMMA ReplayEndsEffect ==
  ASSUME FlashInv, NEW t \in Temp, ReplayEnds(t)
  PROVE  ReplayEffect(t)
<1> DEFINE j == journal[t].blk
           p == journal[t].pg
<1>1. /\ TypeOK /\ FillOrder /\ JournalFill /\ Sound
      /\ power = t /\ pc = "idle" /\ nand[j][p] = Erased /\ nand' = MetaRebuilt(j)
  BY DEF FlashInv, ReplayEnds, CellAt
<1>2. j \in Block /\ p \in Page /\ p \in Int /\ p <= MAX_DIRTY_PAGES
  <2>1. j \in Block
    BY <1>1 DEF Sound, Roles, Temp
  <2>2. p \in Page /\ p \in Int
    BY <1>1, SizeFacts DEF TypeOK
  <2>3. QED
    BY <2>1, <2>2, SizeFacts DEF Page
<1>3. \A q \in Page : q >= p => nand[j][q] = Erased
  <2> SUFFICES ASSUME NEW q \in Page, q >= p, nand[j][q] # Erased PROVE FALSE
    OBVIOUS
  <2>1. q # p /\ q \in Int
    BY <1>1, SizeFacts
  <2>2. p < q
    BY <1>2, <2>1
  <2>3. QED
    BY <1>1, <1>2, <2>2 DEF FillOrder
<1>4. (\A q \in DataPage : nand[j][q] # Erased) <=> p = MAX_DIRTY_PAGES
  <2>1. ASSUME p = MAX_DIRTY_PAGES, NEW q \in DataPage
        PROVE  nand[j][q] # Erased
    <3>1. q \in Page /\ q < p
      BY <2>1, SizeFacts DEF DataPage
    <3>2. QED
      BY <1>1, <1>2, <3>1 DEF JournalFill
  <2>2. ASSUME p # MAX_DIRTY_PAGES
        PROVE  p \in DataPage /\ nand[j][p] = Erased
    BY <1>1, <1>2, <2>2, SizeFacts DEF Page, DataPage
  <2>3. QED
    BY <2>1, <2>2
<1>5. nand[j][MAX_DIRTY_PAGES] = Erased
  BY <1>2, <1>3, SizeFacts
<1>6. nand' = IF p = MAX_DIRTY_PAGES
              THEN [nand EXCEPT ![j][MAX_DIRTY_PAGES] = MetaPage] ELSE nand
  BY <1>1, <1>4, <1>5 DEF MetaRebuilt
<1>7. \A b \in Block, q \in Page :
        nand'[b][q] = IF b = j /\ q = MAX_DIRTY_PAGES /\ p = MAX_DIRTY_PAGES
                      THEN MetaPage ELSE nand[b][q]
  <2>1. nand \in [Block -> [Page -> Cell]] /\ MAX_DIRTY_PAGES \in Page
    BY <1>1, SizeFacts DEF TypeOK
  <2> HIDE DEF j, p
  <2>2. QED
    BY <1>2, <1>6, <2>1
<1>8. QED
  BY <1>1, <1>2, <1>3, <1>6, <1>7 DEF ReplayEffect, ReplayEnds, history

LEMMA ReplayEndsMount ==
  ASSUME FlashInv, NEW t \in Temp, ReplayEnds(t)
  PROVE  FlashInv' /\ pc' # "hung" /\ (ExactInv => ExactInv')
<1> DEFINE j == journal[t].blk
           p == journal[t].pg
<1>1. /\ TypeOK /\ MountTypeOK /\ Sound /\ FillOrder /\ JournalFill /\ TailInv /\ PowerInv
      /\ ~torn => CommittedIn(root, edition)
  BY DEF FlashInv
<1>2. /\ power = t /\ j \in Block
      /\ \A q \in Page : q >= p => nand[j][q] = Erased
      /\ \A b \in Block, q \in Page :
           nand'[b][q] = IF b = j /\ q = MAX_DIRTY_PAGES /\ p = MAX_DIRTY_PAGES
                         THEN MetaPage ELSE nand[b][q]
      /\ nand' = IF p = MAX_DIRTY_PAGES
                 THEN [nand EXCEPT ![j][MAX_DIRTY_PAGES] = MetaPage] ELSE nand
      /\ pmt' = pmt /\ bdt' = bdt /\ backup_block_count' = backup_block_count
      /\ journal' = journal /\ reclaim' = reclaim
      /\ latest' = latest /\ benign' = benign /\ asked' = asked /\ starved' = starved
      /\ root' = root /\ edition' = edition /\ spare1' = spare1 /\ torn' = torn
      /\ risks' = risks
  BY ReplayEndsEffect DEF ReplayEffect
<1>3. /\ power' = IF t = "hot" THEN "cold" ELSE "on"
      /\ pc' = IF t = "hot" THEN "idle"
               ELSE IF IsFull(journal["hot"]) THEN "hot"
               ELSE IF IsFull(journal["cold"]) THEN "cold" ELSE "idle"
  BY DEF ReplayEnds
<1>4. /\ p \in Page /\ p \in Int /\ p <= MAX_DIRTY_PAGES
      /\ \A u \in Temp : /\ journal[u].blk \in Block /\ journal[u].pg \in Int
                         /\ journal[u].pg <= MAX_DIRTY_PAGES
      /\ \A u, v \in Temp : journal[u].blk = journal[v].blk => u = v
  <2>1. \A u \in Temp : journal[u].pg \in Page
    BY <1>1 DEF TypeOK
  <2>2. QED
    BY <1>1, <2>1, SizeFacts DEF Sound, Roles, Temp, Page
<1>5. TypeOK'
  <2>1. nand' \in [Block -> [Page -> Cell]]
    <3>1. nand \in [Block -> [Page -> Cell]] /\ MAX_DIRTY_PAGES \in Page /\ MetaPage \in Cell
      BY <1>1, SizeFacts DEF TypeOK, Cell
    <3> HIDE DEF j, p
    <3>2. QED
      BY <1>2, <3>1
  <2>2. pc' \in PcValues
    BY <1>3 DEF PcValues, Temp
  <2>3. QED
    BY <1>1, <1>2, <2>1, <2>2 DEF TypeOK
<1>6. MountTypeOK'
  BY <1>1, <1>2, <1>3 DEF MountTypeOK, Temp
<1>7. AppendedTo(Ram)
  BY <1>2, <1>4 DEF AppendedTo, Ram
<1>8. Sound' /\ (Exact => Exact')
  <2>1. PICK s : s = Ram
    OBVIOUS
  <2>2. s \in TableType /\ SoundIn(s) /\ (Exact <=> ExactIn(s)) /\ AppendedTo(s)
    BY <1>1, <1>7, <2>1, RamType, RamFacts
  <2>3. SoundIn(s)' /\ (ExactIn(s) => ExactIn(s)')
    BY <1>1, <1>5, <2>2, SoundKept
  <2>4. Ram' = s
    BY <1>2, <2>1 DEF Ram
  <2>5. QED
    BY <1>5, <2>2, <2>3, <2>4, RamNext
<1>9. ~torn' => CommittedIn(root, edition)' /\ (ExactIn(root) => ExactIn(root)')
  <2> SUFFICES ASSUME ~torn'
               PROVE  CommittedIn(root, edition)' /\ (ExactIn(root) => ExactIn(root)')
    OBVIOUS
  <2>1. PICK r : r = root
    OBVIOUS
  <2>2. PICK e : e = edition
    OBVIOUS
  <2>3. CommittedIn(r, e) /\ r \in TableType /\ e \in [Temp -> Nat]
    BY <1>1, <1>2, <2>1, <2>2 DEF MountTypeOK
  <2>4. CommittedIn(r, e)' /\ (ExactIn(r) => ExactIn(r)')
    BY <1>1, <1>2, <1>5, <1>7, <2>3, KeptCommitted
  <2>5. QED
    BY <1>2, <2>1, <2>2, <2>4
<1>10. FillOrder' /\ JournalFill'
  <2>1. \A b \in Block, q \in Page : nand[b][q] # Erased => nand'[b][q] # Erased
    BY <1>2 DEF Erased, MetaPage
  <2>2. FillOrder'
    <3> SUFFICES ASSUME NEW b \in Block, NEW q \in Page, NEW s \in Page, q < s,
                        nand'[b][s] # Erased
                 PROVE  nand'[b][q] # Erased
      BY DEF FillOrder
    <3>1. CASE nand[b][s] # Erased
      BY <1>1, <2>1, <3>1 DEF FillOrder
    <3>2. CASE nand[b][s] = Erased
      <4>1. b = j /\ s = MAX_DIRTY_PAGES /\ p = MAX_DIRTY_PAGES
        BY <1>2, <3>2
      <4>2. nand[j][q] # Erased
        BY <1>1, <1>4, <4>1 DEF JournalFill
      <4>3. QED
        BY <2>1, <4>1, <4>2
    <3>3. QED
      BY <3>1, <3>2
  <2>3. JournalFill'
    BY <1>1, <1>2, <2>1 DEF JournalFill
  <2>4. QED
    BY <2>2, <2>3
<1>11. TailInv'
  <2> SUFFICES ASSUME NEW u \in Temp, NEW q \in Page, q >= journal[u].pg
               PROVE  TailPage(u, q)'
    BY <1>2 DEF TailInv
  <2>1. CASE u = t
    <3>1. Settled(t)'
      BY <1>3 DEF Settled, Temp
    <3>2. nand'[j][q] = IF IsFull(journal[t]) THEN MetaPage ELSE Erased
      <4>1. q \in Int /\ q <= MAX_DIRTY_PAGES
        BY SizeFacts DEF Page
      <4>2. CASE p = MAX_DIRTY_PAGES
        <5>1. q = MAX_DIRTY_PAGES
          BY <1>4, <2>1, <4>1, <4>2, SizeFacts
        <5>2. IsFull(journal[t])
          BY <4>2, SizeFacts DEF IsFull
        <5>3. QED
          BY <1>2, <4>2, <5>1, <5>2
      <4>3. CASE p # MAX_DIRTY_PAGES
        <5>1. ~IsFull(journal[t])
          BY <1>4, <4>3, SizeFacts DEF IsFull
        <5>2. QED
          BY <1>2, <2>1, <4>3, <5>1
      <4>4. QED
        BY <4>2, <4>3
    <3>3. QED
      BY <1>2, <2>1, <3>1, <3>2 DEF TailPage
  <2>2. CASE u # t
    <3>1. TailPage(u, q) /\ nand'[journal[u].blk][q] = nand[journal[u].blk][q]
      BY <1>1, <1>2, <1>4, <2>2 DEF TailInv
    <3>2. Settled(u)' <=> Settled(u)
      BY <1>2, <1>3, <2>2 DEF Settled, Temp
    <3>3. QED
      BY <1>2, <3>1, <3>2 DEF TailPage
  <2>3. QED
    BY <2>1, <2>2
<1>12. PowerInv' /\ pc' # "hung"
  <2>1. PICK u \in Temp : nand[journal[u].blk][MAX_DIRTY_PAGES - 1] = Erased
    BY <1>1 DEF PowerInv
  <2>2. MAX_DIRTY_PAGES - 1 \in Page /\ MAX_DIRTY_PAGES - 1 # MAX_DIRTY_PAGES
    BY PPBAssumption DEF Page, MAX_DIRTY_PAGES
  <2>3. nand'[journal[u].blk][MAX_DIRTY_PAGES - 1] = Erased
    BY <1>2, <1>4, <2>1, <2>2
  <2>4. ~IsFull(journal[u])
    <3> SUFFICES ASSUME IsFull(journal[u]) PROVE FALSE
      OBVIOUS
    <3>1. MAX_DIRTY_PAGES - 1 < journal[u].pg
      BY <1>4, SizeFacts DEF IsFull
    <3>2. QED
      BY <1>1, <1>4, <2>1, <2>2, <3>1 DEF JournalFill
  <2>5. power' = "on" => PcInv'
    <3>1. \A v \in Temp : IsFull(journal[v])' <=> IsFull(journal[v])
      BY <1>2 DEF IsFull
    <3>2. QED
      BY <1>2, <1>3, <2>4, <3>1 DEF PcInv, Temp, IsFull
  <2>6. QED
    BY <1>2, <1>3, <2>3, <2>5 DEF PowerInv, Temp
<1>13. FlashInv'
  BY <1>2, <1>5, <1>6, <1>8, <1>9, <1>10, <1>11, <1>12 DEF FlashInv
<1>14. ExactInv => ExactInv'
  BY <1>2, <1>8, <1>9, <1>12 DEF ExactInv
<1>15. QED
  BY <1>12, <1>13, <1>14

(***************************************************************************)
(* The steps together.                                                     *)
(***************************************************************************)

\* No page is programmed twice while nothing hangs.
LEMMA WriteAssertMount ==
  ASSUME FlashInv, pc # "hung", NEW t \in Temp, WriteAssert(t)
  PROVE  FALSE
<1>1. TypeOK /\ Layout /\ DATA_WriteAssert(t)
  BY OnLayout DEF FlashInv, WriteAssert
<1>2. QED
  BY <1>1, JournalProgrammable DEF DATA_WriteAssert

\* A device that hangs can only lose power.
LEMMA HungStep ==
  ASSUME pc = "hung", [MountNext]_allVars
  PROVE  PowerLoss \/ InitTables \/ UNCHANGED allVars
<1>1. "hung" \notin Temp /\ pc # "idle"
  BY DEF Temp
<1>2. CASE UNCHANGED allVars
  BY <1>2
<1>3. CASE MountNext
  BY <1>1, <1>3
     DEF MountNext, FTL_Write, PowerLossInWrite, Trim, FTL_Read, Reclaim, WriteAssert,
         PowerLossInReclaim, FTL_Flush, ReplayPage, ReplaySpins, ReplayEnds, Readable,
         DATA_Write, FTL_Trim, DATA_WriteAssert
<1>4. QED
  BY <1>2, <1>3

\* A starved device stays starved, and a risk stays a risk.
LEMMA RisksStay ==
  ASSUME [MountNext]_allVars
  PROVE  risks \subseteq risks' /\ (~starved' => ~starved)
<1>1. ASSUME [Next]_vars
      PROVE  ~starved' => ~starved
  BY <1>1, StarvedStays
<1>2. ASSUME NEW a \in Addr, NEW d \in Data, NEW t \in Temp, NEW tag \in Tags,
             FTL_Write(a, d, t, tag)
      PROVE  risks' = risks /\ [Next]_vars
  BY <1>2 DEF FTL_Write, Next
<1>3. ASSUME NEW a \in Addr, NEW d \in Data, NEW t \in Temp, NEW tag \in Tags,
             PowerLossInWrite(a, d, t, tag)
      PROVE  risks \subseteq risks' /\ starved' = starved
  BY <1>3 DEF PowerLossInWrite
<1>4. ASSUME NEW a \in Addr, NEW t \in Temp, Trim(a, t)
      PROVE  risks' = risks /\ [Next]_vars
  BY <1>4 DEF Trim, Next
<1>5. ASSUME NEW a \in Addr, FTL_Read(a)
      PROVE  risks' = risks /\ [Next]_vars
  BY <1>5 DEF FTL_Read
<1>6. ASSUME NEW t \in Temp, Reclaim(t)
      PROVE  risks' = risks /\ [Next]_vars
  <2>1. DATA_Reclaim(t)
    BY <1>6 DEF Reclaim, DATA_Reclaim
  <2>2. QED
    BY <1>6, <2>1 DEF Reclaim, Next
<1>7. ASSUME NEW t \in Temp, WriteAssert(t)
      PROVE  risks' = risks /\ [Next]_vars
  BY <1>7 DEF WriteAssert, mountVars, Next
<1>8. ASSUME NEW t \in Temp, PowerLossInReclaim(t)
      PROVE  risks \subseteq risks' /\ starved' = starved
  BY <1>8 DEF PowerLossInReclaim
<1>9. CASE FTL_Flush
  BY <1>1, <1>9 DEF FTL_Flush
<1>10. CASE PowerLoss \/ InitTables
  BY <1>10 DEF PowerLoss, InitTables
<1>11. ASSUME NEW t \in Temp, ReplayPage(t) \/ ReplaySpins(t) \/ ReplayEnds(t)
       PROVE  risks' = risks /\ starved' = starved
  BY <1>11 DEF ReplayPage, ReplaySpins, ReplayEnds, mountVars
<1>12. CASE UNCHANGED allVars
  BY <1>12 DEF allVars, vars, mountVars
<1>13. QED
  BY <1>1, <1>2, <1>3, <1>4, <1>5, <1>6, <1>7, <1>8, <1>9, <1>10, <1>11, <1>12
     DEF MountNext

\* A step from a state in which nothing hangs.
LEMMA FlashStep ==
  ASSUME FlashInv, pc # "hung", [MountNext]_allVars, Safe'
  PROVE  /\ pc' = "hung" => HungInv'
         /\ pc' # "hung" => FlashInv'
         /\ ExactInv /\ "threshold" \notin risks' => ExactInv'
<1>0. ~starved'
  BY DEF Safe
<1>1. ASSUME NEW a \in Addr, NEW d \in Data, NEW t \in Temp, NEW tag \in Tags,
             FTL_Write(a, d, t, tag)
      PROVE  FlashInv' /\ pc' # "hung" /\ (ExactInv => ExactInv')
  BY <1>0, <1>1, WriteMount
<1>2. ASSUME NEW a \in Addr, NEW d \in Data, NEW t \in Temp, NEW tag \in Tags,
             PowerLossInWrite(a, d, t, tag)
      PROVE  FlashInv' /\ pc' # "hung" /\ (ExactInv => ExactInv')
  BY <1>2, LossInWriteMount
<1>3. ASSUME NEW a \in Addr, NEW t \in Temp, Trim(a, t)
      PROVE  FlashInv' /\ pc' # "hung" /\ (ExactInv => ExactInv')
  BY <1>0, <1>3, TrimMount
<1>4. ASSUME NEW a \in Addr, FTL_Read(a)
      PROVE  FlashInv' /\ pc' # "hung" /\ (ExactInv => ExactInv')
  BY <1>0, <1>4, ReadMount
<1>5. ASSUME NEW t \in Temp, Reclaim(t)
      PROVE  /\ pc' = "hung" => HungInv'
             /\ pc' # "hung" => FlashInv'
             /\ ExactInv => ExactInv'
  BY <1>0, <1>5, ReclaimMount
<1>6. ASSUME NEW t \in Temp, WriteAssert(t) \/ PowerLossInReclaim(t) \/ ReplaySpins(t)
      PROVE  FALSE
  BY <1>6, WriteAssertMount, LossInReclaimMount, ReplaySpinsMount
<1>7. ASSUME FTL_Flush
      PROVE  FlashInv' /\ pc' # "hung" /\ (ExactInv => ExactInv')
  BY <1>0, <1>7, FlushMount
<1>8. ASSUME PowerLoss
      PROVE  FlashInv' /\ pc' # "hung" /\ (ExactInv => ExactInv')
  BY <1>8, LossMount
<1>9. ASSUME InitTables
      PROVE  FlashInv' /\ pc' # "hung" /\ (ExactInv /\ "threshold" \notin risks' => ExactInv')
  BY <1>9, InitTablesMount
<1>10. ASSUME NEW t \in Temp, ReplayPage(t)
       PROVE  FlashInv' /\ pc' # "hung" /\ (ExactInv => ExactInv')
  BY <1>10, ReplayPageMount
<1>11. ASSUME NEW t \in Temp, ReplayEnds(t)
       PROVE  FlashInv' /\ pc' # "hung" /\ (ExactInv => ExactInv')
  BY <1>11, ReplayEndsMount
<1>12. ASSUME UNCHANGED allVars
       PROVE  FlashInv' /\ pc' # "hung" /\ (ExactInv => ExactInv')
  <2>1. UNCHANGED <<nand, pmt, bdt, backup_block_count, journal, reclaim, pc, latest,
                    benign, asked, starved, root, edition, spare1, cached, power, losses,
                    torn, risks>>
    BY <1>12 DEF allVars, vars, device, history, mountVars
  <2>2. FlashInv' <=> FlashInv
    <3>1. TypeOK' <=> TypeOK
      BY <2>1 DEF TypeOK
    <3>2. MountTypeOK' <=> MountTypeOK
      BY <2>1 DEF MountTypeOK
    <3>3. Sound' <=> Sound
      BY <2>1 DEF Sound, Roles, ReclaimReady, MetaInv, MapInv, Bounded, IsJournal, Mapped,
                  CellAt, LivePages, Written, Flagged
    <3>4. (FillOrder' <=> FillOrder) /\ (JournalFill' <=> JournalFill)
      BY <2>1 DEF FillOrder, JournalFill
    <3>5. TailInv' <=> TailInv
      BY <2>1 DEF TailInv, TailPage, Settled, IsFull
    <3>6. PowerInv' <=> PowerInv
      BY <2>1 DEF PowerInv, PcInv, IsFull, Ram
    <3>7. CommittedIn(root, edition)' <=> CommittedIn(root, edition)
      BY <2>1 DEF CommittedIn, SoundIn, RolesIn, ReclaimReadyIn, MetaIn, MapIn, BoundedIn,
                  InJournal, CellAt, LiveIn, WrittenIn, Since, SinceOf, LastSince, Mapped
    <3>8. QED
      BY <2>1, <3>1, <3>2, <3>3, <3>4, <3>5, <3>6, <3>7 DEF FlashInv
  <2>3. ExactInv' <=> ExactInv
    BY <2>1 DEF ExactInv, Exact, ExactIn, Flagged, LivePages, LiveIn, Written, WrittenIn
  <2>4. QED
    BY <2>1, <2>2, <2>3
<1>13. QED
  BY <1>1, <1>2, <1>3, <1>4, <1>5, <1>6, <1>7, <1>8, <1>9, <1>10, <1>11, <1>12
     DEF MountNext

\* The part of MInv about the tables and the flash: it is inductive by itself.
BaseInv ==
  Safe => /\ pc = "hung" => HungInv
          /\ pc # "hung" => FlashInv
          /\ NoRisk({"threshold"}) => ExactInv

LEMMA MountInitFlash ==
  ASSUME MountInit
  PROVE  FlashInv /\ ExactInv /\ DeviceInv /\ pc = "idle" /\ power = "on" /\ root = Ram
<1>1. /\ Init /\ root = Ram /\ edition = NoEditions /\ power = "on" /\ ~torn
      /\ spare1 = [b \in Block |-> [p \in Page |-> NoEdition]] /\ risks = {}
  BY DEF MountInit
<1>2. TypeOK /\ DeviceInv /\ FillOrder /\ JournalFill /\ pc = "idle"
  BY <1>1, InitType, InitDeviceInv, FillInit DEF FillInv, Init
<1>3. MountTypeOK
  <2>1. Ram \in TableType /\ torn \in BOOLEAN
    BY <1>1, <1>2, RamType DEF MountInit
  <2>2. spare1 \in [Block -> [Page -> Int]] /\ edition \in [Temp -> Nat]
    BY <1>1 DEF NoEditions, NoEdition
  <2>3. QED
    BY <1>1, <2>1, <2>2 DEF MountTypeOK
<1>4. Layout /\ Sound /\ Exact
  BY <1>2 DEF DeviceInv, Layout
<1>5. CommittedIn(root, edition)
  BY <1>1, <1>2, <1>4, CommittedNow
<1>6. FlashInv
  BY <1>1, <1>2, <1>3, <1>4, <1>5, OnFlash DEF OnFacts
<1>7. ExactInv
  BY <1>1, <1>2, <1>4, RamFacts DEF ExactInv
<1>8. QED
  BY <1>1, <1>2, <1>6, <1>7

LEMMA SafeStays ==
  ASSUME [MountNext]_allVars, Safe'
  PROVE  Safe /\ \A r \in SUBSET Risks : NoRisk(r)' => NoRisk(r)
BY RisksStay DEF Safe, NoRisk

LEMMA BaseStep ==
  ASSUME BaseInv, [MountNext]_allVars
  PROVE  BaseInv'
<1> SUFFICES ASSUME Safe'
             PROVE  /\ pc' = "hung" => HungInv'
                    /\ pc' # "hung" => FlashInv'
                    /\ NoRisk({"threshold"})' => ExactInv'
  BY DEF BaseInv
<1>1. Safe /\ (NoRisk({"threshold"})' => NoRisk({"threshold"}))
  BY SafeStays DEF Risks
<1>2. CASE pc = "hung"
  <2>1. HungInv /\ ~NoRisk({"threshold"})
    BY <1>1, <1>2 DEF BaseInv, ExactInv
  <2>2. UNCHANGED allVars
    BY <1>2, <2>1, HungStep, HungLoss DEF HungInv, InitTables
  <2>3. HungInv' /\ pc' = "hung"
    BY <1>2, <2>1, <2>2 DEF HungInv, MetaWritten, allVars, vars, device, mountVars
  <2>4. QED
    BY <1>1, <2>1, <2>3
<1>3. CASE pc # "hung"
  <2>1. FlashInv /\ (NoRisk({"threshold"}) => ExactInv)
    BY <1>1, <1>3 DEF BaseInv
  <2>2. NoRisk({"threshold"})' => "threshold" \notin risks'
    BY DEF NoRisk
  <2>3. QED
    BY <1>1, <1>3, <2>1, <2>2, FlashStep
<1>4. QED
  BY <1>2, <1>3

\* As long as no power loss has left the tables behind a finished journal
\* block or in the middle of a write, the tables in RAM fit the flash, the
\* pages since the commit are there for DATA_Replay to count, and what is
\* committed is what RAM had before them.
THEOREM BaseInvariant == MountSpec => []BaseInv
<1>1. MountInit => BaseInv
  BY MountInitFlash DEF BaseInv
<1>2. BaseInv /\ [MountNext]_allVars => BaseInv'
  BY BaseStep
<1>3. QED
  BY <1>1, <1>2, PTL DEF MountSpec

\* The replay of FTL_Init ends: power lost before a journal block has its meta
\* data page leaves journals whose editions DATA_Replay can count through.
THEOREM MountAlwaysEnds == MountSpec => []MountEnds
<1>1. BaseInv => MountEnds
  BY DEF BaseInv, MountEnds, HungInv, Safe
<1>2. QED
  BY <1>1, BaseInvariant, PTL

\* The dirty counts FTL_Init ends with, counting every version it replaces,
\* are those DATA_Reclaim expects: no ASSERT fails before or after a mount
\* that has not dropped the pins.
THEOREM NoAssertFailsAfterMount == MountSpec => []AssertsHoldAfterMount
<1>1. BaseInv => AssertsHoldAfterMount
  BY DEF BaseInv, AssertsHoldAfterMount, AssertsHold, ExactInv, Safe, NoRisk
<1>2. QED
  BY <1>1, BaseInvariant, PTL

(***************************************************************************)
(* Where an address is mapped when a replay of tables is over.             *)
(***************************************************************************)

\* The winner of a replay is no node, or a data page of the address.
LEMMA WinnerCell ==
  ASSUME TypeOK, NEW s \in TableType, SoundIn(s), NEW a \in Addr, NEW node \in MaybeNode,
         Wins(s, a, node), node # INVALID_PM_NODE
  PROVE  /\ node.blk \in Block /\ node.pg \in DataPage /\ node.pg \in Page
         /\ CellAt(node) \in DataCell /\ CellAt(node).kind = "data" /\ CellAt(node).addr = a
<1>1. node \in PmNode
  BY DEF MaybeNode
<1>2. node.blk \in Block /\ node.pg \in Page
  BY <1>1 DEF PmNode
<1>3. node.pg \in DataPage /\ CellAt(node).kind = "data" /\ CellAt(node).addr = a
  <2>1. ASSUME NEW t \in Temp, LastIn(s, t, a, node)
        PROVE  node.pg \in DataPage /\ CellAt(node).kind = "data" /\ CellAt(node).addr = a
    BY <2>1 DEF LastIn, Pending, CellAt
  <2>2. ASSUME node = s.pmt[a]
        PROVE  node.pg \in DataPage /\ CellAt(node).kind = "data" /\ CellAt(node).addr = a
    BY <2>2 DEF SoundIn, MapIn
  <2>3. QED
    BY <2>1, <2>2 DEF Wins, Temp
<1>4. CellAt(node) \in DataCell
  BY <1>2, <1>3, DataCellFacts DEF CellAt
<1>5. QED
  BY <1>2, <1>3, <1>4

\* The flash as it is for a replay: the data pages.
SameData == \A b \in Block, p \in DataPage : nand'[b][p] = nand[b][p]

LEMMA WinsKept ==
  ASSUME NEW s \in TableType, SoundIn(s), SameData, NEW a \in Addr, NEW node \in MaybeNode
  PROVE  Wins(s, a, node)' <=> Wins(s, a, node)
<1>1. \A t \in Temp : s.journal[t].blk \in Block
  BY DEF SoundIn, RolesIn, Temp
<1>2. \A t \in Temp : Pending(s, t, a)' = Pending(s, t, a)
  <2> SUFFICES ASSUME NEW t \in Temp PROVE Pending(s, t, a)' = Pending(s, t, a)
    OBVIOUS
  <2>1. \A p \in DataPage : nand'[s.journal[t].blk][p] = nand[s.journal[t].blk][p]
    BY <1>1 DEF SameData
  <2>2. QED
    BY <2>1 DEF Pending
<1>3. \A t \in Temp : LastIn(s, t, a, node)' <=> LastIn(s, t, a, node)
  BY <1>2 DEF LastIn
<1>4. QED
  BY <1>2, <1>3 DEF Wins, Temp

\* What the tables lead to stays while no data page changes.
LEMMA CurrentKept ==
  ASSUME TypeOK, NEW s \in TableType, SoundIn(s), SameData, latest' = latest, CurrentIn(s)
  PROVE  CurrentIn(s)'
<1> SUFFICES ASSUME NEW a \in Addr, NEW node \in MaybeNode, latest[a] # NoData,
                    Wins(s, a, node)'
             PROVE  node # INVALID_PM_NODE /\ nand'[node.blk][node.pg].data = latest[a]
  BY DEF CurrentIn, CellAt
<1>1. Wins(s, a, node)
  BY WinsKept
<1>2. node # INVALID_PM_NODE /\ CellAt(node).data = latest[a]
  BY <1>1 DEF CurrentIn
<1>3. nand'[node.blk][node.pg] = nand[node.blk][node.pg]
  BY <1>1, <1>2, WinnerCell DEF SameData
<1>4. QED
  BY <1>2, <1>3 DEF CellAt

\* The version to preserve, as a winner and tables lead to it.
RetainsIn(s, a, cell) ==
  IF cell.old = INVALID_PM_NODE THEN cell.data = benign[a]
  ELSE s.bdt[cell.old.blk] >= BACKUPFLAG /\ Holds(CellAt(cell.old), a, benign[a])

LEMMA BenignKept ==
  ASSUME TypeOK, NEW s \in TableType, SoundIn(s), SameData, benign' = benign, BenignIn(s),
         \A b \in Block, p \in Page : nand[b][p] # Erased => nand'[b][p] = nand[b][p]
  PROVE  BenignIn(s)'
<1> SUFFICES ASSUME NEW a \in Addr, NEW node \in MaybeNode, benign[a] # NoData,
                    Wins(s, a, node)'
             PROVE  node # INVALID_PM_NODE /\ RetainsIn(s, a, CellAt(node))'
  BY DEF BenignIn, RetainsIn
<1>1. Wins(s, a, node)
  BY WinsKept
<1>2. node # INVALID_PM_NODE /\ RetainsIn(s, a, CellAt(node))
  BY <1>1 DEF BenignIn, RetainsIn
<1>3. nand'[node.blk][node.pg] = nand[node.blk][node.pg] /\ CellAt(node) \in DataCell
  BY <1>1, <1>2, WinnerCell DEF SameData
<1>4. PICK cell \in DataCell : cell = nand[node.blk][node.pg]
  BY <1>3 DEF CellAt
<1>5. CASE cell.old = INVALID_PM_NODE
  BY <1>2, <1>3, <1>4, <1>5 DEF RetainsIn, CellAt
<1>6. CASE cell.old # INVALID_PM_NODE
  <2>1. cell.old.blk \in Block /\ cell.old.pg \in Page
    BY <1>6 DEF DataCell, MaybeNode, PmNode
  <2>2. s.bdt[cell.old.blk] >= BACKUPFLAG /\ Holds(CellAt(cell.old), a, benign[a])
    BY <1>2, <1>4, <1>6 DEF RetainsIn, CellAt
  <2>3. nand'[cell.old.blk][cell.old.pg] = nand[cell.old.blk][cell.old.pg]
    BY <2>1, <2>2 DEF Holds, CellAt, Erased
  <2>4. QED
    BY <1>2, <1>3, <1>4, <1>6, <2>2, <2>3 DEF RetainsIn, CellAt, Holds
<1>7. QED
  BY <1>5, <1>6

\* The winner depends on the mapping table and the journals.
LEMMA SameTables ==
  ASSUME NEW s, NEW u, s.pmt = u.pmt, s.journal = u.journal
  PROVE  /\ CurrentIn(s)' <=> CurrentIn(u)'
         /\ s.bdt = u.bdt => (BenignIn(s)' <=> BenignIn(u)')
<1>1. \A t, a : Pending(s, t, a)' = Pending(u, t, a)'
  BY DEF Pending
<1>2. \A t, a, node : LastIn(s, t, a, node)' <=> LastIn(u, t, a, node)'
  BY <1>1 DEF LastIn
<1>3. \A a, node : Wins(s, a, node)' <=> Wins(u, a, node)'
  BY <1>1, <1>2 DEF Wins
<1>4. QED
  BY <1>3 DEF CurrentIn, BenignIn

(***************************************************************************)
(* While the device is on.                                                 *)
(***************************************************************************)

\* Nothing is left to replay.
LEMMA OnPending ==
  TypeOK /\ Layout => \A t \in Temp, a \in Addr : Pending(Ram, t, a) = {}
<1> SUFFICES ASSUME TypeOK, Layout, NEW t \in Temp, NEW a \in Addr, NEW p \in DataPage,
                    p >= journal[t].pg, nand[journal[t].blk][p].kind = "data"
             PROVE  FALSE
  BY DEF Pending, Ram
<1>1. nand[journal[t].blk][p] \in {MetaPage, Erased}
  BY SizeFacts DEF Layout, JournalTail
<1>2. QED
  BY <1>1 DEF MetaPage, Erased

LEMMA OnTables ==
  TypeOK /\ Layout => (CurrentIn(Ram) <=> Current) /\ (BenignIn(Ram) <=> BenignInv)
<1> SUFFICES ASSUME TypeOK, Layout
             PROVE  (CurrentIn(Ram) <=> Current) /\ (BenignIn(Ram) <=> BenignInv)
  OBVIOUS
<1>1. \A a \in Addr : \A node : Wins(Ram, a, node) <=> node = pmt[a]
  <2>1. \A t \in Temp, a \in Addr : \A node : ~LastIn(Ram, t, a, node)
    BY OnPending DEF LastIn
  <2>2. Ram.pmt = pmt
    BY DEF Ram
  <2>3. QED
    BY <2>1, <2>2, OnPending DEF Wins, Temp
<1>2. \A a \in Addr : pmt[a] \in MaybeNode
  BY DEF TypeOK
<1>3. CurrentIn(Ram) <=> Current
  BY <1>1, <1>2 DEF CurrentIn, Current, Mapped
<1>4. BenignIn(Ram) <=> BenignInv
  <2>1. Ram.bdt = bdt
    BY DEF Ram
  <2>2. QED
    BY <1>1, <1>2, <2>1 DEF BenignIn, BenignInv, Mapped, Flagged
<1>5. QED
  BY <1>3, <1>4

\* A call of FtlData keeps what its own invariants say.
LEMMA CallKeeps ==
  ASSUME FlashInv, power = "on", FlashInv', power' = "on", Carried
  PROVE  (CurrentInv => CurrentInv') /\ (RetainedInv => RetainedInv')
<1>1. TypeOK /\ Layout /\ (TypeOK /\ Layout)'
  <2>1. (FlashInv /\ power = "on" => Layout)'
    BY OnLayout, PTL
  <2>2. QED
    BY <2>1, OnLayout DEF FlashInv
<1>2. (CurrentIn(Ram) <=> Current) /\ (BenignIn(Ram) <=> BenignInv)
  BY <1>1, OnTables
<1>3. (CurrentIn(Ram)' <=> Current') /\ (BenignIn(Ram)' <=> BenignInv')
  <2>1. (TypeOK /\ Layout => (CurrentIn(Ram) <=> Current) /\ (BenignIn(Ram) <=> BenignInv))'
    BY OnTables, PTL
  <2>2. QED
    BY <1>1, <2>1
<1>4. QED
  BY <1>2, <1>3 DEF CurrentInv, RetainedInv, Carried

\* A replay of the committed tables leads where RAM does, unless an address
\* went to the cold journal first and then to the hot one.
LEMMA WinnerIsCurrent ==
  ASSUME TypeOK, Layout, NEW r \in TableType, NEW e \in [Temp -> Nat], CommittedIn(r, e),
         ~OutOfOrder(r), NEW c \in Addr, Mapped(c), NEW node \in MaybeNode,
         Wins(r, c, node)
  PROVE  node = pmt[c]
<1>1. /\ \A t \in Temp : /\ r.journal[t].blk = journal[t].blk
                         /\ journal[t].blk \in Block
                         /\ r.journal[t].pg \in Int /\ journal[t].pg \in Int
      /\ MapInv
  BY CommittedJournals DEF Layout, Sound
<1>2. \A t \in Temp : Pending(r, t, c) = SinceOf(r, t, c)
  <2> SUFFICES ASSUME NEW t \in Temp, NEW p \in DataPage
               PROVE  p \in Pending(r, t, c) <=> p \in SinceOf(r, t, c)
    BY DEF Pending, SinceOf, Since
  <2>1. ASSUME p >= journal[t].pg PROVE nand[journal[t].blk][p].kind # "data"
    <3>1. nand[journal[t].blk][p] \in {MetaPage, Erased}
      BY <2>1, SizeFacts DEF Layout, JournalTail
    <3>2. QED
      BY <3>1 DEF MetaPage, Erased
  <2>2. p \in Int
    BY SizeFacts
  <2>3. p \in Since(r, t) => nand[journal[t].blk][p].kind = "data"
    BY DEF CommittedIn
  <2>4. QED
    BY <1>1, <2>1, <2>2, <2>3 DEF Pending, SinceOf, Since
<1>3. pmt[c] \in PmNode
  BY <1>1, MappedFacts
<1>4. ASSUME NEW t \in Temp, LastSince(r, t, c), LastIn(r, t, c, node)
      PROVE  node = pmt[c]
  <2>1. node.blk = pmt[c].blk
    BY <1>1, <1>4 DEF LastSince, LastIn
  <2>2. node.pg = pmt[c].pg
    <3>1. /\ node.pg \in SinceOf(r, t, c) /\ pmt[c].pg \in SinceOf(r, t, c)
          /\ node.pg <= pmt[c].pg /\ pmt[c].pg <= node.pg
      BY <1>2, <1>4 DEF LastSince, LastIn
    <3>2. node.pg \in Int /\ pmt[c].pg \in Int
      BY <3>1, SizeFacts DEF SinceOf, Since
    <3>3. QED
      BY <3>1, <3>2
  <2>3. node \in PmNode
    <3>1. node.blk \in Block /\ -1 \notin Block
      BY <1>1, <1>4 DEF LastIn, Block
    <3>2. QED
      BY <3>1 DEF MaybeNode, INVALID_PM_NODE
  <2>4. QED
    BY <1>3, <2>1, <2>2, <2>3 DEF PmNode
<1>5. CASE \E t \in Temp : LastSince(r, t, c)
  <2>1. CASE LastSince(r, "cold", c)
    <3>1. Pending(r, "cold", c) # {} /\ "cold" \in Temp
      BY <1>2, <2>1 DEF LastSince, Temp
    <3>2. LastIn(r, "cold", c, node)
      BY <3>1 DEF Wins
    <3>3. QED
      BY <1>4, <2>1, <3>1, <3>2
  <2>2. CASE LastSince(r, "hot", c)
    <3>1. Pending(r, "hot", c) # {} /\ "hot" \in Temp /\ "cold" \in Temp
      BY <1>2, <2>2 DEF LastSince, Temp
    <3>2. Pending(r, "cold", c) = {}
      <4> SUFFICES ASSUME NEW p \in Pending(r, "cold", c) PROVE FALSE
        OBVIOUS
      <4>1. c \in Tail(r, "cold")
        BY DEF Pending, Tail
      <4>2. pmt[c].blk = r.journal["hot"].blk
        BY <1>1, <2>2, <3>1 DEF LastSince
      <4>3. QED
        BY <4>1, <4>2 DEF OutOfOrder
    <3>3. LastIn(r, "hot", c, node)
      BY <3>1, <3>2 DEF Wins, LastIn
    <3>4. QED
      BY <1>4, <2>2, <3>1, <3>3
  <2>3. QED
    BY <1>5, <2>1, <2>2 DEF Temp
<1>6. CASE pmt[c] = r.pmt[c] /\ \A t \in Temp : SinceOf(r, t, c) = {}
  BY <1>2, <1>6 DEF Wins, LastIn, Temp
<1>7. QED
  BY <1>5, <1>6 DEF CommittedIn

\* So what RAM leads to, a replay of the committed tables leads to.
LEMMA LeadsOn ==
  ASSUME TypeOK, Layout, NEW r \in TableType, NEW e \in [Temp -> Nat], CommittedIn(r, e),
         ~OutOfOrder(r)
  PROVE  /\ Current => CurrentIn(r)
         /\ BenignInv /\ (\A b \in Block : Flagged(b) => r.bdt[b] >= BACKUPFLAG)
              => BenignIn(r)
<1>1. ASSUME Current PROVE CurrentIn(r)
  <2> SUFFICES ASSUME NEW a \in Addr, NEW node \in MaybeNode, latest[a] # NoData,
                      Wins(r, a, node)
               PROVE  node # INVALID_PM_NODE /\ CellAt(node).data = latest[a]
    BY DEF CurrentIn
  <2>1. Mapped(a) /\ CellAt(pmt[a]).data = latest[a]
    BY <1>1 DEF Current
  <2>2. node = pmt[a]
    BY <2>1, WinnerIsCurrent
  <2>3. QED
    BY <2>1, <2>2 DEF Mapped
<1>2. ASSUME BenignInv, \A b \in Block : Flagged(b) => r.bdt[b] >= BACKUPFLAG
      PROVE  BenignIn(r)
  <2> SUFFICES ASSUME NEW a \in Addr, NEW node \in MaybeNode, benign[a] # NoData,
                      Wins(r, a, node)
               PROVE  node # INVALID_PM_NODE /\ RetainsIn(r, a, CellAt(node))
    BY DEF BenignIn, RetainsIn
  <2>1. Mapped(a) /\ Retains(a, benign[a], nand[pmt[a].blk][pmt[a].pg], nand, bdt)
    BY <1>2, BenignUnfold
  <2>2. node = pmt[a]
    BY <2>1, WinnerIsCurrent
  <2>3. PICK cell \in DataCell : cell = CellAt(pmt[a])
    BY <2>1, MappedFacts DEF Layout, Sound
  <2>4. cell.old # INVALID_PM_NODE => cell.old.blk \in Block
    BY DEF DataCell, MaybeNode, PmNode
  <2>5. RetainsIn(r, a, cell)
    BY <1>2, <2>1, <2>3, <2>4 DEF RetainsIn, Retains, CellAt, Flagged
  <2>6. QED
    BY <2>1, <2>2, <2>3, <2>5 DEF Mapped
<1>3. QED
  BY <1>1, <1>2

(***************************************************************************)
(* Power loss.                                                             *)
(***************************************************************************)

\* The tables the device is left with when it is off.
LEMMA OffTables ==
  ASSUME NEW r, Ram' = r, root' = r
  PROVE  (CurrentInv' <=> CurrentIn(r)') /\ (RetainedInv' <=> BenignIn(r)')
<1>1. (CurrentIn(Ram)' <=> CurrentIn(r)') /\ (BenignIn(Ram)' <=> BenignIn(r)')
  OBVIOUS
<1>2. (CurrentIn(root)' <=> CurrentIn(r)') /\ (BenignIn(root)' <=> BenignIn(r)')
  OBVIOUS
<1>3. QED
  BY <1>1, <1>2 DEF CurrentInv, RetainedInv

LEMMA LossTables ==
  ASSUME FlashInv, PowerLoss, Safe'
  PROVE  /\ CurrentInv /\ "order" \notin risks' => CurrentInv'
         /\ RetainedInv /\ risks' = {} => RetainedInv'
<1>1. ~torn
  BY SafeLoss DEF PowerLoss
<1>2. PICK r : r = root
  OBVIOUS
<1>3. PICK e : e = edition
  OBVIOUS
<1>4. /\ TypeOK /\ CommittedIn(r, e) /\ r \in TableType /\ e \in [Temp -> Nat] /\ SoundIn(r)
  BY <1>1, <1>2, <1>3 DEF FlashInv, MountTypeOK, CommittedIn
<1>5. /\ LoseRam(r) /\ nand' = nand /\ root' = r /\ latest' = latest /\ benign' = benign
      /\ risks' = risks \cup NewRisks /\ SameData
  BY <1>2 DEF PowerLoss, history, SameData
<1>6. (CurrentInv' <=> CurrentIn(r)') /\ (RetainedInv' <=> BenignIn(r)')
  BY <1>4, <1>5, LostRam, OffTables
<1>7. /\ CurrentInv /\ "order" \notin risks' => CurrentIn(r)
      /\ RetainedInv /\ risks' = {} => BenignIn(r)
  <2>1. CASE power = "on"
    <3>1. Layout /\ (CurrentIn(Ram) <=> Current) /\ (BenignIn(Ram) <=> BenignInv)
      BY <1>4, <2>1, OnLayout, OnTables
    <3>2. "order" \notin risks' => ~OutOfOrder(r)
      BY <1>2, <1>5, <2>1 DEF NewRisks, Risks
    <3>3. risks' = {} => \A b \in Block : Flagged(b) => r.bdt[b] >= BACKUPFLAG
      <4>1. risks' = {} => \A b \in Block : Flagged(b) => ~(r.bdt[b] < BACKUPFLAG)
        BY <1>2, <1>5 DEF NewRisks, Risks
      <4>2. \A b \in Block : r.bdt[b] \in Nat /\ BACKUPFLAG \in Nat
        BY <1>4, TableFacts DEF BACKUPFLAG
      <4>3. QED
        BY <4>1, <4>2
    <3>4. QED
      BY <1>4, <3>1, <3>2, <3>3, LeadsOn DEF CurrentInv, RetainedInv
  <2>2. CASE power # "on"
    BY <1>1, <1>2, <2>2 DEF CurrentInv, RetainedInv
  <2>3. QED
    BY <2>1, <2>2
<1>8. QED
  BY <1>4, <1>5, <1>6, <1>7, CurrentKept, BenignKept

\* The page of the write is the one a replay takes last.
LEMMA LossInWriteTables ==
  ASSUME FlashInv, NEW a \in Addr, NEW d \in Data, NEW t \in Temp, NEW tag \in Tags,
         PowerLossInWrite(a, d, t, tag), Safe'
  PROVE  /\ CurrentInv /\ "order" \notin risks' => CurrentInv'
         /\ RetainedInv /\ risks' = {} => RetainedInv'
<1> DEFINE j == journal[t].blk
           p == journal[t].pg
<1>1. ~torn
  BY SafeLoss DEF PowerLossInWrite
<1>2. /\ TypeOK /\ MountTypeOK /\ Layout /\ Sound /\ CommittedIn(root, edition)
      /\ power = "on" /\ pc = "idle"
  BY <1>1, OnLayout DEF FlashInv, PowerLossInWrite
<1>3. PICK r : r = IF EvictsEarly(a, tag) THEN Ram ELSE root
  OBVIOUS
<1>4. PICK e : e = IF EvictsEarly(a, tag) THEN NoEditions ELSE edition
  OBVIOUS
<1>5. CommittedIn(r, e) /\ r \in TableType /\ e \in [Temp -> Nat] /\ SoundIn(r)
  <2>1. NoEditions \in [Temp -> Nat]
    BY DEF NoEditions
  <2>2. CASE EvictsEarly(a, tag)
    BY <1>2, <1>3, <1>4, <2>1, <2>2, CommittedNow, RamType DEF CommittedIn
  <2>3. CASE ~EvictsEarly(a, tag)
    BY <1>2, <1>3, <1>4, <2>3 DEF MountTypeOK, CommittedIn
  <2>4. QED
    BY <2>2, <2>3
<1>6. /\ CanProgram(journal[t]) /\ p + 1 = MAX_DIRTY_PAGES
      /\ root' = r /\ LoseRam(r) /\ RecordWrite(a, d, tag)
      /\ risks' = risks \cup NewRisks
           \cup (IF t = "hot" /\ a \in Tail(root, "cold") THEN {"order"} ELSE {})
           \cup (IF tag = "ransom" /\ Mapped(a) THEN {"pins"} ELSE {})
  BY <1>3 DEF PowerLossInWrite
<1>7. PICK old \in OldLogicAddr(a, tag) :
        nand' = [nand EXCEPT ![j][p] = [kind |-> "data", addr |-> a, data |-> d, old |-> old]]
  BY DEF PowerLossInWrite
<1> DEFINE cell == [kind |-> "data", addr |-> a, data |-> d, old |-> old]
<1>8. /\ j \in Block /\ p \in Page /\ p \in Int /\ p \in DataPage /\ nand[j][p] = Erased
  <2>1. j \in Block /\ p \in Page /\ p \in Int /\ nand[j][p] = Erased
    BY <1>2, <1>6, SizeFacts DEF CanProgram, CellAt, TypeOK
  <2>2. p # MAX_DIRTY_PAGES
    BY <1>6, <2>1, SizeFacts
  <2>3. QED
    BY <2>1, <2>2, SizeFacts DEF Page, DataPage
<1>9. /\ nand'[j][p] = cell
      /\ \A b \in Block, q \in Page : b # j \/ q # p => nand'[b][q] = nand[b][q]
  <2> HIDE DEF cell, j, p
  <2>1. nand' = [nand EXCEPT ![j][p] = cell]
    BY <1>7 DEF cell, j, p
  <2>2. nand \in [Block -> [Page -> Cell]]
    BY <1>2 DEF TypeOK
  <2>3. QED
    BY <1>8, <2>1, <2>2
<1>10. /\ \A u \in Temp : r.journal[u].blk = journal[u].blk /\ journal[u].blk \in Block
       /\ \A u, v \in Temp : journal[u].blk = journal[v].blk => u = v
       /\ r.journal[t].pg <= p
  BY <1>2, <1>5, CommittedJournals
<1>11. (CurrentInv' <=> CurrentIn(r)') /\ (RetainedInv' <=> BenignIn(r)')
  BY <1>5, <1>6, LostRam, OffTables
<1>12. (CurrentInv => Current) /\ (RetainedInv => BenignInv)
  BY <1>2, OnTables DEF CurrentInv, RetainedInv
<1>13. \A u \in Temp, c \in Addr : Pending(Ram, u, c) = {}
  BY <1>2, OnPending
\* With the tables committed early there is nothing to replay but the page.
<1>14. "order" \notin risks' => ~OutOfOrder(r) /\ (t = "hot" => Pending(r, "cold", a) = {})
  <2>1. CASE EvictsEarly(a, tag)
    <3>1. Tail(r, "cold") = {}
      <4> SUFFICES ASSUME NEW q \in DataPage, q >= journal["cold"].pg,
                          nand[journal["cold"].blk][q].kind = "data"
                   PROVE  FALSE
        BY <1>3, <2>1 DEF Tail, Ram
      <4>1. nand[journal["cold"].blk][q] \in {MetaPage, Erased}
        BY <1>2, SizeFacts DEF Layout, JournalTail, Temp
      <4>2. QED
        BY <4>1 DEF MetaPage, Erased
    <3>2. QED
      BY <1>3, <1>13, <2>1, <3>1 DEF OutOfOrder, Temp
  <2>2. CASE ~EvictsEarly(a, tag)
    <3>1. "order" \notin risks' => ~OutOfOrder(root) /\ ~(t = "hot" /\ a \in Tail(root, "cold"))
      BY <1>2, <1>6 DEF NewRisks, Risks
    <3>2. a \notin Tail(root, "cold") => Pending(root, "cold", a) = {}
      BY DEF Tail, Pending
    <3>3. QED
      BY <1>3, <2>2, <3>1, <3>2
  <2>3. QED
    BY <2>1, <2>2
<1>15. ASSUME NEW u \in Temp, NEW c \in Addr, c # a \/ u # t
       PROVE  Pending(r, u, c)' = Pending(r, u, c)
  <2> SUFFICES ASSUME NEW q \in DataPage, q >= r.journal[u].pg
               PROVE  (nand'[journal[u].blk][q].kind = "data"
                         /\ nand'[journal[u].blk][q].addr = c)
                      <=> (nand[journal[u].blk][q].kind = "data"
                             /\ nand[journal[u].blk][q].addr = c)
    BY <1>10 DEF Pending
  <2>1. CASE u = t /\ q = p
    BY <1>8, <1>9, <1>15, <2>1 DEF Erased
  <2>2. CASE ~(u = t /\ q = p)
    BY <1>9, <1>10, <2>2, SizeFacts
  <2>3. QED
    BY <2>1, <2>2
<1>16. ASSUME NEW c \in Addr, NEW node \in MaybeNode, c # a, Wins(r, c, node)'
       PROVE  Wins(r, c, node)
  BY <1>15, <1>16 DEF Wins, LastIn, Temp
<1>17. ASSUME NEW node \in MaybeNode, Wins(r, a, node)', "order" \notin risks'
       PROVE  node # INVALID_PM_NODE /\ nand'[node.blk][node.pg] = cell
  <2>1. p \in Pending(r, t, a)'
    BY <1>8, <1>9, <1>10, SMTT(30) DEF Pending
  <2>2. t = "hot" => Pending(r, "cold", a)' = {}
    BY <1>14, <1>15, <1>17 DEF Temp
  <2>3. LastIn(r, t, a, node)'
    BY <1>17, <2>1, <2>2 DEF Wins, LastIn, Temp
  <2>4. node.blk = j /\ node.pg \in DataPage /\ p <= node.pg
    BY <1>10, <2>1, <2>3 DEF LastIn, Pending
  <2>5. node.pg = p
    BY <1>6, <1>8, <2>4, SizeFacts DEF DataPage
  <2>6. node # INVALID_PM_NODE
    BY <1>8, <2>4, NBlockAssumption DEF INVALID_PM_NODE, Block
  <2>7. QED
    BY <1>9, <2>4, <2>5, <2>6
<1>18. ASSUME NEW c \in Addr, NEW node \in MaybeNode, Wins(r, c, node), node # INVALID_PM_NODE
       PROVE  nand'[node.blk][node.pg] = CellAt(node) /\ CellAt(node) \in DataCell
  <2>1. /\ node.blk \in Block /\ node.pg \in Page /\ CellAt(node) \in DataCell
        /\ CellAt(node).kind = "data"
    BY <1>2, <1>5, <1>18, WinnerCell
  <2>2. node.blk # j \/ node.pg # p
    BY <1>8, <2>1 DEF CellAt, Erased
  <2>3. QED
    BY <1>9, <2>1, <2>2 DEF CellAt
<1>19. ASSUME CurrentInv, "order" \notin risks'
       PROVE  CurrentIn(r)'
  <2> SUFFICES ASSUME NEW c \in Addr, NEW node \in MaybeNode, latest'[c] # NoData,
                      Wins(r, c, node)'
               PROVE  node # INVALID_PM_NODE /\ nand'[node.blk][node.pg].data = latest'[c]
    BY DEF CurrentIn, CellAt
  <2>1. latest' = [latest EXCEPT ![a] = d] /\ latest \in [Addr -> Data \cup {NoData}]
    BY <1>2, <1>6 DEF RecordWrite, TypeOK
  <2>2. CASE c = a
    BY <1>17, <1>19, <2>1, <2>2
  <2>3. CASE c # a
    <3>1. Wins(r, c, node) /\ latest[c] = latest'[c]
      BY <1>16, <2>1, <2>3
    <3>2. CurrentIn(r)
      BY <1>2, <1>5, <1>12, <1>14, <1>19, LeadsOn
    <3>3. node # INVALID_PM_NODE /\ CellAt(node).data = latest[c]
      BY <3>1, <3>2 DEF CurrentIn
    <3>4. QED
      BY <1>18, <3>1, <3>3
  <2>4. QED
    BY <2>2, <2>3
<1>20. ASSUME RetainedInv, risks' = {}
       PROVE  BenignIn(r)'
  <2> SUFFICES ASSUME NEW c \in Addr, NEW node \in MaybeNode, benign'[c] # NoData,
                      Wins(r, c, node)'
               PROVE  node # INVALID_PM_NODE /\ RetainsIn(r, c, CellAt(node))'
    BY DEF BenignIn, RetainsIn
  <2>1. /\ benign' = [benign EXCEPT ![a] =
                        CASE tag = "none" -> d
                          [] tag = "ransom" -> IF Mapped(a) THEN @ ELSE d
                          [] tag = "mft" -> NoData]
        /\ benign \in [Addr -> Data \cup {NoData}]
    BY <1>2, <1>6 DEF RecordWrite, TypeOK
  <2>2. CASE c = a
    <3>1. node # INVALID_PM_NODE /\ CellAt(node)' = cell
      BY <1>17, <1>20, <2>2 DEF CellAt
    <3>2. tag \in AllTags /\ ~(tag = "ransom" /\ Mapped(a))
      BY <1>6, <1>20, TagsAssumption
    <3>3. tag # "mft"
      BY <2>1, <2>2
    <3>4. old = INVALID_PM_NODE /\ benign'[a] = d
      BY <1>7, <2>1, <3>2, <3>3 DEF OldLogicAddr, AllTags
    <3>5. RetainsIn(r, c, cell)'
      BY <2>2, <3>4 DEF RetainsIn
    <3>6. QED
      BY <3>1, <3>5
  <2>3. CASE c # a
    <3>1. Wins(r, c, node) /\ benign[c] = benign'[c]
      BY <1>16, <2>1, <2>3
    <3>2. \A b \in Block : Flagged(b) => r.bdt[b] >= BACKUPFLAG
      <4>1. \A b \in Block : Flagged(b) => ~(root.bdt[b] < BACKUPFLAG)
        BY <1>6, <1>20 DEF NewRisks, Risks
      <4>2. \A b \in Block : root.bdt[b] \in Nat /\ BACKUPFLAG \in Nat
        BY <1>2, TableFacts DEF BACKUPFLAG, MountTypeOK
      <4>3. \A b \in Block : Flagged(b) => Ram.bdt[b] >= BACKUPFLAG
        BY DEF Ram, Flagged
      <4>4. QED
        BY <1>3, <4>1, <4>2, <4>3
    <3>3. BenignIn(r)
      BY <1>2, <1>5, <1>12, <1>14, <1>20, <3>2, LeadsOn
    <3>4. node # INVALID_PM_NODE /\ RetainsIn(r, c, CellAt(node))
      BY <3>1, <3>3 DEF BenignIn, RetainsIn
    <3>5. PICK x \in DataCell : x = CellAt(node) /\ x = nand'[node.blk][node.pg]
      BY <1>18, <3>1, <3>4
    <3>6. CASE x.old = INVALID_PM_NODE
      BY <3>1, <3>4, <3>5, <3>6 DEF RetainsIn, CellAt
    <3>7. CASE x.old # INVALID_PM_NODE
      <4>1. x.old.blk \in Block /\ x.old.pg \in Page
        BY <3>7 DEF DataCell, MaybeNode, PmNode
      <4>2. r.bdt[x.old.blk] >= BACKUPFLAG /\ Holds(CellAt(x.old), c, benign[c])
        BY <3>4, <3>5, <3>7 DEF RetainsIn
      <4>3. x.old.blk # j \/ x.old.pg # p
        BY <1>8, <4>2 DEF Holds, CellAt, Erased
      <4>4. nand'[x.old.blk][x.old.pg] = nand[x.old.blk][x.old.pg]
        BY <1>9, <4>1, <4>3
      <4>5. QED
        BY <3>1, <3>4, <3>5, <3>7, <4>2, <4>4 DEF RetainsIn, CellAt, Holds
    <3>8. QED
      BY <3>6, <3>7
  <2>4. QED
    BY <2>2, <2>3
<1>21. QED
  BY <1>11, <1>19, <1>20

(***************************************************************************)
(* FTL_Init.                                                               *)
(***************************************************************************)

LEMMA InitTablesTables ==
  ASSUME FlashInv, InitTables
  PROVE  /\ CurrentInv => CurrentInv'
         /\ RetainedInv /\ risks' = {} => RetainedInv'
<1>1. /\ TypeOK /\ Sound /\ root = Ram /\ ~torn /\ power = "off"
  BY DEF FlashInv, PowerInv, InitTables
<1>2. PICK r : r = Ram
  OBVIOUS
<1>3. PICK u : u = Ram'
  OBVIOUS
<1>4. r \in TableType /\ SoundIn(r)
  BY <1>1, <1>2, RamType, RamFacts
<1>5. /\ u.pmt = r.pmt /\ u.journal = r.journal /\ root' = r
      /\ risks' = {} => u.bdt = r.bdt
      /\ SameData /\ nand' = nand /\ latest' = latest /\ benign' = benign
  BY <1>1, <1>2, <1>3 DEF InitTables, Ram, SameData, history
<1>6. /\ CurrentInv => CurrentIn(r)' /\ CurrentIn(u)'
      /\ RetainedInv /\ risks' = {} => BenignIn(r)' /\ BenignIn(u)'
  <2>1. CurrentInv => CurrentIn(r)'
    BY <1>1, <1>2, <1>4, <1>5, CurrentKept DEF CurrentInv
  <2>2. RetainedInv => BenignIn(r)'
    BY <1>1, <1>2, <1>4, <1>5, BenignKept DEF RetainedInv
  <2>3. /\ CurrentIn(r)' <=> CurrentIn(u)'
        /\ u.bdt = r.bdt => (BenignIn(r)' <=> BenignIn(u)')
    BY <1>5, SameTables
  <2>4. QED
    BY <1>5, <2>1, <2>2, <2>3
<1>7. (CurrentIn(Ram)' <=> CurrentIn(u)') /\ (BenignIn(Ram)' <=> BenignIn(u)')
  BY <1>3
<1>8. (CurrentIn(root)' <=> CurrentIn(r)') /\ (BenignIn(root)' <=> BenignIn(r)')
  BY <1>5
<1>9. QED
  BY <1>6, <1>7, <1>8 DEF CurrentInv, RetainedInv

\* A page that is replayed was pending; who wins afterwards won before.
LEMMA ReplayWins ==
  ASSUME FlashInv, NEW t \in Temp, ReplayPage(t), NEW c \in Addr, NEW node \in MaybeNode,
         NEW u, Ram' = u, Wins(u, c, node)'
  PROVE  Wins(Ram, c, node)
<1> DEFINE j == journal[t].blk
           p == journal[t].pg
<1>0. PICK a : a = CellAt(journal[t]).addr
  OBVIOUS
<1>1. /\ a \in Addr /\ RemapEffect(a, t) /\ nand' = nand /\ p \in Int /\ power = t
  BY <1>0, ReplayRemaps
<1>2. /\ TypeOK /\ TailInv /\ pmt \in [Addr -> MaybeNode]
      /\ journal \in [Temp -> [blk : 0 .. NBlock, pg : Page]]
  BY DEF FlashInv, TypeOK
<1>3. /\ j \in Block /\ p \in DataPage
      /\ nand[j][p].kind = "data" /\ nand[j][p].addr = a
      /\ pmt' = [pmt EXCEPT ![a] = [blk |-> j, pg |-> p]]
      /\ journal' = [journal EXCEPT ![t] = [blk |-> j, pg |-> p + 1]]
  BY <1>1 DEF RemapEffect
<1>4. /\ u.journal = journal' /\ u.pmt = pmt' /\ Ram.journal = journal /\ Ram.pmt = pmt
  BY DEF Ram
<1>5. /\ u.journal[t].blk = j /\ u.journal[t].pg = p + 1
      /\ \A v \in Temp : v # t => u.journal[v] = journal[v]
  BY <1>2, <1>3, <1>4
<1>6. \A v \in Temp, b \in Addr : v # t => Pending(u, v, b)' = Pending(Ram, v, b)
  BY <1>1, <1>4, <1>5 DEF Pending
<1>7. \A b \in Addr : Pending(u, t, b)' = Pending(Ram, t, b) \ {p}
  <2> SUFFICES ASSUME NEW b \in Addr, NEW q \in DataPage
               PROVE  (q >= p + 1) <=> (q >= p /\ q # p)
    BY <1>1, <1>4, <1>5 DEF Pending
  <2>1. q \in Int
    BY SizeFacts
  <2>2. QED
    BY <1>1, <2>1
<1>8. p \in Pending(Ram, t, a) /\ \A b \in Addr : b # a => p \notin Pending(Ram, t, b)
  BY <1>1, <1>3, <1>4 DEF Pending
<1>9. \A v \in Temp : v # t => (LastIn(u, v, c, node)' <=> LastIn(Ram, v, c, node))
  BY <1>4, <1>5, <1>6 DEF LastIn
<1>10. LastIn(u, t, c, node)' => LastIn(Ram, t, c, node)
  <2> SUFFICES ASSUME LastIn(u, t, c, node)' PROVE LastIn(Ram, t, c, node)
    OBVIOUS
  <2>1. /\ node.blk = j /\ node.pg \in Pending(Ram, t, c) /\ node.pg # p
        /\ \A q \in Pending(Ram, t, c) \ {p} : q <= node.pg
    BY <1>5, <1>7 DEF LastIn
  <2>2. node.pg >= p /\ node.pg \in Int
    BY <1>4, <2>1, SizeFacts DEF Pending
  <2>3. p <= node.pg
    BY <1>1, <2>2
  <2>4. QED
    BY <1>4, <2>1, <2>3 DEF LastIn
<1>11. CASE c # a
  <2>1. Pending(u, t, c)' = Pending(Ram, t, c) /\ pmt'[c] = pmt[c]
    BY <1>2, <1>3, <1>7, <1>8, <1>11
  <2>2. QED
    BY <1>4, <1>6, <1>9, <1>10, <2>1 DEF Wins, Temp
<1>12. CASE c = a /\ Pending(u, t, c)' = {}
  <2>1. pmt'[c] = [blk |-> j, pg |-> p]
    BY <1>1, <1>2, <1>3, <1>12
  <2>2. \A q \in Pending(Ram, t, c) : q = p
    BY <1>7, <1>12
  <2>3. node = pmt'[c] => LastIn(Ram, t, c, node)
    <3>1. ASSUME node = pmt'[c] PROVE LastIn(Ram, t, c, node)
      <4>1. node.blk = j /\ node.pg = p
        BY <2>1, <3>1
      <4>2. QED
        BY <1>1, <1>4, <1>8, <1>12, <2>2, <4>1 DEF LastIn
    <3>2. QED
      BY <3>1
  <2>4. ~LastIn(u, t, c, node)'
    BY <1>12 DEF LastIn
  <2>5. CASE t = "hot"
    BY <1>4, <1>6, <1>9, <2>3, <2>4, <2>5 DEF Wins, Temp
  <2>6. CASE t = "cold"
    <3>1. Pending(Ram, "hot", c) = {}
      <4> SUFFICES ASSUME NEW q \in DataPage, q >= journal["hot"].pg,
                          nand[journal["hot"].blk][q].kind = "data"
                   PROVE  FALSE
        BY <1>4 DEF Pending
      <4>1. Settled("hot") /\ q \in Page
        BY <1>1, <2>6, SizeFacts DEF Settled
      <4>2. nand[journal["hot"].blk][q] \in {MetaPage, Erased}
        BY <1>2, <4>1 DEF TailInv, TailPage, Temp
      <4>3. QED
        BY <4>2 DEF MetaPage, Erased
    <3>2. ~LastIn(Ram, "hot", c, node)
      BY <3>1 DEF LastIn
    <3>3. node = pmt'[c]
      BY <1>4, <1>9, <2>4, <2>6, <3>2 DEF Wins, Temp
    <3>4. QED
      BY <2>3, <2>6, <3>3 DEF Wins
  <2>7. QED
    BY <2>5, <2>6 DEF Temp
<1>13. CASE c = a /\ Pending(u, t, c)' # {}
  <2>1. Pending(Ram, t, c) # {}
    BY <1>7, <1>13
  <2>2. QED
    BY <1>4, <1>6, <1>9, <1>10, <1>13, <2>1 DEF Wins, Temp
<1>14. QED
  BY <1>11, <1>12, <1>13

LEMMA ReplayPageTables ==
  ASSUME FlashInv, NEW t \in Temp, ReplayPage(t)
  PROVE  (CurrentInv => CurrentInv') /\ (RetainedInv => RetainedInv')
<1>0. PICK a : a = CellAt(journal[t]).addr
  OBVIOUS
<1>1. PICK u : u = Ram'
  OBVIOUS
<1>2. PICK r : r = root
  OBVIOUS
<1>3. /\ TypeOK /\ Sound /\ SoundIn(Ram) /\ Ram \in TableType
      /\ nand' = nand /\ SameData /\ latest' = latest /\ benign' = benign
      /\ power = t /\ power # "on"
      /\ PMT_Update(a, journal[t], FALSE) /\ a \in Addr
      /\ ~torn' => ~torn /\ root' = r /\ CommittedIn(root, edition)
  <2>1. TypeOK /\ Sound /\ (~torn => CommittedIn(root, edition))
    BY DEF FlashInv
  <2>2. /\ nand' = nand /\ SameData /\ latest' = latest /\ benign' = benign
        /\ ~torn' => ~torn /\ root' = r
    BY <1>2 DEF ReplayPage, ReplayLoad, history, SameData
  <2>3. power = t /\ PMT_Update(a, journal[t], FALSE) /\ a \in Addr
    BY <1>0, ReplayRemaps
  <2>4. QED
    BY <2>1, <2>2, <2>3, RamFacts, RamType DEF Temp
<1>4. \A b \in Block : Flagged(b) => bdt'[b] >= BACKUPFLAG
  BY <1>3, FlagStep DEF Sound
<1>5. CurrentInv => CurrentIn(u)'
  <2> SUFFICES ASSUME CurrentInv, NEW c \in Addr, NEW node \in MaybeNode,
                      latest[c] # NoData, Wins(u, c, node)'
               PROVE  node # INVALID_PM_NODE /\ CellAt(node).data = latest[c]
    BY <1>3 DEF CurrentIn, CellAt
  <2>1. Wins(Ram, c, node)
    BY <1>1, ReplayWins
  <2>2. QED
    BY <2>1 DEF CurrentInv, CurrentIn
<1>6. RetainedInv => BenignIn(u)'
  <2> SUFFICES ASSUME RetainedInv, NEW c \in Addr, NEW node \in MaybeNode,
                      benign[c] # NoData, Wins(u, c, node)'
               PROVE  node # INVALID_PM_NODE /\ RetainsIn(u, c, CellAt(node))
    BY <1>3 DEF BenignIn, RetainsIn, CellAt, Holds
  <2>1. Wins(Ram, c, node)
    BY <1>1, ReplayWins
  <2>2. node # INVALID_PM_NODE /\ RetainsIn(Ram, c, CellAt(node))
    BY <2>1 DEF RetainedInv, BenignIn, RetainsIn
  <2>3. PICK cell \in DataCell : cell = CellAt(node)
    BY <1>3, <2>1, <2>2, WinnerCell
  <2>4. cell.old # INVALID_PM_NODE => cell.old.blk \in Block
    BY DEF DataCell, MaybeNode, PmNode
  <2>5. Ram.bdt = bdt /\ u.bdt = bdt'
    BY <1>1 DEF Ram
  <2>6. RetainsIn(u, c, cell)
    BY <1>4, <2>2, <2>3, <2>4, <2>5 DEF RetainsIn, Flagged
  <2>7. QED
    BY <2>2, <2>3, <2>6
<1>7. ASSUME ~torn'
      PROVE  (CurrentInv => CurrentIn(r)') /\ (RetainedInv => BenignIn(r)')
  <2>1. SoundIn(r) /\ r \in TableType
    BY <1>2, <1>3, <1>7 DEF CommittedIn, FlashInv, MountTypeOK
  <2>2. (CurrentInv => CurrentIn(r)) /\ (RetainedInv => BenignIn(r))
    BY <1>2, <1>3, <1>7 DEF CurrentInv, RetainedInv
  <2>3. QED
    BY <1>3, <2>1, <2>2, CurrentKept, BenignKept
<1>8. (CurrentIn(Ram)' <=> CurrentIn(u)') /\ (BenignIn(Ram)' <=> BenignIn(u)')
  BY <1>1
<1>9. ~torn' => (CurrentIn(root)' <=> CurrentIn(r)') /\ (BenignIn(root)' <=> BenignIn(r)')
  BY <1>3
<1>10. QED
  BY <1>5, <1>6, <1>7, <1>8, <1>9 DEF CurrentInv, RetainedInv

LEMMA ReplayEndsTables ==
  ASSUME FlashInv, NEW t \in Temp, ReplayEnds(t)
  PROVE  (CurrentInv => CurrentInv') /\ (RetainedInv => RetainedInv')
<1>1. ReplayEffect(t)
  BY ReplayEndsEffect
<1>2. PICK s : s = Ram
  OBVIOUS
<1>3. PICK r : r = root
  OBVIOUS
<1>4. /\ TypeOK /\ Sound /\ (~torn => CommittedIn(root, edition)) /\ root \in TableType
      /\ power # "on"
  BY <1>1 DEF FlashInv, MountTypeOK, ReplayEffect, Temp
<1>5. /\ Ram' = s /\ root' = r /\ torn' = torn /\ latest' = latest /\ benign' = benign
  BY <1>1, <1>2, <1>3 DEF ReplayEffect, Ram
<1>6. /\ SameData
      /\ \A b \in Block, q \in Page : nand[b][q] # Erased => nand'[b][q] = nand[b][q]
  <2>1. SameData
    BY <1>1, SizeFacts DEF ReplayEffect, SameData
  <2>2. ASSUME NEW b \in Block, NEW q \in Page, nand[b][q] # Erased
        PROVE  nand'[b][q] = nand[b][q]
    <3>1. ASSUME b = journal[t].blk, q = MAX_DIRTY_PAGES, journal[t].pg = MAX_DIRTY_PAGES
          PROVE  FALSE
      BY <1>1, <2>2, <3>1, SizeFacts DEF ReplayEffect
    <3>2. QED
      BY <1>1, <3>1 DEF ReplayEffect
  <2>3. QED
    BY <2>1, <2>2
<1>7. /\ CurrentInv => CurrentIn(s)'
      /\ RetainedInv => BenignIn(s)'
  <2>1. SoundIn(s) /\ s \in TableType
    BY <1>2, <1>4, RamFacts, RamType
  <2>2. (CurrentInv => CurrentIn(s)) /\ (RetainedInv => BenignIn(s))
    BY <1>2 DEF CurrentInv, RetainedInv
  <2>3. QED
    BY <1>4, <1>5, <1>6, <2>1, <2>2, CurrentKept, BenignKept
<1>8. ASSUME ~torn
      PROVE  (CurrentInv => CurrentIn(r)') /\ (RetainedInv => BenignIn(r)')
  <2>1. SoundIn(r) /\ r \in TableType
    BY <1>3, <1>4, <1>8 DEF CommittedIn
  <2>2. (CurrentInv => CurrentIn(r)) /\ (RetainedInv => BenignIn(r))
    BY <1>3, <1>4, <1>8 DEF CurrentInv, RetainedInv
  <2>3. QED
    BY <1>4, <1>5, <1>6, <2>1, <2>2, CurrentKept, BenignKept
<1>9. (CurrentIn(Ram)' <=> CurrentIn(s)') /\ (BenignIn(Ram)' <=> BenignIn(s)')
  BY <1>5
<1>10. (CurrentIn(root)' <=> CurrentIn(r)') /\ (BenignIn(root)' <=> BenignIn(r)')
  BY <1>5
<1>11. QED
  BY <1>5, <1>7, <1>8, <1>9, <1>10 DEF CurrentInv, RetainedInv

(***************************************************************************)
(* What was written and what was retained.                                 *)
(***************************************************************************)

\* The tables a step leaves still lead to the versions they must lead to.
LEMMA TablesStep ==
  ASSUME FlashInv, pc # "hung", [MountNext]_allVars, Safe', pc' # "hung"
  PROVE  /\ CurrentInv /\ "order" \notin risks' => CurrentInv'
         /\ RetainedInv /\ risks' = {} => RetainedInv'
<1>0. ~starved' /\ FlashInv'
  BY FlashStep DEF Safe
<1>1. ASSUME power = "on", power' = "on", Carried
      PROVE  (CurrentInv => CurrentInv') /\ (RetainedInv => RetainedInv')
  BY <1>0, <1>1, CallKeeps
<1>2. ASSUME NEW a \in Addr, NEW d \in Data, NEW t \in Temp, NEW tag \in Tags,
             FTL_Write(a, d, t, tag)
      PROVE  (CurrentInv => CurrentInv') /\ (RetainedInv => RetainedInv')
  <2>1. Carried
    BY <1>0, <1>2, WriteMount
  <2>2. power = "on" /\ power' = "on"
    BY <1>2 DEF FTL_Write
  <2>3. QED
    BY <1>1, <2>1, <2>2
<1>3. ASSUME NEW a \in Addr, NEW t \in Temp, Trim(a, t)
      PROVE  (CurrentInv => CurrentInv') /\ (RetainedInv => RetainedInv')
  <2>1. Carried
    BY <1>0, <1>3, TrimMount
  <2>2. power = "on" /\ power' = "on"
    BY <1>3 DEF Trim
  <2>3. QED
    BY <1>1, <2>1, <2>2
<1>4. ASSUME NEW a \in Addr, FTL_Read(a)
      PROVE  (CurrentInv => CurrentInv') /\ (RetainedInv => RetainedInv')
  <2>1. Carried
    BY <1>0, <1>4, ReadMount
  <2>2. power = "on" /\ power' = "on"
    BY <1>4 DEF FTL_Read
  <2>3. QED
    BY <1>1, <2>1, <2>2
<1>5. ASSUME NEW t \in Temp, Reclaim(t)
      PROVE  (CurrentInv => CurrentInv') /\ (RetainedInv => RetainedInv')
  <2>1. Carried
    BY <1>0, <1>5, ReclaimMount
  <2>2. power = "on" /\ power' = "on"
    BY <1>5 DEF Reclaim
  <2>3. QED
    BY <1>1, <2>1, <2>2
<1>6. ASSUME FTL_Flush
      PROVE  (CurrentInv => CurrentInv') /\ (RetainedInv => RetainedInv')
  <2>1. Carried
    BY <1>0, <1>6, FlushMount
  <2>2. power = "on" /\ power' = "on"
    BY <1>6 DEF FTL_Flush
  <2>3. QED
    BY <1>1, <2>1, <2>2
<1>7. ASSUME NEW t \in Temp, WriteAssert(t) \/ PowerLossInReclaim(t) \/ ReplaySpins(t)
      PROVE  FALSE
  BY <1>7, WriteAssertMount, LossInReclaimMount, ReplaySpinsMount
<1>8. ASSUME NEW a \in Addr, NEW d \in Data, NEW t \in Temp, NEW tag \in Tags,
             PowerLossInWrite(a, d, t, tag)
      PROVE  /\ CurrentInv /\ "order" \notin risks' => CurrentInv'
             /\ RetainedInv /\ risks' = {} => RetainedInv'
  BY <1>8, LossInWriteTables
<1>9. ASSUME PowerLoss
      PROVE  /\ CurrentInv /\ "order" \notin risks' => CurrentInv'
             /\ RetainedInv /\ risks' = {} => RetainedInv'
  BY <1>9, LossTables
<1>10. ASSUME InitTables
       PROVE  /\ CurrentInv => CurrentInv'
              /\ RetainedInv /\ risks' = {} => RetainedInv'
  BY <1>10, InitTablesTables
<1>11. ASSUME NEW t \in Temp, ReplayPage(t)
       PROVE  (CurrentInv => CurrentInv') /\ (RetainedInv => RetainedInv')
  BY <1>11, ReplayPageTables
<1>12. ASSUME NEW t \in Temp, ReplayEnds(t)
       PROVE  (CurrentInv => CurrentInv') /\ (RetainedInv => RetainedInv')
  BY <1>12, ReplayEndsTables
<1>13. ASSUME UNCHANGED allVars
       PROVE  (CurrentInv => CurrentInv') /\ (RetainedInv => RetainedInv')
  <2>1. UNCHANGED <<nand, pmt, bdt, backup_block_count, journal, reclaim, latest,
                    benign, root, power, torn>>
    BY <1>13 DEF allVars, vars, device, history, mountVars
  <2>2. Ram' = Ram
    BY <2>1 DEF Ram
  <2>3. \A s : (CurrentIn(s)' <=> CurrentIn(s)) /\ (BenignIn(s)' <=> BenignIn(s))
    <3> TAKE s
    <3>1. \A t, a : Pending(s, t, a)' = Pending(s, t, a)
      BY <2>1 DEF Pending
    <3>2. \A a, node : Wins(s, a, node)' <=> Wins(s, a, node)
      BY <3>1 DEF Wins, LastIn
    <3>3. \A node : CellAt(node)' = CellAt(node)
      BY <2>1 DEF CellAt
    <3>4. CurrentIn(s)' <=> CurrentIn(s)
      BY <2>1, <3>2, <3>3 DEF CurrentIn
    <3>5. \A a, node : RetainsIn(s, a, CellAt(node))' <=> RetainsIn(s, a, CellAt(node))
      BY <2>1, <3>3 DEF RetainsIn
    <3>6. BenignIn(s) <=> \A a \in Addr : \A node \in MaybeNode :
                            (benign[a] # NoData /\ Wins(s, a, node)) =>
                              node # INVALID_PM_NODE /\ RetainsIn(s, a, CellAt(node))
      BY DEF BenignIn, RetainsIn
    <3>7. BenignIn(s)' <=> \A a \in Addr : \A node \in MaybeNode :
                            (benign'[a] # NoData /\ Wins(s, a, node)') =>
                              node # INVALID_PM_NODE /\ RetainsIn(s, a, CellAt(node))'
      BY DEF BenignIn, RetainsIn
    <3>8. BenignIn(s)' <=> BenignIn(s)
      BY <2>1, <3>2, <3>5, <3>6, <3>7
    <3>9. QED
      BY <3>4, <3>8
  <2>4. PICK s : s = Ram
    OBVIOUS
  <2>5. PICK r : r = root
    OBVIOUS
  <2>6. Ram' = s /\ root' = r
    BY <2>1, <2>2, <2>4, <2>5
  <2>7. (CurrentIn(Ram)' <=> CurrentIn(s)') /\ (BenignIn(Ram)' <=> BenignIn(s)')
    BY <2>6
  <2>8. (CurrentIn(root)' <=> CurrentIn(r)') /\ (BenignIn(root)' <=> BenignIn(r)')
    BY <2>6
  <2>9. (CurrentIn(s)' <=> CurrentIn(Ram)) /\ (BenignIn(s)' <=> BenignIn(Ram))
    BY <2>3, <2>4
  <2>10. (CurrentIn(r)' <=> CurrentIn(root)) /\ (BenignIn(r)' <=> BenignIn(root))
    BY <2>3, <2>5
  <2>11. QED
    BY <2>1, <2>7, <2>8, <2>9, <2>10 DEF CurrentInv, RetainedInv
<1>14. QED
  BY <1>2, <1>3, <1>4, <1>5, <1>6, <1>7, <1>8, <1>9, <1>10, <1>11, <1>12, <1>13
     DEF MountNext

LEMMA MountInvStep ==
  ASSUME MInv, [MountNext]_allVars
  PROVE  MInv'
<1>1. BaseInv
  BY DEF MInv, BaseInv
<1>2. BaseInv'
  BY <1>1, BaseStep
<1> SUFFICES ASSUME Safe', pc' # "hung"
             PROVE  /\ NoRisk({"order"})' => CurrentInv'
                    /\ NoRisk(Risks)' => RetainedInv'
  BY <1>2 DEF MInv, BaseInv
<1>3. /\ Safe /\ (NoRisk({"order"})' => NoRisk({"order"}))
      /\ NoRisk(Risks)' => NoRisk(Risks)
  BY SafeStays DEF Risks
<1>4. CASE pc = "hung"
  <2>1. HungInv
    BY <1>1, <1>3, <1>4 DEF BaseInv
  <2>2. UNCHANGED allVars
    BY <1>4, <2>1, HungStep, HungLoss DEF HungInv, InitTables
  <2>3. pc' = "hung"
    BY <1>4, <2>2 DEF allVars, vars, device
  <2>4. QED
    BY <2>3
<1>5. CASE pc # "hung"
  <2>1. FlashInv
    BY <1>1, <1>3, <1>5 DEF BaseInv
  <2>2. NoRisk({"order"})' => "order" \notin risks' /\ CurrentInv
    BY <1>3, <1>5 DEF MInv, NoRisk
  <2>3. NoRisk(Risks)' => risks' = {} /\ RetainedInv
    <3>1. MountTypeOK'
      BY <1>2 DEF BaseInv, FlashInv
    <3>2. NoRisk(Risks)' => risks' = {}
      BY <3>1 DEF MountTypeOK, NoRisk
    <3>3. QED
      BY <1>3, <1>5, <3>2 DEF MInv
  <2>4. QED
    BY <1>5, <2>1, <2>2, <2>3, TablesStep
<1>6. QED
  BY <1>4, <1>5

\* Whatever the host writes and however often power is lost: each risk that no
\* loss has left adds its part of the invariant.
THEOREM MountInvariant == MountSpec => []MInv
<1>1. MountInit => MInv
  <2> SUFFICES ASSUME MountInit PROVE MInv
    OBVIOUS
  <2>1. FlashInv /\ ExactInv /\ DeviceInv /\ pc = "idle" /\ power = "on"
    BY MountInitFlash
  <2>2. CurrentIn(Ram) /\ BenignIn(Ram)
    BY <2>1, OnTables DEF DeviceInv, FlashInv
  <2>3. QED
    BY <2>1, <2>2 DEF MInv, CurrentInv, RetainedInv
<1>2. MInv /\ [MountNext]_allVars => MInv'
  BY MountInvStep
<1>3. QED
  BY <1>1, <1>2, PTL DEF MountSpec

\* Every write FTL_Write has finished is read back after any number of power
\* losses and mounts, committed or not.
THEOREM WritesSurvivePowerLoss == MountSpec => []WritesSurvive
<1>1. MInv => WritesSurvive
  <2> SUFFICES ASSUME MInv, Mounted, NoRisk({"reclaim", "torn", "order"}), ~starved,
                      NEW a \in Addr, latest[a] # NoData
               PROVE  Mapped(a) /\ Holds(PlainRead(a), a, latest[a])
    BY DEF WritesSurvive, CurrentReadable
  <2>1. Safe /\ NoRisk({"order"}) /\ pc # "hung" /\ power = "on"
    BY DEF Safe, NoRisk, Mounted
  <2>2. FlashInv /\ CurrentInv
    BY <2>1 DEF MInv
  <2>3. TypeOK /\ Layout /\ MapInv
    BY <2>1, <2>2, OnLayout DEF FlashInv, Layout, Sound
  <2>4. Current
    BY <2>2, <2>3, OnTables DEF CurrentInv
  <2>5. QED
    BY <2>3, <2>4 DEF MapInv, Current, PlainRead, Holds
<1>2. QED
  BY <1>1, MountInvariant, PTL

\* The recover read returns the retained version after them too.
THEOREM RetainedSurvivesPowerLoss == MountSpec => []RetainedSurvives
<1>1. MInv => RetainedSurvives
  <2> SUFFICES ASSUME MInv, Mounted, NoRisk(Risks), ~starved,
                      NEW a \in Addr, benign[a] # NoData
               PROVE  Mapped(a) /\ Holds(RecoverRead(a), a, benign[a])
    BY DEF RetainedSurvives, BenignRetained
  <2>1. Safe /\ pc # "hung" /\ power = "on"
    BY DEF Safe, NoRisk, Mounted, Risks
  <2>2. FlashInv /\ RetainedInv
    BY <2>1 DEF MInv
  <2>3. TypeOK /\ Layout /\ MapInv
    BY <2>1, <2>2, OnLayout DEF FlashInv, Layout, Sound
  <2>4. BenignInv
    BY <2>2, <2>3, OnTables DEF RetainedInv
  <2>5. Mapped(a) /\ CellAt(pmt[a]).kind = "data" /\ CellAt(pmt[a]).addr = a
    BY <2>3, <2>4 DEF MapInv, BenignInv
  <2>6. QED
    BY <2>4, <2>5 DEF BenignInv, RecoverRead, Holds
<1>2. QED
  BY <1>1, MountInvariant, PTL

(***************************************************************************)
(* Pins and the room they leave.                                           *)
(***************************************************************************)

\* Tables s count their pinned blocks.
CountIn(s) == s.count = Cardinality({b \in Block : s.bdt[b] >= BACKUPFLAG})

\* Both copies do, while the device works: the ASSERT of a reclaim fails only
\* after the byte of the victim has counted on.
PinsCounted == Safe /\ pc # "hung" => CountIn(Ram) /\ CountIn(root)

LEMMA RamCount == CountIn(Ram) <=> CountInv
BY DEF CountIn, CountInv, Ram, Flagged

\* A set of tables that stays counts as before.
LEMMA TablesCountOn ==
  ASSUME NEW s, CountIn(s)
  PROVE  CountIn(s)'
BY DEF CountIn

LEMMA RootKept ==
  ASSUME CountIn(root), CountIn(Ram), root' = root \/ root' = Ram
  PROVE  CountIn(root)'
<1>1. PICK r : r = root
  OBVIOUS
<1>2. PICK s : s = Ram
  OBVIOUS
<1>3. CountIn(r)' /\ CountIn(s)'
  BY <1>1, <1>2, TablesCountOn
<1>4. QED
  BY <1>1, <1>2, <1>3

\* A call commits nothing, what it found, or what it leaves.
LEMMA CallCounts ==
  ASSUME CountIn(root), CountIn(Ram), CountInv',
         root' = root \/ root' = Ram \/ root' = Ram'
  PROVE  CountIn(Ram)' /\ CountIn(root)'
<1>1. (CountIn(Ram) <=> CountInv)'
  BY RamCount, PTL
<1>2. CASE root' = root \/ root' = Ram
  BY <1>1, <1>2, RootKept
<1>3. CASE root' = Ram'
  BY <1>1, <1>3 DEF CountIn
<1>4. QED
  BY <1>2, <1>3

\* What is lost is RAM: a mount starts with the count and the flags of one set
\* of committed tables.
LEMMA LossCounts ==
  ASSUME NEW r \in TableType, CountIn(r), LoseRam(r), root' = r
  PROVE  CountIn(Ram)' /\ CountIn(root)'
<1>1. Ram' = r
  BY LostRam
<1>2. CountIn(r)'
  BY TablesCountOn
<1>3. QED
  BY <1>1, <1>2 DEF CountIn

\* The pins BDT_Init drops are all there are, and none is left.
LEMMA DropCounts ==
  ASSUME TypeOK, Sound, bdt' = Unpinned(bdt), backup_block_count' = 0
  PROVE  CountInv'
<1>1. ASSUME NEW b \in Block
      PROVE  ~(bdt'[b] >= BACKUPFLAG)
  <2>1. bdt[b] \in Nat /\ bdt'[b] = IF bdt[b] >= BACKUPFLAG THEN bdt[b] - BACKUPFLAG
                                                            ELSE bdt[b]
    BY DEF TypeOK, Unpinned
  <2>2. bdt[b] + Cardinality(LivePages(b)) <=
          Written(b) + (IF bdt[b] >= BACKUPFLAG THEN BACKUPFLAG ELSE 0)
    BY DEF Sound, Bounded, Flagged
  <2>3. Cardinality(LivePages(b)) \in Nat
    BY LivePagesFinite
  <2>4. Written(b) \in Nat /\ Written(b) <= MAX_DIRTY_PAGES
    BY WrittenFacts DEF Sound
  <2>5. MAX_DIRTY_PAGES < BACKUPFLAG /\ MAX_DIRTY_PAGES \in Nat
    BY SizeFacts DEF BACKUPFLAG
  <2>6. PICK n \in Nat : n = Cardinality(LivePages(b))
    BY <2>3
  <2>7. PICK w \in Nat : w = Written(b)
    BY <2>4
  <2>8. QED
    BY <2>1, <2>2, <2>4, <2>5, <2>6, <2>7 DEF BACKUPFLAG
<1>2. {b \in Block : bdt'[b] >= BACKUPFLAG} = {}
  BY <1>1
<1>3. Cardinality({}) = 0
  BY FS_EmptySet
<1>4. QED
  BY <1>2, <1>3 DEF CountInv, Flagged

LEMMA CountStep ==
  ASSUME BaseInv, PinsCounted, [MountNext]_allVars
  PROVE  PinsCounted'
<1> SUFFICES ASSUME Safe', pc' # "hung"
             PROVE  CountIn(Ram)' /\ CountIn(root)'
  BY DEF PinsCounted
<1>1. Safe /\ ~starved'
  BY SafeStays DEF Safe
<1>2. pc # "hung"
  <2> SUFFICES ASSUME pc = "hung" PROVE FALSE
    OBVIOUS
  <2>1. HungInv
    BY <1>1 DEF BaseInv
  <2>2. UNCHANGED allVars
    BY <2>1, HungStep, HungLoss DEF HungInv, InitTables
  <2>3. QED
    BY <2>2 DEF allVars, vars, device
<1>3. FlashInv /\ CountIn(Ram) /\ CountIn(root) /\ CountInv
  BY <1>1, <1>2, RamCount DEF BaseInv, PinsCounted
<1>4. TypeOK /\ Sound
  BY <1>3 DEF FlashInv
<1>5. ASSUME NEW a \in Addr, NEW d \in Data, NEW t \in Temp, NEW tag \in Tags,
             FTL_Write(a, d, t, tag)
      PROVE  CountIn(Ram)' /\ CountIn(root)'
  <2>1. CountInv'
    BY <1>1, <1>3, <1>5, WriteMount DEF Carried
  <2>2. root' = root \/ root' = Ram
    BY <1>5 DEF FTL_Write
  <2>3. QED
    BY <1>3, <2>1, <2>2, CallCounts
<1>6. ASSUME NEW a \in Addr, NEW t \in Temp, Trim(a, t)
      PROVE  CountIn(Ram)' /\ CountIn(root)'
  <2>1. CountInv'
    BY <1>1, <1>3, <1>6, TrimMount DEF Carried
  <2>2. root' = root \/ root' = Ram
    BY <1>6 DEF Trim, PMT_Load, DATA_Commit
  <2>3. QED
    BY <1>3, <2>1, <2>2, CallCounts
<1>7. ASSUME NEW a \in Addr, FTL_Read(a)
      PROVE  CountIn(Ram)' /\ CountIn(root)'
  <2>1. CountInv'
    BY <1>1, <1>3, <1>7, ReadMount DEF Carried
  <2>2. root' = root \/ root' = Ram
    BY <1>7 DEF FTL_Read, PMT_Load, DATA_Commit
  <2>3. QED
    BY <1>3, <2>1, <2>2, CallCounts
<1>8. ASSUME FTL_Flush
      PROVE  CountIn(Ram)' /\ CountIn(root)'
  <2>1. CountInv'
    BY <1>1, <1>3, <1>8, FlushMount DEF Carried
  <2>2. root' = Ram
    BY <1>8 DEF FTL_Flush, DATA_Commit
  <2>3. QED
    BY <1>3, <2>1, <2>2, CallCounts
<1>9. ASSUME NEW t \in Temp, Reclaim(t)
      PROVE  CountIn(Ram)' /\ CountIn(root)'
  <2>1. CountInv'
    BY <1>1, <1>3, <1>9, ReclaimMount DEF Carried
  <2>2. root' = root \/ root' = Ram'
    BY <1>9 DEF Reclaim, CommitReclaimed
  <2>3. QED
    BY <1>3, <2>1, <2>2, CallCounts
<1>10. ASSUME NEW t \in Temp, WriteAssert(t) \/ PowerLossInReclaim(t) \/ ReplaySpins(t)
       PROVE  FALSE
  BY <1>2, <1>3, <1>10, WriteAssertMount, LossInReclaimMount, ReplaySpinsMount
<1>11. ASSUME PowerLoss \/ \E a \in Addr, d \in Data, t \in Temp, tag \in Tags :
                             PowerLossInWrite(a, d, t, tag)
       PROVE  CountIn(Ram)' /\ CountIn(root)'
  <2>1. Ram \in TableType /\ root \in TableType
    BY <1>3, RamType DEF FlashInv, MountTypeOK
  <2>2. PICK s : s = Ram
    OBVIOUS
  <2>3. PICK r : r = root
    OBVIOUS
  <2>4. PICK u \in {r, s} : LoseRam(u) /\ root' = u
    <3>1. CASE PowerLoss
      <4>1. LoseRam(r) /\ root' = r
        BY <2>3, <3>1 DEF PowerLoss
      <4>2. QED
        BY <4>1
    <3>2. ASSUME NEW a \in Addr, NEW d \in Data, NEW t \in Temp, NEW tag \in Tags,
                 PowerLossInWrite(a, d, t, tag)
          PROVE  \E u \in {r, s} : LoseRam(u) /\ root' = u
      <4>1. CASE EvictsEarly(a, tag)
        <5>1. LoseRam(s) /\ root' = s
          BY <2>2, <3>2, <4>1 DEF PowerLossInWrite
        <5>2. QED
          BY <5>1
      <4>2. CASE ~EvictsEarly(a, tag)
        <5>1. LoseRam(r) /\ root' = r
          BY <2>3, <3>2, <4>2 DEF PowerLossInWrite
        <5>2. QED
          BY <5>1
      <4>3. QED
        BY <4>1, <4>2
    <3>3. QED
      BY <1>11, <3>1, <3>2
  <2>5. CountIn(u) /\ u \in TableType
    BY <1>3, <2>1, <2>2, <2>3, <2>4
  <2>6. QED
    BY <2>4, <2>5, LossCounts
<1>12. ASSUME InitTables
       PROVE  CountIn(Ram)' /\ CountIn(root)'
  <2>1. root = Ram /\ root' = root
    BY <1>3, <1>12 DEF FlashInv, PowerInv, InitTables
  <2>2. CountInv'
    <3>1. CASE root.count >= THRESHOLD
      BY <1>4, <1>12, <2>1, <3>1, DropCounts DEF InitTables, Ram
    <3>2. CASE ~(root.count >= THRESHOLD)
      <4>1. bdt' = bdt /\ backup_block_count' = backup_block_count
        BY <1>12, <2>1, <3>2 DEF InitTables, Ram
      <4>2. QED
        BY <1>3, <4>1 DEF CountInv, Flagged
    <3>3. QED
      BY <3>1, <3>2
  <2>3. QED
    BY <1>3, <2>1, <2>2, CallCounts
<1>13. ASSUME NEW t \in Temp, ReplayPage(t)
       PROVE  CountIn(Ram)' /\ CountIn(root)'
  <2>1. PICK a \in Addr : RemapEffect(a, t) /\ PMT_Update(a, journal[t], FALSE)
    BY <1>3, <1>13, ReplayRemaps
  <2>2. CountInv'
    BY <1>3, <1>4, <2>1, RemapSound
  <2>3. root' = root \/ root' = Ram
    BY <1>13 DEF ReplayPage, ReplayLoad
  <2>4. QED
    BY <1>3, <2>2, <2>3, CallCounts
<1>14. ASSUME UNCHANGED <<bdt, backup_block_count, root>>
       PROVE  CountIn(Ram)' /\ CountIn(root)'
  <2>1. CountInv'
    BY <1>3, <1>14 DEF CountInv, Flagged
  <2>2. QED
    BY <1>3, <1>14, <2>1, CallCounts
<1>15. ASSUME NEW t \in Temp, ReplayEnds(t)
       PROVE  UNCHANGED <<bdt, backup_block_count, root>>
  BY <1>15 DEF ReplayEnds
<1>16. CASE UNCHANGED allVars
  <2>1. UNCHANGED <<bdt, backup_block_count, root>>
    BY <1>16 DEF allVars, vars, device, mountVars
  <2>2. QED
    BY <2>1, <1>14
<1>17. QED
  BY <1>5, <1>6, <1>7, <1>8, <1>9, <1>10, <1>11, <1>12, <1>13, <1>14, <1>15, <1>16
     DEF MountNext

LEMMA PinsAlwaysCounted == MountSpec => []PinsCounted
<1>1. MountInit => PinsCounted
  <2> SUFFICES ASSUME MountInit PROVE CountIn(Ram) /\ CountIn(root)
    BY DEF PinsCounted
  <2>1. CountInv /\ root = Ram
    BY MountInitFlash DEF DeviceInv
  <2>2. QED
    BY <2>1, RamCount
<1>2. BaseInv /\ PinsCounted /\ [MountNext]_allVars => PinsCounted'
  BY CountStep
<1>3. QED
  BY <1>1, <1>2, BaseInvariant, PTL DEF MountSpec

\* backup_block_count is the number of pinned blocks across power losses and
\* mounts, those that drop the pins included.
THEOREM CountSurvivesPowerLoss ==
  MountSpec => [](Safe /\ pc # "hung" => BackupCountExact)
<1>1. PinsCounted => (Safe /\ pc # "hung" => BackupCountExact)
  BY RamCount DEF PinsCounted, CountInv, BackupCountExact
<1>2. QED
  BY <1>1, PinsAlwaysCounted, PTL

\* Without tags there is nothing to drop and nothing to pin.
Plain == NoRisk({"reclaim", "torn"}) =>
  ~starved /\ backup_block_count = 0 /\ root.count = 0 /\ NoRisk({"threshold"})

\* Nor does a power loss starve a host that tags nothing: a mount goes on with
\* counts by which every reclaim finds a dirty page.
THEOREM PlainHostNeverStarvesAfterMount ==
  ASSUME Tags = {"none"}, IsFiniteSet(Addr),
         Cardinality(Addr) < (NBlock - 2) * MAX_DIRTY_PAGES
  PROVE  MountSpec => [](NoRisk({"reclaim", "torn"}) => NeverStarved)
<1>1. MountInit => Plain
  BY DEF MountInit, Init, Plain, NoRisk, Ram
<1>2. BaseInv /\ PinsCounted /\ Plain /\ [MountNext]_allVars => Plain'
  <2> SUFFICES ASSUME BaseInv, PinsCounted, Plain, [MountNext]_allVars,
                      NoRisk({"reclaim", "torn"})'
               PROVE  /\ ~starved' /\ backup_block_count' = 0 /\ root'.count = 0
                      /\ NoRisk({"threshold"})'
    BY DEF Plain
  <2>1. /\ ~starved /\ backup_block_count = 0 /\ root.count = 0
        /\ "threshold" \notin risks /\ Safe
    BY RisksStay DEF Plain, Safe, NoRisk
  <2>2. Ram.count = 0
    BY <2>1 DEF Ram
  <2>3. ASSUME NEW a \in Addr, NEW d \in Data, NEW t \in Temp, NEW tag \in Tags,
               FTL_Write(a, d, t, tag)
        PROVE  /\ ~starved' /\ backup_block_count' = 0 /\ root'.count = 0
               /\ risks' = risks
    BY <2>1, <2>2, <2>3 DEF FTL_Write, DATA_Write, PMT_Update
  <2>4. ASSUME NEW a \in Addr, NEW t \in Temp, Trim(a, t)
        PROVE  /\ ~starved' /\ backup_block_count' = 0 /\ root'.count = 0
               /\ risks' = risks
    BY <2>1, <2>2, <2>4 DEF Trim, FTL_Trim, PMT_Update, PMT_Load, DATA_Commit
  <2>5. ASSUME NEW a \in Addr, FTL_Read(a)
        PROVE  /\ ~starved' /\ backup_block_count' = 0 /\ root'.count = 0
               /\ risks' = risks
    BY <2>1, <2>2, <2>5 DEF FTL_Read, PMT_Load, DATA_Commit, vars, device
  <2>6. ASSUME FTL_Flush
        PROVE  /\ ~starved' /\ backup_block_count' = 0 /\ root'.count = 0
               /\ risks' = risks
    BY <2>1, <2>2, <2>6 DEF FTL_Flush, DATA_Commit, vars, device
  <2>7. ASSUME NEW t \in Temp, Reclaim(t)
        PROVE  /\ ~starved' /\ backup_block_count' = 0 /\ root'.count = 0
               /\ risks' = risks
    <3>1. DATA_Reclaim(t) /\ pc = t /\ power = "on" /\ risks' = risks
      BY <2>7 DEF Reclaim, DATA_Reclaim
    <3>2. pc # "hung"
      BY <3>1 DEF Temp
    <3>3. FlashInv /\ ExactInv /\ CountInv
      BY <2>1, <3>2, RamCount DEF BaseInv, PinsCounted, NoRisk
    <3>4. TypeOK /\ Layout /\ Exact
      BY <3>1, <3>3, OnLayout DEF FlashInv, ExactInv
    <3>5. \A b \in Block : ~Flagged(b)
      BY <2>1, <3>3, <3>4, NothingPinned
    <3>6. ~starved'
      BY <2>1, <3>1, <3>4, <3>5, DirtyPageFound, StarvedByReclaim
    <3>7. backup_block_count' = backup_block_count
      BY <3>1 DEF DATA_Reclaim, ReclaimSearchForever, ReclaimErase, ReclaimCopy,
                  ReclaimAssert, ReclaimProgramAssert
    <3>8. root' = root \/ root' = Ram'
      BY <2>7 DEF Reclaim, CommitReclaimed
    <3>9. QED
      BY <2>1, <3>1, <3>6, <3>7, <3>8 DEF Ram
  <2>8. ASSUME NEW t \in Temp, WriteAssert(t)
        PROVE  /\ ~starved' /\ backup_block_count' = 0 /\ root'.count = 0
               /\ risks' = risks
    BY <2>1, <2>8 DEF WriteAssert, DATA_WriteAssert, mountVars
  <2>9. ASSUME PowerLoss
        PROVE  /\ ~starved' /\ backup_block_count' = 0 /\ root'.count = 0
               /\ "threshold" \notin risks'
    BY <2>1, <2>9 DEF PowerLoss, LoseRam, NewRisks
  <2>10. ASSUME NEW a \in Addr, NEW d \in Data, NEW t \in Temp, NEW tag \in Tags,
                PowerLossInWrite(a, d, t, tag)
         PROVE  /\ ~starved' /\ backup_block_count' = 0 /\ root'.count = 0
                /\ "threshold" \notin risks'
    BY <2>1, <2>2, <2>10 DEF PowerLossInWrite, LoseRam, NewRisks
  <2>11. ASSUME NEW t \in Temp, PowerLossInReclaim(t)
         PROVE  /\ ~starved' /\ backup_block_count' = 0 /\ root'.count = 0
                /\ "threshold" \notin risks'
    BY <2>1, <2>11 DEF PowerLossInReclaim, LoseRam, NewRisks
  <2>12. ASSUME InitTables
         PROVE  /\ ~starved' /\ backup_block_count' = 0 /\ root'.count = 0
                /\ risks' = risks
    <3>1. ~(root.count >= THRESHOLD)
      BY <2>1, ThresholdAssumption
    <3>2. QED
      BY <2>1, <2>12, <3>1 DEF InitTables
  <2>13. ASSUME NEW t \in Temp, ReplayPage(t)
         PROVE  /\ ~starved' /\ backup_block_count' = 0 /\ root'.count = 0
                /\ risks' = risks
    BY <2>1, <2>2, <2>13 DEF ReplayPage, ReplayLoad, PMT_Update
  <2>14. ASSUME NEW t \in Temp, ReplaySpins(t) \/ ReplayEnds(t)
         PROVE  /\ ~starved' /\ backup_block_count' = 0 /\ root'.count = 0
                /\ risks' = risks
    BY <2>1, <2>14 DEF ReplaySpins, ReplayEnds, mountVars
  <2>15. CASE UNCHANGED allVars
    BY <2>1, <2>15 DEF allVars, vars, device, mountVars, NoRisk
  <2>16. QED
    BY <2>1, <2>3, <2>4, <2>5, <2>6, <2>7, <2>8, <2>9, <2>10, <2>11, <2>12, <2>13, <2>14,
       <2>15 DEF MountNext, NoRisk
<1>3. Plain => (NoRisk({"reclaim", "torn"}) => NeverStarved)
  BY DEF Plain, NeverStarved
<1>4. QED
  BY <1>1, <1>2, <1>3, BaseInvariant, PinsAlwaysCounted, PTL DEF MountSpec

=============================================================================
