--------------------------- MODULE FtlDataProofs ---------------------------
(***************************************************************************)
(* Proofs about FtlData, for every number of blocks, block size, address   *)
(* set, contents and tag set: its types, its inductive invariant and what  *)
(* follows from it, what pins protect even on a starved device, when the   *)
(* device is never starved, and that it implements FtlRetention.           *)
(***************************************************************************)
EXTENDS FtlDataRefinement, FiniteSetTheorems, TLAPS

(***************************************************************************)
(* Facts about single operators.                                           *)
(***************************************************************************)

\* The search for a victim returns neither a pinned block nor the journal of
\* the other temperature.
LEMMA VictimFacts ==
  ASSUME NEW t \in Temp, NEW v \in Block, IsVictim(v, t)
  PROVE  v # journal[Other(t)].blk /\ bdt[v] <= MAX_DIRTY_PAGES
BY DEF IsVictim, Candidates

\* Advancing a PM node keeps its type: the page field carries into the block.
LEMMA NextPageType ==
  ASSUME NEW node \in PmNode
  PROVE  NextPage(node) \in [blk : 0 .. NBlock, pg : Page]
BY NBlockAssumption, PPBAssumption
   DEF NextPage, PmNode, Block, Page, MAX_DIRTY_PAGES

LEMMA OldLogicAddrType ==
  ASSUME TypeOK, NEW a \in Addr, NEW tag \in AllTags
  PROVE  OldLogicAddr(a, tag) \subseteq MaybeNode
<1>1. pmt[a] \in MaybeNode
  BY DEF TypeOK
<1>2. ASSUME Mapped(a), CellAt(pmt[a]).kind = "data"
      PROVE  CellAt(pmt[a]).old \in MaybeNode
  <2>1. pmt[a] \in PmNode
    BY <1>1, <1>2 DEF Mapped, MaybeNode
  <2>2. CellAt(pmt[a]) \in Cell
    BY <2>1 DEF TypeOK, CellAt, PmNode
  <2>3. CellAt(pmt[a]) \in DataCell
    BY <1>2, <2>2 DEF Cell, Erased, MetaPage
  <2>4. QED
    BY <2>3 DEF DataCell
<1>3. CASE tag = "none"
  BY <1>3 DEF OldLogicAddr, MaybeNode
<1>4. CASE tag = "ransom"
  <2>1. CASE Mapped(a)
    BY <1>1, <1>2, <1>4, <2>1 DEF OldLogicAddr
  <2>2. CASE ~Mapped(a)
    BY <1>4, <2>2 DEF OldLogicAddr, MaybeNode
  <2>3. QED
    BY <2>1, <2>2
<1>5. CASE tag = "mft"
  BY <1>1, <1>5, StackAssumption DEF OldLogicAddr
<1>6. QED
  BY <1>3, <1>4, <1>5 DEF AllTags

\* Where the copy loop puts the live pages: in the first pages of the reclaim
\* block, one page each, without gaps.
LEMMA PlacementFacts ==
  ASSUME NEW live \in SUBSET DataPage, NEW m \in Placements(live)
  PROVE  /\ IsFiniteSet(live)
         /\ Cardinality(live) \in 0 .. MAX_DIRTY_PAGES
         /\ m \in [live -> 0 .. Cardinality(live) - 1]
         /\ \A p \in live : m[p] \in DataPage
         /\ \A p, q \in live : p # q => m[p] # m[q]
         /\ \A r \in 0 .. Cardinality(live) - 1 : \E p \in live : m[p] = r
<1>1. MAX_DIRTY_PAGES \in Nat /\ MAX_DIRTY_PAGES >= 1
  BY PPBAssumption DEF MAX_DIRTY_PAGES
<1>2. IsFiniteSet(DataPage) /\ Cardinality(DataPage) = MAX_DIRTY_PAGES
  BY <1>1, FS_Interval DEF DataPage
<1>3. IsFiniteSet(live) /\ Cardinality(live) <= MAX_DIRTY_PAGES
  BY <1>2, FS_Subset
<1>4. Cardinality(live) \in Nat
  BY <1>3, FS_CardinalityType
<1>5. /\ m \in [live -> 0 .. Cardinality(live) - 1]
      /\ \A p, q \in live : p < q => m[p] < m[q]
      /\ \A r \in 0 .. Cardinality(live) - 1 : \E p \in live : m[p] = r
  BY DEF Placements
<1>6. \A p \in live : m[p] \in DataPage
  BY <1>1, <1>3, <1>4, <1>5 DEF DataPage
<1>7. ASSUME NEW p \in live, NEW q \in live, p # q
      PROVE  m[p] # m[q]
  <2>1. p \in Int /\ q \in Int /\ m[p] \in Int /\ m[q] \in Int
    BY <1>1, <1>4, <1>5 DEF DataPage
  <2>2. p < q \/ q < p
    BY <1>7, <2>1
  <2>3. QED
    BY <1>5, <2>1, <2>2
<1>8. QED
  BY <1>1, <1>3, <1>4, <1>5, <1>6, <1>7

\* The pages a reclaim may recognise as live are data pages of its victim.
LEMMA RecognisedFacts ==
  ASSUME TypeOK, NEW v \in Block, NEW live \in Recognised(v)
  PROVE  live \subseteq LivePages(v) /\ live \subseteq DataPage
<1>1. MAX_DIRTY_PAGES \in Page
  BY PPBAssumption DEF Page, MAX_DIRTY_PAGES
<1>2. nand[v][MAX_DIRTY_PAGES] \in Cell
  BY <1>1 DEF TypeOK
<1>3. nand[v][MAX_DIRTY_PAGES].kind \in {"meta", "erased", "data"}
  BY <1>2 DEF Cell, DataCell, Erased, MetaPage
<1>4. live \subseteq LivePages(v)
  BY <1>3 DEF Recognised
<1>5. QED
  BY <1>4 DEF LivePages

(***************************************************************************)
(* Type correctness.                                                       *)
(***************************************************************************)

LEMMA InitType == Init => TypeOK
<1> SUFFICES ASSUME Init PROVE TypeOK
  OBVIOUS
<1> USE NBlockAssumption, PPBAssumption
<1>1. 0 \in Page /\ {0, 1, 2} \subseteq Block /\ MAX_DIRTY_PAGES \in Nat
  BY DEF Page, Block, MAX_DIRTY_PAGES
<1>2. nand \in [Block -> [Page -> Cell]]
  BY DEF Init, Cell
<1>3. pmt \in [Addr -> MaybeNode] /\ bdt \in [Block -> Nat]
  BY <1>1 DEF Init, MaybeNode
<1>4. journal \in [Temp -> [blk : 0 .. NBlock, pg : Page]]
  BY <1>1 DEF Init, Block
<1>5. QED
  BY <1>1, <1>2, <1>3, <1>4 DEF Init, TypeOK, PcValues

\* PMT_Update leaves the three tables well typed.
LEMMA PmtUpdateType ==
  ASSUME TypeOK, NEW a \in Addr, NEW node \in MaybeNode, NEW is_backup \in BOOLEAN,
         PMT_Update(a, node, is_backup)
  PROVE  /\ pmt' \in [Addr -> MaybeNode]
         /\ bdt' \in [Block -> Nat]
         /\ backup_block_count' \in Nat
<1>1. pmt' \in [Addr -> MaybeNode]
  BY DEF PMT_Update, TypeOK
<1>2. bdt' \in [Block -> Nat]
  <2>1. Mapped(a) => pmt[a].blk \in Block
    BY DEF Mapped, TypeOK, MaybeNode, PmNode
  <2>2. CASE Mapped(a)
    BY <2>1, <2>2 DEF PMT_Update, TypeOK, BACKUPFLAG
  <2>3. CASE ~Mapped(a)
    BY <2>3 DEF PMT_Update, TypeOK
  <2>4. QED
    BY <2>2, <2>3
<1>3. backup_block_count' \in Nat
  BY DEF PMT_Update, TypeOK
<1>4. QED
  BY <1>1, <1>2, <1>3

LEMMA WriteType ==
  ASSUME TypeOK, NEW a \in Addr, NEW d \in Data, NEW t \in Temp,
         NEW tag \in Tags, DATA_Write(a, d, t, tag)
  PROVE  TypeOK'
<1>0. tag \in AllTags
  BY TagsAssumption
<1>1. journal[t] \in PmNode
  BY DEF DATA_Write, CanProgram, TypeOK, PmNode
<1>2. PICK old \in OldLogicAddr(a, tag) :
        Program(journal[t], [kind |-> "data", addr |-> a, data |-> d, old |-> old])
  BY DEF DATA_Write
<1>3. old \in MaybeNode
  BY <1>0, <1>2, OldLogicAddrType
<1>4. nand' \in [Block -> [Page -> Cell]]
  <2>1. [kind |-> "data", addr |-> a, data |-> d, old |-> old] \in Cell
    BY <1>3 DEF Cell, DataCell
  <2>2. MetaPage \in Cell
    BY DEF Cell
  <2>3. QED
    BY <1>1, <1>2, <2>1, <2>2 DEF Program, TypeOK, PmNode
<1>5. /\ pmt' \in [Addr -> MaybeNode]
      /\ bdt' \in [Block -> Nat]
      /\ backup_block_count' \in Nat
  <2>1. (tag = "ransom" /\ Mapped(a)) \in BOOLEAN
    OBVIOUS
  <2>2. journal[t] \in MaybeNode
    BY <1>1 DEF MaybeNode
  <2>3. PMT_Update(a, journal[t], tag = "ransom" /\ Mapped(a))
    BY DEF DATA_Write
  <2>4. QED
    BY <2>1, <2>2, <2>3, PmtUpdateType
<1>6. journal' \in [Temp -> [blk : 0 .. NBlock, pg : Page]]
  BY <1>1, NextPageType DEF DATA_Write, TypeOK
<1>7. reclaim' \in Block /\ starved' \in BOOLEAN /\ pc' \in PcValues
  BY DEF DATA_Write, TypeOK, PcValues
<1>8. /\ latest' \in [Addr -> Data \cup {NoData}]
      /\ benign' \in [Addr -> Data \cup {NoData}]
  BY <1>0 DEF DATA_Write, RecordWrite, TypeOK, AllTags
<1>9. asked' \in Request \cup {NoRequest}
  BY DEF DATA_Write, RecordWrite, Request
<1>10. QED
  BY <1>4, <1>5, <1>6, <1>7, <1>8, <1>9 DEF TypeOK

LEMMA TrimType ==
  ASSUME TypeOK, NEW a \in Addr, NEW t \in Temp, FTL_Trim(a, t)
  PROVE  TypeOK'
<1>1. INVALID_PM_NODE \in MaybeNode /\ FALSE \in BOOLEAN
  BY DEF MaybeNode
<1>2. /\ pmt' \in [Addr -> MaybeNode]
      /\ bdt' \in [Block -> Nat]
      /\ backup_block_count' \in Nat
  BY <1>1, PmtUpdateType DEF FTL_Trim
<1>3. asked' \in Request \cup {NoRequest}
  BY DEF FTL_Trim, Request
<1>4. QED
  BY <1>2, <1>3 DEF FTL_Trim, TypeOK, PcValues

\* The copy loop fills the reclaim block with cells and remaps to its pages.
LEMMA CopyType ==
  ASSUME TypeOK, NEW v \in Block, NEW live \in SUBSET DataPage,
         NEW m \in Placements(live)
  PROVE  /\ Copied(v, live, m) \in [Page -> Cell]
         /\ Remapped(v, live, m) \in [Addr -> MaybeNode]
<1>1. DataPage \subseteq Page
  BY PPBAssumption DEF DataPage, Page, MAX_DIRTY_PAGES
<1>2. ASSUME NEW r \in Page, \E p \in live : m[p] = r
      PROVE  nand[v][CHOOSE p \in live : m[p] = r] \in Cell
  <2>1. (CHOOSE p \in live : m[p] = r) \in Page
    BY <1>1, <1>2
  <2>2. QED
    BY <2>1 DEF TypeOK
<1>3. Copied(v, live, m) \in [Page -> Cell]
  BY <1>2 DEF Copied, TypeOK
<1>4. \A p \in live : [blk |-> reclaim, pg |-> m[p]] \in MaybeNode
  BY <1>1, PlacementFacts DEF MaybeNode, PmNode, TypeOK
<1>5. Remapped(v, live, m) \in [Addr -> MaybeNode]
  BY <1>4 DEF Remapped, TypeOK
<1>6. QED
  BY <1>3, <1>5

LEMMA AllErasedType == AllErased \in [Page -> Cell]
BY DEF AllErased, Cell

LEMMA ReclaimType ==
  ASSUME TypeOK, NEW t \in Temp, DATA_Reclaim(t)
  PROVE  TypeOK'
<1>0. 0 \in Page /\ 0 \in Nat /\ Block \subseteq 0 .. NBlock
  BY NBlockAssumption, PPBAssumption DEF Page, Block, MAX_DIRTY_PAGES
<1>1. CASE ReclaimSearchForever(t)
  BY <1>1 DEF ReclaimSearchForever, history, TypeOK, PcValues
<1>2. ASSUME NEW v \in Block, ReclaimErase(t, v)
      PROVE  TypeOK'
  <2>1. nand' \in [Block -> [Page -> Cell]]
    BY <1>2, AllErasedType DEF ReclaimErase, TypeOK
  <2>2. bdt' \in [Block -> Nat]
    BY <1>0, <1>2 DEF ReclaimErase, TypeOK
  <2>3. journal' \in [Temp -> [blk : 0 .. NBlock, pg : Page]]
    BY <1>0, <1>2 DEF ReclaimErase, TypeOK
  <2>4. QED
    BY <1>2, <2>1, <2>2, <2>3 DEF ReclaimErase, history, TypeOK, PcValues
<1>3. ASSUME NEW v \in Block, NEW live \in Recognised(v),
             NEW m \in Placements(live), ReclaimCopy(t, v, live, m)
      PROVE  TypeOK'
  <2>0. live \in SUBSET DataPage
    BY RecognisedFacts
  <2>1. nand' \in [Block -> [Page -> Cell]]
    BY <1>3, <2>0, AllErasedType, CopyType DEF ReclaimCopy, TypeOK
  <2>2. pmt' \in [Addr -> MaybeNode]
    BY <1>3, <2>0, CopyType DEF ReclaimCopy
  <2>3. bdt' \in [Block -> Nat]
    BY <1>0, <1>3 DEF ReclaimCopy, TypeOK
  <2>4. journal' \in [Temp -> [blk : 0 .. NBlock, pg : Page]]
    <3>1. Cardinality(live) \in Page
      BY <2>0, PlacementFacts DEF Page
    <3>2. reclaim \in 0 .. NBlock
      BY <1>0 DEF TypeOK
    <3>3. QED
      BY <1>3, <3>1, <3>2 DEF ReclaimCopy, TypeOK
  <2>5. starved' \in BOOLEAN
    BY <1>3 DEF ReclaimCopy, TypeOK
  <2>6. QED
    BY <1>3, <2>1, <2>2, <2>3, <2>4, <2>5
       DEF ReclaimCopy, history, TypeOK, PcValues
<1>4. ASSUME NEW v \in Block, NEW live \in Recognised(v),
             NEW m \in Placements(live), ReclaimAssert(t, v, live, m)
      PROVE  TypeOK'
  <2>0. live \in SUBSET DataPage
    BY RecognisedFacts
  <2>1. nand' \in [Block -> [Page -> Cell]]
    BY <1>4, <2>0, CopyType DEF ReclaimAssert, TypeOK
  <2>2. pmt' \in [Addr -> MaybeNode]
    BY <1>4, <2>0, CopyType DEF ReclaimAssert
  <2>3. bdt' \in [Block -> Nat]
    <3>1. Cardinality(live) \in Nat
      BY <2>0, PlacementFacts
    <3>2. QED
      BY <1>4, <3>1 DEF ReclaimAssert, TypeOK
  <2>4. starved' \in BOOLEAN
    BY <1>4 DEF ReclaimAssert, TypeOK
  <2>5. QED
    BY <1>4, <2>1, <2>2, <2>3, <2>4 DEF ReclaimAssert, history, TypeOK, PcValues
<1>5. ASSUME NEW v \in Block, NEW live \in Recognised(v),
             NEW m \in Placements(live), ReclaimProgramAssert(t, v, live, m)
      PROVE  TypeOK'
  BY <1>5 DEF ReclaimProgramAssert, history, TypeOK, PcValues
<1>6. QED
  BY <1>1, <1>2, <1>3, <1>4, <1>5 DEF DATA_Reclaim

\* Every call keeps the types.
LEMMA TypeStep ==
  ASSUME TypeOK, [Next]_vars
  PROVE  TypeOK'
<1>1. ASSUME NEW a \in Addr, NEW d \in Data, NEW t \in Temp, NEW tag \in Tags,
             DATA_Write(a, d, t, tag)
      PROVE  TypeOK'
  BY <1>1, WriteType
<1>2. ASSUME NEW t \in Temp, DATA_WriteAssert(t)
      PROVE  TypeOK'
  BY <1>2 DEF DATA_WriteAssert, history, TypeOK, PcValues
<1>3. ASSUME NEW a \in Addr, NEW t \in Temp, FTL_Trim(a, t)
      PROVE  TypeOK'
  BY <1>3, TrimType
<1>4. ASSUME NEW t \in Temp, DATA_Reclaim(t)
      PROVE  TypeOK'
  BY <1>4, ReclaimType
<1>5. CASE UNCHANGED vars
  BY <1>5 DEF vars, device, history, TypeOK
<1>6. QED
  BY <1>1, <1>2, <1>3, <1>4, <1>5 DEF Next

\* Every variable keeps its type, whatever the host writes and trims and
\* whatever DATA_Reclaim does, starved or not.
THEOREM TypeCorrect == Spec => []TypeOK
<1>1. Init => TypeOK
  BY InitType
<1>2. TypeOK /\ [Next]_vars => TypeOK'
  BY TypeStep
<1>3. QED
  BY <1>1, <1>2, PTL DEF Spec

-----------------------------------------------------------------------------
(***************************************************************************)
(* The inductive invariant: first what a host write and a trim preserve,   *)
(* then what each outcome of DATA_Reclaim preserves.                       *)
(***************************************************************************)

(***************************************************************************)
(* The device invariant: facts used by every step.                         *)
(***************************************************************************)

LEMMA SizeFacts ==
  /\ MAX_DIRTY_PAGES \in Nat /\ MAX_DIRTY_PAGES >= 1
  /\ MAX_DIRTY_PAGES < BACKUPFLAG
  /\ MAX_DIRTY_PAGES \in Page /\ MAX_DIRTY_PAGES \notin DataPage
  /\ DataPage \subseteq Page /\ Page \subseteq Int
BY PPBAssumption DEF MAX_DIRTY_PAGES, BACKUPFLAG, Page, DataPage

LEMMA LivePagesFinite ==
  ASSUME NEW b \in Block
  PROVE  /\ IsFiniteSet(LivePages(b)) /\ Cardinality(LivePages(b)) \in Nat
         /\ LivePages(b) \subseteq DataPage
<1>1. LivePages(b) \subseteq DataPage
  BY DEF LivePages
<1>2. IsFiniteSet(DataPage)
  BY SizeFacts, FS_Interval DEF DataPage
<1>3. QED
  BY <1>1, <1>2, FS_Subset, FS_CardinalityType

LEMMA LivePagesFinitePrime ==
  ASSUME NEW b \in Block
  PROVE  /\ IsFiniteSet(LivePages(b)') /\ Cardinality(LivePages(b)') \in Nat
         /\ LivePages(b)' \subseteq DataPage
<1>1. LivePages(b)' \subseteq DataPage
  BY DEF LivePages
<1>2. IsFiniteSet(DataPage)
  BY SizeFacts, FS_Interval DEF DataPage
<1>3. QED
  BY <1>1, <1>2, FS_Subset, FS_CardinalityType

\* A mapped address points at a live page of its own, and at no page of
\* another address.
LEMMA MappedFacts ==
  ASSUME TypeOK, MapInv, NEW a \in Addr, Mapped(a)
  PROVE  /\ pmt[a] \in PmNode
         /\ pmt[a].blk \in Block /\ pmt[a].pg \in DataPage
         /\ pmt[a] = [blk |-> pmt[a].blk, pg |-> pmt[a].pg]
         /\ CellAt(pmt[a]) \in DataCell /\ CellAt(pmt[a]).addr = a
         /\ pmt[a].pg \in LivePages(pmt[a].blk)
         /\ \A b \in Addr : Mapped(b) /\ pmt[b] = pmt[a] => b = a
<1>1. pmt[a] \in PmNode /\ pmt[a] = [blk |-> pmt[a].blk, pg |-> pmt[a].pg]
  BY DEF TypeOK, Mapped, MaybeNode, PmNode
<1>2. pmt[a].blk \in Block /\ pmt[a].pg \in DataPage /\ pmt[a].pg \in Page
  BY <1>1, SizeFacts DEF MapInv, PmNode
<1>3. CellAt(pmt[a]).kind = "data" /\ CellAt(pmt[a]).addr = a
  BY DEF MapInv
<1>4. CellAt(pmt[a]) \in Cell
  BY <1>2 DEF CellAt, TypeOK
<1>5. CellAt(pmt[a]) \in DataCell
  BY <1>3, <1>4 DEF Cell, Erased, MetaPage
<1>6. pmt[a].pg \in LivePages(pmt[a].blk)
  BY <1>1, <1>2, <1>3 DEF LivePages, CellAt
<1>7. \A b \in Addr : Mapped(b) /\ pmt[b] = pmt[a] => b = a
  BY <1>3 DEF MapInv
<1>8. QED
  BY <1>1, <1>2, <1>3, <1>5, <1>6, <1>7

\* A page of block b is live only if its own address maps to it.
LEMMA LivePageFacts ==
  ASSUME TypeOK, NEW b \in Block, NEW p \in LivePages(b)
  PROVE  /\ p \in DataPage /\ p \in Page
         /\ nand[b][p] \in DataCell
         /\ nand[b][p].addr \in Addr
         /\ Mapped(nand[b][p].addr)
         /\ pmt[nand[b][p].addr] = [blk |-> b, pg |-> p]
         /\ nand[b][p] # Erased /\ nand[b][p] # MetaPage
<1>1. /\ p \in DataPage /\ p \in Page /\ nand[b][p].kind = "data"
      /\ pmt[nand[b][p].addr] = [blk |-> b, pg |-> p]
  BY SizeFacts DEF LivePages
<1>2. nand[b][p] \in Cell
  BY <1>1 DEF TypeOK
<1>3. nand[b][p] \in DataCell /\ nand[b][p] # Erased /\ nand[b][p] # MetaPage
  BY <1>1, <1>2 DEF Cell, Erased, MetaPage
<1>4. nand[b][p].addr \in Addr
  BY <1>3 DEF DataCell
<1>5. [blk |-> b, pg |-> p] # INVALID_PM_NODE
  BY NBlockAssumption DEF INVALID_PM_NODE, Block
<1>6. QED
  BY <1>1, <1>3, <1>4, <1>5 DEF Mapped

LEMMA WrittenFacts ==
  ASSUME TypeOK, NEW b \in Block
  PROVE  Written(b) \in 0 .. MAX_DIRTY_PAGES
<1>1. "hot" \in Temp /\ "cold" \in Temp
  BY DEF Temp
<1>2. journal["hot"].pg \in Page /\ journal["cold"].pg \in Page
  BY <1>1 DEF TypeOK
<1>3. QED
  BY <1>2, SizeFacts DEF Written, Page

\* The live pages and the dirty count of a block that is not pinned are within
\* the pages handed out.
LEMMA UnpinnedFacts ==
  ASSUME TypeOK, Bounded, NEW b \in Block, ~Flagged(b)
  PROVE  /\ bdt[b] \in Nat
         /\ bdt[b] + Cardinality(LivePages(b)) <= Written(b)
         /\ bdt[b] <= MAX_DIRTY_PAGES
<1>1. bdt[b] \in Nat
  BY DEF TypeOK
<1>2. bdt[b] + Cardinality(LivePages(b)) <= Written(b)
  BY WrittenFacts, LivePagesFinite, SizeFacts DEF Bounded
<1>3. QED
  BY <1>1, <1>2, WrittenFacts, LivePagesFinite, SizeFacts

\* The block of a mapped page is not the reclaim block, and if it is not
\* pinned one more dirty page does not reach BACKUPFLAG.
LEMMA EditBlockFacts ==
  ASSUME TypeOK, MapInv, Bounded, ReclaimReady, NEW a \in Addr, Mapped(a)
  PROVE  /\ pmt[a].blk \in Block /\ pmt[a].blk # reclaim
         /\ ~Flagged(pmt[a].blk) => bdt[pmt[a].blk] + 1 <= MAX_DIRTY_PAGES
<1>1. pmt[a].pg \in LivePages(pmt[a].blk) /\ pmt[a].blk \in Block
  BY MappedFacts
<1>2. pmt[a].blk # reclaim
  <2>1. nand[pmt[a].blk][pmt[a].pg] # Erased /\ pmt[a].pg \in Page
    BY <1>1, LivePageFacts
  <2>2. QED
    BY <2>1 DEF ReclaimReady
<1>3. Cardinality(LivePages(pmt[a].blk)) # 0
  <2>1. IsFiniteSet(LivePages(pmt[a].blk))
    BY <1>1, LivePagesFinite
  <2>2. LivePages(pmt[a].blk) # {}
    BY <1>1
  <2>3. QED
    BY <2>1, <2>2, FS_EmptySet
<1>4. ASSUME ~Flagged(pmt[a].blk) PROVE bdt[pmt[a].blk] + 1 <= MAX_DIRTY_PAGES
  <2>1. /\ bdt[pmt[a].blk] \in Nat
        /\ bdt[pmt[a].blk] + Cardinality(LivePages(pmt[a].blk)) <= Written(pmt[a].blk)
    BY <1>1, <1>4, UnpinnedFacts
  <2>2. Written(pmt[a].blk) \in 0 .. MAX_DIRTY_PAGES
    BY <1>1, WrittenFacts
  <2>3. Cardinality(LivePages(pmt[a].blk)) \in Nat
    BY <1>1, LivePagesFinite
  <2>4. QED
    BY <1>3, <2>1, <2>2, <2>3, SizeFacts
<1>5. QED
  BY <1>1, <1>2, <1>4

(***************************************************************************)
(* The formatted device.                                                   *)
(***************************************************************************)

LEMMA InitDeviceInv == Init => DeviceInv
<1> SUFFICES ASSUME Init PROVE DeviceInv
  OBVIOUS
<1> USE NBlockAssumption
<1>0. TypeOK /\ {0, 1, 2} \subseteq Block
  BY InitType DEF Block
<1>1. /\ journal["hot"] = [blk |-> 0, pg |-> 0]
      /\ journal["cold"] = [blk |-> 1, pg |-> 0]
      /\ reclaim = 2
      /\ \A t \in Temp : journal[t].pg = 0 /\ journal[t].blk \in {0, 1}
  BY DEF Init, Temp
<1>2. \A b \in Block, p \in Page : nand[b][p] = Erased
  BY DEF Init
<1>3. \A b \in Block : LivePages(b) = {}
  <2>1. Erased.kind # "data"
    BY DEF Erased
  <2>2. QED
    BY <1>2, <2>1, SizeFacts DEF LivePages
<1>4. \A b \in Block : ~Flagged(b)
  BY SizeFacts DEF Init, Flagged, BACKUPFLAG
<1>5. \A a \in Addr : ~Mapped(a)
  BY DEF Init, Mapped
<1>6. Roles
  BY <1>0, <1>1 DEF Roles, Temp
<1>7. JournalTail /\ PcInv
  BY <1>0, <1>1, <1>2, SizeFacts DEF JournalTail, PcInv, IsFull, Init, Temp, Page
<1>8. ReclaimReady
  BY <1>0, <1>1, <1>2 DEF ReclaimReady, Init
<1>9. MetaInv
  <2> SUFFICES ASSUME NEW b \in Block, ~IsJournal(b), b # reclaim
               PROVE  bdt[b] = MAX_DIRTY_PAGES
    BY <1>2 DEF MetaInv
  <2>1. b # 0 /\ b # 1 /\ b # 2
    BY <1>1 DEF IsJournal, Temp
  <2>2. QED
    BY <2>1 DEF Init, Block
<1>10. MapInv /\ Current /\ Discarded /\ BenignInv
  BY <1>5 DEF MapInv, Current, Discarded, BenignInv, Init
<1>11. Exact /\ Bounded
  <2> SUFFICES ASSUME NEW b \in Block
               PROVE  bdt[b] + Cardinality(LivePages(b)) = Written(b)
    BY <1>0, <1>4, WrittenFacts, SizeFacts DEF Exact, Bounded
  <2>1. Cardinality(LivePages(b)) = 0
    BY <1>3, FS_EmptySet
  <2>2. bdt[b] = Written(b)
    BY <1>1, SizeFacts DEF Init, Written, Block
  <2>3. QED
    BY <2>1, <2>2, SizeFacts, WrittenFacts, <1>0
<1>12. CountInv
  <2>1. {b \in Block : Flagged(b)} = {}
    BY <1>4
  <2>2. QED
    BY <2>1, FS_EmptySet DEF CountInv, Init
<1>13. QED
  BY <1>6, <1>7, <1>8, <1>9, <1>10, <1>11, <1>12 DEF DeviceInv, Layout, Sound

(***************************************************************************)
(* The pages that are live after one address was remapped to a page of a   *)
(* journal, or to none: the page of the old version is no longer live.     *)
(***************************************************************************)

OldPage(a, b) == IF Mapped(a) /\ pmt[a].blk = b THEN {pmt[a].pg} ELSE {}

\* The old page of an address is live, so removing it counts one page less.
LEMMA OldPageCount ==
  ASSUME TypeOK, MapInv, NEW a \in Addr, NEW b \in Block
  PROVE  /\ IsFiniteSet(LivePages(b) \ OldPage(a, b))
         /\ Cardinality(LivePages(b) \ OldPage(a, b)) =
              IF Mapped(a) /\ pmt[a].blk = b THEN Cardinality(LivePages(b)) - 1
                                             ELSE Cardinality(LivePages(b))
<1>1. IsFiniteSet(LivePages(b))
  BY LivePagesFinite
<1>2. CASE Mapped(a) /\ pmt[a].blk = b
  <2>1. pmt[a].pg \in LivePages(b)
    BY <1>2, MappedFacts
  <2>2. OldPage(a, b) = {pmt[a].pg}
    BY <1>2 DEF OldPage
  <2>3. /\ IsFiniteSet(LivePages(b) \ {pmt[a].pg})
        /\ Cardinality(LivePages(b) \ {pmt[a].pg}) = Cardinality(LivePages(b)) - 1
    BY <1>1, <2>1, FS_RemoveElement
  <2>4. QED
    BY <1>2, <2>2, <2>3
<1>3. CASE ~(Mapped(a) /\ pmt[a].blk = b)
  <2>1. LivePages(b) \ OldPage(a, b) = LivePages(b)
    BY <1>3 DEF OldPage
  <2>2. QED
    BY <1>1, <1>3, <2>1
<1>4. QED
  BY <1>2, <1>3

\* The dirty count of a block after PMT_Update, in terms of the pages of the
\* block that stay live.
LEMMA DirtyStep ==
  ASSUME TypeOK, MapInv, NEW a \in Addr, NEW b \in Block,
         NEW is_backup \in BOOLEAN, NEW node, PMT_Update(a, node, is_backup)
  PROVE  /\ bdt[b] \in Nat /\ bdt'[b] \in Nat /\ Written(b) \in Nat
         /\ Cardinality(LivePages(b)) \in Nat
         /\ Cardinality(LivePages(b) \ OldPage(a, b)) \in Nat
         /\ bdt[b] >= BACKUPFLAG => bdt'[b] >= BACKUPFLAG
         /\ \/ /\ bdt'[b] = bdt[b]
               /\ Cardinality(LivePages(b) \ OldPage(a, b)) = Cardinality(LivePages(b))
            \/ /\ \/ bdt'[b] = bdt[b] + 1
                  \/ bdt'[b] = bdt[b] /\ bdt[b] >= BACKUPFLAG
                  \/ bdt'[b] = bdt[b] + BACKUPFLAG /\ bdt[b] < BACKUPFLAG
               /\ Cardinality(LivePages(b) \ OldPage(a, b))
                    = Cardinality(LivePages(b)) - 1
<1>1. bdt[b] \in Nat /\ bdt \in [Block -> Nat]
  BY DEF TypeOK
<1>2. /\ Cardinality(LivePages(b)) \in Nat /\ Written(b) \in Nat
      /\ Cardinality(LivePages(b) \ OldPage(a, b)) \in Nat
  BY LivePagesFinite, WrittenFacts, SizeFacts, OldPageCount, FS_CardinalityType
<1>3. CASE ~(Mapped(a) /\ pmt[a].blk = b)
  <2>1. bdt'[b] = bdt[b]
    BY <1>1, <1>3 DEF PMT_Update
  <2>2. Cardinality(LivePages(b) \ OldPage(a, b)) = Cardinality(LivePages(b))
    BY <1>3, OldPageCount
  <2>3. QED
    BY <1>1, <1>2, <2>1, <2>2
<1>4. CASE Mapped(a) /\ pmt[a].blk = b
  <2>1. bdt'[b] = IF ~is_backup THEN bdt[b] + 1
                  ELSE IF bdt[b] < BACKUPFLAG THEN bdt[b] + BACKUPFLAG
                  ELSE bdt[b]
    BY <1>1, <1>4 DEF PMT_Update
  <2>2. Cardinality(LivePages(b) \ OldPage(a, b)) = Cardinality(LivePages(b)) - 1
    BY <1>4, OldPageCount
  <2>3. QED
    BY <1>1, <1>2, <2>1, <2>2 DEF BACKUPFLAG
<1>5. QED
  BY <1>3, <1>4

\* So a block stays within its pages, and exact, when the journal hands out
\* "gain" pages that become live.
LEMMA BoundedStep ==
  ASSUME TypeOK, MapInv, Bounded, NEW a \in Addr, NEW b \in Block,
         NEW is_backup \in BOOLEAN, NEW node, PMT_Update(a, node, is_backup),
         NEW gain \in Nat, NEW live \in Nat, NEW written \in Nat,
         live = Cardinality(LivePages(b) \ OldPage(a, b)) + gain,
         written = Written(b) + gain
  PROVE  bdt'[b] + live <= written + (IF bdt'[b] >= BACKUPFLAG THEN BACKUPFLAG ELSE 0)
<1>1. bdt[b] + Cardinality(LivePages(b)) <=
        Written(b) + (IF bdt[b] >= BACKUPFLAG THEN BACKUPFLAG ELSE 0)
  BY DEF Bounded, Flagged
<1>2. QED
  BY <1>1, DirtyStep DEF BACKUPFLAG

LEMMA ExactStep ==
  ASSUME TypeOK, MapInv, Exact, NEW a \in Addr, NEW b \in Block,
         NEW is_backup \in BOOLEAN, NEW node, PMT_Update(a, node, is_backup),
         NEW gain \in Nat, NEW live \in Nat, NEW written \in Nat,
         live = Cardinality(LivePages(b) \ OldPage(a, b)) + gain,
         written = Written(b) + gain,
         ~(bdt'[b] >= BACKUPFLAG)
  PROVE  bdt'[b] + live = written
<1>1. ~(bdt[b] >= BACKUPFLAG) => bdt[b] + Cardinality(LivePages(b)) = Written(b)
  BY DEF Exact, Flagged
<1>2. QED
  BY <1>1, DirtyStep DEF BACKUPFLAG

\* What PMT_Update does to the flags: only the block of a backed-up version
\* gets one, no block loses one, and the counter follows.
LEMMA FlagStep ==
  ASSUME TypeOK, MapInv, Bounded, ReclaimReady, NEW a \in Addr,
         NEW is_backup \in BOOLEAN, NEW node, PMT_Update(a, node, is_backup)
  PROVE  /\ CountInv => CountInv'
         /\ \A b \in Block : Flagged(b) => bdt'[b] >= BACKUPFLAG
         /\ Mapped(a) /\ is_backup => bdt'[pmt[a].blk] >= BACKUPFLAG
         /\ \A b \in Block : (~Mapped(a) \/ pmt[a].blk # b) => bdt'[b] = bdt[b]
<1> DEFINE F == {b \in Block : Flagged(b)}
           e == pmt[a].blk
<1>1. bdt \in [Block -> Nat]
  BY DEF TypeOK
<1>2. Mapped(a) => e \in Block /\ (~Flagged(e) => bdt[e] + 1 <= MAX_DIRTY_PAGES)
  BY EditBlockFacts
<1>3. \A b \in Block : (~Mapped(a) \/ e # b) => bdt'[b] = bdt[b]
  BY <1>1 DEF PMT_Update
<1>4. Mapped(a) => bdt'[e] = IF ~is_backup THEN bdt[e] + 1
                             ELSE IF bdt[e] < BACKUPFLAG THEN bdt[e] + BACKUPFLAG
                             ELSE bdt[e]
  BY <1>1, <1>2 DEF PMT_Update
<1>5. \A b \in Block : Flagged(b) => bdt'[b] >= BACKUPFLAG
  BY <1>1, <1>3, <1>4 DEF Flagged, BACKUPFLAG
<1>6. Mapped(a) /\ is_backup => bdt'[e] >= BACKUPFLAG
  BY <1>1, <1>2, <1>4 DEF Flagged, BACKUPFLAG
<1>7. ASSUME CountInv PROVE CountInv'
  <2>1. F \subseteq Block /\ IsFiniteSet(Block)
    BY NBlockAssumption, FS_Interval DEF Block
  <2>2. IsFiniteSet(F)
    BY <2>1, FS_Subset
  <2>3. CASE Mapped(a) /\ is_backup
    <3>1. {b \in Block : bdt'[b] >= BACKUPFLAG} = F \cup {e}
      BY <1>2, <1>3, <1>5, <1>6, <2>3 DEF Flagged
    <3>2. Cardinality(F \cup {e}) = IF e \in F THEN Cardinality(F)
                                    ELSE Cardinality(F) + 1
      BY <2>2, FS_AddElement
    <3>3. QED
      BY <1>2, <1>7, <2>3, <3>1, <3>2 DEF CountInv, PMT_Update, Flagged
  <2>4. CASE ~(Mapped(a) /\ is_backup)
    <3>1. \A b \in Block : bdt'[b] >= BACKUPFLAG => Flagged(b)
      BY <1>1, <1>2, <1>3, <1>4, <2>4, SizeFacts DEF Flagged, BACKUPFLAG
    <3>2. {b \in Block : bdt'[b] >= BACKUPFLAG} = F
      BY <1>5, <3>1
    <3>3. QED
      BY <1>7, <2>4, <3>2 DEF CountInv, PMT_Update, Flagged
  <2>5. QED
    BY <2>3, <2>4
<1>8. QED
  BY <1>3, <1>5, <1>6, <1>7

(***************************************************************************)
(* DATA_Write.                                                             *)
(***************************************************************************)

\* The effect of a write on the flash and on its journal: the next page of the
\* journal was erased and is programmed, and nothing else changes but, when it
\* was the last data page, the meta data page.
WriteEffect(a, d, t, tag) ==
  LET j == journal[t].blk
      p == journal[t].pg
  IN  /\ j \in Block /\ p \in DataPage /\ j # reclaim
      /\ journal[t] = [blk |-> j, pg |-> p]
      /\ \A u \in Temp : journal[u].pg \in DataPage
      /\ nand[j][p] = Erased /\ nand[j][MAX_DIRTY_PAGES] = Erased
      /\ journal' = [journal EXCEPT ![t] = [blk |-> j, pg |-> p + 1]]
      /\ pmt' = [pmt EXCEPT ![a] = [blk |-> j, pg |-> p]]
      /\ \A b \in Block : b # j => nand'[b] = nand[b]
      /\ \A q \in Page : q # p /\ q # MAX_DIRTY_PAGES => nand'[j][q] = nand[j][q]
      /\ nand'[j][MAX_DIRTY_PAGES] =
           IF p + 1 = MAX_DIRTY_PAGES THEN MetaPage ELSE Erased
      /\ \E old \in OldLogicAddr(a, tag) :
           nand'[j][p] = [kind |-> "data", addr |-> a, data |-> d, old |-> old]

LEMMA WriteFacts ==
  ASSUME TypeOK, Layout, NEW a \in Addr, NEW d \in Data, NEW t \in Temp,
         NEW tag \in AllTags, DATA_Write(a, d, t, tag)
  PROVE  WriteEffect(a, d, t, tag)
<1> DEFINE j == journal[t].blk
           p == journal[t].pg
<1> USE SizeFacts
<1>1. journal[t] \in [blk : 0 .. NBlock, pg : Page] /\ t # "hung" /\ t # "idle"
  BY DEF TypeOK, Temp
<1>2. journal[t] = [blk |-> j, pg |-> p] /\ p \in Page
  BY <1>1
<1>3. j \in Block /\ j # reclaim
  BY DEF Layout, Sound, Roles, Temp
<1>4. \A u \in Temp : ~IsFull(journal[u]) /\ journal[u].pg \in Page
  BY <1>1 DEF Layout, PcInv, DATA_Write, TypeOK, Temp
<1>5. \A u \in Temp : journal[u].pg < MAX_DIRTY_PAGES
  BY <1>4 DEF IsFull, Page
<1>6. p \in DataPage
  BY <1>2, <1>5 DEF Page, DataPage
<1>7. nand[j][p] = Erased /\ nand[j][MAX_DIRTY_PAGES] = Erased
  <2>1. \A q \in Page : q >= p => nand[j][q] = Erased
    BY <1>4 DEF Layout, JournalTail
  <2>2. p >= p /\ MAX_DIRTY_PAGES >= p
    BY <1>2, <1>5 DEF Page
  <2>3. QED
    BY <1>2, <2>1, <2>2
<1>8. journal' = [journal EXCEPT ![t] = [blk |-> j, pg |-> p + 1]]
  <2>1. NextPage(journal[t]) = [blk |-> j, pg |-> p + 1]
    BY <1>2, <1>5 DEF NextPage
  <2>2. QED
    BY <2>1 DEF DATA_Write
<1>9. PICK old \in OldLogicAddr(a, tag) :
        Program(journal[t], [kind |-> "data", addr |-> a, data |-> d, old |-> old])
  BY DEF DATA_Write
<1>10. nand \in [Block -> [Page -> Cell]]
  BY DEF TypeOK
<1>11. \A b \in Block : b # j => nand'[b] = nand[b]
  BY <1>9, <1>10 DEF Program
<1>12. \A q \in Page :
         nand'[j][q] = IF q = p
                       THEN [kind |-> "data", addr |-> a, data |-> d, old |-> old]
                       ELSE IF q = p + 1 /\ q = MAX_DIRTY_PAGES
                       THEN MetaPage ELSE nand[j][q]
  BY <1>3, <1>9, <1>10 DEF Program
<1>13. p # MAX_DIRTY_PAGES
  BY <1>6
<1>14. \A u \in Temp : journal[u].pg \in DataPage
  BY <1>4, <1>5 DEF Page, DataPage
<1>15. pmt' = [pmt EXCEPT ![a] = [blk |-> j, pg |-> p]]
  BY <1>2 DEF DATA_Write, PMT_Update
<1>16. QED
  BY <1>2, <1>3, <1>6, <1>7, <1>8, <1>9, <1>11, <1>12, <1>13, <1>14, <1>15
     DEF WriteEffect

\* Data already in the flash stays as it is.
LEMMA WriteKeeps ==
  ASSUME NEW a, NEW d, NEW t, NEW tag, WriteEffect(a, d, t, tag),
         NEW b \in Block, NEW q \in Page, nand[b][q].kind = "data"
  PROVE  nand'[b][q] = nand[b][q]
<1>1. Erased.kind # "data"
  BY DEF Erased
<1>2. b # journal[t].blk \/ (q # journal[t].pg /\ q # MAX_DIRTY_PAGES)
  BY <1>1 DEF WriteEffect
<1>3. QED
  BY <1>2 DEF WriteEffect

(***************************************************************************)
(* An address is remapped to the next page of a journal: by DATA_Write,    *)
(* which programs the page, and by the replay of FTL_Init, which finds it  *)
(* programmed.                                                             *)
(***************************************************************************)

RemapEffect(a, t) ==
  LET j == journal[t].blk
      p == journal[t].pg
  IN  /\ j \in Block /\ p \in DataPage /\ j # reclaim
      /\ journal[t] = [blk |-> j, pg |-> p]
      /\ journal' = [journal EXCEPT ![t] = [blk |-> j, pg |-> p + 1]]
      /\ reclaim' = reclaim
      /\ pmt' = [pmt EXCEPT ![a] = [blk |-> j, pg |-> p]]
      /\ nand'[j][p].kind = "data" /\ nand'[j][p].addr = a
      /\ \A b \in Block : b # j => nand'[b] = nand[b]
      /\ \A q \in DataPage : q # p => nand'[j][q] = nand[j][q]

LEMMA RemapLive ==
  ASSUME TypeOK, MapInv, NEW a \in Addr, NEW t \in Temp, RemapEffect(a, t),
         NEW b \in Block
  PROVE  LivePages(b)' = (LivePages(b) \ OldPage(a, b))
                           \cup (IF b = journal[t].blk THEN {journal[t].pg} ELSE {})
<1> DEFINE j == journal[t].blk
           p == journal[t].pg
           New == (LivePages(b) \ OldPage(a, b)) \cup (IF b = j THEN {p} ELSE {})
<1>1. /\ j \in Block /\ p \in DataPage
      /\ journal[t] = [blk |-> j, pg |-> p]
      /\ nand'[j][p].kind = "data" /\ nand'[j][p].addr = a
  BY DEF RemapEffect
<1>2. pmt' = [pmt EXCEPT ![a] = [blk |-> j, pg |-> p]] /\ pmt \in [Addr -> MaybeNode]
  BY DEF RemapEffect, TypeOK
<1>3. ASSUME NEW q \in DataPage PROVE q \in LivePages(b)' <=> q \in New
  <2>1. CASE b = j /\ q = p
    <3>1. q \in LivePages(b)'
      BY <1>1, <1>2, <2>1 DEF LivePages
    <3>2. QED
      BY <2>1, <3>1
  <2>2. CASE ~(b = j /\ q = p)
    <3>1. nand'[b][q] = nand[b][q]
      BY <2>2, SizeFacts DEF RemapEffect
    <3>2. ASSUME nand[b][q].kind = "data", nand[b][q].addr = a
          PROVE  q \notin LivePages(b)' /\ q \notin LivePages(b) \ OldPage(a, b)
      <4>1. pmt'[a] # [blk |-> b, pg |-> q]
        BY <1>2, <2>2
      <4>2. q \in LivePages(b) => q \in OldPage(a, b)
        <5> SUFFICES ASSUME q \in LivePages(b) PROVE q \in OldPage(a, b)
          OBVIOUS
        <5>1. pmt[a] = [blk |-> b, pg |-> q] /\ Mapped(a)
          BY <3>2, LivePageFacts
        <5>2. QED
          BY <5>1 DEF OldPage
      <4>3. QED
        BY <3>1, <3>2, <4>1, <4>2 DEF LivePages
    <3>3. ASSUME nand[b][q].kind = "data", nand[b][q].addr # a
          PROVE  q \in LivePages(b)' <=> q \in LivePages(b) \ OldPage(a, b)
      <4>1. nand[b][q] \in DataCell
        <5>1. nand[b][q] \in Cell
          BY SizeFacts DEF TypeOK
        <5>2. QED
          BY <3>3, <5>1 DEF Cell, Erased, MetaPage
      <4>2. nand[b][q].addr \in Addr
        BY <4>1 DEF DataCell
      <4>3. pmt'[nand[b][q].addr] = pmt[nand[b][q].addr]
        BY <1>2, <3>3, <4>2
      <4>4. q \notin OldPage(a, b)
        BY <3>3, MappedFacts DEF OldPage, CellAt
      <4>5. QED
        BY <3>1, <4>3, <4>4 DEF LivePages
    <3>4. ASSUME nand[b][q].kind # "data"
          PROVE  q \notin LivePages(b)' /\ q \notin LivePages(b)
      BY <3>1, <3>4 DEF LivePages
    <3>5. QED
      BY <2>2, <3>2, <3>3, <3>4
  <2>3. QED
    BY <2>1, <2>2
<1>4. LivePages(b)' \subseteq DataPage /\ New \subseteq DataPage
  BY <1>1 DEF LivePages
<1>5. QED
  BY <1>3, <1>4

\* The page of the journal was not live before: the journal had not moved past
\* it.
LEMMA JournalPageNotLive ==
  ASSUME TypeOK, MapInv, NEW t \in Temp, journal[t].blk \in Block
  PROVE  journal[t].pg \notin LivePages(journal[t].blk)
<1> DEFINE j == journal[t].blk
           p == journal[t].pg
<1> SUFFICES ASSUME p \in LivePages(j) PROVE FALSE
  OBVIOUS
<1> DEFINE c == nand[j][p].addr
<1>1. c \in Addr /\ Mapped(c) /\ pmt[c] = [blk |-> j, pg |-> p]
  BY LivePageFacts
<1>2. pmt[c].pg = p /\ pmt[c].blk = j
  BY <1>1
<1>3. pmt[c].pg < p
  BY <1>1, <1>2 DEF MapInv
<1>4. p \in Int
  BY SizeFacts DEF TypeOK
<1>5. QED
  BY <1>2, <1>3, <1>4

\* Pages handed out and pages live after the remapping, block by block.
LEMMA RemapCounts ==
  ASSUME TypeOK, Roles, MapInv, NEW a \in Addr, NEW t \in Temp, RemapEffect(a, t),
         NEW b \in Block
  PROVE  \E gain \in Nat :
           /\ Written(b)' = Written(b) + gain /\ Written(b)' \in Nat
           /\ Cardinality(LivePages(b)')
                = Cardinality(LivePages(b) \ OldPage(a, b)) + gain
           /\ Cardinality(LivePages(b)') \in Nat
<1> DEFINE j == journal[t].blk
           p == journal[t].pg
           gain == IF b = j THEN 1 ELSE 0
           rest == LivePages(b) \ OldPage(a, b)
<1>1. /\ j \in Block /\ p \in DataPage /\ j # reclaim /\ reclaim' = reclaim
      /\ journal' = [journal EXCEPT ![t] = [blk |-> j, pg |-> p + 1]]
  BY DEF RemapEffect
<1>2. /\ \A u \in Temp : u # t => journal'[u] = journal[u]
      /\ journal'[t].blk = j /\ journal'[t].pg = p + 1
      /\ \A u \in Temp : u # t => journal[u].blk # j
  BY <1>1 DEF TypeOK, Roles, Temp
<1>3. Written(b)' = Written(b) + gain /\ Written(b)' \in Nat
  <2>1. Written(b) \in Nat
    BY WrittenFacts, SizeFacts
  <2>2. \A u \in Temp : journal[u].pg \in Int
    BY SizeFacts DEF TypeOK
  <2>3. Written(b)' = Written(b) + gain
    BY <1>1, <1>2, <2>2, SizeFacts DEF Written, Roles, Temp, DataPage
  <2>4. QED
    BY <2>1, <2>3
<1>4. Cardinality(LivePages(b)') = Cardinality(rest) + gain
  <2>1. LivePages(b)' = rest \cup (IF b = j THEN {p} ELSE {})
    BY RemapLive
  <2>2. IsFiniteSet(rest) /\ Cardinality(rest) \in Nat
    BY OldPageCount, FS_CardinalityType
  <2>3. CASE b = j
    <3>1. p \notin rest
      BY <2>3, <1>1, JournalPageNotLive
    <3>2. Cardinality(rest \cup {p}) = Cardinality(rest) + 1
      BY <2>2, <3>1, FS_AddElement
    <3>3. QED
      BY <2>1, <2>3, <3>2
  <2>4. CASE b # j
    <3>1. LivePages(b)' = rest
      BY <2>1, <2>4
    <3>2. QED
      BY <2>2, <2>4, <3>1
  <2>5. QED
    BY <2>3, <2>4
<1>5. Cardinality(LivePages(b)') \in Nat /\ gain \in Nat
  BY LivePagesFinitePrime
<1>6. QED
  BY <1>3, <1>4, <1>5

LEMMA RemapSound ==
  ASSUME TypeOK, Sound, NEW a \in Addr, NEW t \in Temp, RemapEffect(a, t),
         NEW is_backup \in BOOLEAN, PMT_Update(a, journal[t], is_backup)
  PROVE  Sound' /\ (Exact => Exact') /\ (CountInv => CountInv')
<1> DEFINE j == journal[t].blk
           p == journal[t].pg
<1>1. Roles /\ ReclaimReady /\ MetaInv /\ MapInv /\ Bounded
  BY DEF Sound
<1>2. /\ j \in Block /\ p \in DataPage /\ j # reclaim /\ reclaim' = reclaim
      /\ journal[t] = [blk |-> j, pg |-> p]
      /\ journal' = [journal EXCEPT ![t] = [blk |-> j, pg |-> p + 1]]
      /\ pmt' = [pmt EXCEPT ![a] = [blk |-> j, pg |-> p]]
      /\ nand'[j][p].kind = "data" /\ nand'[j][p].addr = a
      /\ \A b \in Block : b # j => nand'[b] = nand[b]
      /\ \A q \in DataPage : q # p => nand'[j][q] = nand[j][q]
      /\ pmt \in [Addr -> MaybeNode]
  BY DEF RemapEffect, TypeOK
<1>3. /\ \A u \in Temp : u # t => journal'[u] = journal[u]
      /\ journal'[t].blk = j /\ journal'[t].pg = p + 1
      /\ \A u \in Temp : journal'[u].blk = journal[u].blk
      /\ \A u \in Temp : u # t => journal[u].blk # j
  BY <1>1, <1>2 DEF TypeOK, Roles, Temp
<1>4. /\ CountInv => CountInv'
      /\ \A b \in Block : (~Mapped(a) \/ pmt[a].blk # b) => bdt'[b] = bdt[b]
  BY <1>1, FlagStep
<1>5. Roles'
  BY <1>1, <1>2, <1>3 DEF Roles, Temp
<1>6. ReclaimReady'
  <2>1. reclaim \in Block
    BY DEF TypeOK
  <2>2. Mapped(a) => pmt[a].blk # reclaim
    BY <1>1, EditBlockFacts
  <2>3. QED
    BY <1>1, <1>2, <1>4, <2>1, <2>2 DEF ReclaimReady
<1>7. MetaInv'
  <2> SUFFICES ASSUME NEW b \in Block, ~IsJournal(b)', b # reclaim'
               PROVE  \/ nand'[b][MAX_DIRTY_PAGES] = MetaPage
                      \/ /\ bdt'[b] = MAX_DIRTY_PAGES
                         /\ \A q \in Page : nand'[b][q] = Erased
    BY DEF MetaInv
  <2>1. ~IsJournal(b) /\ b # reclaim /\ b # j
    BY <1>2, <1>3 DEF IsJournal
  <2>2. nand'[b] = nand[b]
    BY <1>2, <2>1
  <2>3. CASE nand[b][MAX_DIRTY_PAGES] = MetaPage
    BY <2>2, <2>3
  <2>4. CASE bdt[b] = MAX_DIRTY_PAGES /\ \A q \in Page : nand[b][q] = Erased
    <3>1. Mapped(a) => pmt[a].blk # b
      <4> SUFFICES ASSUME Mapped(a), pmt[a].blk = b PROVE FALSE
        OBVIOUS
      <4>1. nand[b][pmt[a].pg].kind = "data" /\ pmt[a].pg \in Page
        BY <1>1, SizeFacts, MappedFacts DEF CellAt, DataCell
      <4>2. nand[b][pmt[a].pg].kind = "erased"
        BY <2>4, <4>1 DEF Erased
      <4>3. QED
        BY <4>1, <4>2
    <3>2. QED
      BY <1>4, <2>2, <2>4, <3>1
  <2>5. QED
    BY <1>1, <2>1, <2>3, <2>4 DEF MetaInv
<1>8. MapInv'
  <2> SUFFICES ASSUME NEW c \in Addr, pmt'[c] # INVALID_PM_NODE
               PROVE  /\ pmt'[c].pg \in DataPage
                      /\ nand'[pmt'[c].blk][pmt'[c].pg].kind = "data"
                      /\ nand'[pmt'[c].blk][pmt'[c].pg].addr = c
                      /\ \A u \in Temp : pmt'[c].blk = journal'[u].blk =>
                           pmt'[c].pg < journal'[u].pg
    BY DEF MapInv, Mapped, CellAt
  <2>1. CASE c = a
    <3>1. pmt'[c].blk = j /\ pmt'[c].pg = p
      BY <1>2, <2>1
    <3>2. \A u \in Temp : j = journal'[u].blk => u = t
      BY <1>3
    <3>3. p < p + 1
      BY <1>2, SizeFacts
    <3>4. QED
      BY <1>2, <1>3, <2>1, <3>1, <3>2, <3>3
  <2>2. CASE c # a
    <3>1. pmt'[c] = pmt[c] /\ Mapped(c)
      BY <1>2, <2>2 DEF Mapped
    <3>2. /\ pmt[c].pg \in DataPage /\ pmt[c].blk \in Block
          /\ nand[pmt[c].blk][pmt[c].pg].kind = "data"
          /\ nand[pmt[c].blk][pmt[c].pg].addr = c
      BY <1>1, <3>1, MappedFacts DEF CellAt, DataCell
    <3>3. \A u \in Temp : pmt[c].blk = journal[u].blk => pmt[c].pg < journal[u].pg
      BY <1>1, <3>1 DEF MapInv
    <3>4. pmt[c].blk = j => pmt[c].pg # p
      BY <1>2, <3>2, <3>3, SizeFacts
    <3>5. nand'[pmt[c].blk][pmt[c].pg] = nand[pmt[c].blk][pmt[c].pg]
      BY <1>2, <3>2, <3>4
    <3>6. ASSUME NEW u \in Temp, pmt[c].blk = journal'[u].blk
          PROVE  pmt[c].pg < journal'[u].pg
      <4>1. pmt[c].pg < journal[u].pg
        BY <1>3, <3>3, <3>6
      <4>2. CASE u # t
        BY <1>3, <4>1, <4>2
      <4>3. CASE u = t
        <5>1. pmt[c].pg < p /\ pmt[c].pg \in Int /\ p \in Int
          BY <1>2, <3>2, <4>1, <4>3, SizeFacts
        <5>2. QED
          BY <1>3, <4>3, <5>1
      <4>4. QED
        BY <4>2, <4>3
    <3>7. QED
      BY <3>1, <3>2, <3>5, <3>6
  <2>3. QED
    BY <2>1, <2>2
<1>9. Bounded'
  <2> SUFFICES ASSUME NEW b \in Block
               PROVE  bdt'[b] + Cardinality(LivePages(b)') <=
                        Written(b)' + (IF bdt'[b] >= BACKUPFLAG THEN BACKUPFLAG ELSE 0)
    BY DEF Bounded, Flagged
  <2>1. PICK gain \in Nat :
          /\ Written(b)' = Written(b) + gain /\ Written(b)' \in Nat
          /\ Cardinality(LivePages(b)')
               = Cardinality(LivePages(b) \ OldPage(a, b)) + gain
          /\ Cardinality(LivePages(b)') \in Nat
    BY <1>1, RemapCounts
  <2>2. QED
    BY <1>1, <2>1, BoundedStep
<1>10. ASSUME Exact PROVE Exact'
  <2> SUFFICES ASSUME NEW b \in Block, ~(bdt'[b] >= BACKUPFLAG)
               PROVE  bdt'[b] + Cardinality(LivePages(b)') = Written(b)'
    BY DEF Exact, Flagged
  <2>1. PICK gain \in Nat :
          /\ Written(b)' = Written(b) + gain /\ Written(b)' \in Nat
          /\ Cardinality(LivePages(b)')
               = Cardinality(LivePages(b) \ OldPage(a, b)) + gain
          /\ Cardinality(LivePages(b)') \in Nat
    BY <1>1, RemapCounts
  <2>2. QED
    BY <1>1, <1>10, <2>1, ExactStep
<1>11. QED
  BY <1>4, <1>5, <1>6, <1>7, <1>8, <1>9, <1>10 DEF Sound

(***************************************************************************)
(* Retained versions: what BenignInv says of one cell, given the flash and *)
(* the dirty table.                                                        *)
(***************************************************************************)

Retains(c, v, cell, flash, dirty) ==
  IF cell.old = INVALID_PM_NODE THEN cell.data = v
  ELSE /\ dirty[cell.old.blk] >= BACKUPFLAG
       /\ Holds(flash[cell.old.blk][cell.old.pg], c, v)

LEMMA BenignUnfold ==
  ASSUME BenignInv, NEW c \in Addr, benign[c] # NoData
  PROVE  Mapped(c) /\ Retains(c, benign[c], nand[pmt[c].blk][pmt[c].pg], nand, bdt)
BY DEF BenignInv, Retains, CellAt, Flagged

LEMMA BenignFold ==
  ASSUME \A c \in Addr : benign'[c] # NoData =>
           /\ pmt'[c] # INVALID_PM_NODE
           /\ Retains(c, benign'[c], nand'[pmt'[c].blk][pmt'[c].pg], nand', bdt')
  PROVE  BenignInv'
BY DEF BenignInv, Retains, CellAt, Flagged, Mapped

\* A retained version stays while pinned blocks keep their pins and pages.
LEMMA RetainsKept ==
  ASSUME NEW c, NEW v, NEW cell \in DataCell, Retains(c, v, cell, nand, bdt),
         \A b \in Block : Flagged(b) => bdt'[b] >= BACKUPFLAG,
         \A b \in Block, q \in Page :
           Flagged(b) /\ nand[b][q].kind = "data" => nand'[b][q] = nand[b][q]
  PROVE  Retains(c, v, cell, nand', bdt')
<1>1. CASE cell.old = INVALID_PM_NODE
  BY <1>1 DEF Retains
<1>2. CASE cell.old # INVALID_PM_NODE
  <2>1. cell.old.blk \in Block /\ cell.old.pg \in Page
    BY <1>2 DEF DataCell, MaybeNode, PmNode
  <2>2. Flagged(cell.old.blk) /\ Holds(nand[cell.old.blk][cell.old.pg], c, v)
    BY <1>2 DEF Retains, Flagged
  <2>3. nand[cell.old.blk][cell.old.pg].kind = "data"
    BY <2>2 DEF Holds
  <2>4. nand'[cell.old.blk][cell.old.pg] = nand[cell.old.blk][cell.old.pg]
    BY <2>1, <2>2, <2>3
  <2>5. QED
    BY <1>2, <2>1, <2>2, <2>4 DEF Retains
<1>3. QED
  BY <1>1, <1>2

\* The retained version of every address survives a write: the pins stay, and
\* a ransom-tagged write pins the block it refers to.
LEMMA WriteBenign ==
  ASSUME TypeOK, Layout, BenignInv, NEW a \in Addr, NEW d \in Data, NEW t \in Temp,
         NEW tag \in AllTags, DATA_Write(a, d, t, tag), WriteEffect(a, d, t, tag)
  PROVE  BenignInv'
<1> DEFINE j == journal[t].blk
           p == journal[t].pg
           cur == nand[pmt[a].blk][pmt[a].pg]
<1> SUFFICES ASSUME NEW c \in Addr, benign'[c] # NoData
             PROVE  /\ pmt'[c] # INVALID_PM_NODE
                    /\ Retains(c, benign'[c], nand'[pmt'[c].blk][pmt'[c].pg], nand', bdt')
  BY BenignFold
<1>1. MapInv /\ Bounded /\ ReclaimReady
  BY DEF Layout, Sound
<1>2. PMT_Update(a, journal[t], tag = "ransom" /\ Mapped(a))
  BY DEF DATA_Write
<1>3. /\ \A b \in Block : Flagged(b) => bdt'[b] >= BACKUPFLAG
      /\ tag = "ransom" /\ Mapped(a) => bdt'[pmt[a].blk] >= BACKUPFLAG
  <2>1. (tag = "ransom" /\ Mapped(a)) \in BOOLEAN
    OBVIOUS
  <2>2. QED
    BY <1>1, <1>2, <2>1, FlagStep
<1>4. \A b \in Block, q \in Page :
        nand[b][q].kind = "data" => nand'[b][q] = nand[b][q]
  BY WriteKeeps
<1>5. /\ pmt' = [pmt EXCEPT ![a] = [blk |-> j, pg |-> p]]
      /\ j \in Block /\ p \in Page /\ pmt \in [Addr -> MaybeNode]
  BY SizeFacts DEF WriteEffect, TypeOK
<1>6. \A b \in Addr : Mapped(b) =>
        /\ pmt[b].blk \in Block /\ pmt[b].pg \in Page
        /\ nand[pmt[b].blk][pmt[b].pg] \in DataCell
        /\ nand[pmt[b].blk][pmt[b].pg].addr = b
  BY <1>1, SizeFacts, MappedFacts DEF CellAt
<1>7. CASE c # a
  <2>1. pmt'[c] = pmt[c]
    BY <1>5, <1>7
  <2>2. benign'[c] = benign[c]
    BY <1>7 DEF DATA_Write, RecordWrite, TypeOK
  <2>3. Mapped(c) /\ Retains(c, benign[c], nand[pmt[c].blk][pmt[c].pg], nand, bdt)
    BY <2>2, BenignUnfold
  <2>4. nand'[pmt[c].blk][pmt[c].pg] = nand[pmt[c].blk][pmt[c].pg]
    BY <1>4, <1>6, <2>3, SMTT(30) DEF DataCell
  <2>5. Retains(c, benign[c], nand[pmt[c].blk][pmt[c].pg], nand', bdt')
    BY <1>3, <1>4, <1>6, <2>3, RetainsKept
  <2>6. QED
    BY <2>1, <2>2, <2>3, <2>4, <2>5 DEF Mapped
<1>8. CASE c = a
  <2>1. PICK old \in OldLogicAddr(a, tag) :
          nand'[j][p] = [kind |-> "data", addr |-> a, data |-> d, old |-> old]
    BY DEF WriteEffect
  <2>2. pmt'[a] = [blk |-> j, pg |-> p]
    BY <1>5
  <2>3. pmt'[a] # INVALID_PM_NODE
    BY <1>5, <2>2, NBlockAssumption DEF INVALID_PM_NODE, Block
  <2> DEFINE new == nand'[pmt'[c].blk][pmt'[c].pg]
  <2>9. new.old = old /\ new.data = d /\ pmt'[c] # INVALID_PM_NODE
    <3>1. new = [kind |-> "data", addr |-> a, data |-> d, old |-> old]
      BY <1>8, <2>1, <2>2
    <3>2. QED
      BY <1>8, <2>3, <3>1
  <2> HIDE DEF new
  <2>4. benign'[a] = CASE tag = "none" -> d
                       [] tag = "ransom" -> IF Mapped(a) THEN benign[a] ELSE d
                       [] tag = "mft" -> NoData
    BY DEF DATA_Write, RecordWrite, TypeOK
  <2>5. CASE tag = "none" \/ (tag = "ransom" /\ ~Mapped(a))
    <3>1. old = INVALID_PM_NODE /\ benign'[a] = d
      BY <2>1, <2>4, <2>5 DEF OldLogicAddr
    <3>2. QED
      BY <1>8, <2>9, <3>1 DEF Retains, new
  <2>6. CASE tag = "ransom" /\ Mapped(a)
    <3>1. benign'[a] = benign[a] /\ benign[a] # NoData
      BY <1>8, <2>4, <2>6
    <3>2. cur \in DataCell /\ cur.addr = a /\ cur.kind = "data"
      BY <1>6, <2>6 DEF DataCell
    <3>3. Retains(a, benign[a], cur, nand, bdt)
      BY <3>1, BenignUnfold
    <3>4. old = IF cur.old # INVALID_PM_NODE THEN cur.old ELSE pmt[a]
      BY <2>1, <2>6, <3>2 DEF OldLogicAddr, CellAt
    <3>5. CASE cur.old = INVALID_PM_NODE
      <4>1. old = pmt[a] /\ old # INVALID_PM_NODE
        BY <2>6, <3>4, <3>5 DEF Mapped
      <4>2. nand'[old.blk][old.pg] = cur
        BY <1>4, <1>6, <2>6, <3>2, <4>1
      <4>3. Holds(cur, a, benign[a])
        BY <3>2, <3>3, <3>5 DEF Retains, Holds
      <4>4. QED
        BY <1>3, <1>8, <2>6, <2>9, <3>1, <4>1, <4>2, <4>3 DEF Retains, new
    <3>6. CASE cur.old # INVALID_PM_NODE
      <4>1. Retains(a, benign[a], cur, nand', bdt')
        BY <1>3, <1>4, <3>2, <3>3, RetainsKept
      <4>2. QED
        BY <1>8, <2>9, <3>1, <3>4, <3>6, <4>1 DEF Retains, new
    <3>7. QED
      BY <3>5, <3>6
  <2>7. CASE tag = "mft"
    BY <1>8, <2>4, <2>7
  <2>8. QED
    BY <2>5, <2>6, <2>7 DEF AllTags
<1>9. QED
  BY <1>7, <1>8

\* The rest of the device invariant: what a step keeps if it held before.
Carried ==
  /\ Exact => Exact'
  /\ Current => Current'
  /\ Discarded => Discarded'
  /\ BenignInv => BenignInv'
  /\ CountInv => CountInv'

LEMMA CarriedDevice ==
  ASSUME DeviceInv, Layout', Carried
  PROVE  DeviceInv'
BY DEF DeviceInv, Carried

LEMMA WriteRemaps ==
  ASSUME NEW a \in Addr, NEW d \in Data, NEW t \in Temp, NEW tag,
         DATA_Write(a, d, t, tag), WriteEffect(a, d, t, tag)
  PROVE  RemapEffect(a, t)
<1>1. reclaim' = reclaim
  BY DEF DATA_Write
<1>2. \A q \in DataPage : q \in Page /\ q # MAX_DIRTY_PAGES
  BY SizeFacts
<1>3. /\ nand'[journal[t].blk][journal[t].pg].kind = "data"
      /\ nand'[journal[t].blk][journal[t].pg].addr = a
  BY DEF WriteEffect
<1>4. QED
  BY <1>1, <1>2, <1>3 DEF RemapEffect, WriteEffect

LEMMA WriteLayout ==
  ASSUME TypeOK, Layout, NEW a \in Addr, NEW d \in Data, NEW t \in Temp,
         NEW tag \in AllTags, DATA_Write(a, d, t, tag), WriteEffect(a, d, t, tag)
  PROVE  Layout' /\ (Exact => Exact') /\ (CountInv => CountInv')
<1> DEFINE j == journal[t].blk
           p == journal[t].pg
           is_backup == tag = "ransom" /\ Mapped(a)
<1>2. /\ j \in Block /\ p \in DataPage /\ p \in Page /\ j # reclaim
      /\ \A u \in Temp : journal[u].pg \in DataPage
      /\ journal' = [journal EXCEPT ![t] = [blk |-> j, pg |-> p + 1]]
      /\ \A b \in Block : b # j => nand'[b] = nand[b]
      /\ \A q \in Page : q # p /\ q # MAX_DIRTY_PAGES => nand'[j][q] = nand[j][q]
      /\ nand'[j][MAX_DIRTY_PAGES] =
           IF p + 1 = MAX_DIRTY_PAGES THEN MetaPage ELSE Erased
  BY SizeFacts DEF WriteEffect
<1>3. /\ Roles /\ JournalTail /\ PcInv /\ Sound
  BY DEF Layout, Sound
<1>4. Sound' /\ (Exact => Exact') /\ (CountInv => CountInv')
  <2>1. PMT_Update(a, journal[t], is_backup) /\ is_backup \in BOOLEAN
    BY DEF DATA_Write
  <2>2. RemapEffect(a, t)
    BY WriteRemaps
  <2> HIDE DEF is_backup
  <2>3. QED
    BY <1>3, <2>1, <2>2, RemapSound
<1>5. /\ journal \in [Temp -> [blk : 0 .. NBlock, pg : Page]]
      /\ \A u \in Temp : u # t => journal'[u] = journal[u]
      /\ journal'[t].blk = j /\ journal'[t].pg = p + 1
      /\ \A u \in Temp : journal'[u].blk = journal[u].blk
  BY <1>2 DEF TypeOK
<1>6. \A u \in Temp : u # t => journal[u].blk # j
  BY <1>3 DEF Roles, Temp
<1>7. JournalTail'
  <2> SUFFICES ASSUME NEW u \in Temp, NEW q \in Page, q >= journal'[u].pg
               PROVE  nand'[journal'[u].blk][q] =
                        IF journal'[u].pg >= MAX_DIRTY_PAGES THEN MetaPage ELSE Erased
    BY DEF JournalTail, IsFull
  <2>1. journal[u].blk \in Block
    BY <1>3 DEF Roles, Temp
  <2>2. CASE u # t
    <3>1. nand[journal[u].blk][q] = IF IsFull(journal[u]) THEN MetaPage ELSE Erased
      BY <1>3, <1>5, <2>2 DEF JournalTail
    <3>2. QED
      BY <1>2, <1>5, <1>6, <2>1, <2>2, <3>1 DEF IsFull
  <2>3. CASE u = t
    <3>1. q >= p + 1 /\ q # p /\ q <= MAX_DIRTY_PAGES
      BY <1>2, <1>5, <2>3, SizeFacts DEF Page
    <3>2. q # MAX_DIRTY_PAGES => nand'[j][q] = Erased
      <4>1. q >= p /\ ~IsFull(journal[t])
        BY <1>2, <3>1, SizeFacts DEF Page, DataPage, IsFull
      <4>2. nand[j][q] = Erased
        BY <1>3, <4>1 DEF JournalTail
      <4>3. QED
        BY <1>2, <3>1, <4>2
    <3>3. CASE p + 1 = MAX_DIRTY_PAGES
      BY <1>2, <1>5, <2>3, <3>1, <3>3, SizeFacts DEF Page
    <3>4. CASE p + 1 # MAX_DIRTY_PAGES
      <4>1. p + 1 < MAX_DIRTY_PAGES
        BY <1>2, <3>4, SizeFacts DEF DataPage
      <4>2. nand'[j][q] = Erased
        BY <1>2, <3>2, <3>4
      <4>3. ~(p + 1 >= MAX_DIRTY_PAGES)
        BY <1>2, <4>1, SizeFacts DEF DataPage
      <4>4. QED
        BY <1>5, <2>3, <4>2, <4>3
    <3>5. QED
      BY <3>3, <3>4
  <2>4. QED
    BY <2>2, <2>3
<1>8. PcInv'
  <2>1. pc' = (IF p + 1 >= MAX_DIRTY_PAGES THEN t ELSE "idle")
    <3>1. NextPage(journal[t]) = journal'[t]
      BY DEF DATA_Write, TypeOK
    <3>2. QED
      BY <1>5, <3>1 DEF DATA_Write, IsFull
  <2>2. \A u \in Temp : u # t => journal'[u].pg < MAX_DIRTY_PAGES
    BY <1>2, <1>5, SizeFacts DEF DataPage
  <2>3. QED
    BY <1>2, <1>5, <2>1, <2>2, SizeFacts DEF PcInv, IsFull, Temp, DataPage
<1>9. QED
  BY <1>4, <1>7, <1>8 DEF Layout

\* FTL_Read finds the version just written, and the others where they were.
LEMMA WriteCurrent ==
  ASSUME TypeOK, MapInv, NEW a \in Addr, NEW d \in Data, NEW t \in Temp,
         NEW tag, DATA_Write(a, d, t, tag), WriteEffect(a, d, t, tag)
  PROVE  (Current => Current') /\ (Discarded => Discarded')
<1> DEFINE j == journal[t].blk
           p == journal[t].pg
<1>1. latest' = [latest EXCEPT ![a] = d] /\ latest \in [Addr -> Data \cup {NoData}]
  BY DEF DATA_Write, RecordWrite, TypeOK
<1>2. /\ pmt' = [pmt EXCEPT ![a] = [blk |-> j, pg |-> p]] /\ pmt \in [Addr -> MaybeNode]
      /\ nand'[j][p].data = d /\ j \in Block
  BY DEF WriteEffect, TypeOK
<1>3. ASSUME NEW c \in Addr, c # a
      PROVE  /\ pmt'[c] = pmt[c] /\ latest'[c] = latest[c]
             /\ Mapped(c) => nand'[pmt[c].blk][pmt[c].pg] = nand[pmt[c].blk][pmt[c].pg]
  <2>1. pmt'[c] = pmt[c] /\ latest'[c] = latest[c]
    BY <1>1, <1>2, <1>3
  <2>2. ASSUME Mapped(c)
        PROVE  nand'[pmt[c].blk][pmt[c].pg] = nand[pmt[c].blk][pmt[c].pg]
    <3>1. /\ pmt[c].blk \in Block /\ pmt[c].pg \in Page
          /\ CellAt(pmt[c]) \in DataCell
      BY <2>2, SizeFacts, MappedFacts
    <3>2. QED
      BY <3>1, WriteKeeps DEF CellAt, DataCell
  <2>3. QED
    BY <2>1, <2>2
<1>4. /\ pmt'[a] = [blk |-> j, pg |-> p] /\ pmt'[a] # INVALID_PM_NODE
      /\ latest'[a] = d /\ d # NoData
  BY <1>1, <1>2, NBlockAssumption, DataAssumption DEF INVALID_PM_NODE, Block
<1>5. ASSUME Current PROVE Current'
  <2> SUFFICES ASSUME NEW c \in Addr, latest'[c] # NoData
               PROVE  /\ pmt'[c] # INVALID_PM_NODE
                      /\ nand'[pmt'[c].blk][pmt'[c].pg].data = latest'[c]
    BY DEF Current, Mapped, CellAt
  <2>1. CASE c = a
    BY <1>2, <1>4, <2>1
  <2>2. CASE c # a
    BY <1>3, <1>5, <2>2 DEF Current, Mapped, CellAt
  <2>3. QED
    BY <2>1, <2>2
<1>6. ASSUME Discarded PROVE Discarded'
  BY <1>3, <1>4, <1>6 DEF Discarded, Mapped
<1>7. QED
  BY <1>5, <1>6

LEMMA WriteStep ==
  ASSUME TypeOK, Layout, NEW a \in Addr, NEW d \in Data, NEW t \in Temp,
         NEW tag \in AllTags, DATA_Write(a, d, t, tag)
  PROVE  Layout' /\ Carried
<1>1. WriteEffect(a, d, t, tag)
  BY WriteFacts
<1>2. MapInv
  BY DEF Layout, Sound
<1>3. QED
  BY <1>1, <1>2, WriteLayout, WriteCurrent, WriteBenign DEF Carried

(***************************************************************************)
(* FTL_Trim.                                                               *)
(***************************************************************************)

\* What a trim does: the address is no longer mapped.
TrimEffect(a) ==
  /\ PMT_Update(a, INVALID_PM_NODE, FALSE) /\ FALSE \in BOOLEAN
  /\ nand' = nand /\ journal' = journal /\ reclaim' = reclaim
  /\ pmt' = [pmt EXCEPT ![a] = INVALID_PM_NODE]
  /\ pmt \in [Addr -> MaybeNode]
  /\ bdt \in [Block -> Nat]

LEMMA TrimSound ==
  ASSUME TypeOK, Sound, NEW a \in Addr, TrimEffect(a)
  PROVE  Sound' /\ (Exact => Exact') /\ (CountInv => CountInv')
<1>1. Roles /\ ReclaimReady /\ MetaInv /\ MapInv /\ Bounded
  BY DEF Sound
<1>2. /\ PMT_Update(a, INVALID_PM_NODE, FALSE) /\ FALSE \in BOOLEAN
      /\ nand' = nand /\ journal' = journal /\ reclaim' = reclaim
      /\ pmt' = [pmt EXCEPT ![a] = INVALID_PM_NODE]
      /\ pmt \in [Addr -> MaybeNode] /\ bdt \in [Block -> Nat]
  BY DEF TrimEffect
<1>3. /\ CountInv => CountInv'
      /\ \A b \in Block : (~Mapped(a) \/ pmt[a].blk # b) => bdt'[b] = bdt[b]
  BY <1>1, <1>2, FlagStep
<1>4. ASSUME NEW b \in Block
      PROVE  LivePages(b)' = LivePages(b) \ OldPage(a, b)
  <2>1. ASSUME NEW q \in DataPage
        PROVE  q \in LivePages(b)' <=> q \in LivePages(b) \ OldPage(a, b)
    <3>1. CASE nand[b][q].kind # "data"
      BY <1>2, <3>1 DEF LivePages
    <3>2. CASE nand[b][q].kind = "data" /\ nand[b][q].addr = a
      <4>1. q \notin LivePages(b)'
        BY <1>2, <3>2, NBlockAssumption DEF LivePages, INVALID_PM_NODE, Block
      <4>2. q \in LivePages(b) => q \in OldPage(a, b)
        <5> SUFFICES ASSUME q \in LivePages(b) PROVE q \in OldPage(a, b)
          OBVIOUS
        <5>1. pmt[a] = [blk |-> b, pg |-> q] /\ Mapped(a)
          BY <3>2, LivePageFacts
        <5>2. QED
          BY <5>1 DEF OldPage
      <4>3. QED
        BY <4>1, <4>2
    <3>3. CASE nand[b][q].kind = "data" /\ nand[b][q].addr # a
      <4>1. nand[b][q].addr \in Addr
        <5>1. nand[b][q] \in Cell
          BY SizeFacts DEF TypeOK
        <5>2. nand[b][q] \in DataCell
          BY <3>3, <5>1 DEF Cell, Erased, MetaPage
        <5>3. QED
          BY <5>2 DEF DataCell
      <4>2. q \notin OldPage(a, b)
        BY <1>1, <3>3, MappedFacts DEF OldPage, CellAt
      <4>3. QED
        BY <1>2, <3>3, <4>1, <4>2 DEF LivePages
    <3>4. QED
      BY <3>1, <3>2, <3>3
  <2>2. LivePages(b)' \subseteq DataPage /\ LivePages(b) \subseteq DataPage
    BY DEF LivePages
  <2>3. QED
    BY <2>1, <2>2
<1>5. Roles'
  BY <1>1, <1>2 DEF Roles
<1>6. ReclaimReady'
  <2>1. Mapped(a) => pmt[a].blk # reclaim
    BY <1>1, EditBlockFacts
  <2>2. QED
    BY <1>1, <1>2, <1>3, <2>1 DEF ReclaimReady, TypeOK
<1>7. MetaInv'
  <2> SUFFICES ASSUME NEW b \in Block, ~IsJournal(b), b # reclaim
               PROVE  \/ nand[b][MAX_DIRTY_PAGES] = MetaPage
                      \/ /\ bdt'[b] = MAX_DIRTY_PAGES
                         /\ \A q \in Page : nand[b][q] = Erased
    BY <1>2 DEF MetaInv, IsJournal
  <2>1. CASE bdt[b] = MAX_DIRTY_PAGES /\ \A q \in Page : nand[b][q] = Erased
    <3>1. Mapped(a) => pmt[a].blk # b
      <4> SUFFICES ASSUME Mapped(a), pmt[a].blk = b PROVE FALSE
        OBVIOUS
      <4>1. nand[b][pmt[a].pg].kind = "data" /\ pmt[a].pg \in Page
        BY <1>1, SizeFacts, MappedFacts DEF CellAt, DataCell
      <4>2. nand[b][pmt[a].pg].kind = "erased"
        BY <2>1, <4>1 DEF Erased
      <4>3. QED
        BY <4>1, <4>2
    <3>2. QED
      BY <1>3, <2>1, <3>1
  <2>2. QED
    BY <1>1, <2>1 DEF MetaInv
<1>8. MapInv'
  <2> SUFFICES ASSUME NEW c \in Addr, pmt'[c] # INVALID_PM_NODE
               PROVE  pmt'[c] = pmt[c] /\ Mapped(c)
    BY <1>1, <1>2 DEF MapInv, Mapped, CellAt
  <2>1. c # a
    BY <1>2
  <2>2. QED
    BY <1>2, <2>1 DEF Mapped
<1>9. ASSUME NEW b \in Block
      PROVE  /\ Written(b)' = Written(b) + 0 /\ Written(b)' \in Nat /\ 0 \in Nat
             /\ Cardinality(LivePages(b)')
                  = Cardinality(LivePages(b) \ OldPage(a, b)) + 0
             /\ Cardinality(LivePages(b)') \in Nat
  <2>1. Written(b)' = Written(b) /\ Written(b) \in Nat
    BY <1>2, WrittenFacts, SizeFacts DEF Written
  <2>2. LivePages(b)' = LivePages(b) \ OldPage(a, b)
    BY <1>4
  <2>3. Cardinality(LivePages(b)') \in Nat
    BY LivePagesFinitePrime
  <2>4. QED
    BY <2>1, <2>2, <2>3
<1>10. Bounded'
  <2> SUFFICES ASSUME NEW b \in Block
               PROVE  bdt'[b] + Cardinality(LivePages(b)') <=
                        Written(b)' + (IF bdt'[b] >= BACKUPFLAG THEN BACKUPFLAG ELSE 0)
    BY DEF Bounded, Flagged
  <2>1. QED
    BY <1>1, <1>2, <1>9, BoundedStep
<1>11. ASSUME Exact PROVE Exact'
  <2> SUFFICES ASSUME NEW b \in Block, ~(bdt'[b] >= BACKUPFLAG)
               PROVE  bdt'[b] + Cardinality(LivePages(b)') = Written(b)'
    BY DEF Exact, Flagged
  <2>1. PICK gain \in Nat :
          /\ Written(b)' = Written(b) + gain /\ Written(b)' \in Nat
          /\ Cardinality(LivePages(b)')
               = Cardinality(LivePages(b) \ OldPage(a, b)) + gain
          /\ Cardinality(LivePages(b)') \in Nat
    BY <1>9
  <2>2. PICK is_backup \in BOOLEAN, node \in {INVALID_PM_NODE} :
          PMT_Update(a, node, is_backup)
    BY <1>2
  <2>3. QED
    BY <1>1, <1>11, <2>1, <2>2, ExactStep
<1>12. QED
  BY <1>3, <1>5, <1>6, <1>7, <1>8, <1>10, <1>11 DEF Sound

LEMMA TrimStep ==
  ASSUME TypeOK, Layout, NEW a \in Addr, NEW t \in Temp, FTL_Trim(a, t)
  PROVE  Layout' /\ Carried
<1>1. /\ Sound /\ JournalTail /\ PcInv /\ MapInv /\ Bounded /\ ReclaimReady
  BY DEF Layout, Sound
<1>2. TrimEffect(a)
  BY DEF FTL_Trim, PMT_Update, TypeOK, TrimEffect
<1>3. /\ PMT_Update(a, INVALID_PM_NODE, FALSE) /\ FALSE \in BOOLEAN
      /\ nand' = nand /\ journal' = journal
      /\ pmt' = [pmt EXCEPT ![a] = INVALID_PM_NODE] /\ pmt \in [Addr -> MaybeNode]
  BY <1>2 DEF TrimEffect
<1>4. Sound' /\ (Exact => Exact') /\ (CountInv => CountInv')
  BY <1>1, <1>2, TrimSound
<1>5. JournalTail'
  BY <1>1, <1>3 DEF JournalTail
<1>6. PcInv'
  BY <1>1, <1>3 DEF PcInv, FTL_Trim, Temp
<1>7. /\ latest' = [latest EXCEPT ![a] = NoData] /\ latest \in [Addr -> Data \cup {NoData}]
      /\ benign' = [benign EXCEPT ![a] = NoData] /\ benign \in [Addr -> Data \cup {NoData}]
  BY DEF FTL_Trim, TypeOK
<1>8. ASSUME Current PROVE Current'
  <2> SUFFICES ASSUME NEW c \in Addr, latest'[c] # NoData
               PROVE  /\ pmt'[c] # INVALID_PM_NODE
                      /\ nand[pmt'[c].blk][pmt'[c].pg].data = latest'[c]
    BY <1>3 DEF Current, Mapped, CellAt
  <2>1. c # a
    BY <1>7
  <2>2. QED
    BY <1>3, <1>7, <1>8, <2>1 DEF Current, Mapped, CellAt
<1>9. ASSUME Discarded PROVE Discarded'
  BY <1>3, <1>7, <1>9 DEF Discarded, Mapped
<1>10. ASSUME BenignInv PROVE BenignInv'
  <2> SUFFICES ASSUME NEW c \in Addr, benign'[c] # NoData
               PROVE  /\ pmt'[c] # INVALID_PM_NODE
                      /\ Retains(c, benign'[c], nand'[pmt'[c].blk][pmt'[c].pg], nand', bdt')
    BY BenignFold
  <2>1. c # a /\ benign'[c] = benign[c]
    BY <1>7
  <2>2. pmt'[c] = pmt[c]
    BY <1>3, <2>1
  <2>3. Mapped(c) /\ Retains(c, benign[c], nand[pmt[c].blk][pmt[c].pg], nand, bdt)
    BY <1>10, <2>1, BenignUnfold
  <2>4. nand[pmt[c].blk][pmt[c].pg] \in DataCell
    BY <1>1, <2>3, MappedFacts DEF CellAt
  <2>5. \A b \in Block : Flagged(b) => bdt'[b] >= BACKUPFLAG
    BY <1>1, <1>3, FlagStep
  <2>6. Retains(c, benign[c], nand[pmt[c].blk][pmt[c].pg], nand', bdt')
    BY <1>3, <2>3, <2>4, <2>5, RetainsKept
  <2>7. QED
    BY <1>3, <2>1, <2>2, <2>3, <2>6 DEF Mapped
<1>11. QED
  BY <1>4, <1>5, <1>6, <1>8, <1>9, <1>10 DEF Layout, Carried

(***************************************************************************)
(* DATA_Reclaim.                                                           *)
(***************************************************************************)

\* While FTL_Write is in DATA_Reclaim(t), journal t is full and ends in its
\* meta data, and the other journal is not full.
LEMMA FullJournal ==
  ASSUME TypeOK, Layout, NEW t \in Temp, pc = t
  PROVE  /\ Other(t) \in Temp /\ Other(t) # t
         /\ \A u \in Temp : u = t \/ u = Other(t)
         /\ journal[t].blk \in Block /\ journal[t].pg = MAX_DIRTY_PAGES
         /\ nand[journal[t].blk][MAX_DIRTY_PAGES] = MetaPage
         /\ journal[Other(t)].blk \in Block
         /\ journal[Other(t)].pg \in Page /\ ~IsFull(journal[Other(t)])
         /\ journal[Other(t)].blk # journal[t].blk
         /\ journal[Other(t)].blk # reclaim /\ journal[t].blk # reclaim
         /\ \A b \in Block : IsJournal(b) <=> b \in {journal[t].blk, journal[Other(t)].blk}
         /\ Written(journal[t].blk) = MAX_DIRTY_PAGES
<1>1. Other(t) \in Temp /\ Other(t) # t /\ \A u \in Temp : u = t \/ u = Other(t)
  BY DEF Other, Temp
<1>2. /\ journal[t].blk \in Block /\ journal[Other(t)].blk \in Block
      /\ journal[Other(t)].blk # journal[t].blk
      /\ journal[Other(t)].blk # reclaim /\ journal[t].blk # reclaim
  BY <1>1 DEF Layout, Sound, Roles, Temp, Other
<1>3. journal[t].pg \in Page /\ journal[Other(t)].pg \in Page
  BY <1>1 DEF TypeOK
<1>4. IsFull(journal[t]) /\ ~IsFull(journal[Other(t)])
  BY <1>1 DEF Layout, PcInv
<1>5. journal[t].pg = MAX_DIRTY_PAGES
  BY <1>3, <1>4, SizeFacts DEF IsFull, Page
<1>6. nand[journal[t].blk][MAX_DIRTY_PAGES] = MetaPage
  <2>1. \A q \in Page : q >= journal[t].pg => nand[journal[t].blk][q] = MetaPage
    BY <1>4 DEF Layout, JournalTail
  <2>2. QED
    BY <1>5, <2>1, SizeFacts
<1>7. \A b \in Block : IsJournal(b) <=> b \in {journal[t].blk, journal[Other(t)].blk}
  BY <1>1 DEF IsJournal
<1>8. Written(journal[t].blk) = MAX_DIRTY_PAGES
  BY <1>2, <1>5 DEF Written, Temp, Other
<1>9. QED
  BY <1>1, <1>2, <1>3, <1>4, <1>5, <1>6, <1>7, <1>8

\* A victim other than the reclaim block is full, is not pinned, and has no
\* more live pages than its dirty count leaves, and exactly as many when the
\* counts are exact.
LEMMA VictimCount ==
  ASSUME TypeOK, Layout, NEW t \in Temp, pc = t, NEW v \in Block,
         IsVictim(v, t), v # reclaim
  PROVE  /\ v # journal[Other(t)].blk /\ ~Flagged(v)
         /\ bdt[v] \in Nat
         /\ Cardinality(LivePages(v)) <= MAX_DIRTY_PAGES - bdt[v]
         /\ Exact => Cardinality(LivePages(v)) = MAX_DIRTY_PAGES - bdt[v]
         /\ bdt[v] < MAX_DIRTY_PAGES => nand[v][MAX_DIRTY_PAGES] = MetaPage
<1>1. v # journal[Other(t)].blk /\ bdt[v] <= MAX_DIRTY_PAGES /\ bdt[v] \in Nat
  BY VictimFacts DEF TypeOK
<1>2. ~Flagged(v)
  BY <1>1, SizeFacts DEF Flagged, BACKUPFLAG
<1>3. /\ bdt[v] + Cardinality(LivePages(v)) <= Written(v)
      /\ Exact => bdt[v] + Cardinality(LivePages(v)) = Written(v)
  BY <1>2, UnpinnedFacts DEF Layout, Sound, Exact
<1>4. Written(v) = MAX_DIRTY_PAGES
  <2>1. CASE v = journal[t].blk
    BY <2>1, FullJournal
  <2>2. CASE v # journal[t].blk
    BY <1>1, <2>2 DEF Written, Other, Temp
  <2>3. QED
    BY <2>1, <2>2
<1>5. /\ Cardinality(LivePages(v)) <= MAX_DIRTY_PAGES - bdt[v]
      /\ Exact => Cardinality(LivePages(v)) = MAX_DIRTY_PAGES - bdt[v]
  BY <1>1, <1>3, <1>4, LivePagesFinite, SizeFacts
<1>6. bdt[v] < MAX_DIRTY_PAGES => nand[v][MAX_DIRTY_PAGES] = MetaPage
  <2>1. CASE v = journal[t].blk
    BY <2>1, FullJournal
  <2>2. CASE v # journal[t].blk
    <3>1. ~IsJournal(v)
      BY <1>1, <2>2, FullJournal
    <3>2. QED
      BY <1>1, <3>1, SizeFacts DEF Layout, Sound, MetaInv
  <2>3. QED
    BY <2>1, <2>2
<1>7. QED
  BY <1>1, <1>2, <1>5, <1>6

\* Emptying blocks that are not pinned and hold no live page that is not moved
\* keeps the counter of pins.
LEMMA CountKept ==
  ASSUME CountInv, backup_block_count' = backup_block_count,
         \A b \in Block : bdt'[b] >= BACKUPFLAG <=> Flagged(b)
  PROVE  CountInv'
<1>1. {b \in Block : bdt'[b] >= BACKUPFLAG} = {b \in Block : Flagged(b)}
  OBVIOUS
<1>2. QED
  BY <1>1 DEF CountInv, Flagged

\* A reclaim leaves every block as it was or without dirty pages, so the counts
\* stay within bounds and exact.
CountsCarried ==
  \A b \in Block :
    \/ /\ bdt'[b] = bdt[b] /\ LivePages(b)' = LivePages(b)
       /\ Written(b)' = Written(b)
    \/ bdt'[b] = 0 /\ Cardinality(LivePages(b)') = Written(b)'

LEMMA BoundedCarried ==
  ASSUME TypeOK, Bounded, CountsCarried
  PROVE  Bounded' /\ (Exact => Exact')
<1>1. ASSUME NEW b \in Block
      PROVE  /\ bdt'[b] + Cardinality(LivePages(b)') <=
                  Written(b)' + (IF bdt'[b] >= BACKUPFLAG THEN BACKUPFLAG ELSE 0)
             /\ Exact /\ ~(bdt'[b] >= BACKUPFLAG) =>
                  bdt'[b] + Cardinality(LivePages(b)') = Written(b)'
  <2>1. CASE /\ bdt'[b] = bdt[b] /\ LivePages(b)' = LivePages(b)
             /\ Written(b)' = Written(b)
    BY <2>1 DEF Bounded, Exact, Flagged
  <2>2. CASE bdt'[b] = 0 /\ Cardinality(LivePages(b)') = Written(b)'
    <3>1. Cardinality(LivePages(b)') \in Nat
      BY LivePagesFinitePrime
    <3>2. QED
      BY <2>2, <3>1 DEF BACKUPFLAG
  <2>3. QED
    BY <2>1, <2>2 DEF CountsCarried
<1>2. Bounded'
  BY <1>1 DEF Bounded, Flagged
<1>3. Exact => Exact'
  BY <1>1 DEF Exact, Flagged
<1>4. QED
  BY <1>2, <1>3

LEMMA EraseStep ==
  ASSUME TypeOK, Layout, NEW t \in Temp, pc = t, NEW v \in Block,
         IsVictim(v, t), ReclaimErase(t, v)
  PROVE  Layout' /\ Carried
<1> DEFINE o == journal[Other(t)].blk
<1>1. /\ Roles /\ JournalTail /\ ReclaimReady /\ PcInv /\ MetaInv
      /\ MapInv /\ Bounded
  BY DEF Layout, Sound
<1>2. /\ bdt[v] = MAX_DIRTY_PAGES
      /\ nand' = [nand EXCEPT ![v] = AllErased] /\ nand \in [Block -> [Page -> Cell]]
      /\ bdt' = [bdt EXCEPT ![v] = 0] /\ bdt \in [Block -> Nat]
      /\ journal' = [journal EXCEPT ![t] = [blk |-> v, pg |-> 0]]
      /\ journal \in [Temp -> [blk : 0 .. NBlock, pg : Page]]
      /\ pc' = "idle" /\ pmt' = pmt /\ reclaim' = reclaim
      /\ backup_block_count' = backup_block_count
      /\ latest' = latest /\ benign' = benign
  BY DEF ReclaimErase, history, TypeOK
<1>3. v # reclaim
  BY <1>1, <1>2, SizeFacts DEF ReclaimReady
<1>4. /\ v # o /\ ~Flagged(v) /\ Cardinality(LivePages(v)) = 0
  BY <1>2, <1>3, VictimCount, LivePagesFinite, SizeFacts
<1>5. LivePages(v) = {}
  BY <1>4, LivePagesFinite, FS_EmptySet
<1>6. /\ \A b \in Block : b # v => nand'[b] = nand[b] /\ bdt'[b] = bdt[b]
      /\ \A q \in Page : nand'[v][q] = Erased
      /\ bdt'[v] = 0
  BY <1>2 DEF AllErased
<1>7. /\ Other(t) \in Temp /\ Other(t) # t
      /\ \A u \in Temp : u = t \/ u = Other(t)
      /\ journal'[t].blk = v /\ journal'[t].pg = 0
      /\ journal'[Other(t)] = journal[Other(t)]
  BY <1>2, FullJournal
<1>8. Roles'
  BY <1>1, <1>2, <1>3, <1>4, <1>7, FullJournal DEF Roles, Temp, Other
<1>9. JournalTail'
  <2> SUFFICES ASSUME NEW u \in Temp, NEW q \in Page, q >= journal'[u].pg
               PROVE  nand'[journal'[u].blk][q] =
                        IF journal'[u].pg >= MAX_DIRTY_PAGES THEN MetaPage ELSE Erased
    BY DEF JournalTail, IsFull
  <2>1. CASE u = t
    BY <1>6, <1>7, <2>1, SizeFacts
  <2>2. CASE u = Other(t)
    BY <1>1, <1>4, <1>6, <1>7, <2>2, FullJournal DEF JournalTail, IsFull
  <2>3. QED
    BY <1>7, <2>1, <2>2
<1>10. ReclaimReady'
  BY <1>1, <1>2, <1>3, <1>6 DEF ReclaimReady, TypeOK
<1>11. PcInv'
  <2>1. ~IsFull(journal[Other(t)])
    BY FullJournal
  <2>2. QED
    BY <1>2, <1>7, <2>1, SizeFacts DEF PcInv, IsFull, Temp
<1>12. MetaInv'
  <2> SUFFICES ASSUME NEW b \in Block, ~IsJournal(b)', b # reclaim
               PROVE  \/ nand'[b][MAX_DIRTY_PAGES] = MetaPage
                      \/ /\ bdt'[b] = MAX_DIRTY_PAGES
                         /\ \A q \in Page : nand'[b][q] = Erased
    BY <1>2 DEF MetaInv
  <2>1. b # v /\ b # o
    BY <1>7 DEF IsJournal
  <2>2. CASE b = journal[t].blk
    BY <1>6, <2>1, <2>2, FullJournal
  <2>3. CASE b # journal[t].blk
    <3>1. ~IsJournal(b)
      BY <2>1, <2>3, FullJournal
    <3>2. QED
      BY <1>1, <1>6, <2>1, <3>1 DEF MetaInv
  <2>4. QED
    BY <2>2, <2>3
\* No mapped page is in the victim.
<1>13. \A c \in Addr : Mapped(c) => pmt[c].blk # v /\ pmt[c].blk \in Block
  BY <1>1, <1>5, MappedFacts
<1>14. ASSUME NEW c \in Addr, Mapped(c)
       PROVE  /\ pmt'[c] = pmt[c]
              /\ nand'[pmt[c].blk][pmt[c].pg] = nand[pmt[c].blk][pmt[c].pg]
  BY <1>2, <1>6, <1>13, <1>14
<1>15. MapInv'
  <2> SUFFICES ASSUME NEW c \in Addr, Mapped(c)
               PROVE  \A u \in Temp : pmt[c].blk = journal'[u].blk =>
                        pmt[c].pg < journal'[u].pg
    BY <1>1, <1>2, <1>14 DEF MapInv, Mapped, CellAt
  <2>1. QED
    BY <1>1, <1>7, <1>13 DEF MapInv
<1>16. (Current => Current') /\ (Discarded => Discarded')
  <2>1. ASSUME Current PROVE Current'
    BY <1>2, <1>14, <2>1 DEF Current, Mapped, CellAt
  <2>2. QED
    BY <1>2, <2>1 DEF Discarded, Mapped
<1>17. CountsCarried
  <2> SUFFICES ASSUME NEW b \in Block
               PROVE  \/ /\ bdt'[b] = bdt[b] /\ LivePages(b)' = LivePages(b)
                         /\ Written(b)' = Written(b)
                      \/ bdt'[b] = 0 /\ Cardinality(LivePages(b)') = Written(b)'
    BY DEF CountsCarried
  <2>1. CASE b = v
    <3>1. LivePages(b)' = {}
      <4>1. Erased.kind # "data"
        BY DEF Erased
      <4>2. QED
        BY <1>6, <2>1, <4>1, SizeFacts DEF LivePages
    <3>2. Cardinality(LivePages(b)') = 0
      BY <3>1, FS_EmptySet
    <3>3. Written(b)' = 0
      BY <1>4, <1>7, <2>1 DEF Written, Temp, Other
    <3>4. QED
      BY <1>6, <2>1, <3>2, <3>3
  <2>2. CASE b # v
    <3>1. LivePages(b)' = LivePages(b)
      BY <1>2, <1>6, <2>2 DEF LivePages
    <3>2. Written(b)' = Written(b)
      <4>1. CASE b = journal[t].blk
        <5>1. Written(b) = MAX_DIRTY_PAGES /\ b # o /\ b # reclaim
          BY <4>1, FullJournal
        <5>2. Written(b)' = MAX_DIRTY_PAGES
          BY <1>2, <1>7, <2>2, <5>1 DEF Written, Temp, Other
        <5>3. QED
          BY <5>1, <5>2
      <4>2. CASE b # journal[t].blk
        BY <1>2, <1>7, <2>2, <4>2 DEF Written, Temp, Other
      <4>3. QED
        BY <4>1, <4>2
    <3>3. QED
      BY <1>6, <2>2, <3>1, <3>2
  <2>3. QED
    BY <2>1, <2>2
<1>18. ASSUME CountInv PROVE CountInv'
  <2>1. \A b \in Block : bdt'[b] >= BACKUPFLAG <=> Flagged(b)
    BY <1>4, <1>6, SizeFacts DEF Flagged, BACKUPFLAG
  <2>2. QED
    BY <1>2, <1>18, <2>1, CountKept
<1>19. ASSUME BenignInv PROVE BenignInv'
  <2> SUFFICES ASSUME NEW c \in Addr, benign'[c] # NoData
               PROVE  /\ pmt'[c] # INVALID_PM_NODE
                      /\ Retains(c, benign'[c], nand'[pmt'[c].blk][pmt'[c].pg], nand', bdt')
    BY BenignFold
  <2>1. Mapped(c) /\ Retains(c, benign[c], nand[pmt[c].blk][pmt[c].pg], nand, bdt)
    BY <1>2, <1>19, BenignUnfold
  <2>2. nand[pmt[c].blk][pmt[c].pg] \in DataCell
    BY <1>1, <2>1, MappedFacts DEF CellAt
  <2>3. \A b \in Block : Flagged(b) => b # v
    BY <1>4
  <2>4. Retains(c, benign[c], nand[pmt[c].blk][pmt[c].pg], nand', bdt')
    BY <1>6, <2>1, <2>2, <2>3, RetainsKept DEF Flagged
  <2>5. QED
    BY <1>2, <1>6, <1>13, <2>1, <2>4 DEF Mapped
<1>20. Bounded' /\ (Exact => Exact')
  BY <1>1, <1>17, BoundedCarried
<1>21. QED
  BY <1>8, <1>9, <1>10, <1>11, <1>12, <1>15, <1>16, <1>18, <1>19, <1>20
     DEF Layout, Sound, Carried

\* A victim with a dirty page is not the reclaim block, and the copy loop
\* recognises exactly its live pages.
LEMMA DirtyVictim ==
  ASSUME TypeOK, Layout, NEW t \in Temp, pc = t, NEW v \in Block,
         IsVictim(v, t), bdt[v] # 0, bdt[v] < MAX_DIRTY_PAGES,
         NEW live \in Recognised(v)
  PROVE  /\ v # reclaim /\ v # journal[Other(t)].blk /\ ~Flagged(v)
         /\ live = LivePages(v)
         /\ Exact => Cardinality(live) = MAX_DIRTY_PAGES - bdt[v]
         /\ MAX_DIRTY_PAGES - bdt[v] \in 1 .. MAX_DIRTY_PAGES - 1
<1>1. v # reclaim
  BY DEF Layout, Sound, ReclaimReady
<1>2. /\ v # journal[Other(t)].blk /\ ~Flagged(v) /\ bdt[v] \in Nat
      /\ Exact => Cardinality(LivePages(v)) = MAX_DIRTY_PAGES - bdt[v]
      /\ nand[v][MAX_DIRTY_PAGES] = MetaPage
  BY <1>1, VictimCount
<1>3. nand[v][MAX_DIRTY_PAGES].kind = "meta"
  BY <1>2 DEF MetaPage
<1>4. live = LivePages(v)
  BY <1>3 DEF Recognised
<1>5. QED
  BY <1>1, <1>2, <1>4, SizeFacts

LEMMA CopyStep ==
  ASSUME TypeOK, Layout, NEW t \in Temp, pc = t, NEW v \in Block,
         IsVictim(v, t), bdt[v] # 0,
         NEW live \in Recognised(v), NEW m \in Placements(live),
         ReclaimCopy(t, v, live, m)
  PROVE  Layout' /\ Carried
<1> DEFINE o == journal[Other(t)].blk
           n == Cardinality(live)
<1>1. /\ Roles /\ JournalTail /\ ReclaimReady /\ PcInv /\ MetaInv
      /\ MapInv /\ Bounded
  BY DEF Layout, Sound
<1>2. /\ bdt[v] < MAX_DIRTY_PAGES
      /\ nand' = [nand EXCEPT ![reclaim] = Copied(v, live, m), ![v] = AllErased]
      /\ nand \in [Block -> [Page -> Cell]]
      /\ bdt' = [bdt EXCEPT ![v] = 0, ![reclaim] = 0] /\ bdt \in [Block -> Nat]
      /\ journal' = [journal EXCEPT ![t] = [blk |-> reclaim, pg |-> n]]
      /\ journal \in [Temp -> [blk : 0 .. NBlock, pg : Page]]
      /\ pc' = "idle" /\ pmt' = Remapped(v, live, m) /\ pmt \in [Addr -> MaybeNode]
      /\ reclaim' = v /\ reclaim \in Block
      /\ backup_block_count' = backup_block_count
      /\ latest' = latest /\ benign' = benign
  BY DEF ReclaimCopy, history, TypeOK
<1>3. /\ v # reclaim /\ v # o /\ ~Flagged(v)
      /\ live = LivePages(v) /\ n \in 1 .. MAX_DIRTY_PAGES - 1
  <2>1. n = MAX_DIRTY_PAGES - bdt[v]
    BY DEF ReclaimCopy
  <2>2. QED
    BY <1>2, <2>1, DirtyVictim
<1>4. /\ live \in SUBSET DataPage
      /\ m \in [live -> 0 .. n - 1]
      /\ \A p \in live : m[p] \in DataPage
      /\ \A p, q \in live : p # q => m[p] # m[q]
      /\ \A r \in 0 .. n - 1 : \E p \in live : m[p] = r
  <2>1. live \in SUBSET DataPage
    BY <1>3 DEF LivePages
  <2>2. QED
    BY <2>1, PlacementFacts
<1>5. /\ Other(t) \in Temp /\ Other(t) # t
      /\ \A u \in Temp : u = t \/ u = Other(t)
      /\ journal'[t].blk = reclaim /\ journal'[t].pg = n
      /\ journal'[Other(t)] = journal[Other(t)]
      /\ o # reclaim /\ o \in Block
  BY <1>2, FullJournal
\* The flash after the copy.
<1>6. /\ \A b \in Block : b # v /\ b # reclaim => nand'[b] = nand[b] /\ bdt'[b] = bdt[b]
      /\ \A q \in Page : nand'[v][q] = Erased
      /\ bdt'[v] = 0 /\ bdt'[reclaim] = 0
  BY <1>2, <1>3 DEF AllErased
<1>7. nand'[reclaim] = Copied(v, live, m)
  BY <1>2, <1>3
<1>8. ASSUME NEW p \in live
      PROVE  m[p] \in Page /\ nand'[reclaim][m[p]] = nand[v][p]
  <2>1. m[p] \in Page /\ \E q \in live : m[q] = m[p]
    BY <1>4, SizeFacts
  <2>2. (CHOOSE q \in live : m[q] = m[p]) = p
    BY <1>4, <2>1
  <2>3. QED
    BY <1>7, <2>1, <2>2 DEF Copied
<1>9. \A q \in Page : q >= n => nand'[reclaim][q] = Erased
  <2> SUFFICES ASSUME NEW q \in Page, q >= n PROVE nand'[reclaim][q] = Erased
    OBVIOUS
  <2>1. ~\E p \in live : m[p] = q
    BY <1>3, <1>4, SizeFacts
  <2>2. nand[reclaim][q] = Erased
    BY <1>1 DEF ReclaimReady
  <2>3. QED
    BY <1>7, <2>1, <2>2 DEF Copied
\* The mapping table after the copy.
<1>10. ASSUME NEW c \in Addr
       PROVE  /\ Mapped(c) /\ pmt[c].blk = v =>
                   /\ pmt[c].pg \in live
                   /\ pmt'[c] = [blk |-> reclaim, pg |-> m[pmt[c].pg]]
              /\ ~(Mapped(c) /\ pmt[c].blk = v) => pmt'[c] = pmt[c]
              /\ pmt'[c] # INVALID_PM_NODE <=> Mapped(c)
              /\ Mapped(c) => /\ pmt[c].blk \in Block /\ pmt[c].pg \in DataPage
                              /\ pmt[c].blk # reclaim
                              /\ CellAt(pmt[c]) \in DataCell
                              /\ pmt'[c].pg \in DataPage
                              /\ nand'[pmt'[c].blk][pmt'[c].pg] = CellAt(pmt[c])
  <2>1. Mapped(c) => /\ pmt[c].blk \in Block /\ pmt[c].pg \in DataPage
                     /\ pmt[c].blk # reclaim
                     /\ CellAt(pmt[c]) \in DataCell
                     /\ pmt[c].pg \in LivePages(pmt[c].blk)
    BY <1>1, MappedFacts, EditBlockFacts
  <2>2. CASE Mapped(c) /\ pmt[c].blk = v
    <3>1. pmt[c].pg \in live
      BY <1>3, <2>1, <2>2
    <3>2. pmt'[c] = [blk |-> reclaim, pg |-> m[pmt[c].pg]]
      BY <1>2, <2>2, <3>1 DEF Remapped
    <3>3. pmt'[c] # INVALID_PM_NODE
      BY <1>2, <3>2, NBlockAssumption DEF INVALID_PM_NODE, Block
    <3>4. nand'[pmt'[c].blk][pmt'[c].pg] = CellAt(pmt[c])
      BY <1>8, <2>2, <3>1, <3>2 DEF CellAt
    <3>5. QED
      BY <1>4, <2>1, <2>2, <3>1, <3>2, <3>3, <3>4
  <2>3. CASE ~(Mapped(c) /\ pmt[c].blk = v)
    <3>1. pmt'[c] = pmt[c]
      BY <1>2, <2>3 DEF Remapped
    <3>2. QED
      BY <1>6, <2>1, <2>3, <3>1 DEF Mapped, CellAt
  <2>4. QED
    BY <2>2, <2>3
<1>11. Roles'
  BY <1>1, <1>2, <1>3, <1>5 DEF Roles, Temp, Other
<1>12. JournalTail'
  <2> SUFFICES ASSUME NEW u \in Temp, NEW q \in Page, q >= journal'[u].pg
               PROVE  nand'[journal'[u].blk][q] =
                        IF journal'[u].pg >= MAX_DIRTY_PAGES THEN MetaPage ELSE Erased
    BY DEF JournalTail, IsFull
  <2>1. CASE u = t
    BY <1>3, <1>5, <1>9, <2>1, SizeFacts
  <2>2. CASE u = Other(t)
    BY <1>1, <1>3, <1>5, <1>6, <2>2 DEF JournalTail, IsFull
  <2>3. QED
    BY <1>5, <2>1, <2>2
<1>13. ReclaimReady'
  BY <1>2, <1>6 DEF ReclaimReady
<1>14. PcInv'
  <2>1. ~IsFull(journal[Other(t)])
    BY FullJournal
  <2>2. QED
    BY <1>2, <1>3, <1>5, <2>1, SizeFacts DEF PcInv, IsFull, Temp
<1>15. MetaInv'
  <2> SUFFICES ASSUME NEW b \in Block, ~IsJournal(b)', b # v
               PROVE  \/ nand'[b][MAX_DIRTY_PAGES] = MetaPage
                      \/ /\ bdt'[b] = MAX_DIRTY_PAGES
                         /\ \A q \in Page : nand'[b][q] = Erased
    BY <1>2 DEF MetaInv
  <2>1. b # reclaim /\ b # o
    BY <1>5 DEF IsJournal
  <2>2. CASE b = journal[t].blk
    BY <1>6, <2>1, <2>2, FullJournal
  <2>3. CASE b # journal[t].blk
    <3>1. ~IsJournal(b)
      BY <2>1, <2>3, FullJournal
    <3>2. QED
      BY <1>1, <1>6, <2>1, <3>1 DEF MetaInv
  <2>4. QED
    BY <2>2, <2>3
<1>16. MapInv'
  <2> SUFFICES ASSUME NEW c \in Addr, Mapped(c)
               PROVE  /\ pmt'[c].pg \in DataPage
                      /\ nand'[pmt'[c].blk][pmt'[c].pg].kind = "data"
                      /\ nand'[pmt'[c].blk][pmt'[c].pg].addr = c
                      /\ \A u \in Temp : pmt'[c].blk = journal'[u].blk =>
                           pmt'[c].pg < journal'[u].pg
    BY <1>10 DEF MapInv, Mapped, CellAt
  <2>1. CellAt(pmt[c]).kind = "data" /\ CellAt(pmt[c]).addr = c
    BY <1>1 DEF MapInv
  <2>2. ASSUME NEW u \in Temp, pmt'[c].blk = journal'[u].blk
        PROVE  pmt'[c].pg < journal'[u].pg
    <3>1. CASE pmt[c].blk = v
      <4>0. pmt[c].pg \in live /\ pmt'[c] = [blk |-> reclaim, pg |-> m[pmt[c].pg]]
        BY ONLY <1>10, <3>1, c \in Addr, Mapped(c)
      <4>1. pmt'[c].blk = reclaim /\ pmt'[c].pg = m[pmt[c].pg] /\ pmt[c].pg \in live
        BY ONLY <4>0
      <4>2. u = t
        BY <1>5, <2>2, <4>1
      <4>3. m[pmt[c].pg] < n
        BY <1>3, <1>4, <4>1, SizeFacts
      <4>4. QED
        BY <1>5, <4>1, <4>2, <4>3
    <3>2. CASE pmt[c].blk # v
      <4>1. pmt'[c] = pmt[c] /\ pmt[c].blk # reclaim
        BY <1>10, <3>2
      <4>2. u # t
        BY <1>5, <2>2, <4>1
      <4>3. journal'[u] = journal[u]
        BY <1>5, <4>2
      <4>4. QED
        BY <1>1, <2>2, <4>1, <4>3 DEF MapInv
    <3>3. QED
      BY <3>1, <3>2
  <2>3. QED
    BY <1>10, <2>1, <2>2
<1>23. (Current => Current') /\ (Discarded => Discarded')
  <2>1. ASSUME Current PROVE Current'
    <3> SUFFICES ASSUME NEW c \in Addr, latest[c] # NoData
                 PROVE  /\ pmt'[c] # INVALID_PM_NODE
                        /\ nand'[pmt'[c].blk][pmt'[c].pg].data = latest[c]
      BY <1>2 DEF Current, Mapped, CellAt
    <3>1. QED
      BY <1>10, <2>1 DEF Current
  <2>2. ASSUME Discarded PROVE Discarded'
    BY <1>2, <1>10, <2>2 DEF Discarded, Mapped
  <2>3. QED
    BY <2>1, <2>2
<1>17. ASSUME CountInv PROVE CountInv'
  <2>1. ~Flagged(reclaim)
    BY <1>1 DEF ReclaimReady, Flagged, BACKUPFLAG
  <2>2. \A b \in Block : bdt'[b] >= BACKUPFLAG <=> Flagged(b)
    BY <1>3, <1>6, <2>1 DEF Flagged, BACKUPFLAG
  <2>3. QED
    BY <1>2, <1>17, <2>2, CountKept
<1>18. CountsCarried
  <2> SUFFICES ASSUME NEW b \in Block
               PROVE  \/ /\ bdt'[b] = bdt[b] /\ LivePages(b)' = LivePages(b)
                         /\ Written(b)' = Written(b)
                      \/ bdt'[b] = 0 /\ Cardinality(LivePages(b)') = Written(b)'
    BY DEF CountsCarried
  <2>1. CASE b = v
    <3>1. LivePages(b)' = {}
      <4>1. Erased.kind # "data"
        BY DEF Erased
      <4>2. QED
        BY <1>6, <2>1, <4>1, SizeFacts DEF LivePages
    <3>2. Cardinality(LivePages(b)') = 0
      BY <3>1, FS_EmptySet
    <3>3. Written(b)' = 0
      BY <1>2, <1>3, <1>5, <2>1 DEF Written, Temp, Other
    <3>4. QED
      BY <1>6, <2>1, <3>2, <3>3
  <2>2. CASE b = reclaim
    <3>1. LivePages(b)' = 0 .. n - 1
      <4>1. ASSUME NEW q \in DataPage, q >= n PROVE q \notin LivePages(b)'
        <5>1. nand'[b][q] = Erased
          BY <1>9, <2>2, <4>1, SizeFacts
        <5>2. Erased.kind # "data"
          BY DEF Erased
        <5>3. QED
          BY <5>1, <5>2 DEF LivePages
      <4>2. ASSUME NEW q \in 0 .. n - 1 PROVE q \in LivePages(b)'
        <5>1. PICK p \in live : m[p] = q
          BY <1>4
        <5>2. /\ nand[v][p] \in DataCell /\ nand[v][p].addr \in Addr
              /\ Mapped(nand[v][p].addr)
              /\ pmt[nand[v][p].addr] = [blk |-> v, pg |-> p]
          BY <1>3, LivePageFacts
        <5>3. pmt'[nand[v][p].addr] = [blk |-> b, pg |-> q]
          <6> DEFINE c == nand[v][p].addr
          <6>1. pmt[c].blk = v /\ pmt[c].pg = p
            BY <5>2
          <6>2. QED
            BY <1>10, <2>2, <5>1, <5>2, <6>1
        <5>4. nand'[b][q] = nand[v][p] /\ q \in DataPage
          BY <1>4, <1>8, <2>2, <5>1
        <5>5. nand[v][p].kind = "data"
          BY <5>2 DEF DataCell
        <5>6. QED
          BY <5>3, <5>4, <5>5 DEF LivePages
      <4>3. 0 .. n - 1 \subseteq DataPage /\ LivePages(b)' \subseteq DataPage
        <5>1. 0 .. n - 1 \subseteq DataPage
          BY <1>3, SizeFacts DEF DataPage
        <5>2. LivePages(b)' \subseteq DataPage
          BY DEF LivePages
        <5>3. QED
          BY <5>1, <5>2
      <4>4. \A q \in DataPage : q \in 0 .. n - 1 \/ q >= n
        BY <1>3, SizeFacts DEF DataPage
      <4>5. QED
        BY <4>1, <4>2, <4>3, <4>4
    <3>2. Cardinality(LivePages(b)') = n
      BY <1>3, <3>1, SizeFacts, FS_Interval
    <3>3. Written(b)' = n
      BY <1>2, <1>5, <2>2 DEF Written, Temp, Other
    <3>4. QED
      BY <1>3, <1>6, <2>2, <3>2, <3>3
  <2>3. CASE b # v /\ b # reclaim
    <3>1. LivePages(b)' = LivePages(b)
      <4>1. ASSUME NEW q \in DataPage PROVE q \in LivePages(b)' <=> q \in LivePages(b)
        <5>1. nand'[b][q] = nand[b][q]
          BY <1>6, <2>3
        <5>2. CASE nand[b][q].kind # "data"
          BY <5>1, <5>2 DEF LivePages
        <5>3. CASE nand[b][q].kind = "data"
          <6>1. nand[b][q] \in DataCell
            <7>1. nand[b][q] \in Cell
              BY <1>2, SizeFacts
            <7>2. QED
              BY <5>3, <7>1 DEF Cell, Erased, MetaPage
          <6>2. nand[b][q].addr \in Addr
            BY <6>1 DEF DataCell
          <6>3. pmt'[nand[b][q].addr] = [blk |-> b, pg |-> q]
                  <=> pmt[nand[b][q].addr] = [blk |-> b, pg |-> q]
            <7> DEFINE c == nand[b][q].addr
            <7>1. CASE Mapped(c) /\ pmt[c].blk = v
              <8>1. pmt'[c] = [blk |-> reclaim, pg |-> m[pmt[c].pg]]
                BY <1>10, <6>2, <7>1
              <8>2. pmt'[c] # [blk |-> b, pg |-> q]
                BY <2>3, <8>1
              <8>3. pmt[c] # [blk |-> b, pg |-> q]
                BY <2>3, <7>1
              <8>4. QED
                BY <8>2, <8>3
            <7>2. CASE ~(Mapped(c) /\ pmt[c].blk = v)
              <8>1. pmt'[c] = pmt[c]
                BY <1>10, <6>2, <7>2
              <8>2. QED
                BY <8>1
            <7>3. QED
              BY <7>1, <7>2
          <6>4. QED
            BY <5>1, <6>3 DEF LivePages
        <5>4. QED
          BY <5>2, <5>3
      <4>2. LivePages(b)' \subseteq DataPage /\ LivePages(b) \subseteq DataPage
        BY DEF LivePages
      <4>3. QED
        BY <4>1, <4>2
    <3>2. Written(b)' = Written(b)
      <4>1. CASE b = journal[t].blk
        <5>1. Written(b) = MAX_DIRTY_PAGES /\ b # o
          BY <4>1, FullJournal
        <5>2. Written(b)' = MAX_DIRTY_PAGES
          BY <1>2, <1>5, <2>3, <5>1 DEF Written, Temp, Other
        <5>3. QED
          BY <5>1, <5>2
      <4>2. CASE b # journal[t].blk
        BY <1>2, <1>5, <2>3, <4>2 DEF Written, Temp, Other
      <4>3. QED
        BY <4>1, <4>2
    <3>3. QED
      BY <1>6, <2>3, <3>1, <3>2
  <2>4. QED
    BY <2>1, <2>2, <2>3
<1>19. ASSUME BenignInv PROVE BenignInv'
  <2> SUFFICES ASSUME NEW c \in Addr, benign'[c] # NoData
               PROVE  /\ pmt'[c] # INVALID_PM_NODE
                      /\ Retains(c, benign'[c], nand'[pmt'[c].blk][pmt'[c].pg], nand', bdt')
    BY BenignFold
  <2>1. Mapped(c) /\ Retains(c, benign[c], CellAt(pmt[c]), nand, bdt)
    BY <1>2, <1>19, BenignUnfold DEF CellAt
  <2>2. CellAt(pmt[c]) \in DataCell /\ pmt'[c] # INVALID_PM_NODE
        /\ nand'[pmt'[c].blk][pmt'[c].pg] = CellAt(pmt[c])
    BY <1>10, <2>1
  <2>3. \A b \in Block : Flagged(b) => b # v /\ b # reclaim
    BY <1>1, <1>3 DEF ReclaimReady, Flagged, BACKUPFLAG
  <2>4. Retains(c, benign[c], CellAt(pmt[c]), nand', bdt')
    BY <1>6, <2>1, <2>2, <2>3, RetainsKept DEF Flagged
  <2>5. QED
    BY <1>2, <2>2, <2>4
<1>20. Bounded' /\ (Exact => Exact')
  BY <1>1, <1>18, BoundedCarried
<1>22. QED
  BY <1>11, <1>12, <1>13, <1>14, <1>15, <1>16, <1>17, <1>19, <1>20, <1>23
     DEF Layout, Sound, Carried

-----------------------------------------------------------------------------
(* The whole of DATA_Reclaim, and the invariant.                           *)

\* While the device is not starved no outcome but the erase and the copy is
\* possible, if the counts are exact: the search ends, the counts agree and
\* the target is erased.
LEMMA ReclaimStep ==
  ASSUME TypeOK, Layout, NEW t \in Temp, DATA_Reclaim(t), ~starved'
  PROVE  /\ pc' # "hung" => Layout' /\ Carried
         /\ Exact => pc' # "hung"
<1>1. pc = t /\ ReclaimReady
  BY DEF DATA_Reclaim, Layout, Sound
<1>2. CASE ReclaimSearchForever(t)
  <2>1. reclaim \in Block /\ bdt[reclaim] = 0 /\ reclaim # journal[Other(t)].blk
    BY <1>1, FullJournal DEF TypeOK, ReclaimReady
  <2>2. reclaim \in Candidates(t)
    BY <2>1, SizeFacts DEF Candidates
  <2>3. QED
    BY <1>2, <2>2 DEF ReclaimSearchForever
<1>3. ASSUME NEW v \in Block, IsVictim(v, t), ReclaimErase(t, v)
      PROVE  pc' # "hung" /\ Layout' /\ Carried
  <2>1. Layout' /\ Carried
    BY <1>1, <1>3, EraseStep
  <2>2. QED
    BY <1>3, <2>1 DEF ReclaimErase
<1>4. ASSUME NEW v \in Block, IsVictim(v, t), NEW live \in Recognised(v),
             NEW m \in Placements(live), ReclaimCopy(t, v, live, m)
      PROVE  pc' # "hung" /\ Layout' /\ Carried
  <2>1. bdt[v] # 0 /\ pc' # "hung"
    BY <1>4 DEF ReclaimCopy
  <2>2. QED
    BY <1>1, <1>4, <2>1, CopyStep
<1>5. ASSUME NEW v \in Block, IsVictim(v, t), NEW live \in Recognised(v),
             NEW m \in Placements(live), ReclaimAssert(t, v, live, m)
      PROVE  pc' = "hung" /\ ~Exact
  <2>1. bdt[v] # 0 /\ bdt[v] < MAX_DIRTY_PAGES /\ pc' = "hung"
    BY <1>5 DEF ReclaimAssert
  <2>2. Exact => Cardinality(live) = MAX_DIRTY_PAGES - bdt[v]
    BY <1>1, <1>5, <2>1, DirtyVictim
  <2>3. QED
    BY <1>5, <2>1, <2>2 DEF ReclaimAssert
<1>6. ASSUME NEW v \in Block, IsVictim(v, t), NEW live \in Recognised(v),
             NEW m \in Placements(live), ReclaimProgramAssert(t, v, live, m)
      PROVE  FALSE
  <2>1. live \in SUBSET DataPage
    BY RecognisedFacts
  <2>2. \A p \in live : m[p] \in Page
    BY <2>1, PlacementFacts, SizeFacts
  <2>3. \A p \in live : nand[reclaim][m[p]] = Erased
    BY <1>1, <2>2 DEF ReclaimReady
  <2>4. QED
    BY <1>6, <2>3 DEF ReclaimProgramAssert
<1>7. QED
  BY <1>2, <1>3, <1>4, <1>5, <1>6 DEF DATA_Reclaim

\* DATA_Write never meets a programmed page.
LEMMA JournalProgrammable ==
  ASSUME TypeOK, Layout, NEW t \in Temp, pc = "idle"
  PROVE  CanProgram(journal[t])
<1>1. journal[t].blk \in Block /\ journal[t].pg \in Page
  BY DEF Layout, Sound, Roles, TypeOK, Temp
<1>2. ~IsFull(journal[t])
  BY DEF Layout, PcInv, Temp
<1>3. nand[journal[t].blk][journal[t].pg] = Erased
  <2>1. journal[t].pg >= journal[t].pg
    <3>1. journal[t].pg \in Int
      BY <1>1, SizeFacts
    <3>2. QED
      BY <3>1
  <2>2. QED
    BY <1>1, <1>2, <2>1 DEF Layout, JournalTail
<1>4. QED
  BY <1>1, <1>3 DEF CanProgram, CellAt

\* Starvation is for ever.
LEMMA StarvedStays ==
  ASSUME [Next]_vars, ~starved'
  PROVE  ~starved
<1>1. ASSUME NEW a \in Addr, NEW d \in Data, NEW t \in Temp, NEW tag \in Tags,
             DATA_Write(a, d, t, tag)
      PROVE  ~starved
  BY <1>1 DEF DATA_Write
<1>2. ASSUME NEW t \in Temp, DATA_WriteAssert(t)
      PROVE  ~starved
  BY <1>2 DEF DATA_WriteAssert
<1>3. ASSUME NEW a \in Addr, NEW t \in Temp, FTL_Trim(a, t)
      PROVE  ~starved
  BY <1>3 DEF FTL_Trim
<1>4. ASSUME NEW t \in Temp, DATA_Reclaim(t)
      PROVE  ~starved
  <2>1. CASE ReclaimSearchForever(t)
    BY <2>1 DEF ReclaimSearchForever
  <2>2. ASSUME NEW v \in Block, ReclaimErase(t, v)
        PROVE  ~starved
    BY <2>2 DEF ReclaimErase
  <2>3. ASSUME NEW v \in Block, NEW live, NEW m, ReclaimCopy(t, v, live, m)
        PROVE  ~starved
    BY <2>3 DEF ReclaimCopy
  <2>4. ASSUME NEW v \in Block, NEW live, NEW m, ReclaimAssert(t, v, live, m)
        PROVE  ~starved
    BY <2>4 DEF ReclaimAssert
  <2>5. ASSUME NEW v \in Block, NEW live, NEW m,
               ReclaimProgramAssert(t, v, live, m)
        PROVE  ~starved
    BY <2>5 DEF ReclaimProgramAssert
  <2>6. QED
    BY <1>4, <2>1, <2>2, <2>3, <2>4, <2>5 DEF DATA_Reclaim
<1>5. CASE UNCHANGED vars
  BY <1>5 DEF vars
<1>6. QED
  BY <1>1, <1>2, <1>3, <1>4, <1>5 DEF Next

\* A step of a device whose tables fit its flash: the ASSERTs of a reclaim
\* are the only ones that can fail, and only if a dirty count is not exact.
LEMMA DeviceStep ==
  ASSUME TypeOK, Layout, [Next]_vars, ~starved'
  PROVE  /\ pc' # "hung" => Layout' /\ Carried
         /\ Exact => pc' # "hung"
         /\ pc' = "hung" => pc \in Temp
<1>0. pc # "hung" /\ "hung" \notin Temp
  BY DEF Layout, PcInv, Temp
<1>2. ASSUME NEW a \in Addr, NEW d \in Data, NEW t \in Temp, NEW tag \in Tags,
             DATA_Write(a, d, t, tag)
      PROVE  Layout' /\ Carried /\ pc' # "hung"
  <2>1. Layout' /\ Carried
    BY <1>2, TagsAssumption, WriteStep
  <2>2. QED
    BY <2>1 DEF Layout, PcInv
<1>3. ASSUME NEW t \in Temp, DATA_WriteAssert(t)
      PROVE  FALSE
  BY <1>3, JournalProgrammable DEF DATA_WriteAssert
<1>4. ASSUME NEW a \in Addr, NEW t \in Temp, FTL_Trim(a, t)
      PROVE  Layout' /\ Carried /\ pc' # "hung"
  <2>1. Layout' /\ Carried
    BY <1>4, TrimStep
  <2>2. QED
    BY <2>1 DEF Layout, PcInv
<1>5. ASSUME NEW t \in Temp, DATA_Reclaim(t)
      PROVE  /\ pc' # "hung" => Layout' /\ Carried
             /\ Exact => pc' # "hung"
             /\ pc' = "hung" => pc \in Temp
  BY <1>5, ReclaimStep DEF DATA_Reclaim
<1>6. CASE UNCHANGED vars
  <2>1. /\ nand' = nand /\ pmt' = pmt /\ bdt' = bdt /\ journal' = journal
        /\ reclaim' = reclaim /\ pc' = pc /\ latest' = latest /\ benign' = benign
        /\ backup_block_count' = backup_block_count
    BY <1>6 DEF vars, device, history
  <2>2. Roles' /\ JournalTail' /\ ReclaimReady' /\ PcInv'
    BY <2>1 DEF Layout, Sound, Roles, JournalTail, ReclaimReady, PcInv, IsFull
  <2>3. MetaInv' /\ MapInv'
    BY <2>1 DEF Layout, Sound, MetaInv, MapInv, IsJournal, Mapped, CellAt
  <2>4. \A b \in Block : LivePages(b)' = LivePages(b) /\ Written(b)' = Written(b)
    BY <2>1 DEF LivePages, Written
  <2>5. Bounded' /\ (Exact => Exact')
    BY <2>1, <2>4 DEF Layout, Sound, Bounded, Exact, Flagged
  <2>6. /\ Current => Current'
        /\ Discarded => Discarded'
        /\ BenignInv => BenignInv'
    BY <2>1 DEF Current, Discarded, BenignInv, Mapped, CellAt, Holds, Flagged
  <2>7. CountInv => CountInv'
    BY <2>1 DEF CountInv, Flagged
  <2>8. QED
    BY <1>0, <2>1, <2>2, <2>3, <2>5, <2>6, <2>7 DEF Layout, Sound, Carried
<1>7. QED
  BY <1>2, <1>3, <1>4, <1>5, <1>6 DEF Next

LEMMA InvariantStep ==
  ASSUME IInv, [Next]_vars, TypeOK', ~starved'
  PROVE  DeviceInv'
<1>1. TypeOK /\ DeviceInv /\ Layout /\ Exact
  BY StarvedStays DEF IInv, DeviceInv
<1>2. QED
  BY <1>1, DeviceStep, CarriedDevice

\* The inductive invariant holds in every reachable state: as long as no
\* reclaim has found all its candidate blocks clean, the roles of the blocks,
\* the mapping table, the dirty counts and the retained versions agree.
THEOREM Invariant == Spec => []IInv
<1>1. Init => IInv
  BY InitType, InitDeviceInv DEF IInv
<1>2. IInv /\ TypeOK' /\ [Next]_vars => IInv'
  BY InvariantStep DEF IInv
<1>3. QED
  BY <1>1, <1>2, TypeCorrect, PTL DEF Spec

-----------------------------------------------------------------------------
(* What the host sees.                                                     *)

\* FTL_Read returns the version last written, whatever DATA_Reclaim moved.
THEOREM ReadsReturnLatest == Spec => []CurrentReadable
<1>1. IInv => CurrentReadable
  BY DEF IInv, DeviceInv, Layout, Sound, MapInv, Current, CurrentReadable, PlainRead, Holds
<1>2. QED
  BY <1>1, Invariant, PTL

\* The recover read of FTL_Read returns the last version written without a
\* tag, however often tagged writes replaced the page and DATA_Reclaim moved
\* or erased the blocks around it.
THEOREM RetainerKeepsBenign == Spec => []BenignRetained
<1>1. IInv => BenignRetained
  <2> SUFFICES ASSUME TypeOK, DeviceInv, NEW a \in Addr, benign[a] # NoData
               PROVE  Mapped(a) /\ Holds(RecoverRead(a), a, benign[a])
    BY DEF IInv, BenignRetained
  <2>1. MapInv /\ BenignInv
    BY DEF DeviceInv, Layout, Sound
  <2>2. Mapped(a) /\ CellAt(pmt[a]).kind = "data" /\ CellAt(pmt[a]).addr = a
    BY <2>1 DEF MapInv, BenignInv, Holds
  <2>3. QED
    BY <2>1, <2>2 DEF BenignInv, RecoverRead, Holds
<1>2. QED
  BY <1>1, Invariant, PTL

\* No ASSERT of DATA_Write, DATA_Reclaim or the NAND layer fails, and the
\* search for a victim ends, until the device is starved.
THEOREM NoAssertFails == Spec => []AssertsHold
<1>1. IInv => AssertsHold
  BY DEF IInv, DeviceInv, Layout, PcInv, AssertsHold
<1>2. QED
  BY <1>1, Invariant, PTL

\* backup_block_count is the number of pinned blocks: PMT_Update counts a
\* block once, and DATA_Reclaim never takes a pinned block.
THEOREM BackupBlocksCounted == Spec => []BackupCountExact
<1>1. IInv => BackupCountExact
  BY DEF IInv, DeviceInv, CountInv, BackupCountExact
<1>2. QED
  BY <1>1, Invariant, PTL

-----------------------------------------------------------------------------
(***************************************************************************)
(* Pinned pages are neither erased nor programmed again, also on a starved *)
(* device, of which IInv says nothing.  What such a device still keeps is  *)
(* the order in which the pages of a block are programmed: first to last,  *)
(* and no journal is behind its block.                                     *)
(***************************************************************************)

FillInv == TypeOK /\ FillOrder /\ JournalFill

\* Pages that stay as they are.
Kept(b) == \A p \in Page : nand[b][p] # Erased => nand'[b][p] = nand[b][p]

LEMMA FillInit == Init => FillInv
<1> SUFFICES ASSUME Init PROVE FillInv
  OBVIOUS
<1>1. TypeOK
  BY InitType
<1>2. \A b \in Block : \A p \in Page : nand[b][p] = Erased
  BY DEF Init
<1>3. \A t \in Temp : journal[t].pg = 0
  BY DEF Init
<1>4. JournalFill
  BY <1>3, SizeFacts DEF JournalFill, Page
<1>5. QED
  BY <1>1, <1>2, <1>4 DEF FillInv, FillOrder

\* A write programs the first erased page of a block, and the last one after
\* the last but one.
LEMMA WriteFill ==
  ASSUME FillInv, NEW a \in Addr, NEW d \in Data, NEW t \in Temp, NEW tag \in AllTags,
         DATA_Write(a, d, t, tag)
  PROVE  FillOrder' /\ JournalFill' /\ \A b \in Block : Kept(b)
<1> DEFINE j == journal[t].blk
           n == journal[t].pg
<1> USE SizeFacts
<1>1. /\ TypeOK /\ FillOrder /\ JournalFill
      /\ j \in Block /\ n \in Page /\ nand[j][n] = Erased
      /\ journal' = [journal EXCEPT ![t] = NextPage(journal[t])]
  BY DEF FillInv, DATA_Write, CanProgram, CellAt, TypeOK
<1>2. PICK old \in OldLogicAddr(a, tag) :
        Program(journal[t], [kind |-> "data", addr |-> a, data |-> d, old |-> old])
  BY DEF DATA_Write
<1> DEFINE cell == [kind |-> "data", addr |-> a, data |-> d, old |-> old]
<1>3. cell # Erased /\ MetaPage # Erased
  BY DEF Erased, MetaPage
<1>4. nand' = [nand EXCEPT ![j] =
                 [p \in Page |-> IF p = n THEN cell
                                 ELSE IF p = n + 1 /\ p = MAX_DIRTY_PAGES
                                 THEN MetaPage ELSE @[p]]]
  BY <1>2 DEF Program
<1>a. n \in Int /\ MAX_DIRTY_PAGES \in Int /\ \A p \in Page : p \in Int
  BY <1>1
<1> HIDE DEF j, cell, n
<1>5. /\ \A b \in Block : b # j => nand'[b] = nand[b]
      /\ \A p \in Page : nand'[j][p] = IF p = n THEN cell
                                       ELSE IF p = n + 1 /\ p = MAX_DIRTY_PAGES
                                       THEN MetaPage ELSE nand[j][p]
  BY <1>1, <1>4 DEF TypeOK
\* What is before the journal page is programmed, what is behind it is not.
<1>6. /\ \A p \in Page : p < n => nand[j][p] # Erased
      /\ \A p \in Page : p > n => nand[j][p] = Erased
  <2>1. \A p \in Page : p < n => nand[j][p] # Erased
    BY <1>1 DEF JournalFill, j, n
  <2>2. \A p \in Page : p > n => nand[j][p] = Erased
    BY <1>1 DEF FillOrder
  <2>3. QED
    BY <2>1, <2>2
<1>7. \A b \in Block : Kept(b)
  <2> SUFFICES ASSUME NEW b \in Block, NEW p \in Page, nand[b][p] # Erased
               PROVE  nand'[b][p] = nand[b][p]
    BY DEF Kept
  <2>1. CASE b # j
    BY <1>5, <2>1
  <2>2. CASE b = j
    <3>1. p # n /\ ~(p > n)
      BY <1>1, <1>6, <2>2
    <3>2. p # n + 1
      BY <1>a, <3>1
    <3>3. QED
      BY <1>5, <2>2, <3>1, <3>2
  <2>3. QED
    BY <2>1, <2>2
<1>8. \A b \in Block, p \in Page : nand[b][p] # Erased => nand'[b][p] # Erased
  BY <1>7 DEF Kept
<1>9. FillOrder'
  <2> SUFFICES ASSUME NEW b \in Block, NEW p \in Page, NEW q \in Page, p < q,
                      nand'[b][q] # Erased
               PROVE  nand'[b][p] # Erased
    BY DEF FillOrder
  <2>1. CASE b # j
    BY <1>1, <1>5, <2>1 DEF FillOrder
  <2>2. CASE b = j
    <3>1. q <= n \/ (q = n + 1 /\ q = MAX_DIRTY_PAGES)
      <4>1. CASE q > n
        <5>1. nand[j][q] = Erased /\ q # n
          BY <1>a, <1>6, <4>1
        <5>2. QED
          BY <1>5, <2>2, <5>1
      <4>2. QED
        BY <1>a, <4>1
    <3>2. p < n \/ p = n
      BY <1>a, <3>1
    <3>3. CASE p < n
      BY <1>6, <1>8, <2>2, <3>3
    <3>4. CASE p = n
      BY <1>3, <1>5, <2>2, <3>4
    <3>5. QED
      BY <3>2, <3>3, <3>4
  <2>3. QED
    BY <2>1, <2>2
<1>10. JournalFill'
  <2> SUFFICES ASSUME NEW u \in Temp, NEW p \in Page, journal'[u].blk \in Block,
                      p < journal'[u].pg
               PROVE  nand'[journal'[u].blk][p] # Erased
    BY DEF JournalFill
  <2>1. CASE u # t
    <3>1. journal'[u] = journal[u]
      BY <1>1, <2>1 DEF TypeOK
    <3>2. QED
      BY <1>1, <1>8, <3>1 DEF JournalFill
  <2>2. CASE u = t
    <3>1. journal'[u] = NextPage(journal[t])
      BY <1>1, <2>2 DEF TypeOK
    <3>2. CASE n < MAX_DIRTY_PAGES
      <4>1. journal'[u].blk = j /\ journal'[u].pg = n + 1
        BY <1>1, <3>1, <3>2 DEF NextPage, TypeOK, j, n
      <4>2. p < n \/ p = n
        BY <1>a, <4>1
      <4>3. CASE p < n
        BY <1>1, <1>6, <1>8, <4>1, <4>3
      <4>4. CASE p = n
        BY <1>3, <1>5, <4>1, <4>4
      <4>5. QED
        BY <4>2, <4>3, <4>4
    <3>3. CASE ~(n < MAX_DIRTY_PAGES)
      <4>1. journal'[u].pg = 0
        BY <3>1, <3>3 DEF NextPage, n
      <4>2. QED
        BY <4>1 DEF Page
    <3>4. QED
      BY <3>2, <3>3
  <2>3. QED
    BY <2>1, <2>2
<1>11. QED
  BY <1>7, <1>9, <1>10

\* The reclaim block is written from its first page on, over erased pages.
LEMMA CopiedFill ==
  ASSUME FillInv, NEW v \in Block, NEW live \in Recognised(v), NEW m \in Placements(live),
         \A p \in live : nand[reclaim][m[p]] = Erased
  PROVE  /\ reclaim \in Block /\ Cardinality(live) \in 0 .. MAX_DIRTY_PAGES
         /\ \A r \in Page : r < Cardinality(live) => Copied(v, live, m)[r] # Erased
         /\ \A r \in Page : r >= Cardinality(live) => Copied(v, live, m)[r] = nand[reclaim][r]
         /\ \A r \in Page : nand[reclaim][r] # Erased =>
              Copied(v, live, m)[r] = nand[reclaim][r]
         /\ \A p, q \in Page : p < q /\ Copied(v, live, m)[q] # Erased =>
              Copied(v, live, m)[p] # Erased
         /\ Cardinality(live) # 0 => v # reclaim
<1> USE SizeFacts
<1> DEFINE n == Cardinality(live)
           new == Copied(v, live, m)
<1>1. /\ TypeOK /\ FillOrder /\ reclaim \in Block /\ nand[reclaim] \in [Page -> Cell]
      /\ nand[v] \in [Page -> Cell]
  BY DEF FillInv, TypeOK
<1>2. live \subseteq LivePages(v) /\ live \in SUBSET DataPage
  BY <1>1, RecognisedFacts
<1>3. /\ n \in 0 .. MAX_DIRTY_PAGES /\ m \in [live -> 0 .. n - 1]
      /\ \A r \in 0 .. n - 1 : \E p \in live : m[p] = r
  BY <1>2, PlacementFacts
<1>4. \A p \in live : nand[v][p].kind = "data" /\ nand[v][p] # Erased
  <2> SUFFICES ASSUME NEW p \in live PROVE nand[v][p].kind = "data" /\ nand[v][p] # Erased
    OBVIOUS
  <2>1. nand[v][p].kind = "data"
    BY <1>2 DEF LivePages
  <2>2. Erased.kind = "erased"
    BY DEF Erased
  <2>3. QED
    BY <2>1, <2>2
<1> HIDE DEF n
<1>5. ASSUME NEW r \in Page, r < n
      PROVE  new[r] # Erased /\ nand[reclaim][r] = Erased
  <2>1. r \in 0 .. n - 1
    BY <1>3, <1>5 DEF Page
  <2>2. \E p \in live : m[p] = r
    BY <1>3, <2>1
  <2>3. (CHOOSE p \in live : m[p] = r) \in live
    BY <2>2
  <2>4. new[r] = nand[v][CHOOSE p \in live : m[p] = r]
    BY <2>2 DEF Copied
  <2>5. QED
    BY <1>4, <2>2, <2>3, <2>4
<1>6. ASSUME NEW r \in Page, r >= n
      PROVE  new[r] = nand[reclaim][r]
  <2>1. ~\E p \in live : m[p] = r
    BY <1>3, <1>6
  <2>2. QED
    BY <2>1 DEF Copied
<1> HIDE DEF new
<1>7. \A r \in Page : r < n \/ r >= n
  BY <1>3
<1>8. \A r \in Page : nand[reclaim][r] # Erased => new[r] = nand[reclaim][r]
  BY <1>5, <1>6, <1>7
<1>9. ASSUME NEW p \in Page, NEW q \in Page, p < q, new[q] # Erased
      PROVE  new[p] # Erased
  <2>1. CASE p < n
    BY <1>5, <2>1
  <2>2. CASE p >= n
    <3>1. q >= n
      BY <1>3, <1>9, <2>2
    <3>2. QED
      BY <1>1, <1>6, <1>9, <2>2, <3>1 DEF FillOrder
  <2>3. QED
    BY <1>7, <2>1, <2>2
<1>10. ASSUME n # 0, v = reclaim
       PROVE  FALSE
  <2>1. 0 \in Page /\ 0 < n
    BY <1>3, <1>10 DEF Page
  <2>2. nand[reclaim][0] = Erased
    BY <1>5, <2>1
  <2>3. PICK p \in live : m[p] = 0
    BY <1>3, <2>1
  <2>4. p \in Page /\ nand[reclaim][p] # Erased
    BY <1>2, <1>4, <1>10
  <2>5. p # 0
    BY <2>2, <2>4
  <2>6. 0 < p
    BY <2>4, <2>5 DEF Page
  <2>7. QED
    BY <1>1, <2>1, <2>2, <2>4, <2>6 DEF FillOrder
<1>11. QED
  BY <1>1, <1>3, <1>5, <1>6, <1>8, <1>9, <1>10 DEF new, n

\* What a step does to pinned pages, to the order and to the journals.
Harmless ==
  /\ FillOrder' /\ JournalFill'
  /\ \A b \in Block : Flagged(b) => Kept(b)

LEMMA VictimUnpinned ==
  ASSUME TypeOK, NEW t \in Temp, NEW v \in Block, IsVictim(v, t)
  PROVE  ~Flagged(v) /\ v # journal[Other(t)].blk
<1>1. bdt[v] \in Nat /\ bdt[v] <= MAX_DIRTY_PAGES /\ v # journal[Other(t)].blk
  BY VictimFacts DEF TypeOK
<1>2. BACKUPFLAG \in Nat
  BY DEF BACKUPFLAG
<1>3. QED
  BY <1>1, <1>2, SizeFacts DEF Flagged

LEMMA EraseFill ==
  ASSUME FillInv, NEW t \in Temp, NEW v \in Block, IsVictim(v, t), ReclaimErase(t, v)
  PROVE  Harmless
<1> USE SizeFacts
<1>1. /\ TypeOK /\ FillOrder /\ JournalFill /\ ~Flagged(v) /\ v # journal[Other(t)].blk
  BY VictimUnpinned DEF FillInv
<1>2. /\ \A b \in Block : b # v => nand'[b] = nand[b]
      /\ \A p \in Page : nand'[v][p] = Erased
      /\ journal'[t] = [blk |-> v, pg |-> 0]
      /\ \A u \in Temp : u # t => journal'[u] = journal[u] /\ u = Other(t)
  <2>1. /\ nand' = [nand EXCEPT ![v] = AllErased]
        /\ journal' = [journal EXCEPT ![t] = [blk |-> v, pg |-> 0]]
    BY DEF ReclaimErase
  <2>2. nand \in [Block -> [Page -> Cell]] /\ journal \in [Temp -> [blk : 0 .. NBlock, pg : Page]]
    BY <1>1 DEF TypeOK
  <2>3. nand'[v] = AllErased /\ \A b \in Block : b # v => nand'[b] = nand[b]
    BY <2>1, <2>2
  <2>4. \A p \in Page : nand'[v][p] = Erased
    BY <2>3 DEF AllErased
  <2>5. journal'[t] = [blk |-> v, pg |-> 0] /\ \A u \in Temp : u # t => journal'[u] = journal[u]
    BY <2>1, <2>2
  <2>6. \A u \in Temp : u # t => u = Other(t)
    BY DEF Temp, Other
  <2>7. QED
    BY <2>3, <2>4, <2>5, <2>6
<1>3. FillOrder'
  <2> SUFFICES ASSUME NEW b \in Block, NEW p \in Page, NEW q \in Page, p < q,
                      nand'[b][q] # Erased
               PROVE  nand'[b][p] # Erased
    BY DEF FillOrder
  <2>1. nand'[b] = nand[b]
    BY <1>2
  <2>2. nand[b][q] # Erased
    BY <2>1
  <2>3. nand[b][p] # Erased
    BY <1>1, <2>2 DEF FillOrder
  <2>4. QED
    BY <2>1, <2>3
<1>4. JournalFill'
  <2> SUFFICES ASSUME NEW u \in Temp, NEW p \in Page, journal'[u].blk \in Block,
                      p < journal'[u].pg
               PROVE  nand'[journal'[u].blk][p] # Erased
    BY DEF JournalFill
  <2>1. u # t
    BY <1>2 DEF Page
  <2>2. journal'[u] = journal[u] /\ u = Other(t)
    BY <1>2, <2>1
  <2>3. nand[journal[u].blk][p] # Erased
    BY <1>1, <2>2 DEF JournalFill
  <2>4. nand'[journal[u].blk] = nand[journal[u].blk]
    BY <1>1, <1>2, <2>2
  <2>5. QED
    BY <2>2, <2>3, <2>4
<1>5. \A b \in Block : Flagged(b) => Kept(b)
  BY <1>1, <1>2 DEF Kept
<1>6. QED
  BY <1>3, <1>4, <1>5 DEF Harmless

LEMMA CopyFill ==
  ASSUME FillInv, NEW t \in Temp, NEW v \in Block, IsVictim(v, t),
         NEW live \in Recognised(v), NEW m \in Placements(live), ReclaimCopy(t, v, live, m)
  PROVE  Harmless
<1> USE SizeFacts
<1> DEFINE n == Cardinality(live)
           new == Copied(v, live, m)
<1>1. /\ TypeOK /\ FillOrder /\ JournalFill /\ ~Flagged(v) /\ v # journal[Other(t)].blk
  BY VictimUnpinned DEF FillInv
<1>2. \A p \in live : nand[reclaim][m[p]] = Erased
  BY DEF ReclaimCopy
<1>3. bdt[v] \in Nat /\ bdt[v] < MAX_DIRTY_PAGES /\ n = MAX_DIRTY_PAGES - bdt[v]
  BY <1>1 DEF ReclaimCopy, TypeOK
<1>4. v # reclaim /\ reclaim \in Block
  BY <1>2, <1>3, CopiedFill
<1>5. /\ nand' = [nand EXCEPT ![reclaim] = new, ![v] = AllErased]
      /\ journal' = [journal EXCEPT ![t] = [blk |-> reclaim, pg |-> n]]
  BY DEF ReclaimCopy
<1>6. /\ \A r \in Page : r < n => new[r] # Erased
      /\ \A r \in Page : nand[reclaim][r] # Erased => new[r] = nand[reclaim][r]
      /\ \A p, q \in Page : p < q /\ new[q] # Erased => new[p] # Erased
  BY <1>2, CopiedFill
<1> HIDE DEF new, n
<1>7. /\ nand'[reclaim] = new /\ \A p \in Page : nand'[v][p] = Erased
      /\ \A b \in Block : b # v /\ b # reclaim => nand'[b] = nand[b]
      /\ journal'[t] = [blk |-> reclaim, pg |-> n]
      /\ \A u \in Temp : u # t => journal'[u] = journal[u] /\ u = Other(t)
  BY <1>1, <1>4, <1>5 DEF AllErased, TypeOK, Temp, Other
<1>8. FillOrder'
  BY <1>1, <1>6, <1>7 DEF FillOrder
<1>9. JournalFill'
  <2> SUFFICES ASSUME NEW u \in Temp, NEW p \in Page, journal'[u].blk \in Block,
                      p < journal'[u].pg
               PROVE  nand'[journal'[u].blk][p] # Erased
    BY DEF JournalFill
  <2>1. CASE u = t
    BY <1>6, <1>7, <2>1
  <2>2. CASE u # t
    <3>1. journal'[u] = journal[u] /\ journal[u].blk # v
      BY <1>1, <1>7, <2>2
    <3>2. nand[journal[u].blk][p] # Erased
      BY <1>1, <3>1 DEF JournalFill
    <3>3. CASE journal[u].blk = reclaim
      BY <1>6, <1>7, <3>1, <3>2, <3>3
    <3>4. CASE journal[u].blk # reclaim
      BY <1>7, <3>1, <3>2, <3>4
    <3>5. QED
      BY <3>3, <3>4
  <2>3. QED
    BY <2>1, <2>2
<1>10. \A b \in Block : Flagged(b) => Kept(b)
  BY <1>1, <1>6, <1>7 DEF Kept
<1>11. QED
  BY <1>8, <1>9, <1>10 DEF Harmless

LEMMA CopyAssertFill ==
  ASSUME FillInv, NEW t \in Temp, NEW v \in Block, NEW live \in Recognised(v),
         NEW m \in Placements(live), ReclaimAssert(t, v, live, m)
  PROVE  Harmless
<1> USE SizeFacts
<1> DEFINE new == Copied(v, live, m)
<1>1. /\ TypeOK /\ FillOrder /\ JournalFill /\ reclaim \in Block
      /\ nand' = [nand EXCEPT ![reclaim] = new] /\ journal' = journal
  BY DEF FillInv, ReclaimAssert, TypeOK
<1>2. /\ \A r \in Page : nand[reclaim][r] # Erased => new[r] = nand[reclaim][r]
      /\ \A p, q \in Page : p < q /\ new[q] # Erased => new[p] # Erased
  BY CopiedFill DEF ReclaimAssert
<1> HIDE DEF new
<1>3. /\ nand'[reclaim] = new
      /\ \A b \in Block : b # reclaim => nand'[b] = nand[b]
  BY <1>1 DEF TypeOK
<1>4. \A b \in Block : Kept(b)
  BY <1>2, <1>3 DEF Kept
<1>5. FillOrder'
  BY <1>1, <1>2, <1>3 DEF FillOrder
<1>6. JournalFill'
  BY <1>1, <1>4 DEF JournalFill, Kept
<1>7. QED
  BY <1>4, <1>5, <1>6 DEF Harmless

LEMMA SameFlash ==
  ASSUME FillInv, UNCHANGED <<nand, journal>>
  PROVE  Harmless
BY DEF FillInv, FillOrder, JournalFill, Harmless, Kept

LEMMA StepHarmless ==
  ASSUME FillInv, [Next]_vars
  PROVE  Harmless
<1>1. ASSUME NEW a \in Addr, NEW d \in Data, NEW t \in Temp, NEW tag \in Tags,
             DATA_Write(a, d, t, tag)
      PROVE  Harmless
  BY <1>1, TagsAssumption, WriteFill DEF Harmless
<1>2. ASSUME NEW t \in Temp, DATA_WriteAssert(t)
      PROVE  Harmless
  BY <1>2, SameFlash DEF DATA_WriteAssert
<1>3. ASSUME NEW a \in Addr, NEW t \in Temp, FTL_Trim(a, t)
      PROVE  Harmless
  BY <1>3, SameFlash DEF FTL_Trim
<1>4. ASSUME NEW t \in Temp, DATA_Reclaim(t)
      PROVE  Harmless
  <2>1. CASE ReclaimSearchForever(t)
    BY <2>1, SameFlash DEF ReclaimSearchForever
  <2>2. ASSUME NEW v \in Block, IsVictim(v, t), ReclaimErase(t, v)
        PROVE  Harmless
    BY <2>2, EraseFill
  <2>3. ASSUME NEW v \in Block, IsVictim(v, t), NEW live \in Recognised(v),
               NEW m \in Placements(live), ReclaimCopy(t, v, live, m)
        PROVE  Harmless
    BY <2>3, CopyFill
  <2>4. ASSUME NEW v \in Block, NEW live \in Recognised(v), NEW m \in Placements(live),
               ReclaimAssert(t, v, live, m)
        PROVE  Harmless
    BY <2>4, CopyAssertFill
  <2>5. ASSUME NEW v \in Block, NEW live, NEW m, ReclaimProgramAssert(t, v, live, m)
        PROVE  Harmless
    BY <2>5, SameFlash DEF ReclaimProgramAssert
  <2>6. QED
    BY <1>4, <2>1, <2>2, <2>3, <2>4, <2>5 DEF DATA_Reclaim
<1>5. CASE UNCHANGED vars
  BY <1>5, SameFlash DEF vars, device
<1>6. QED
  BY <1>1, <1>2, <1>3, <1>4, <1>5 DEF Next

\* The flag outlives every step that does not starve the device: only a
\* reclaim resets a byte, that of its victim or of the reclaim block.
LEMMA FlagOutlives ==
  ASSUME IInv, [Next]_vars, ~starved', NEW b \in Block, Flagged(b)
  PROVE  bdt'[b] >= BACKUPFLAG
<1> USE SizeFacts
<1>1. /\ TypeOK /\ DeviceInv /\ bdt \in [Block -> Nat] /\ bdt[b] >= BACKUPFLAG
      /\ BACKUPFLAG \in Nat /\ reclaim \in Block /\ bdt[reclaim] = 0 /\ b # reclaim
  <2>1. TypeOK /\ DeviceInv
    BY StarvedStays DEF IInv
  <2>2. bdt[reclaim] = 0 /\ reclaim \in Block /\ bdt \in [Block -> Nat]
    BY <2>1 DEF DeviceInv, Layout, Sound, ReclaimReady, TypeOK
  <2>3. BACKUPFLAG \in Nat /\ ~(0 >= BACKUPFLAG)
    BY DEF BACKUPFLAG
  <2>4. QED
    BY <2>1, <2>2, <2>3 DEF Flagged
<1>2. ASSUME NEW a \in Addr, NEW is_backup \in BOOLEAN, NEW node,
             PMT_Update(a, node, is_backup)
      PROVE  bdt'[b] >= BACKUPFLAG
  BY <1>1, <1>2, FlagStep DEF DeviceInv, Layout, Sound
<1>3. ASSUME NEW a \in Addr, NEW d \in Data, NEW t \in Temp, NEW tag \in Tags,
             DATA_Write(a, d, t, tag)
      PROVE  bdt'[b] >= BACKUPFLAG
  BY <1>2, <1>3 DEF DATA_Write
<1>4. ASSUME NEW t \in Temp, DATA_WriteAssert(t)
      PROVE  bdt'[b] >= BACKUPFLAG
  BY <1>1, <1>4 DEF DATA_WriteAssert
<1>5. ASSUME NEW a \in Addr, NEW t \in Temp, FTL_Trim(a, t)
      PROVE  bdt'[b] >= BACKUPFLAG
  BY <1>2, <1>5 DEF FTL_Trim
<1>6. ASSUME NEW t \in Temp, DATA_Reclaim(t)
      PROVE  bdt'[b] >= BACKUPFLAG
  <2>1. CASE ReclaimSearchForever(t)
    BY <1>1, <2>1 DEF ReclaimSearchForever
  <2>2. ASSUME NEW v \in Block, IsVictim(v, t), NEW live, NEW m,
               \/ ReclaimErase(t, v) \/ ReclaimCopy(t, v, live, m)
               \/ ReclaimAssert(t, v, live, m) \/ ReclaimProgramAssert(t, v, live, m)
        PROVE  bdt'[b] >= BACKUPFLAG
    <3>1. b # v
      BY <1>1, <2>2, VictimFacts
    <3>2. bdt'[b] = bdt[b]
      BY <1>1, <2>2, <3>1
         DEF ReclaimErase, ReclaimCopy, ReclaimAssert, ReclaimProgramAssert
    <3>3. QED
      BY <1>1, <3>2
  <2>3. QED
    BY <1>6, <2>1, <2>2 DEF DATA_Reclaim
<1>7. CASE UNCHANGED vars
  BY <1>1, <1>7 DEF vars, device
<1>8. QED
  BY <1>3, <1>4, <1>5, <1>6, <1>7 DEF Next

\* No step erases or reprograms a page of a pinned block, starved or not; and
\* the pin itself lasts until the device is starved.
THEOREM PinsProtect == Spec => PinnedPagesKept
<1>1. Init => FillInv
  BY FillInit
<1>2. FillInv /\ TypeOK' /\ [Next]_vars => FillInv'
  BY StepHarmless DEF FillInv, Harmless
<1>3. FillInv /\ IInv /\ [Next]_vars =>
        [\A b \in Block : Flagged(b) =>
           /\ ~starved' => bdt'[b] >= BACKUPFLAG
           /\ \A p \in Page : nand[b][p] # Erased => nand'[b][p] = nand[b][p]]_vars
  <2> SUFFICES ASSUME FillInv, IInv, [Next]_vars, NEW b \in Block, Flagged(b)
               PROVE  /\ ~starved' => bdt'[b] >= BACKUPFLAG
                      /\ \A p \in Page : nand[b][p] # Erased => nand'[b][p] = nand[b][p]
    OBVIOUS
  <2>1. Kept(b)
    BY StepHarmless DEF Harmless
  <2>2. QED
    BY <2>1, FlagOutlives DEF Kept
<1>4. QED
  BY <1>1, <1>2, <1>3, TypeCorrect, Invariant, PTL DEF Spec, PinnedPagesKept

-----------------------------------------------------------------------------
(* Without tags no block is pinned, and a counting argument over the       *)
(* blocks the search for a victim looks at shows that it finds one with a  *)
(* dirty page.                                                             *)

\* If none of these blocks had a dirty page each would hold MAX_DIRTY_PAGES
\* live pages, of as many addresses: more than the host has.
LEMMA DirtyPageFound ==
  ASSUME TypeOK, Layout, Exact, \A b \in Block : ~Flagged(b),
         IsFiniteSet(Addr), Cardinality(Addr) < (NBlock - 2) * MAX_DIRTY_PAGES,
         NEW t \in Temp, pc = t, NEW v \in Block, IsVictim(v, t)
  PROVE  bdt[v] # 0
<1> DEFINE Others == (Block \ {reclaim}) \ {journal[Other(t)].blk}
           all == [x \in Others \X DataPage |-> nand[x[1]][x[2]].addr]
<1> SUFFICES ASSUME bdt[v] = 0 PROVE FALSE
  OBVIOUS
<1>1. Roles /\ MapInv /\ Bounded
  BY DEF Layout, Sound
<1>2. \A b \in Others : bdt[b] = 0
  <2> SUFFICES ASSUME NEW b \in Others PROVE bdt[b] = 0
    OBVIOUS
  <2>1. bdt[b] \in Nat /\ bdt[b] <= MAX_DIRTY_PAGES /\ b \in Block
    BY <1>1, UnpinnedFacts
  <2>2. bdt[b] < bdt[v] \/ bdt[b] = bdt[v]
    BY <2>1 DEF IsVictim, Candidates
  <2>3. QED
    BY <2>1, <2>2
<1>3. \A b \in Others : Written(b) = MAX_DIRTY_PAGES
  BY FullJournal DEF Written, Temp
<1>4. \A b \in Others : \A p \in DataPage : p \in LivePages(b)
  <2> SUFFICES ASSUME NEW b \in Others PROVE LivePages(b) = DataPage
    OBVIOUS
  <2>1. Cardinality(LivePages(b)) = MAX_DIRTY_PAGES
    BY <1>2, <1>3, LivePagesFinite DEF Exact
  <2>2. IsFiniteSet(DataPage) /\ Cardinality(DataPage) = MAX_DIRTY_PAGES
    BY SizeFacts, FS_Interval DEF DataPage
  <2>3. LivePages(b) \in SUBSET DataPage
    BY LivePagesFinite
  <2>4. QED
    BY <2>1, <2>2, <2>3, FS_Subset
<1>5. \A x \in Others \X DataPage :
        /\ all[x] \in Addr /\ pmt[all[x]] = [blk |-> x[1], pg |-> x[2]]
        /\ x = <<x[1], x[2]>>
  <2> SUFFICES ASSUME NEW x \in Others \X DataPage
               PROVE  /\ all[x] \in Addr
                      /\ pmt[all[x]] = [blk |-> x[1], pg |-> x[2]]
                      /\ x = <<x[1], x[2]>>
    OBVIOUS
  <2>1. x[1] \in Others /\ x[2] \in DataPage /\ x = <<x[1], x[2]>>
    OBVIOUS
  <2>2. x[1] \in Block /\ x[2] \in LivePages(x[1])
    BY <1>4, <2>1
  <2>3. QED
    BY <2>1, <2>2, LivePageFacts
<1>6. all \in Injection(Others \X DataPage, Addr)
  <2>1. ASSUME NEW x \in Others \X DataPage, NEW y \in Others \X DataPage,
               all[x] = all[y]
        PROVE  x = y
    <3>1. [blk |-> x[1], pg |-> x[2]] = [blk |-> y[1], pg |-> y[2]]
      BY <1>5, <2>1, ZenonT(60)
    <3>2. x[1] = y[1] /\ x[2] = y[2]
      BY <3>1
    <3>3. QED
      BY <1>5, <3>2
  <2>2. all \in [Others \X DataPage -> Addr]
    BY <1>5
  <2> HIDE DEF all
  <2>3. QED
    BY <2>1, <2>2 DEF Injection, IsInjective
<1>7. Cardinality(Others \X DataPage) <= Cardinality(Addr)
  <2> HIDE DEF all, Others
  <2>1. QED
    BY <1>6, FS_Injection
<1>8. IsFiniteSet(Others) /\ Cardinality(Others) = NBlock - 2
  <2>1. IsFiniteSet(Block) /\ Cardinality(Block) = NBlock
    <3>1. Cardinality(0 .. NBlock - 1) = IF 0 > NBlock - 1 THEN 0 ELSE NBlock - 1 - 0 + 1
      BY NBlockAssumption, FS_Interval
    <3>2. QED
      BY <3>1, NBlockAssumption, FS_Interval DEF Block
  <2>2. reclaim \in Block
    BY DEF TypeOK
  <2>3. IsFiniteSet(Block \ {reclaim}) /\ Cardinality(Block \ {reclaim}) = NBlock - 1
    BY <2>1, <2>2, FS_RemoveElement
  <2>4. journal[Other(t)].blk \in Block \ {reclaim}
    BY FullJournal
  <2> DEFINE S == Block \ {reclaim}
  <2>5. IsFiniteSet(S \ {journal[Other(t)].blk})
        /\ Cardinality(S \ {journal[Other(t)].blk}) = Cardinality(S) - 1
    <3> HIDE DEF S
    <3>1. IsFiniteSet(S) /\ journal[Other(t)].blk \in S
      BY <2>3, <2>4 DEF S
    <3>2. QED
      BY <3>1, FS_RemoveElement
  <2>6. QED
    BY <2>3, <2>5, NBlockAssumption
<1>9. IsFiniteSet(DataPage) /\ Cardinality(DataPage) = MAX_DIRTY_PAGES
  BY SizeFacts, FS_Interval, SMTT(30) DEF DataPage
<1>10. Cardinality(Others \X DataPage) = (NBlock - 2) * MAX_DIRTY_PAGES
  <2>1. Cardinality(Others \X DataPage) = Cardinality(Others) * Cardinality(DataPage)
    <3> HIDE DEF Others
    <3>1. QED
      BY <1>8, <1>9, FS_Product
  <2>2. QED
    BY <1>8, <1>9, <2>1
<1>11. Cardinality(Addr) \in Nat /\ (NBlock - 2) * MAX_DIRTY_PAGES \in Nat
  BY SizeFacts, NBlockAssumption, FS_CardinalityType
<1>12. QED
  <2> HIDE DEF Others
  <2>1. QED
    BY <1>7, <1>10, <1>11

\* The committed count of pinned blocks is exact, so a count of 0 means that
\* no block is pinned.
LEMMA NothingPinned ==
  ASSUME TypeOK, CountInv, backup_block_count = 0
  PROVE  \A b \in Block : ~Flagged(b)
<1>1. IsFiniteSet({b \in Block : Flagged(b)})
  <2>1. IsFiniteSet(Block)
    BY NBlockAssumption, FS_Interval DEF Block
  <2>2. QED
    BY <2>1, FS_Subset
<1>2. {b \in Block : Flagged(b)} = {}
  BY <1>1, FS_EmptySet DEF CountInv
<1>3. QED
  BY <1>2

\* Only DATA_Reclaim starves the device, by taking a victim without a dirty
\* page.
LEMMA StarvedByReclaim ==
  ASSUME TypeOK, ~starved, NEW t \in Temp, DATA_Reclaim(t),
         \A v \in Block : IsVictim(v, t) => bdt[v] # 0
  PROVE  ~starved'
<1>1. CASE ReclaimSearchForever(t)
  BY <1>1 DEF ReclaimSearchForever
<1>2. ASSUME NEW v \in Block, IsVictim(v, t), NEW live, NEW m,
             \/ ReclaimErase(t, v) \/ ReclaimCopy(t, v, live, m)
             \/ ReclaimAssert(t, v, live, m) \/ ReclaimProgramAssert(t, v, live, m)
      PROVE  ~starved'
  BY <1>2 DEF ReclaimErase, ReclaimCopy, ReclaimAssert, ReclaimProgramAssert
<1>3. QED
  BY <1>1, <1>2 DEF DATA_Reclaim

\* A host that tags nothing and has fewer pages than the blocks a search
\* looks at can hold never starves the device.
THEOREM PlainHostNeverStarves ==
  ASSUME Tags = {"none"}, IsFiniteSet(Addr),
         Cardinality(Addr) < (NBlock - 2) * MAX_DIRTY_PAGES
  PROVE  Spec => []NeverStarved
<1> DEFINE Inv == backup_block_count = 0 /\ ~starved
<1>1. Init => Inv
  BY DEF Init
<1>2. IInv /\ Inv /\ [Next]_vars => Inv'
  <2> SUFFICES ASSUME IInv, Inv, [Next]_vars PROVE Inv'
    OBVIOUS
  <2>1. TypeOK /\ DeviceInv /\ Layout /\ Exact /\ CountInv
    BY DEF IInv, DeviceInv
  <2>2. ASSUME NEW a \in Addr, NEW d \in Data, NEW t \in Temp, NEW tag \in Tags,
               DATA_Write(a, d, t, tag)
        PROVE  Inv'
    BY <2>2 DEF DATA_Write, PMT_Update
  <2>3. ASSUME NEW t \in Temp, DATA_WriteAssert(t)
        PROVE  Inv'
    BY <2>3 DEF DATA_WriteAssert
  <2>4. ASSUME NEW a \in Addr, NEW t \in Temp, FTL_Trim(a, t)
        PROVE  Inv'
    BY <2>4 DEF FTL_Trim, PMT_Update
  <2>5. ASSUME NEW t \in Temp, DATA_Reclaim(t)
        PROVE  Inv'
    <3>1. pc = t /\ \A b \in Block : ~Flagged(b)
      BY <2>1, <2>5, NothingPinned DEF DATA_Reclaim
    <3>2. ~starved'
      BY <2>1, <2>5, <3>1, DirtyPageFound, StarvedByReclaim
    <3>3. backup_block_count' = backup_block_count
      BY <2>5 DEF DATA_Reclaim, ReclaimSearchForever, ReclaimErase, ReclaimCopy,
                  ReclaimAssert, ReclaimProgramAssert
    <3>4. QED
      BY <3>2, <3>3
  <2>6. CASE UNCHANGED vars
    BY <2>6 DEF vars, device
  <2>7. QED
    BY <2>2, <2>3, <2>4, <2>5, <2>6 DEF Next
<1>3. Inv => NeverStarved
  BY DEF NeverStarved
<1>4. QED
  BY <1>1, <1>2, <1>3, Invariant, PTL DEF Spec

-----------------------------------------------------------------------------
(* FtlData implements FtlRetention, for every value of the constants.  As  *)
(* long as the device is not starved the inductive invariant ties what the *)
(* reads return to the history variables; then a write and a trim are the  *)
(* steps of the abstract device, and a reclaim is the rest of a call.      *)

Versions == [Addr -> Data \cup {NoData}]

\* What the reads return is a version, starved or not.
ViewTyped == ReadVersions \in Versions /\ RecoverVersions \in Versions

\* What the reads return is what the history says.
ViewAgrees == ~starved => ReadVersions = latest /\ RecoverVersions = benign

LEMMA NodeCell ==
  ASSUME TypeOK, NEW node \in PmNode
  PROVE  CellAt(node) \in Cell
BY DEF TypeOK, CellAt, PmNode

LEMMA VersionOfType ==
  ASSUME NEW cell \in Cell
  PROVE  VersionOf(cell) \in Data \cup {NoData}
<1>1. CASE cell \in DataCell
  BY <1>1 DEF DataCell, VersionOf
<1>2. CASE cell \in {Erased, MetaPage}
  BY <1>2 DEF Erased, MetaPage, VersionOf
<1>3. QED
  BY <1>1, <1>2 DEF Cell

LEMMA ViewType == TypeOK => ViewTyped
<1> SUFFICES ASSUME TypeOK PROVE ViewTyped
  OBVIOUS
<1>1. ASSUME NEW a \in Addr, Mapped(a)
      PROVE  PlainRead(a) \in Cell /\ RecoverRead(a) \in Cell
  <2>1. pmt[a] \in PmNode
    BY <1>1 DEF TypeOK, Mapped, MaybeNode
  <2>2. CellAt(pmt[a]) \in Cell
    BY <2>1, NodeCell
  <2>3. ASSUME CellAt(pmt[a]).kind = "data",
               CellAt(pmt[a]).old # INVALID_PM_NODE
        PROVE  CellAt(CellAt(pmt[a]).old) \in Cell
    <3>1. CellAt(pmt[a]) \in DataCell
      BY <2>2, <2>3 DEF Cell, Erased, MetaPage
    <3>2. CellAt(pmt[a]).old \in PmNode
      BY <2>3, <3>1 DEF DataCell, MaybeNode
    <3>3. QED
      BY <3>2, NodeCell
  <2>4. QED
    BY <2>2, <2>3 DEF PlainRead, RecoverRead
<1>2. \A a \in Addr : ReadVersion(a) \in Data \cup {NoData}
  BY <1>1, VersionOfType DEF ReadVersion
<1>3. \A a \in Addr : RecoverVersion(a) \in Data \cup {NoData}
  BY <1>1, VersionOfType DEF RecoverVersion
<1>4. QED
  BY <1>2, <1>3 DEF ViewTyped, Versions, ReadVersions, RecoverVersions

LEMMA ViewIsHistory == IInv => ViewAgrees
<1> SUFFICES ASSUME TypeOK, DeviceInv
             PROVE  ReadVersions = latest /\ RecoverVersions = benign
  BY DEF IInv, ViewAgrees
<1>1. MapInv /\ Current /\ Discarded /\ BenignInv
  BY DEF DeviceInv, Layout, Sound
<1>2. ASSUME NEW a \in Addr PROVE ReadVersion(a) = latest[a]
  <2>1. CASE Mapped(a)
    BY <1>1, <2>1 DEF MapInv, Current, Discarded, ReadVersion, PlainRead, VersionOf
  <2>2. CASE ~Mapped(a)
    BY <1>1, <2>2 DEF Current, ReadVersion
  <2>3. QED
    BY <2>1, <2>2
<1>3. ASSUME NEW a \in Addr PROVE RecoverVersion(a) = benign[a]
  <2>1. CASE benign[a] = NoData
    BY <2>1 DEF RecoverVersion
  <2>2. CASE benign[a] # NoData
    <3>1. Mapped(a) /\ CellAt(pmt[a]).kind = "data"
      BY <1>1, <2>2 DEF MapInv, BenignInv
    <3>2. RecoverRead(a).kind = "data" /\ RecoverRead(a).data = benign[a]
      BY <1>1, <2>2, <3>1 DEF BenignInv, RecoverRead, Holds
    <3>3. QED
      BY <2>2, <3>1, <3>2 DEF RecoverVersion, VersionOf
  <2>3. QED
    BY <2>1, <2>2
<1>4. /\ latest = [a \in Addr |-> latest[a]]
      /\ benign = [a \in Addr |-> benign[a]]
  BY DEF TypeOK
<1>5. QED
  BY <1>2, <1>3, <1>4 DEF ReadVersions, RecoverVersions

\* The history variables take the steps of the abstract device.
LEMMA WriteIsAbstract ==
  ASSUME TypeOK, Current, Discarded, NEW a \in Addr, NEW d \in Data, NEW tag \in Tags,
         RecordWrite(a, d, tag), ViewAgrees, ViewAgrees', pc = "idle",
         pc' \in Temp \cup {"idle"}, ~starved, ~starved', starved' = starved
  PROVE  Retention!Next
<1>1. /\ ReadVersions = latest /\ ReadVersions' = latest'
      /\ RecoverVersions = benign /\ RecoverVersions' = benign'
  BY DEF ViewAgrees
<1>2. Mapped(a) <=> latest[a] # NoData
  BY DEF Current, Discarded
<1>3. latest' = [latest EXCEPT ![a] = d] /\ Retention!Serve(a, tag)
  BY DEF RecordWrite, Retention!Serve, Temp
<1>4. CASE tag = "none"
  <2>1. benign' = [benign EXCEPT ![a] = d]
    BY <1>4 DEF RecordWrite
  <2>2. QED
    BY <1>1, <1>3, <1>4, <2>1
       DEF Retention!Next, Retention!Write, Retention!PlainWrite
<1>5. CASE tag = "ransom"
  <2>1. benign' = [benign EXCEPT ![a] = IF Mapped(a) THEN @ ELSE d]
    BY <1>5 DEF RecordWrite
  <2>2. benign \in [Addr -> Data \cup {NoData}]
    BY DEF TypeOK
  <2>3. benign' = IF latest[a] = NoData THEN [benign EXCEPT ![a] = d] ELSE benign
    BY <1>2, <2>1, <2>2
  <2>4. QED
    BY <1>1, <1>3, <1>5, <2>3
       DEF Retention!Next, Retention!Write, Retention!RansomWrite
<1>6. CASE tag = "mft"
  <2>1. benign' = [benign EXCEPT ![a] = NoData]
    BY <1>6 DEF RecordWrite
  <2>2. QED
    BY <1>1, <1>3, <1>6, <2>1
       DEF Retention!Next, Retention!Write, Retention!MftWrite
<1>7. QED
  BY <1>4, <1>5, <1>6, TagsAssumption DEF AllTags

LEMMA TrimIsAbstract ==
  ASSUME NEW a \in Addr, NEW t \in Temp, FTL_Trim(a, t),
         ViewAgrees, ViewAgrees', ~starved, ~starved'
  PROVE  Retention!Next
<1>1. /\ ReadVersions = latest /\ ReadVersions' = latest'
      /\ RecoverVersions = benign /\ RecoverVersions' = benign'
  BY DEF ViewAgrees
<1>2. /\ latest' = [latest EXCEPT ![a] = NoData]
      /\ benign' = [benign EXCEPT ![a] = NoData]
  BY DEF FTL_Trim
<1>3. Retention!Serve(a, "trim")
  BY DEF FTL_Trim, Retention!Serve, Temp
<1>4. QED
  BY <1>1, <1>2, <1>3 DEF Retention!Next, Retention!Trim

\* DATA_Reclaim touches no history, whichever way it ends.
LEMMA ReclaimReturns ==
  ASSUME NEW t \in Temp, DATA_Reclaim(t), pc' # "hung"
  PROVE  pc \in Temp /\ pc' = "idle" /\ UNCHANGED history
<1>1. pc \in Temp
  BY DEF DATA_Reclaim
<1>2. CASE ReclaimSearchForever(t)
  BY <1>2 DEF ReclaimSearchForever
<1>3. ASSUME NEW v \in Block, ReclaimErase(t, v)
      PROVE  pc' = "idle" /\ UNCHANGED history
  BY <1>3 DEF ReclaimErase
<1>4. ASSUME NEW v \in Block, NEW live, NEW m, ReclaimCopy(t, v, live, m)
      PROVE  pc' = "idle" /\ UNCHANGED history
  BY <1>4 DEF ReclaimCopy
<1>5. ASSUME NEW v \in Block, NEW live, NEW m, ReclaimAssert(t, v, live, m)
      PROVE  FALSE
  BY <1>5 DEF ReclaimAssert
<1>6. ASSUME NEW v \in Block, NEW live, NEW m,
             ReclaimProgramAssert(t, v, live, m)
      PROVE  FALSE
  BY <1>6 DEF ReclaimProgramAssert
<1>7. QED
  BY <1>1, <1>2, <1>3, <1>4, <1>5, <1>6 DEF DATA_Reclaim

LEMMA StepIsAbstract ==
  ASSUME IInv, ViewAgrees, [Next]_vars,
         IInv', ViewTyped', ViewAgrees'
  PROVE  [Retention!Next]_(Retention!rvars)
<1>1. CASE starved'
  <2>1. starved' = TRUE
    BY <1>1 DEF IInv, TypeOK
  <2>2. Retention!Exhausted
    <3>1. asked' \in Request \cup {NoRequest} /\ pc' \in PcValues
      BY DEF IInv, TypeOK
    <3>2. QED
      BY <2>1, <3>1 DEF Retention!Exhausted, Retention!Version, Retention!Request,
                        Retention!NoRequest, Request, NoRequest, PcValues,
                        ViewTyped, Versions
  <2>3. QED
    BY <2>2 DEF Retention!Next
<1>2. CASE ~starved'
  <2>1. ~starved /\ TypeOK /\ DeviceInv
    BY <1>2, StarvedStays DEF IInv
  <2>2. Current /\ Discarded
    BY <2>1 DEF DeviceInv
  <2>3. starved' = starved /\ pc' # "hung"
    BY <1>2, <2>1 DEF IInv, TypeOK, DeviceInv, Layout, PcInv
  <2>4. ASSUME UNCHANGED history
        PROVE  /\ ReadVersions' = ReadVersions
               /\ RecoverVersions' = RecoverVersions
    BY <1>2, <2>1, <2>4 DEF history, ViewAgrees
  <2>5. ASSUME NEW a \in Addr, NEW d \in Data, NEW t \in Temp, NEW tag \in Tags,
               DATA_Write(a, d, t, tag)
        PROVE  Retention!Next
    <3>1. RecordWrite(a, d, tag) /\ pc = "idle" /\ pc' \in Temp \cup {"idle"}
      BY <2>5 DEF DATA_Write
    <3>2. QED
      BY <1>2, <2>1, <2>2, <2>3, <3>1, WriteIsAbstract
  <2>6. ASSUME NEW t \in Temp, DATA_WriteAssert(t)
        PROVE  FALSE
    BY <2>3, <2>6 DEF DATA_WriteAssert
  <2>7. ASSUME NEW a \in Addr, NEW t \in Temp, FTL_Trim(a, t)
        PROVE  Retention!Next
    BY <1>2, <2>1, <2>7, TrimIsAbstract
  <2>8. ASSUME NEW t \in Temp, DATA_Reclaim(t)
        PROVE  Retention!Next
    <3>1. pc \in Temp /\ pc' = "idle" /\ UNCHANGED history
      BY <2>3, <2>8, ReclaimReturns
    <3>2. Retention!Return
      BY <2>3, <2>4, <3>1 DEF Retention!Return, history, Temp
    <3>3. QED
      BY <3>2 DEF Retention!Next
  <2>9. CASE UNCHANGED vars
    <3>1. UNCHANGED history /\ pc' = pc
      BY <2>9 DEF vars, device
    <3>2. QED
      BY <2>3, <2>4, <3>1 DEF Retention!rvars, history
  <2>10. QED
    BY <2>5, <2>6, <2>7, <2>8, <2>9 DEF Next
<1>3. QED
  BY <1>1, <1>2

\* The firmware implements the abstract device: until it is full, the reads
\* return what a device with one current and one retained version per
\* address would return, a request that carries the ransom tag never replaces
\* a retained version, and no call hangs.
THEOREM ImplementsRetention == Spec => RetentionSpec
<1>1. Init => Retention!Init
  <2> SUFFICES ASSUME Init PROVE Retention!Init
    OBVIOUS
  <2>1. \A a \in Addr : ~Mapped(a)
    BY DEF Init, Mapped
  <2>2. QED
    BY <2>1 DEF Init, Retention!Init, ReadVersions, RecoverVersions,
                ReadVersion, RecoverVersion, Retention!NoRequest, NoRequest,
                Temp
<1>2. /\ IInv /\ ViewAgrees /\ [Next]_vars
      /\ IInv' /\ ViewTyped' /\ ViewAgrees'
      => [Retention!Next]_(Retention!rvars)
  BY StepIsAbstract
<1>3. QED
  BY <1>1, <1>2, Invariant, TypeCorrect, ViewType, ViewIsHistory, PTL
     DEF Spec, RetentionSpec, Retention!Spec

=============================================================================
