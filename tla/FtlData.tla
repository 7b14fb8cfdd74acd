------------------------------ MODULE FtlData ------------------------------
(***************************************************************************)
(* The data path of the SSD firmware's flash translation layer, with the   *)
(* Data Retainer: core/ftl/ftl_data.c, the parts of core/ftl/ftl_pmt.c and *)
(* core/ftl/ftl_api.c it calls, for one journal block per temperature      *)
(* (JOURNAL_BLOCK_COUNT is 1 in the shipped configuration).                *)
(*                                                                         *)
(* A host write goes to the next page of the hot or of the cold journal    *)
(* block.  A write that carries the ransom tag stores, in the spare area   *)
(* of the new page, the location of the last benign version, and pins the  *)
(* block of the version it replaces by setting BACKUPFLAG in the block     *)
(* dirty table.  When a journal block is full, DATA_Reclaim picks the      *)
(* dirtiest block, copies its live pages to the reclaim block, erases it   *)
(* and rotates the three roles.  FTL_Write runs both in one call; here the *)
(* call is cut between the two, and pc forbids any other step in between.  *)
(*                                                                         *)
(* Abstracted here: the PMT cache and DATA_Commit (persistence only: they  *)
(* change nothing a running device can read), HDI_IsHotPage (any page may  *)
(* be hot), and the UBI layer (logical blocks that program and erase).     *)
(***************************************************************************)
EXTENDS Integers, FiniteSets

CONSTANTS
  Addr,      \* logical page addresses (PGADDR) the host uses
  Data,      \* page contents
  NBlock,    \* number of data blocks, DATA_START_BLOCK .. DATA_LAST_BLOCK
  PPB,       \* PAGE_PER_PHY_BLOCK
  Tags,      \* the tags the host's writes carry
  StackValues,  \* what an uninitialised PM_NODE_ADDR variable may hold
  NoData     \* "no version", used by the history variables only

AllTags == {"none", "ransom", "mft"}

ASSUME NBlockAssumption == NBlock \in Nat /\ NBlock >= 3
\* The dirty count and BACKUPFLAG share one byte of the block dirty table.
ASSUME PPBAssumption == PPB \in 2 .. 128
ASSUME TagsAssumption == Tags \subseteq AllTags
ASSUME DataAssumption == NoData \notin Data

VARIABLES
  nand,      \* contents of every page of every data block
  pmt,       \* page mapping table: Addr -> PM node
  bdt,       \* block_dirty_table: dirty pages, plus BACKUPFLAG
  backup_block_count,  \* root_table.backup_block_count
  journal,   \* root_table.hot_journal[0] and root_table.cold_journal[0]
  reclaim,   \* block of root_table.reclaim_journal[0]
  pc,        \* where FTL_Write is: see PcValues
  \* History variables: what the properties compare the device with.
  latest,    \* the version last written to each address
  benign,    \* the version a ransom tag must preserve
  asked,     \* the last request of the host: its address and its tag
  starved    \* a reclaim has found no dirty page in any block it may take

device == <<nand, pmt, bdt, backup_block_count, journal, reclaim, pc>>
history == <<latest, benign, asked>>
vars == <<device, history, starved>>

-----------------------------------------------------------------------------
(* Geometry and the values of the tables. *)

Block == 0 .. NBlock - 1
MAX_DIRTY_PAGES == PPB - 1
Page == 0 .. MAX_DIRTY_PAGES            \* the last page holds the meta data
DataPage == 0 .. MAX_DIRTY_PAGES - 1
BACKUPFLAG == 128
Temp == {"hot", "cold"}

\* "idle": between two calls.  "hot", "cold": FTL_Write has filled that
\* journal and is about to run DATA_Reclaim.  "hung": spinning in an ASSERT.
PcValues == Temp \cup {"idle", "hung"}

PmNode == [blk : Block, pg : Page]
INVALID_PM_NODE == [blk |-> -1, pg |-> -1]
MaybeNode == PmNode \cup {INVALID_PM_NODE}
ASSUME StackAssumption == StackValues \subseteq MaybeNode

Erased == [kind |-> "erased"]
MetaPage == [kind |-> "meta"]           \* spare[0] of every page of the block
DataCell == [kind : {"data"}, addr : Addr, data : Data, old : MaybeNode]
Cell == DataCell \cup {Erased, MetaPage}

Request == [addr : Addr, tag : Tags \cup {"trim"}]
NoRequest == [tag |-> "format"]         \* the device has just been formatted

CellAt(node) == nand[node.blk][node.pg]
Mapped(a) == pmt[a] # INVALID_PM_NODE
Flagged(b) == bdt[b] >= BACKUPFLAG
Other(t) == IF t = "hot" THEN "cold" ELSE "hot"

\* Pages of b that the mapping table still points to.
LivePages(b) ==
  {p \in DataPage : /\ nand[b][p].kind = "data"
                    /\ pmt[nand[b][p].addr] = [blk |-> b, pg |-> p]}

-----------------------------------------------------------------------------
(* FTL_Format / DATA_Format: three erased journal blocks, every other      *)
(* block "all dirty" so that the first reclaims hand it out.               *)

Init ==
  /\ nand = [b \in Block |-> [p \in Page |-> Erased]]
  /\ pmt = [a \in Addr |-> INVALID_PM_NODE]
  /\ bdt = [b \in Block |-> IF b \in 0 .. 2 THEN 0 ELSE MAX_DIRTY_PAGES]
  /\ backup_block_count = 0
  /\ journal = [t \in Temp |-> [blk |-> IF t = "hot" THEN 0 ELSE 1, pg |-> 0]]
  /\ reclaim = 2
  /\ pc = "idle"
  /\ latest = [a \in Addr |-> NoData]
  /\ benign = [a \in Addr |-> NoData]
  /\ asked = NoRequest
  /\ starved = FALSE

-----------------------------------------------------------------------------
(* PMT_Update: account for the version that is replaced, then remap.  Only *)
(* a backed-up version pins its block; any other one counts as dirty.      *)

\* Mutant: a discarded page is not counted dirty.
MutTrimNotDirty(a, node, is_backup) ==
  LET edit_block == pmt[a].blk
  IN  /\ pmt' = [pmt EXCEPT ![a] = node]
      /\ bdt' = IF ~Mapped(a) \/ node = INVALID_PM_NODE THEN bdt
                ELSE [bdt EXCEPT ![edit_block] =
                        IF ~is_backup THEN @ + 1
                        ELSE IF @ < BACKUPFLAG THEN @ + BACKUPFLAG ELSE @]
      /\ UNCHANGED backup_block_count

PMT_Update(a, node, is_backup) ==
  LET edit_block == pmt[a].blk
  IN  /\ pmt' = [pmt EXCEPT ![a] = node]
      /\ bdt' = IF ~Mapped(a) THEN bdt
                ELSE [bdt EXCEPT ![edit_block] =
                        IF ~is_backup THEN @ + 1
                        ELSE IF @ < BACKUPFLAG THEN @ + BACKUPFLAG ELSE @]
      /\ backup_block_count' =
           IF Mapped(a) /\ is_backup /\ ~Flagged(edit_block)
           THEN backup_block_count + 1 ELSE backup_block_count

\* PM_NODE_SET_BLOCKPAGE(journal, block, page + 1): the page field carries
\* into the block field.
MutNoCarry(node) == [node EXCEPT !.pg = @ + 1]

NextPage(node) ==
  IF node.pg < MAX_DIRTY_PAGES THEN [node EXCEPT !.pg = @ + 1]
                               ELSE [blk |-> node.blk + 1, pg |-> 0]

IsFull(node) == node.pg >= MAX_DIRTY_PAGES

\* The values oldLogicAddr may have when DATA_Write stores it in the spare
\* area.  A ransom tag keeps the last benign version, an MFT tag the version
\* it replaces; on an unmapped address the MFT tag stores an uninitialised
\* variable (any value; out-of-range ones are turned into INVALID_PM_NODE).
MutKeepReplaced(a, tag) ==
  IF tag = "none" \/ ~Mapped(a) THEN {INVALID_PM_NODE} ELSE {pmt[a]}

OldLogicAddr(a, tag) ==
  CASE tag = "none" -> {INVALID_PM_NODE}
    [] tag = "ransom" /\ ~Mapped(a) -> {INVALID_PM_NODE}
    [] tag = "ransom" /\ Mapped(a) ->
         LET cell == CellAt(pmt[a])
         IN  {IF cell.kind = "data" /\ cell.old # INVALID_PM_NODE
              THEN cell.old ELSE pmt[a]}
    [] tag = "mft" /\ Mapped(a) -> {pmt[a]}
    [] tag = "mft" /\ ~Mapped(a) -> StackValues

\* UBI_Write may program only an erased page; the NAND layer asserts it.
MutProgramTwice(node) == node.blk \in Block

CanProgram(node) == node.blk \in Block /\ CellAt(node) = Erased

\* The journal page, and the meta data page when the block becomes full.
MutNoMeta(node, cell) == nand' = [nand EXCEPT ![node.blk][node.pg] = cell]

Program(node, cell) ==
  nand' = [nand EXCEPT ![node.blk] =
             [p \in Page |-> IF p = node.pg THEN cell
                             ELSE IF p = node.pg + 1 /\ p = MAX_DIRTY_PAGES
                             THEN MetaPage ELSE @[p]]]

(* History: which version the ransom tag promises to keep. *)
RecordWrite(a, d, tag) ==
  /\ latest' = [latest EXCEPT ![a] = d]
  /\ benign' = [benign EXCEPT ![a] =
       CASE tag = "none" -> d
         [] tag = "ransom" -> IF Mapped(a) THEN @ ELSE d
         [] tag = "mft" -> NoData]
  /\ asked' = [addr |-> a, tag |-> tag]

(* FTL_Write with a buffer, up to DATA_IsFull: DATA_Write. *)
DATA_Write(a, d, t, tag) ==
  LET node == journal[t]
      is_backup == tag = "ransom" /\ Mapped(a)
  IN  /\ pc = "idle"
      /\ CanProgram(node)
      /\ \E old \in OldLogicAddr(a, tag) :
           Program(node, [kind |-> "data", addr |-> a, data |-> d, old |-> old])
      /\ PMT_Update(a, node, is_backup)
      /\ journal' = [journal EXCEPT ![t] = NextPage(node)]
      /\ pc' = IF IsFull(NextPage(node)) THEN t ELSE "idle"
      /\ RecordWrite(a, d, tag)
      /\ UNCHANGED <<reclaim, starved>>

\* The journal points at a page that was already programmed.
DATA_WriteAssert(t) ==
  /\ pc = "idle"
  /\ ~CanProgram(journal[t])
  /\ pc' = "hung"
  /\ UNCHANGED <<nand, pmt, bdt, backup_block_count, journal, reclaim,
                 history, starved>>

(* FTL_Trim of one page: FTL_Write without a buffer and without a tag. *)
FTL_Trim(a, t) ==
  /\ pc = "idle"
  /\ PMT_Update(a, INVALID_PM_NODE, FALSE)
  /\ pc' = IF IsFull(journal[t]) THEN t ELSE "idle"
  /\ latest' = [latest EXCEPT ![a] = NoData]
  /\ benign' = [benign EXCEPT ![a] = NoData]
  /\ asked' = [addr |-> a, tag |-> "trim"]
  /\ UNCHANGED <<nand, journal, reclaim, starved>>

-----------------------------------------------------------------------------
(* DATA_Reclaim(t). *)

\* Blocks the search may take: flagged ones never match a target dirty
\* count, and only the journal of the other temperature is skipped.
MutOwnJournal(t) ==
  {b \in Block : b # journal[t].blk /\ bdt[b] <= MAX_DIRTY_PAGES}

Candidates(t) ==
  {b \in Block : b # journal[Other(t)].blk /\ bdt[b] <= MAX_DIRTY_PAGES}

\* The search lowers target_dirty_count until a block matches it: the
\* dirtiest candidate, the first of them in block order.
IsVictim(v, t) ==
  /\ v \in Candidates(t)
  /\ \A b \in Candidates(t) : bdt[b] < bdt[v] \/ (bdt[b] = bdt[v] /\ v <= b)

\* Pages the copy loop recognises as live from the meta data page of v.  A
\* block without a meta data page yields none; host data in its place is
\* read as meta data and may match any of them.
Recognised(v) ==
  CASE nand[v][MAX_DIRTY_PAGES].kind = "meta" -> {LivePages(v)}
    [] nand[v][MAX_DIRTY_PAGES].kind = "erased" -> {{}}
    [] nand[v][MAX_DIRTY_PAGES].kind = "data" -> SUBSET LivePages(v)

\* The order in which the copy loop places the live pages in the reclaim block.
Placements(live) ==
  LET n == Cardinality(live)
  IN  {m \in [live -> 0 .. n - 1] :
         /\ \A p, q \in live : p < q => m[p] < m[q]
         /\ \A r \in 0 .. n - 1 : \E p \in live : m[p] = r}

\* Mutant: the copied page forgets the retained location.
MutCopyDropsOld(v, live, m) ==
  [r \in Page |-> IF \E p \in live : m[p] = r
                  THEN [nand[v][CHOOSE p \in live : m[p] = r] EXCEPT
                          !.old = INVALID_PM_NODE]
                  ELSE nand[reclaim][r]]

\* Contents of the reclaim block after the copy: the spare area keeps the
\* address and the retained location of every page.
Copied(v, live, m) ==
  [r \in Page |-> IF \E p \in live : m[p] = r
                  THEN nand[v][CHOOSE p \in live : m[p] = r]
                  ELSE nand[reclaim][r]]

\* Mutant: the copied pages are not remapped.
MutNotRemapped(v, live, m) == pmt

Remapped(v, live, m) ==
  [a \in Addr |-> IF Mapped(a) /\ pmt[a].blk = v /\ pmt[a].pg \in live
                  THEN [blk |-> reclaim, pg |-> m[pmt[a].pg]]
                  ELSE pmt[a]]

AllErased == [p \in Page |-> Erased]

(* The victim has no live page: erase it and use it as the journal. *)
ReclaimErase(t, v) ==
  /\ bdt[v] = MAX_DIRTY_PAGES
  /\ nand' = [nand EXCEPT ![v] = AllErased]
  /\ bdt' = [bdt EXCEPT ![v] = 0]
  /\ journal' = [journal EXCEPT ![t] = [blk |-> v, pg |-> 0]]
  /\ pc' = "idle"
  /\ UNCHANGED <<pmt, backup_block_count, reclaim, history, starved>>

(* Copy, ASSERT(total_valid_page == total_reclaimed_page), erase, rotate. *)
ReclaimCopy(t, v, live, m) ==
  LET total_valid_page == MAX_DIRTY_PAGES - bdt[v]
      total_reclaimed_page == Cardinality(live)
  IN  /\ bdt[v] < MAX_DIRTY_PAGES
      /\ total_reclaimed_page = total_valid_page
      /\ \A p \in live : nand[reclaim][m[p]] = Erased
      /\ nand' = [nand EXCEPT ![reclaim] = Copied(v, live, m),
                              ![v] = AllErased]
      /\ pmt' = Remapped(v, live, m)
      /\ bdt' = [bdt EXCEPT ![v] = 0, ![reclaim] = 0]
      /\ journal' = [journal EXCEPT
                       ![t] = [blk |-> reclaim, pg |-> total_reclaimed_page]]
      /\ reclaim' = v
      /\ pc' = "idle"
      /\ starved' = (starved \/ bdt[v] = 0)
      /\ UNCHANGED <<backup_block_count, history>>

(* The dirty count of the victim disagrees with what was copied: the pages *)
(* are in the reclaim block and remapped when the ASSERT stops the device. *)
ReclaimAssert(t, v, live, m) ==
  /\ bdt[v] < MAX_DIRTY_PAGES
  /\ Cardinality(live) # MAX_DIRTY_PAGES - bdt[v]
  /\ \A p \in live : nand[reclaim][m[p]] = Erased
  /\ nand' = [nand EXCEPT ![reclaim] = Copied(v, live, m)]
  /\ pmt' = Remapped(v, live, m)
  /\ bdt' = [bdt EXCEPT ![v] = @ + Cardinality(live)]
  /\ pc' = "hung"
  /\ starved' = (starved \/ bdt[v] = 0)
  /\ UNCHANGED <<backup_block_count, journal, reclaim, history>>

(* The reclaim block is not erased: the first copy stops in the NAND layer. *)
ReclaimProgramAssert(t, v, live, m) ==
  /\ bdt[v] < MAX_DIRTY_PAGES
  /\ \E p \in live : nand[reclaim][m[p]] # Erased
  /\ pc' = "hung"
  /\ UNCHANGED <<nand, pmt, bdt, backup_block_count, journal, reclaim,
                 history, starved>>

(* Every block is pinned: the search for a victim never ends. *)
ReclaimSearchForever(t) ==
  /\ Candidates(t) = {}
  /\ pc' = "hung"
  /\ UNCHANGED <<nand, pmt, bdt, backup_block_count, journal, reclaim,
                 history, starved>>

DATA_Reclaim(t) ==
  /\ pc = t
  /\ \/ ReclaimSearchForever(t)
     \/ \E v \in Block :
          /\ IsVictim(v, t)
          /\ \/ ReclaimErase(t, v)
             \/ \E live \in Recognised(v) : \E m \in Placements(live) :
                  \/ ReclaimCopy(t, v, live, m)
                  \/ ReclaimAssert(t, v, live, m)
                  \/ ReclaimProgramAssert(t, v, live, m)

-----------------------------------------------------------------------------
Next ==
  \/ \E a \in Addr, d \in Data, t \in Temp, tag \in Tags :
       DATA_Write(a, d, t, tag)
  \/ \E t \in Temp : DATA_WriteAssert(t)
  \/ \E a \in Addr, t \in Temp : FTL_Trim(a, t)
  \/ \E t \in Temp : DATA_Reclaim(t)

Spec == Init /\ [][Next]_vars

-----------------------------------------------------------------------------
(* What a host read returns. *)

\* FTL_Read without a tag.
PlainRead(a) == CellAt(pmt[a])

\* FTL_Read with the recover tag: follow spare[2] of the current page.
RecoverRead(a) ==
  LET cell == CellAt(pmt[a])
  IN  IF cell.kind = "data" /\ cell.old # INVALID_PM_NODE
      THEN CellAt(cell.old) ELSE cell

Holds(cell, a, d) == cell.kind = "data" /\ cell.addr = a /\ cell.data = d

-----------------------------------------------------------------------------
(* Properties.  Once the device is starved (a reclaim has found no dirty   *)
(* page in any block it may take) nothing is promised.                     *)

\* Every variable has its type (a journal may point one block past the end
\* once the device is starved: NextPage carries).
TypeOK ==
  /\ nand \in [Block -> [Page -> Cell]]
  /\ pmt \in [Addr -> MaybeNode]
  /\ bdt \in [Block -> Nat]
  /\ backup_block_count \in Nat
  /\ journal \in [Temp -> [blk : 0 .. NBlock, pg : Page]]
  /\ reclaim \in Block
  /\ pc \in PcValues
  /\ latest \in [Addr -> Data \cup {NoData}]
  /\ benign \in [Addr -> Data \cup {NoData}]
  /\ asked \in Request \cup {NoRequest}
  /\ starved \in BOOLEAN

\* FTL_Read returns the version last written to every address, whatever
\* DATA_Reclaim has moved and erased in the meantime.
CurrentReadable ==
  ~starved => \A a \in Addr : latest[a] # NoData =>
                /\ Mapped(a)
                /\ Holds(PlainRead(a), a, latest[a])

\* The Data Retainer's promise: however often ransom-tagged writes replace a
\* page and however often its blocks are reclaimed, the recover read returns
\* the last version written without a tag.
BenignRetained ==
  ~starved => \A a \in Addr : benign[a] # NoData =>
                /\ Mapped(a)
                /\ Holds(RecoverRead(a), a, benign[a])

\* No ASSERT on the data path fails: DATA_Reclaim copies exactly as many
\* pages as the dirty count of its victim says, every page it or DATA_Write
\* programs is erased, and the search for a victim ends.
AssertsHold == ~starved => pc # "hung"

\* root_table.backup_block_count, which BDT_Init compares with THRESHOLD, is
\* the number of blocks that carry BACKUPFLAG.
BackupCountExact ==
  ~starved => backup_block_count = Cardinality({b \in Block : Flagged(b)})

\* No step erases or reprograms a page of a block that carries BACKUPFLAG,
\* starved or not, and no step of a device that is not starved takes the
\* flag away.
PinnedPagesKept ==
  [][\A b \in Block : Flagged(b) =>
        /\ ~starved' => bdt'[b] >= BACKUPFLAG
        /\ \A p \in Page : nand[b][p] # Erased => nand'[b][p] = nand[b][p]]_vars

\* Without tags nothing is pinned, and a reclaim always finds a dirty page as
\* long as the host's pages cannot fill the blocks the search looks at:
\* fewer than (NBlock - 2) * MAX_DIRTY_PAGES addresses.
NeverStarved == ~starved

-----------------------------------------------------------------------------
(* The inductive invariant behind the properties, part by part. *)

\* The two journal blocks and the reclaim block are three different blocks.
Roles ==
  /\ journal["hot"].blk \in Block /\ journal["cold"].blk \in Block
  /\ journal["hot"].blk # journal["cold"].blk
  /\ \A t \in Temp : journal[t].blk # reclaim

IsJournal(b) == \E t \in Temp : journal[t].blk = b

\* From its journal page on, a journal block is erased; once it is full its
\* last page holds the meta data.
JournalTail ==
  \A t \in Temp : \A p \in Page : p >= journal[t].pg =>
    nand[journal[t].blk][p] = IF IsFull(journal[t]) THEN MetaPage ELSE Erased

ReclaimReady ==
  /\ \A p \in Page : nand[reclaim][p] = Erased
  /\ bdt[reclaim] = 0

\* FTL_Write is inside DATA_Reclaim exactly when a journal is full.
PcInv ==
  /\ pc # "hung"
  /\ \A t \in Temp : IsFull(journal[t]) <=> pc = t

\* A block without a role is full and ends in its meta data, or was never used.
MetaInv ==
  \A b \in Block : (~IsJournal(b) /\ b # reclaim) =>
    \/ nand[b][MAX_DIRTY_PAGES] = MetaPage
    \/ bdt[b] = MAX_DIRTY_PAGES /\ \A p \in Page : nand[b][p] = Erased

\* The mapping table points at data pages of the address, which the journal
\* has moved past.
MapInv ==
  \A a \in Addr : Mapped(a) =>
    /\ pmt[a].pg \in DataPage
    /\ CellAt(pmt[a]).kind = "data" /\ CellAt(pmt[a]).addr = a
    /\ \A t \in Temp : pmt[a].blk = journal[t].blk => pmt[a].pg < journal[t].pg

\* How many data pages of b have been handed out.
Written(b) ==
  IF b = journal["hot"].blk THEN journal["hot"].pg
  ELSE IF b = journal["cold"].blk THEN journal["cold"].pg
  ELSE IF b = reclaim THEN 0 ELSE MAX_DIRTY_PAGES

\* No page is counted live and dirty; the flag makes room for one count more.
Bounded ==
  \A b \in Block :
    bdt[b] + Cardinality(LivePages(b)) <=
      Written(b) + (IF Flagged(b) THEN BACKUPFLAG ELSE 0)

\* What holds of the tables and the flash whatever the host has written and,
\* with journals that go on being read, while FTL_Init replays.
Sound == Roles /\ ReclaimReady /\ MetaInv /\ MapInv /\ Bounded

Layout == Sound /\ JournalTail /\ PcInv

\* Every page handed out is live or counted dirty; a tagged overwrite is
\* counted nowhere, but only in a block that is pinned.
Exact ==
  \A b \in Block :
    ~Flagged(b) => bdt[b] + Cardinality(LivePages(b)) = Written(b)

\* The mapping table points at the page that holds the last version.
Current ==
  \A a \in Addr : latest[a] # NoData =>
    Mapped(a) /\ CellAt(pmt[a]).data = latest[a]

\* A discarded address is not mapped.
Discarded == \A a \in Addr : Mapped(a) => latest[a] # NoData

\* The version to preserve is the current one, or is in a pinned block.
BenignInv ==
  \A a \in Addr : benign[a] # NoData =>
    /\ Mapped(a)
    /\ LET cell == CellAt(pmt[a])
       IN  IF cell.old = INVALID_PM_NODE THEN cell.data = benign[a]
           ELSE /\ Flagged(cell.old.blk)
                /\ Holds(CellAt(cell.old), a, benign[a])

CountInv == backup_block_count = Cardinality({b \in Block : Flagged(b)})

DeviceInv ==
  Layout /\ Exact /\ Current /\ Discarded /\ BenignInv /\ CountInv

IInv == TypeOK /\ (~starved => DeviceInv)

\* Every block is programmed in page order, and a journal block up to its
\* journal page.
FillOrder ==
  \A b \in Block : \A p, q \in Page :
    p < q /\ nand[b][q] # Erased => nand[b][p] # Erased

JournalFill ==
  \A t \in Temp : \A p \in Page :
    journal[t].blk \in Block /\ p < journal[t].pg => nand[journal[t].blk][p] # Erased

=============================================================================
