------------------------------ MODULE FtlMount ------------------------------
(***************************************************************************)
(* Commit, power loss and mount of the flash translation layer: FtlData    *)
(* with what its tables look like on flash.                                *)
(*                                                                         *)
(* DATA_Commit writes HDI, PMT, BDT and last the ROOT table, which names   *)
(* the other three: the program of the ROOT page is the commit.  It runs   *)
(* after every reclaim, in FTL_Flush, and whenever PMT_Load finds its      *)
(* cache of mapping clusters full, in the middle of whatever asked for the *)
(* cluster.  Between two commits every page of a journal carries, in       *)
(* spare[1], its edition: its number since the commit.  FTL_Init reads the *)
(* committed tables, drops all pins when there are THRESHOLD of them, and  *)
(* replays first the hot and then the cold journal, page by page while the *)
(* editions count up from 0: one action per page.                          *)
(*                                                                         *)
(* Power may be lost between any two programs, also of a mount.  Losing it *)
(* after the page of a write is the same as losing it when the write is    *)
(* done, except for the meta data page: PowerLossInWrite.  Programs are    *)
(* atomic, and the UBI layer keeps an erase that it has done (UBI_Erase    *)
(* commits its index).                                                     *)
(***************************************************************************)
EXTENDS FtlData

CONSTANTS
  Cluster,          \* Cluster[a]: the mapping cluster of address a
  PMT_CACHE_COUNT,  \* clusters the cache holds
  THRESHOLD,        \* pinned blocks at which FTL_Init drops the pins
  MaxLosses         \* bound: how often power is lost

ASSUME CacheAssumption == PMT_CACHE_COUNT \in Nat \ {0}
ASSUME ThresholdAssumption == THRESHOLD \in Nat \ {0}
ASSUME LossesAssumption == MaxLosses \in Nat

VARIABLES
  root,      \* the tables as last committed
  edition,   \* edition_in_hot_journal and edition_in_cold_journal
  spare1,    \* spare[1] of every page: its edition
  cached,    \* clusters in the cache
  power,     \* "off", "on", or the journal FTL_Init is replaying
  losses,    \* bound
  \* History: what the power losses so far have put at risk (see Risks).
  torn,      \* the last commit fell inside the write of a journal page
  risks

mountVars == <<root, edition, spare1, cached, power, losses, torn, risks>>
allVars == <<vars, mountVars>>

NoEdition == -1           \* spare[1] of an erased page and of the meta data
NoEditions == [t \in Temp |-> 0]

\* "reclaim": power was lost between the meta data page of a journal block
\*            and the next commit.
\* "torn":    power was lost when the last commit had torn a write, or a
\*            replay, in two.
\* "order":   an address had a page in the cold journal and a later one in
\*            the hot journal since the last commit.
\* "pins":    a block had been pinned since the last commit.
\* "threshold": FTL_Init has dropped the pins.
Risks == {"reclaim", "torn", "order", "pins", "threshold"}

-----------------------------------------------------------------------------
(* The tables in RAM, and DATA_Commit. *)

Ram == [pmt |-> pmt, bdt |-> bdt, count |-> backup_block_count,
        journal |-> journal, reclaim |-> reclaim]

\* PMT_Load of the cluster of a: with a full cache it first commits, and
\* PMT_Commit empties the cache.
Evicts(a, c) == Cluster[a] \notin c /\ Cardinality(c) >= PMT_CACHE_COUNT

Loaded(a, c) == IF Evicts(a, c) THEN {Cluster[a]} ELSE c \cup {Cluster[a]}

DATA_Commit ==
  /\ root' = Ram
  /\ edition' = NoEditions
  /\ torn' = FALSE

\* PMT_Load outside a write.
PMT_Load(a) ==
  /\ cached' = Loaded(a, cached)
  /\ IF Evicts(a, cached) THEN DATA_Commit
                          ELSE UNCHANGED <<root, edition, torn>>

MountInit ==
  /\ Init
  /\ root = Ram
  /\ edition = NoEditions
  /\ spare1 = [b \in Block |-> [p \in Page |-> NoEdition]]
  /\ cached = {}
  /\ power = "on"
  /\ losses = 0
  /\ torn = FALSE
  /\ risks = {}

-----------------------------------------------------------------------------
(* The calls of FtlData, with what they commit. *)

\* A tagged write looks the address up before it programs the page, so it
\* evicts before; an untagged one evicts in PMT_Update, after the page has
\* its edition and before the journal moves past it.
EvictsEarly(a, tag) == tag # "none" /\ Evicts(a, cached)
EvictsLate(a, tag) == tag = "none" /\ Evicts(a, cached)

\* Mutant: an early eviction leaves the editions counting.
MutEditionRunsOn(a, t, tag) == edition[t]

PageEdition(a, t, tag) == IF EvictsEarly(a, tag) THEN 0 ELSE edition[t]

FTL_Write(a, d, t, tag) ==
  LET e == PageEdition(a, t, tag)
      counted == IF Evicts(a, cached) THEN NoEditions ELSE edition
  IN  /\ power = "on"
      /\ DATA_Write(a, d, t, tag)
      /\ spare1' = [spare1 EXCEPT ![journal[t].blk][journal[t].pg] = e]
      /\ cached' = Loaded(a, cached)
      /\ root' = IF Evicts(a, cached) THEN Ram ELSE root
      /\ edition' = IF EvictsLate(a, tag) THEN NoEditions
                    ELSE [counted EXCEPT ![t] = e + 1]
      /\ torn' = IF Evicts(a, cached) THEN EvictsLate(a, tag) ELSE torn
      /\ UNCHANGED <<power, losses, risks>>

Trim(a, t) ==
  /\ power = "on"
  /\ FTL_Trim(a, t)
  /\ PMT_Load(a)
  /\ UNCHANGED <<spare1, power, losses, risks>>

(* FTL_Read changes nothing but the cache. *)
FTL_Read(a) ==
  /\ power = "on" /\ pc = "idle"
  /\ PMT_Load(a)
  /\ UNCHANGED <<vars, spare1, power, losses, risks>>

FTL_Flush ==
  /\ power = "on" /\ pc = "idle"
  /\ DATA_Commit
  /\ cached' = {}
  /\ UNCHANGED <<vars, spare1, power, losses, risks>>

ErasedEditions == [p \in Page |-> NoEdition]

CopiedEditions(live, m) ==
  [r \in Page |-> IF \E p \in live : m[p] = r THEN r ELSE spare1[reclaim][r]]

\* Mutant: no commit after a reclaim.
MutNoCommit == UNCHANGED <<root, edition, torn, cached>>

\* The tables DATA_Commit writes after a reclaim are those of the next state.
CommitReclaimed ==
  /\ root' = Ram'
  /\ edition' = NoEditions
  /\ torn' = FALSE
  /\ cached' = {}

(* The second half of FTL_Write: DATA_Reclaim, and DATA_Commit when it     *)
(* succeeds.  A cluster that its PMT_Search evicts commits a journal that  *)
(* is already full; power lost then is power lost in the reclaim.          *)
Reclaim(t) ==
  /\ power = "on" /\ pc = t
  /\ \/ /\ ReclaimSearchForever(t)
        /\ UNCHANGED <<root, edition, torn, cached, spare1>>
     \/ \E v \in Block :
          /\ IsVictim(v, t)
          /\ \/ /\ ReclaimErase(t, v)
                /\ spare1' = [spare1 EXCEPT ![v] = ErasedEditions]
                /\ CommitReclaimed
             \/ \E live \in Recognised(v) : \E m \in Placements(live) :
                  \/ /\ ReclaimCopy(t, v, live, m)
                     /\ spare1' = [spare1 EXCEPT ![reclaim] = CopiedEditions(live, m),
                                                 ![v] = ErasedEditions]
                     /\ CommitReclaimed
                  \/ /\ \/ ReclaimAssert(t, v, live, m)
                        \/ ReclaimProgramAssert(t, v, live, m)
                     /\ UNCHANGED <<root, edition, torn, cached, spare1>>
  /\ UNCHANGED <<power, losses, risks>>

WriteAssert(t) ==
  /\ power = "on"
  /\ DATA_WriteAssert(t)
  /\ UNCHANGED mountVars

-----------------------------------------------------------------------------
(* Power loss. *)

\* Addresses a journal has pages of since the last commit, as the root sees it.
Tail(s, t) ==
  LET j == s.journal[t]
  IN  {nand[j.blk][p].addr : p \in {q \in DataPage : /\ q >= j.pg
                                       /\ nand[j.blk][q].kind = "data"}}

\* After the cold replay such an address maps to its older page.
OutOfOrder(s) ==
  \E a \in Tail(s, "cold") : Mapped(a) /\ pmt[a].blk = s.journal["hot"].blk

MetaWritten(b) == nand[b][MAX_DIRTY_PAGES] # Erased

NewRisks ==
  {r \in Risks :
     \/ r = "reclaim" /\ \E t \in Temp : MetaWritten(root.journal[t].blk)
     \/ r = "torn" /\ torn
     \/ r = "order" /\ power = "on" /\ OutOfOrder(root)
     \/ r = "pins" /\ \E b \in Block : Flagged(b) /\ root.bdt[b] < BACKUPFLAG}

\* Bounds: a starved device, whose journal may point past the last data
\* block, is not mounted again; power is lost MaxLosses times.
CanLosePower == power # "off" /\ ~starved /\ losses < MaxLosses

\* RAM is lost.  What it holds until the next mount does not matter.
LoseRam(r) ==
  /\ pmt' = r.pmt /\ bdt' = r.bdt /\ backup_block_count' = r.count
  /\ journal' = r.journal /\ reclaim' = r.reclaim
  /\ edition' = NoEditions
  /\ cached' = {}
  /\ pc' = "idle"
  /\ power' = "off"
  /\ losses' = losses + 1

PowerLoss ==
  /\ CanLosePower
  /\ LoseRam(root)
  /\ risks' = risks \cup NewRisks
  /\ UNCHANGED <<nand, root, spare1, torn, history, starved>>

\* Power is lost after the last data page of a journal block and before its
\* meta data page.
PowerLossInWrite(a, d, t, tag) ==
  LET node == journal[t]
      r == IF EvictsEarly(a, tag) THEN Ram ELSE root
  IN  /\ CanLosePower /\ power = "on"
      /\ pc = "idle" /\ CanProgram(node) /\ node.pg + 1 = MAX_DIRTY_PAGES
      /\ \E old \in OldLogicAddr(a, tag) :
           nand' = [nand EXCEPT ![node.blk][node.pg] =
                      [kind |-> "data", addr |-> a, data |-> d, old |-> old]]
      /\ spare1' = [spare1 EXCEPT ![node.blk][node.pg] = PageEdition(a, t, tag)]
      /\ root' = r
      /\ torn' = (torn /\ ~EvictsEarly(a, tag))
      /\ LoseRam(r)
      /\ RecordWrite(a, d, tag)
      /\ risks' = risks \cup NewRisks
           \cup (IF t = "hot" /\ a \in Tail(root, "cold") THEN {"order"} ELSE {})
           \cup (IF tag = "ransom" /\ Mapped(a) THEN {"pins"} ELSE {})
      /\ UNCHANGED starved

\* Power is lost after the erase of DATA_Reclaim and before the commit.
PowerLossInReclaim(t) ==
  /\ CanLosePower /\ power = "on" /\ pc = t
  /\ \E v \in Block :
       /\ IsVictim(v, t)
       /\ \/ /\ bdt[v] = MAX_DIRTY_PAGES
             /\ nand' = [nand EXCEPT ![v] = AllErased]
             /\ spare1' = [spare1 EXCEPT ![v] = ErasedEditions]
          \/ \E live \in Recognised(v) : \E m \in Placements(live) :
               /\ bdt[v] < MAX_DIRTY_PAGES
               /\ nand' = [nand EXCEPT ![reclaim] = Copied(v, live, m),
                                       ![v] = AllErased]
               /\ spare1' = [spare1 EXCEPT ![reclaim] = CopiedEditions(live, m),
                                           ![v] = ErasedEditions]
  /\ LoseRam(root)
  /\ risks' = risks \cup NewRisks
  /\ UNCHANGED <<root, torn, history, starved>>

-----------------------------------------------------------------------------
(* FTL_Init. *)

\* BDT_Init: with THRESHOLD pinned blocks all flags go.
Unpinned(t) == [b \in Block |-> IF t[b] >= BACKUPFLAG THEN t[b] - BACKUPFLAG
                                                      ELSE t[b]]

\* Mutant: the flags go, their count stays.
MutCountKept ==
  /\ power = "off"
  /\ power' = "hot"
  /\ pmt' = root.pmt /\ journal' = root.journal /\ reclaim' = root.reclaim
  /\ bdt' = IF root.count >= THRESHOLD THEN Unpinned(root.bdt) ELSE root.bdt
  /\ backup_block_count' = root.count
  /\ edition' = NoEditions /\ cached' = {}
  /\ risks' = risks \cup (IF root.count >= THRESHOLD THEN {"threshold"} ELSE {})
  /\ UNCHANGED <<nand, pc, history, starved, root, spare1, losses, torn>>

(* ROOT_Init, BDT_Init and PMT_Init: RAM gets the committed tables.        *)
InitTables ==
  LET drop == root.count >= THRESHOLD
  IN  /\ power = "off"
      /\ power' = "hot"
      /\ pmt' = root.pmt /\ journal' = root.journal /\ reclaim' = root.reclaim
      /\ bdt' = IF drop THEN Unpinned(root.bdt) ELSE root.bdt
      /\ backup_block_count' = IF drop THEN 0 ELSE root.count
      /\ edition' = NoEditions /\ cached' = {}
      /\ risks' = risks \cup (IF drop THEN {"threshold"} ELSE {})
      /\ UNCHANGED <<nand, pc, history, starved, root, spare1, losses, torn>>

\* The loop of DATA_Replay is at a page it can read; it takes the page if it
\* has the edition that comes next.
Readable(t) == power = t /\ pc = "idle" /\ CellAt(journal[t]) # Erased
Follows(t) == spare1[journal[t].blk][journal[t].pg] = edition[t]

\* What the PMT_Load of a replayed page does: it may commit the tables as they
\* are before the page; the loop goes on counting.
ReplayLoad(a, t) ==
  LET counted == IF Evicts(a, cached) THEN NoEditions ELSE edition
  IN  /\ cached' = Loaded(a, cached)
      /\ root' = IF Evicts(a, cached) THEN Ram ELSE root
      /\ torn' = (torn \/ Evicts(a, cached))
      /\ edition' = [counted EXCEPT ![t] = edition[t] + 1]

\* Mutant: the replay does not count the version it replaces.
MutReplayNotDirty(t) ==
  LET node == journal[t]
      a == CellAt(node).addr
  IN  /\ Readable(t) /\ Follows(t)
      /\ pmt' = [pmt EXCEPT ![a] = node]
      /\ journal' = [journal EXCEPT ![t] = NextPage(node)]
      /\ ReplayLoad(a, t)
      /\ UNCHANGED <<nand, bdt, backup_block_count, reclaim, pc, history, starved,
                     spare1, power, losses, risks>>

\* Mutant: of two pages of an address in a journal the first one wins.
MutReplayFirstWins(t) ==
  LET node == journal[t]
      a == CellAt(node).addr
  IN  /\ Readable(t) /\ Follows(t)
      /\ PMT_Update(a, IF pmt[a].blk = node.blk THEN pmt[a] ELSE node, FALSE)
      /\ journal' = [journal EXCEPT ![t] = NextPage(node)]
      /\ ReplayLoad(a, t)
      /\ UNCHANGED <<nand, reclaim, pc, history, starved, spare1, power, losses, risks>>

(* DATA_Replay of one page.                                                *)
ReplayPage(t) ==
  LET node == journal[t]
      a == CellAt(node).addr
  IN  /\ Readable(t) /\ Follows(t)
      /\ PMT_Update(a, node, FALSE)
      /\ journal' = [journal EXCEPT ![t] = NextPage(node)]
      /\ ReplayLoad(a, t)
      /\ UNCHANGED <<nand, reclaim, pc, history, starved, spare1, power, losses, risks>>

\* At a page with another edition the loop spins.
ReplaySpins(t) ==
  /\ Readable(t) /\ ~Follows(t)
  /\ pc' = "hung"
  /\ UNCHANGED <<nand, pmt, bdt, backup_block_count, journal, reclaim, history,
                 starved, mountVars>>

\* A journal block whose data pages are all readable gets its meta data page,
\* if it has none.
MetaRebuilt(b) ==
  IF /\ \A p \in DataPage : nand[b][p] # Erased
     /\ nand[b][MAX_DIRTY_PAGES] = Erased
  THEN [nand EXCEPT ![b][MAX_DIRTY_PAGES] = MetaPage] ELSE nand

(* The end of DATA_Replay, at a page it cannot read; after the cold journal *)
(* FTL_Init goes on to the reclaim of a journal that is full.               *)
ReplayEnds(t) ==
  /\ power = t /\ pc = "idle" /\ CellAt(journal[t]) = Erased
  /\ nand' = MetaRebuilt(journal[t].blk)
  /\ power' = IF t = "hot" THEN "cold" ELSE "on"
  /\ pc' = IF t = "hot" THEN "idle"
           ELSE IF IsFull(journal["hot"]) THEN "hot"
           ELSE IF IsFull(journal["cold"]) THEN "cold" ELSE "idle"
  /\ UNCHANGED <<pmt, bdt, backup_block_count, journal, reclaim, history, starved,
                 root, edition, spare1, cached, losses, torn, risks>>

-----------------------------------------------------------------------------
MountNext ==
  \/ \E a \in Addr, d \in Data, t \in Temp, tag \in Tags :
       FTL_Write(a, d, t, tag) \/ PowerLossInWrite(a, d, t, tag)
  \/ \E a \in Addr, t \in Temp : Trim(a, t)
  \/ \E a \in Addr : FTL_Read(a)
  \/ \E t \in Temp : Reclaim(t) \/ WriteAssert(t) \/ PowerLossInReclaim(t)
  \/ FTL_Flush
  \/ PowerLoss
  \/ InitTables
  \/ \E t \in Temp : ReplayPage(t) \/ ReplaySpins(t) \/ ReplayEnds(t)

MountSpec == MountInit /\ [][MountNext]_allVars

-----------------------------------------------------------------------------
(* Properties. *)

NoRisk(r) == risks \cap r = {}
Mounted == power = "on" /\ pc # "hung"

\* FTL_Init's replay comes to an end: power lost before a journal block has
\* its meta data page, when the last commit did not fall inside the write or
\* the replay of a page, leaves journals whose editions DATA_Replay can count
\* through.
MountEnds ==
  (~starved /\ NoRisk({"reclaim", "torn"}) /\ power # "on") => pc # "hung"

\* Every write FTL_Write has finished is read back after any number of power
\* losses and mounts, committed or not.
WritesSurvive ==
  (Mounted /\ NoRisk({"reclaim", "torn", "order"})) => CurrentReadable

\* The retained version survives them too.
RetainedSurvives ==
  (Mounted /\ NoRisk(Risks)) => BenignRetained

\* The dirty counts FTL_Init ends with are the ones DATA_Reclaim expects: no
\* ASSERT fails after a mount.
AssertsHoldAfterMount ==
  NoRisk({"reclaim", "torn", "threshold"}) => AssertsHold

-----------------------------------------------------------------------------
(* The inductive invariant behind the properties.  While no loss has left  *)
(* "reclaim" or "torn" and the device is not starved, the tables in RAM    *)
(* and, unless the last commit tore a page, the committed ones fit the     *)
(* flash.                                                                  *)

Safe == ~starved /\ NoRisk({"reclaim", "torn"})

\* Tables s, seen with the flash as it is now: the counterparts of Roles,
\* ReclaimReady, MetaInv, MapInv and Bounded.
InJournal(s, b) == \E t \in Temp : s.journal[t].blk = b

LiveIn(s, b) ==
  {p \in DataPage : /\ nand[b][p].kind = "data"
                    /\ s.pmt[nand[b][p].addr] = [blk |-> b, pg |-> p]}

WrittenIn(s, b) ==
  IF b = s.journal["hot"].blk THEN s.journal["hot"].pg
  ELSE IF b = s.journal["cold"].blk THEN s.journal["cold"].pg
  ELSE IF b = s.reclaim THEN 0 ELSE MAX_DIRTY_PAGES

RolesIn(s) ==
  /\ s.journal["hot"].blk \in Block /\ s.journal["cold"].blk \in Block
  /\ s.journal["hot"].blk # s.journal["cold"].blk
  /\ \A t \in Temp : s.journal[t].blk # s.reclaim

ReclaimReadyIn(s) ==
  /\ \A p \in Page : nand[s.reclaim][p] = Erased
  /\ s.bdt[s.reclaim] = 0

MetaIn(s) ==
  \A b \in Block : (~InJournal(s, b) /\ b # s.reclaim) =>
    \/ nand[b][MAX_DIRTY_PAGES] = MetaPage
    \/ s.bdt[b] = MAX_DIRTY_PAGES /\ \A p \in Page : nand[b][p] = Erased

MapIn(s) ==
  \A a \in Addr : s.pmt[a] # INVALID_PM_NODE =>
    /\ s.pmt[a].pg \in DataPage
    /\ CellAt(s.pmt[a]).kind = "data" /\ CellAt(s.pmt[a]).addr = a
    /\ \A t \in Temp : s.pmt[a].blk = s.journal[t].blk => s.pmt[a].pg < s.journal[t].pg

BoundedIn(s) ==
  \A b \in Block :
    s.bdt[b] + Cardinality(LiveIn(s, b)) <=
      WrittenIn(s, b) + (IF s.bdt[b] >= BACKUPFLAG THEN BACKUPFLAG ELSE 0)

SoundIn(s) == RolesIn(s) /\ ReclaimReadyIn(s) /\ MetaIn(s) /\ MapIn(s) /\ BoundedIn(s)

ExactIn(s) ==
  \A b \in Block : s.bdt[b] < BACKUPFLAG =>
    s.bdt[b] + Cardinality(LiveIn(s, b)) = WrittenIn(s, b)

\* The pages a replay of tables s has still to take for address a, and the
\* node a will be mapped to when it is over: its last page in the cold
\* journal, or else in the hot one, or else what the table says.
Pending(s, t, a) ==
  {p \in DataPage : /\ p >= s.journal[t].pg
                    /\ nand[s.journal[t].blk][p].kind = "data"
                    /\ nand[s.journal[t].blk][p].addr = a}

LastIn(s, t, a, node) ==
  /\ node.blk = s.journal[t].blk /\ node.pg \in Pending(s, t, a)
  /\ \A p \in Pending(s, t, a) : p <= node.pg

Wins(s, a, node) ==
  \/ LastIn(s, "cold", a, node)
  \/ Pending(s, "cold", a) = {} /\ LastIn(s, "hot", a, node)
  \/ Pending(s, "cold", a) = {} /\ Pending(s, "hot", a) = {} /\ node = s.pmt[a]

CurrentIn(s) ==
  \A a \in Addr : \A node \in MaybeNode :
    (latest[a] # NoData /\ Wins(s, a, node)) =>
      node # INVALID_PM_NODE /\ CellAt(node).data = latest[a]

BenignIn(s) ==
  \A a \in Addr : \A node \in MaybeNode :
    (benign[a] # NoData /\ Wins(s, a, node)) =>
      /\ node # INVALID_PM_NODE
      /\ LET cell == CellAt(node)
         IN  IF cell.old = INVALID_PM_NODE THEN cell.data = benign[a]
             ELSE /\ s.bdt[cell.old.blk] >= BACKUPFLAG
                  /\ Holds(CellAt(cell.old), a, benign[a])

TableType ==
  [pmt : [Addr -> MaybeNode], bdt : [Block -> Nat], count : Nat,
   journal : [Temp -> [blk : 0 .. NBlock, pg : Page]], reclaim : Block]

MountTypeOK ==
  /\ root \in TableType
  /\ edition \in [Temp -> Nat]
  /\ spare1 \in [Block -> [Page -> Int]]
  /\ power \in Temp \cup {"off", "on"}
  /\ torn \in BOOLEAN
  /\ risks \subseteq Risks

\* A journal is settled when its replay is over.  One that is not has pages
\* left whose editions count on, and no meta data page yet.
Settled(t) == power = "on" \/ (power = "cold" /\ t = "hot")

TailPage(t, p) ==
  LET cell == nand[journal[t].blk][p]
  IN  IF Settled(t)
      THEN cell = IF IsFull(journal[t]) THEN MetaPage ELSE Erased
      ELSE \/ cell = Erased
           \/ /\ p # MAX_DIRTY_PAGES /\ cell.kind = "data"
              /\ spare1[journal[t].blk][p] = edition[t] + (p - journal[t].pg)

TailInv == \A t \in Temp : \A p \in Page : p >= journal[t].pg => TailPage(t, p)

PowerInv ==
  /\ power = "on" => PcInv
  /\ power # "on" => pc = "idle"
  /\ power = "off" => root = Ram /\ edition = NoEditions /\ ~torn
  /\ power = "hot" => edition["cold"] = 0
  /\ \E t \in Temp : nand[journal[t].blk][MAX_DIRTY_PAGES - 1] = Erased

\* The pages the journals got, or replayed, since they stood where tables s
\* have them; those of one address; and the last of them.
Since(s, t) == {p \in DataPage : s.journal[t].pg <= p /\ p < journal[t].pg}

SinceOf(s, t, a) == {p \in Since(s, t) : nand[journal[t].blk][p].addr = a}

LastSince(s, t, a) ==
  /\ pmt[a].blk = journal[t].blk /\ pmt[a].pg \in SinceOf(s, t, a)
  /\ \A p \in SinceOf(s, t, a) : p <= pmt[a].pg

\* Committed tables s differ from RAM by the pages since then, which the
\* editions count: an address is mapped to its last page in a journal or,
\* when it has none, to what it was mapped to.
CommittedIn(s, editions) ==
  /\ SoundIn(s)
  /\ s.reclaim = reclaim
  /\ \A t \in Temp :
       /\ s.journal[t].blk = journal[t].blk
       /\ s.journal[t].pg + editions[t] = journal[t].pg
       /\ \A p \in Since(s, t) : /\ nand[journal[t].blk][p].kind = "data"
                                 /\ spare1[journal[t].blk][p] = p - s.journal[t].pg
  /\ \A a \in Addr : Mapped(a) =>
       \/ \E t \in Temp : LastSince(s, t, a)
       \/ pmt[a] = s.pmt[a] /\ \A t \in Temp : SinceOf(s, t, a) = {}

FlashInv ==
  /\ TypeOK /\ MountTypeOK /\ Sound /\ FillOrder /\ JournalFill
  /\ TailInv /\ PowerInv
  /\ ~torn => CommittedIn(root, edition)

\* A device that hangs while it is safe was in a reclaim.
HungInv ==
  /\ power = "on"
  /\ torn \/ \E t \in Temp : MetaWritten(root.journal[t].blk)

ExactInv == pc # "hung" /\ Exact /\ (~torn => ExactIn(root))

CurrentInv == CurrentIn(Ram) /\ (~torn /\ power # "on" => CurrentIn(root))

RetainedInv == BenignIn(Ram) /\ (~torn /\ power # "on" => BenignIn(root))

MInv ==
  Safe =>
    /\ IF pc = "hung" THEN HungInv ELSE FlashInv
    /\ NoRisk({"threshold"}) => ExactInv
    /\ (pc # "hung" /\ NoRisk({"order"})) => CurrentInv
    /\ (pc # "hung" /\ NoRisk(Risks)) => RetainedInv

=============================================================================
