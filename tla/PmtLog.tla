------------------------------- MODULE PmtLog -------------------------------
(***************************************************************************)
(* The mapping table on flash (ftl_pmt.c), below what FtlMount takes for   *)
(* one step.  A cluster of the table is a page of a PMT block; ROOT names  *)
(* the page of every cluster.  PMT_Load caches clusters and commits when   *)
(* the cache is full; PMT_Commit programs the dirty ones on the next pages *)
(* of the current PMT block, and when that is full pmt_reclaim_blocks      *)
(* makes room by moving the live pages of the dirtiest block.  Only then   *)
(* the rest of DATA_Commit programs BDT and ROOT, one step here: what ROOT *)
(* does not name does not count.                                           *)
(*                                                                         *)
(* Power may be lost between any two steps; FTL_Init starts from the last  *)
(* ROOT page.  The content of a cluster is a version: what it was when it  *)
(* last became dirty.                                                      *)
(***************************************************************************)
EXTENDS Naturals, Sequences, FiniteSetsExt

CONSTANTS
  PMT_BLOCK_COUNT,  \* blocks 0 .. PMT_BLOCK_COUNT - 1, from PMT_START_BLOCK
  PPB,              \* PAGE_PER_PHY_BLOCK
  PMT_CACHE_COUNT,  \* clusters the cache holds
  MaxLosses         \* bound: how often power is lost

MAX_DIRTY_PAGES == PPB - 1
PmtBlock == 0 .. PMT_BLOCK_COUNT - 1
Page == 0 .. PPB - 1
DataPage == 0 .. MAX_DIRTY_PAGES - 1
Cluster == DataPage        \* as many clusters as PMT_Format fits in a block

\* The dirtiest block has more dirty pages than one commit can make others
\* count in the reclaim block (see DirtyCountsExact); the firmware has five
\* times as many PMT pages as clusters.
ASSUME PmtAssumption ==
  /\ PPB \in Nat /\ PMT_CACHE_COUNT \in Nat \ {0} /\ MaxLosses \in Nat
  /\ PMT_BLOCK_COUNT \in Nat /\ PMT_BLOCK_COUNT >= 3
  /\ (PMT_BLOCK_COUNT - 1) * (MAX_DIRTY_PAGES - PMT_CACHE_COUNT + 1) > Cardinality(Cluster)

VARIABLES
  pmt,         \* the pages of the PMT blocks
  flash_root,  \* ROOT and BDT as last programmed
  root_table,  \* page_mapping_nodes of the clusters that are not cached, and
               \* pm_cache_origin_location of those that are;
               \* pmt_current_block, pmt_reclaim_block
  block_dirty_table,
  cache,       \* the cached clusters, in the order of their slots
  meta_data,   \* the cluster of each page of the current PMT block
  pc,          \* what the firmware is doing
  slot,        \* the slot PMT_Commit is at
  want,        \* the call of PMT_Load that had to commit first
  \* History.
  latest,      \* version of each cluster PMT_Update last left
  committed,   \* those of the last ROOT page
  unrooted,    \* PMT_Commit has programmed a page since then
  forgotten,   \* blocks that were half full at a mount
  losses, risks

ram == <<root_table, block_dirty_table, cache, meta_data, slot, want>>
past == <<latest, committed, unrooted, forgotten, losses, risks>>
vars == <<pmt, flash_root, ram, pc, past>>

Erased == [kind |-> "erased"]
Node(c, v) == [kind |-> "node", cluster |-> c, version |-> v]
Meta(m) == [kind |-> "meta", clusters |-> m]
AllErased == [p \in Page |-> Erased]
EmptySlot == [cluster |-> MAX_DIRTY_PAGES, dirty |-> FALSE, cell |-> Erased]
CellAt(loc) == pmt[loc.blk][loc.pg]

\* "commit": power was lost between a PMT page of a commit and its ROOT page.
\*           What the last ROOT page names may be erased (ftl_pmt.c:537), and
\*           the pages from its pmt_current_block on are not.
\* "meta":   a block that was half full at a mount was reclaimed with live
\*           pages.  Its meta data page does not name the clusters written
\*           before the mount: nothing rebuilds meta_data (PMT_Init).
Risks == {"commit", "meta"}

(* PMT_Format: the clusters fill block 0. *)
PMT_Format ==
  /\ pmt = [b \in PmtBlock |-> IF b > 0 THEN AllErased
              ELSE [p \in Page |-> IF p \in Cluster THEN Node(p, 0)
                                   ELSE Meta([q \in DataPage |-> q])]]
  /\ root_table = [map |-> [c \in Cluster |-> [blk |-> 0, pg |-> c]],
                   current |-> [blk |-> 1, pg |-> 0], reclaim |-> 2]
  /\ block_dirty_table = [b \in PmtBlock |-> IF b <= 2 THEN 0 ELSE MAX_DIRTY_PAGES]
  /\ flash_root = [root |-> root_table, bdt |-> block_dirty_table]
  /\ cache = <<>>
  /\ meta_data = [p \in DataPage |-> p]
  /\ pc = "idle" /\ slot = 1 /\ want = <<>>
  /\ latest = [c \in Cluster |-> 0]
  /\ committed = latest
  /\ unrooted = FALSE /\ forgotten = {} /\ losses = 0 /\ risks = {}

-----------------------------------------------------------------------------
(* PMT_Load, and PMT_Update and PMT_Search that call it. *)

\* Clusters whose page_mapping_nodes entry is an address in RAM: PMT_Commit
\* gives those of the slots it has passed back their location.
Slots == slot .. Len(cache)
IsCached(c) == \E i \in Slots : cache[i].cluster = c
IsDirty(c) == \E i \in Slots : cache[i].cluster = c /\ cache[i].dirty

\* Bound: versions are only compared with those of the pages still named.
Newer(c) == (latest[c] + 1) % 3

\* Only the first update makes a cluster differ from its page on flash.
Updated(e) ==
  IF e.dirty THEN e
  ELSE [cluster |-> e.cluster, dirty |-> TRUE, cell |-> Node(e.cluster, Newer(e.cluster))]

LatestAfter(c, update) ==
  IF update /\ ~IsDirty(c) THEN [latest EXCEPT ![c] = Newer(c)] ELSE latest

Load(c, update) ==
  LET e == [cluster |-> c, dirty |-> FALSE, cell |-> CellAt(root_table.map[c])]
  IN  /\ cache' = Append(cache, IF update THEN Updated(e) ELSE e)
      /\ latest' = LatestAfter(c, update)

(* PMT_Update, or PMT_Search if it does not update.  A full cache is       *)
(* committed first, in the middle of the call.                             *)
Access(c, update) ==
  /\ pc = "idle"
  /\ \/ /\ IsCached(c)
        /\ cache' = [i \in DOMAIN cache |-> IF update /\ cache[i].cluster = c
                                            THEN Updated(cache[i]) ELSE cache[i]]
        /\ latest' = LatestAfter(c, update)
        /\ UNCHANGED <<pc, want>>
     \/ /\ ~IsCached(c) /\ Len(cache) < PMT_CACHE_COUNT
        /\ Load(c, update)
        /\ UNCHANGED <<pc, want>>
     \/ /\ ~IsCached(c) /\ Len(cache) = PMT_CACHE_COUNT
        /\ pc' = "pmt" /\ want' = <<c, update>>
        /\ UNCHANGED <<cache, latest>>
  /\ UNCHANGED <<pmt, flash_root, root_table, block_dirty_table, meta_data, slot,
                 committed, unrooted, forgotten, losses, risks>>

LoadAfterCommit ==
  /\ pc = "load"
  /\ Load(want[1], want[2])
  /\ pc' = "idle" /\ want' = <<>>
  /\ UNCHANGED <<pmt, flash_root, root_table, block_dirty_table, meta_data, slot,
                 committed, unrooted, forgotten, losses, risks>>

(* FTL_Flush, or the end of a reclaim of data blocks. *)
Commit ==
  /\ pc = "idle"
  /\ pc' = "pmt"
  /\ UNCHANGED <<pmt, flash_root, ram, past>>

-----------------------------------------------------------------------------
(* PMT_Commit. *)

CommitClean ==
  /\ pc = "pmt" /\ slot <= Len(cache) /\ ~cache[slot].dirty
  /\ slot' = slot + 1
  /\ UNCHANGED <<pmt, flash_root, root_table, block_dirty_table, cache, meta_data,
                 want, pc, past>>

\* Mutant: the page a cluster leaves behind is not counted.
MutNotDirtied(b) == block_dirty_table

\* The dirty counts once a page of block b is replaced.
Dirtied(b) == [block_dirty_table EXCEPT ![b] = @ + 1]

(* A dirty cluster goes to the next page.  Its ASSERTs: that page is not   *)
(* the last, and no block gets more dirty pages than it has; nor may the   *)
(* page be programmed already.                                             *)
CommitDirty ==
  LET e == cache[slot]
      to == root_table.current
      old == root_table.map[e.cluster].blk
      dirtied == Dirtied(old)
  IN  /\ pc = "pmt" /\ slot <= Len(cache) /\ e.dirty
      /\ pmt' = [pmt EXCEPT ![to.blk][to.pg] = e.cell]
      /\ meta_data' = [p \in DataPage |-> IF p = to.pg THEN e.cluster ELSE meta_data[p]]
      /\ root_table' = [root_table EXCEPT !.map[e.cluster] = to, !.current.pg = @ + 1]
      /\ block_dirty_table' = dirtied
      /\ slot' = slot + 1
      /\ unrooted' = TRUE
      /\ pc' = IF \/ to.pg = MAX_DIRTY_PAGES \/ CellAt(to) # Erased
                  \/ dirtied[old] > MAX_DIRTY_PAGES
               THEN "hung"
               ELSE IF to.pg + 1 = MAX_DIRTY_PAGES THEN "full" ELSE "pmt"
      /\ UNCHANGED <<flash_root, cache, want, latest, committed, forgotten, losses, risks>>

(* The last page of a block is its meta data. *)
ProgramMeta ==
  LET b == root_table.current.blk
      erased == pmt[b][MAX_DIRTY_PAGES] = Erased
  IN  /\ pc = "full"
      /\ pmt' = IF erased THEN [pmt EXCEPT ![b][MAX_DIRTY_PAGES] = Meta(meta_data)] ELSE pmt
      /\ pc' = IF erased THEN "reclaim" ELSE "hung"
      /\ UNCHANGED <<flash_root, ram, past>>

-----------------------------------------------------------------------------
(* pmt_reclaim_blocks. *)

\* The first of the dirtiest blocks.  The search leaves out neither the block
\* that has just become full nor the reclaim block.
DirtiestBlock ==
  LET most == Max({block_dirty_table[b] : b \in PmtBlock})
  IN  Min({b \in PmtBlock : block_dirty_table[b] = most})

\* Mutant: what is in the cache is not copied.
MutUncachedOnly(c) == ~IsCached(c)

\* A cluster that is dirty in the cache will be programmed anew later in this
\* commit; one that is clean there needs its page.
NeedsPage(c) == ~IsDirty(c)

\* The pages of a block that hold the cluster its meta data says.
LivePages(v) ==
  LET named == pmt[v][MAX_DIRTY_PAGES].clusters
  IN  IF pmt[v][MAX_DIRTY_PAGES] = Erased THEN {}
      ELSE {p \in DataPage : /\ NeedsPage(named[p])
                             /\ root_table.map[named[p]] = [blk |-> v, pg |-> p]}

\* Mutant: the counts of the block stay.
MutKeepCounts(blocks) == block_dirty_table

\* The counts of blocks that have just been erased, or are used anew.
ResetCounts(blocks) ==
  [b \in PmtBlock |-> IF b \in blocks THEN 0 ELSE block_dirty_table[b]]

(* No page is live: the block is erased and is the new current block. *)
ReclaimErase(v) ==
  /\ block_dirty_table[v] = MAX_DIRTY_PAGES
  /\ pmt' = [pmt EXCEPT ![v] = AllErased]
  /\ root_table' = [root_table EXCEPT !.current = [blk |-> v, pg |-> 0]]
  /\ block_dirty_table' = ResetCounts({v})
  /\ forgotten' = forgotten \ {v}
  /\ pc' = "pmt"
  /\ UNCHANGED <<cache, meta_data, risks>>

\* The slots of clusters whose page moved are emptied, if PMT_Commit has not
\* passed them.
SlotsLeft(moved) ==
  [i \in DOMAIN cache |-> IF i \in Slots /\ cache[i].cluster \in moved
                          THEN EmptySlot ELSE cache[i]]

(* The live pages are copied to the first pages of the reclaim block, the  *)
(* new current block; the dirty block is the next reclaim block.           *)
ReclaimCopy(v) ==
  LET live == LivePages(v)
      r == root_table.reclaim
      to(p) == Cardinality({q \in live : q < p})
      from(q) == CHOOSE p \in live : to(p) = q
      targets == 0 .. Cardinality(live) - 1
      cluster(p) == pmt[v][MAX_DIRTY_PAGES].clusters[p]
      moved == {cluster(p) : p \in live}
  IN  /\ block_dirty_table[v] < MAX_DIRTY_PAGES
      /\ pmt' = [pmt EXCEPT
           ![r] = [q \in Page |-> IF q \in targets THEN pmt[v][from(q)] ELSE pmt[r][q]],
           ![v] = AllErased]
      /\ root_table' =
           [map |-> [c \in Cluster |-> IF c \in moved
                       THEN [blk |-> r, pg |-> to(root_table.map[c].pg)]
                       ELSE root_table.map[c]],
            current |-> [blk |-> r, pg |-> Cardinality(live)],
            reclaim |-> v]
      /\ block_dirty_table' = ResetCounts({r, v})
      /\ meta_data' = [q \in DataPage |->
                         IF q \in targets THEN cluster(from(q)) ELSE meta_data[q]]
      /\ cache' = SlotsLeft(moved)
      /\ risks' = IF v \in forgotten THEN risks \cup {"meta"} ELSE risks
      /\ forgotten' = forgotten \ {v}
      /\ pc' = IF /\ pmt[v][MAX_DIRTY_PAGES] # Erased
                  /\ \A q \in targets : pmt[r][q] = Erased
               THEN "pmt" ELSE "hung"

pmt_reclaim_blocks ==
  /\ pc = "reclaim"
  /\ \/ ReclaimErase(DirtiestBlock)
     \/ ReclaimCopy(DirtiestBlock)
  /\ UNCHANGED <<flash_root, slot, want, latest, committed, unrooted, losses>>

\* Mutant: ROOT is programmed as it was before PMT_Commit.
MutRootFirst == [root |-> flash_root.root, bdt |-> block_dirty_table]

RootPage == [root |-> root_table, bdt |-> block_dirty_table]

(* PMT_Init empties the cache; BDT_Commit and ROOT_Commit end DATA_Commit. *)
CommitRoot ==
  /\ pc = "pmt" /\ slot > Len(cache)
  /\ flash_root' = RootPage
  /\ cache' = <<>> /\ slot' = 1
  /\ pc' = IF want = <<>> THEN "idle" ELSE "load"
  /\ committed' = latest
  /\ unrooted' = FALSE
  /\ UNCHANGED <<pmt, root_table, block_dirty_table, meta_data, want,
                 latest, forgotten, losses, risks>>

-----------------------------------------------------------------------------
(* Power loss and mount. *)

\* What is in RAM until the mount does not matter; meta_data is all 0 then.
PowerLoss ==
  /\ pc \notin {"off", "hung"} /\ losses < MaxLosses
  /\ pc' = "off"
  /\ root_table' = flash_root.root /\ block_dirty_table' = flash_root.bdt
  /\ cache' = <<>> /\ slot' = 1 /\ want' = <<>>
  /\ meta_data' = [p \in DataPage |-> 0]
  /\ latest' = committed
  /\ losses' = losses + 1
  /\ risks' = IF unrooted THEN risks \cup {"commit"} ELSE risks
  /\ unrooted' = FALSE
  /\ UNCHANGED <<pmt, flash_root, committed, forgotten>>

(* ROOT_Init, BDT_Init and PMT_Init; the replay then calls PMT_Update. *)
FTL_Init ==
  /\ pc = "off"
  /\ pc' = "idle"
  /\ forgotten' = IF root_table.current.pg > 0
                  THEN forgotten \cup {root_table.current.blk} ELSE forgotten
  /\ UNCHANGED <<pmt, flash_root, ram, latest, committed, unrooted, losses, risks>>

Next ==
  \/ \E c \in Cluster, update \in BOOLEAN : Access(c, update)
  \/ LoadAfterCommit
  \/ Commit \/ CommitClean \/ CommitDirty \/ ProgramMeta \/ pmt_reclaim_blocks
  \/ CommitRoot
  \/ PowerLoss \/ FTL_Init

Spec == PMT_Format /\ [][Next]_vars

-----------------------------------------------------------------------------
(* Properties. *)

\* PMT_Load finds, or has found, every cluster as PMT_Update left it, wherever
\* commits and reclaims of PMT blocks have put its page, until power is lost
\* inside a commit or a block is reclaimed that a mount found half full.
ClustersFound ==
  (pc = "idle" /\ risks = {}) =>
    \A c \in Cluster :
      IF IsCached(c) THEN \E i \in Slots : cache[i].cell = Node(c, latest[c])
      ELSE CellAt(root_table.map[c]) = Node(c, latest[c])

\* Power lost between two commits leaves the clusters of the last one.
CommitSurvives ==
  (~unrooted /\ risks = {}) =>
    \A c \in Cluster : CellAt(flash_root.root.map[c]) = Node(c, committed[c])

\* Dirty and live pages of a PMT block make up the pages programmed, so that
\* pmt_reclaim_blocks takes a block it can empty.  In the reclaim block only
\* clusters are counted whose page went with it when it was the dirtiest.
DirtyCountsExact ==
  (pc = "idle" /\ risks = {}) =>
    \A b \in PmtBlock :
      LET live == {c \in Cluster : root_table.map[c].blk = b}
          total == block_dirty_table[b] + Cardinality(live)
      IN  IF b = root_table.reclaim THEN live = {} /\ total < PMT_CACHE_COUNT
          ELSE total = IF b = root_table.current.blk THEN root_table.current.pg
                       ELSE MAX_DIRTY_PAGES

\* No ASSERT fails, no page is programmed twice, and the block to reclaim has
\* its meta data page.
AssertsHold == risks = {} => pc # "hung"

=============================================================================
