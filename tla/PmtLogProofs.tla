---------------------------- MODULE PmtLogProofs ----------------------------
(***************************************************************************)
(* Proofs about PmtLog, for any number and size of PMT blocks, any cache   *)
(* that PmtAssumption admits and any number of power losses: commits and   *)
(* reclaims of the mapping table lose no cluster, the dirty counts stay    *)
(* exact and no ASSERT fails, until power is lost inside a commit or a     *)
(* block is reclaimed that a mount found half full.                        *)
(***************************************************************************)
EXTENDS PmtLog, FiniteSetTheorems, SequenceTheorems, WellFoundedInduction, TLAPS

(***************************************************************************)
(* The invariant.                                                          *)
(***************************************************************************)

NodeCell == [kind : {"node"}, cluster : Cluster, version : Nat]
MetaCell == [kind : {"meta"}, clusters : [DataPage -> Cluster]]
Location == [blk : PmtBlock, pg : DataPage]
RootTable == [map : [Cluster -> Location],
              current : [blk : PmtBlock, pg : 0 .. MAX_DIRTY_PAGES],
              reclaim : PmtBlock]
Counts == [PmtBlock -> Nat]
Entry == [cluster : Cluster, dirty : BOOLEAN, cell : NodeCell] \cup {EmptySlot}

Types ==
  /\ pmt \in [PmtBlock -> [Page -> NodeCell \cup MetaCell \cup {Erased}]]
  /\ root_table \in RootTable /\ block_dirty_table \in Counts
  /\ flash_root \in [root : RootTable, bdt : Counts]
  /\ cache \in Seq(Entry) /\ Len(cache) <= PMT_CACHE_COUNT
  /\ slot \in 1 .. Len(cache) + 1
  /\ meta_data \in [DataPage -> Cluster]
  /\ want \in {<<>>} \cup (Cluster \X BOOLEAN)
  /\ pc \in {"idle", "load", "pmt", "full", "reclaim", "off"}
  /\ latest \in [Cluster -> Nat] /\ committed \in [Cluster -> Nat]
  /\ forgotten \subseteq PmtBlock /\ unrooted \in BOOLEAN

\* Where a commit is.
ControlInv ==
  /\ pc \in {"idle", "load", "off"} => ~unrooted /\ slot = 1
  /\ pc \in {"load", "off"} => cache = <<>>
  /\ pc = "load" => want # <<>>
  /\ pc \in {"full", "reclaim"} => unrooted /\ slot > 1

\* The cached clusters are as PMT_Update left them, and so is the page of every
\* cluster that is not dirty in the cache.
CacheInv ==
  /\ \A i \in Slots : cache[i] # EmptySlot =>
       cache[i].cell = Node(cache[i].cluster, latest[cache[i].cluster])
  /\ \A i, j \in Slots : cache[i] # EmptySlot /\ cache[i].cluster = cache[j].cluster => i = j
  /\ pc = "idle" => \A i \in Slots : cache[i] # EmptySlot
MapInv ==
  /\ \A c \in Cluster : ~IsDirty(c) => CellAt(root_table.map[c]) = Node(c, latest[c])
  /\ ~unrooted => /\ flash_root = RootPage
                  /\ \A c \in Cluster : CellAt(root_table.map[c]) = Node(c, committed[c])

\* The current block is filled from its first page on, the reclaim block is
\* erased. A cluster whose page went with the reclaim block will be programmed
\* by this commit, which does not fill another block.
Current == root_table.current
Live(b) == {c \in Cluster : root_table.map[c].blk = b}
BlockInv ==
  /\ Current.blk # root_table.reclaim
  /\ IF pc \in {"full", "reclaim"} THEN Current.pg = MAX_DIRTY_PAGES
                                   ELSE Current.pg < MAX_DIRTY_PAGES
  /\ pc # "reclaim" => \A p \in Page : p >= Current.pg => pmt[Current.blk][p] = Erased
  /\ \A p \in Page : pmt[root_table.reclaim][p] = Erased
  /\ \A c \in Live(Current.blk) : root_table.map[c].pg < Current.pg
  /\ \A c \in Live(root_table.reclaim) :
       IsDirty(c) /\ unrooted /\ Current.pg + Len(cache) + 1 - slot < MAX_DIRTY_PAGES

\* The meta data of a block names the clusters whose page is there, of the
\* current block in RAM, unless a mount found it half full.
Settled(c) == ~IsDirty(c) \/ ~unrooted
Closed(b) == b # root_table.reclaim /\ (b # Current.blk \/ pc = "reclaim")
MetaInv ==
  /\ \A b \in PmtBlock : Closed(b) => \A c \in Live(b) :
       /\ pmt[b][MAX_DIRTY_PAGES] \in MetaCell
       /\ Settled(c) /\ b \notin forgotten =>
            pmt[b][MAX_DIRTY_PAGES].clusters[root_table.map[c].pg] = c
  /\ pc # "off" /\ Current.blk \notin forgotten => \A c \in Live(Current.blk) :
       Settled(c) => meta_data[root_table.map[c].pg] = c
  /\ root_table.reclaim \notin forgotten

\* Dirty and live pages of a block make up the pages programmed.
Total(b) == block_dirty_table[b] + Cardinality(Live(b))
CountInv ==
  \A b \in PmtBlock :
    IF b = root_table.reclaim THEN Total(b) < PMT_CACHE_COUNT
    ELSE Total(b) = IF b = Current.blk THEN Current.pg ELSE MAX_DIRTY_PAGES

Invariants == Types /\ ControlInv /\ CacheInv /\ MapInv /\ BlockInv /\ MetaInv /\ CountInv
IInv == risks = {} => Invariants

(***************************************************************************)
(* Constants and small facts.                                              *)
(***************************************************************************)

LEMMA IntervalSize ==
  ASSUME NEW n \in Nat
  PROVE  /\ IsFiniteSet(0 .. n - 1) /\ Cardinality(0 .. n - 1) = n
         /\ IsFiniteSet(1 .. n) /\ Cardinality(1 .. n) = n
<1>1. 0 \in Int /\ n - 1 \in Int /\ 1 \in Int /\ n \in Int
  OBVIOUS
<1>2. /\ IsFiniteSet(0 .. n - 1)
      /\ Cardinality(0 .. n - 1) = IF 0 > n - 1 THEN 0 ELSE (n - 1) - 0 + 1
  BY <1>1, FS_Interval
<1>3. IsFiniteSet(1 .. n) /\ Cardinality(1 .. n) = IF 1 > n THEN 0 ELSE n - 1 + 1
  BY <1>1, FS_Interval
<1> QED
  BY <1>2, <1>3

\* A block has room for the clusters and for more than a cache.
LEMMA Constants ==
  /\ PPB \in Nat /\ MAX_DIRTY_PAGES \in Nat \ {0} /\ MAX_DIRTY_PAGES = PPB - 1
  /\ PMT_CACHE_COUNT \in Nat \ {0} /\ PMT_CACHE_COUNT <= MAX_DIRTY_PAGES
  /\ IsFiniteSet(Cluster) /\ Cardinality(Cluster) = MAX_DIRTY_PAGES
<1> DEFINE n == PMT_BLOCK_COUNT - 1
           k == MAX_DIRTY_PAGES - PMT_CACHE_COUNT + 1
<1>1. /\ MAX_DIRTY_PAGES \in Int /\ MAX_DIRTY_PAGES >= -1
      /\ n \in Int /\ n >= 2 /\ k \in Int
  BY PmtAssumption DEF MAX_DIRTY_PAGES
<1>2. /\ IsFiniteSet(Cluster) /\ Cardinality(Cluster) \in Nat
      /\ MAX_DIRTY_PAGES \in Nat => Cardinality(Cluster) = MAX_DIRTY_PAGES
  <2>1. CASE MAX_DIRTY_PAGES \in Nat
    BY <2>1, IntervalSize DEF Cluster, DataPage
  <2>2. CASE MAX_DIRTY_PAGES \notin Nat
    <3>1. Cluster = {}
      BY <1>1, <2>2 DEF Cluster, DataPage
    <3> QED
      BY <2>2, <3>1, FS_EmptySet
  <2> QED
    BY <2>1, <2>2
<1>3. n * k > 0
  BY <1>1, <1>2, PmtAssumption
<1>4. k > 0
  <2> HIDE DEF n, k
  <2> QED
    BY <1>1, <1>3
<1>5. PMT_CACHE_COUNT <= MAX_DIRTY_PAGES
  BY <1>1, <1>4, PmtAssumption
<1> QED
  BY <1>1, <1>2, <1>5, PmtAssumption DEF MAX_DIRTY_PAGES

LEMMA Ranges ==
  /\ Page = 0 .. MAX_DIRTY_PAGES /\ DataPage \subseteq Page
  /\ MAX_DIRTY_PAGES \in Page /\ MAX_DIRTY_PAGES \notin DataPage
  /\ Cluster = DataPage /\ 0 \in Cluster /\ DataPage \subseteq Nat
  /\ PmtBlock \subseteq Nat /\ {0, 1, 2} \subseteq PmtBlock
BY Constants, PmtAssumption DEF Page, DataPage, Cluster, PmtBlock

LEMMA ClusterSets ==
  ASSUME NEW S \in SUBSET Cluster
  PROVE  IsFiniteSet(S) /\ Cardinality(S) \in Nat /\ (Cardinality(S) = 0 <=> S = {})
BY Constants, FS_Subset, FS_CardinalityType, FS_EmptySet

\* Max and Min choose what they should.
LEMMA LeastExists ==
  ASSUME NEW S \in SUBSET Nat, S # {}
  PROVE  \E x \in S : \A y \in S : x <= y
<1>1. PICK x \in S : \A y \in S : ~(<<y, x>> \in OpToRel(<, Nat))
  BY NatLessThanWellFounded, WFMin
<1>2. ASSUME NEW y \in S PROVE x <= y
  <2>1. y < x => <<y, x>> \in OpToRel(<, Nat)
    BY DEF OpToRel
  <2>2. ~(y < x)
    BY <1>1, <2>1, Zenon
  <2> QED
    BY <2>2
<1> QED
  BY <1>2

LEMMA MinIsLeast ==
  ASSUME NEW S \in SUBSET Nat, S # {}
  PROVE  Min(S) \in S
BY LeastExists DEF Min

LEMMA MaxIsGreatest ==
  ASSUME NEW S \in SUBSET Nat, S # {}, NEW bound \in Nat, \A x \in S : x <= bound
  PROVE  Max(S) \in S /\ \A x \in S : x <= Max(S)
<1> DEFINE T == {bound - x : x \in S}
<1>1. T \in SUBSET Nat /\ T # {}
  <2>1. PICK x \in S : TRUE
    OBVIOUS
  <2>2. bound - x \in T
    BY <2>1
  <2>3. \A y \in S : bound - y \in Nat
    OBVIOUS
  <2> QED
    BY <2>2, <2>3
<1>2. PICK t \in T : \A u \in T : t <= u
  <2> HIDE DEF T
  <2> QED
    BY <1>1, LeastExists
<1>3. PICK x \in S : t = bound - x
  OBVIOUS
<1>4. \A y \in S : x >= y
  BY <1>2, <1>3
<1> QED
  BY <1>4 DEF Max

(***************************************************************************)
(* What follows from the types.                                            *)
(***************************************************************************)

LEMMA TypeFacts ==
  ASSUME Types
  PROVE  /\ root_table.map \in [Cluster -> Location]
         /\ Current.blk \in PmtBlock /\ Current.pg \in Nat /\ Current.pg <= MAX_DIRTY_PAGES
         /\ root_table.reclaim \in PmtBlock
         /\ \A c \in Cluster : /\ root_table.map[c].blk \in PmtBlock
                               /\ root_table.map[c].pg \in DataPage
                               /\ root_table.map[c] = [blk |-> root_table.map[c].blk,
                                                       pg |-> root_table.map[c].pg]
         /\ \A b \in PmtBlock : block_dirty_table[b] \in Nat
         /\ slot \in Nat /\ Len(cache) \in Nat /\ slot >= 1 /\ slot <= Len(cache) + 1
         /\ DOMAIN cache = 1 .. Len(cache)
         /\ \A i \in 1 .. Len(cache) : cache[i] \in Entry
         /\ \A i \in Slots : i \in Nat /\ i \in 1 .. Len(cache)
<1>1. root_table \in RootTable /\ block_dirty_table \in Counts
  BY DEF Types
<1>2. cache \in Seq(Entry) /\ slot \in 1 .. Len(cache) + 1
  BY DEF Types
<1>3. /\ Len(cache) \in Nat /\ DOMAIN cache = 1 .. Len(cache)
      /\ \A i \in 1 .. Len(cache) : cache[i] \in Entry
  BY <1>2
<1>4. /\ root_table.map \in [Cluster -> Location]
      /\ Current.blk \in PmtBlock /\ Current.pg \in 0 .. MAX_DIRTY_PAGES
      /\ root_table.reclaim \in PmtBlock
  BY <1>1 DEF RootTable, Current
<1>5. \A c \in Cluster : root_table.map[c] \in Location
  BY <1>4
<1> QED
  BY <1>1, <1>2, <1>3, <1>4, <1>5, Constants DEF Location, Counts, Slots

LEMMA EntryFacts ==
  ASSUME NEW e \in Entry
  PROVE  /\ e # EmptySlot => e.cluster \in Cluster /\ e.dirty \in BOOLEAN /\ e.cell \in NodeCell
         /\ e = EmptySlot => e.cluster \notin Cluster /\ ~e.dirty
         /\ e.dirty => e # EmptySlot
         /\ e.cluster \in Cluster => e # EmptySlot
BY Ranges DEF Entry, EmptySlot

LEMMA Kinds ==
  /\ Erased \notin NodeCell /\ Erased \notin MetaCell
  /\ \A c \in Cluster, v \in Nat : Node(c, v) \in NodeCell
  /\ \A m \in [DataPage -> Cluster] : Meta(m) \in MetaCell /\ Meta(m).clusters = m
BY DEF Erased, NodeCell, MetaCell, Node, Meta

LEMMA LiveSets ==
  ASSUME NEW b
  PROVE  Live(b) \in SUBSET Cluster /\ IsFiniteSet(Live(b)) /\ Cardinality(Live(b)) \in Nat
BY ClusterSets DEF Live

(***************************************************************************)
(* PMT_Format.                                                             *)
(***************************************************************************)

LEMMA InitInvariants == PMT_Format => Invariants
<1> SUFFICES ASSUME PMT_Format PROVE Invariants
  OBVIOUS
<1>1. /\ root_table.map = [c \in Cluster |-> [blk |-> 0, pg |-> c]]
      /\ Current = [blk |-> 1, pg |-> 0] /\ root_table.reclaim = 2
      /\ cache = <<>> /\ slot = 1 /\ pc = "idle" /\ ~unrooted /\ forgotten = {}
      /\ latest = [c \in Cluster |-> 0] /\ committed = latest /\ want = <<>>
      /\ flash_root = RootPage /\ meta_data = [p \in DataPage |-> p]
      /\ block_dirty_table = [b \in PmtBlock |-> IF b <= 2 THEN 0 ELSE MAX_DIRTY_PAGES]
  BY DEF PMT_Format, Current, RootPage
<1>2. Slots = {} /\ \A c \in Cluster : ~IsDirty(c)
  <2>1. Len(cache) = 0
    BY <1>1
  <2> QED
    BY <1>1, <2>1 DEF Slots, IsDirty
<1>3. /\ \A c \in Cluster : pmt[0][c] = Node(c, 0)
      /\ pmt[0][MAX_DIRTY_PAGES] = Meta([q \in DataPage |-> q])
      /\ \A b \in PmtBlock \ {0} : \A p \in Page : pmt[b][p] = Erased
  BY Ranges DEF PMT_Format, AllErased
<1>4. Types
  <2>1. pmt \in [PmtBlock -> [Page -> NodeCell \cup MetaCell \cup {Erased}]]
    <3>1. AllErased \in [Page -> NodeCell \cup MetaCell \cup {Erased}]
      BY DEF AllErased
    <3>2. Meta([q \in DataPage |-> q]) \in MetaCell
      BY Ranges, Kinds
    <3>3. \A p \in Page : p \in Cluster => Node(p, 0) \in NodeCell
      BY Kinds
    <3>4. [p \in Page |-> IF p \in Cluster THEN Node(p, 0) ELSE Meta([q \in DataPage |-> q])]
            \in [Page -> NodeCell \cup MetaCell \cup {Erased}]
      BY <3>2, <3>3
    <3> HIDE DEF AllErased
    <3> QED
      BY <3>1, <3>4 DEF PMT_Format
  <2>2. root_table \in RootTable
    <3>1. root_table = [map |-> [c \in Cluster |-> [blk |-> 0, pg |-> c]],
                        current |-> [blk |-> 1, pg |-> 0], reclaim |-> 2]
      BY DEF PMT_Format
    <3>2. [c \in Cluster |-> [blk |-> 0, pg |-> c]] \in [Cluster -> Location]
      BY Ranges DEF Location
    <3>3. 0 \in 0 .. MAX_DIRTY_PAGES
      BY Constants
    <3> QED
      BY <3>1, <3>2, <3>3, Ranges DEF RootTable
  <2>3. block_dirty_table \in Counts
    BY <1>1, Constants DEF Counts
  <2>4. flash_root \in [root : RootTable, bdt : Counts]
    BY <1>1, <2>2, <2>3 DEF RootPage
  <2>5. cache \in Seq(Entry) /\ Len(cache) <= PMT_CACHE_COUNT /\ slot \in 1 .. Len(cache) + 1
    BY <1>1, Constants
  <2>6. meta_data \in [DataPage -> Cluster]
    BY <1>1, Ranges
  <2>7. latest \in [Cluster -> Nat] /\ committed \in [Cluster -> Nat]
    BY <1>1
  <2>8. want \in {<<>>} \cup (Cluster \X BOOLEAN) /\ unrooted \in BOOLEAN
    BY <1>1 DEF PMT_Format
  <2>9. pc = "idle" /\ forgotten \subseteq PmtBlock
    BY <1>1
  <2> QED
    BY <2>1, <2>2, <2>3, <2>4, <2>5, <2>6, <2>7, <2>8, <2>9 DEF Types
<1>5. ControlInv
  BY <1>1 DEF ControlInv
<1>6. CacheInv
  BY <1>2 DEF CacheInv
<1>7. MapInv
  <2>1. \A c \in Cluster : CellAt(root_table.map[c]) = Node(c, 0)
    BY <1>1, <1>3 DEF CellAt
  <2> QED
    BY <1>1, <2>1 DEF MapInv
<1>8. /\ Live(0) = Cluster
      /\ \A b \in PmtBlock \ {0} : Live(b) = {}
  BY <1>1 DEF Live
<1>9. BlockInv
  BY <1>1, <1>3, <1>8, Ranges, Constants DEF BlockInv
<1>10. MetaInv
  <2>1. \A b \in PmtBlock : Closed(b) => \A c \in Live(b) :
          /\ pmt[b][MAX_DIRTY_PAGES] \in MetaCell
          /\ pmt[b][MAX_DIRTY_PAGES].clusters[root_table.map[c].pg] = c
    <3>1. Meta([q \in DataPage |-> q]) \in MetaCell
      BY Ranges, Kinds
    <3>2. Meta([q \in DataPage |-> q]).clusters = [q \in DataPage |-> q]
      BY DEF Meta
    <3>3. \A c \in Cluster : root_table.map[c].pg = c /\ c \in DataPage
      BY <1>1, Ranges
    <3> QED
      BY <1>3, <1>8, <3>1, <3>2, <3>3
  <2>2. Live(Current.blk) = {}
    BY <1>1, <1>8, Ranges
  <2> QED
    BY <1>1, <2>1, <2>2 DEF MetaInv
<1>11. CountInv
  <2>1. Cardinality(Live(0)) = MAX_DIRTY_PAGES
    BY <1>8, Constants
  <2>2. \A b \in PmtBlock \ {0} : Cardinality(Live(b)) = 0
    BY <1>8, FS_EmptySet
  <2>3. block_dirty_table[0] = 0 /\ block_dirty_table[1] = 0 /\ block_dirty_table[2] = 0
    BY <1>1, Ranges
  <2>4. \A b \in PmtBlock \ {0, 1, 2} : block_dirty_table[b] = MAX_DIRTY_PAGES
    BY <1>1 DEF PmtBlock
  <2> QED
    BY <1>1, <2>1, <2>2, <2>3, <2>4, Constants DEF CountInv, Total
<1> QED
  BY <1>4, <1>5, <1>6, <1>7, <1>9, <1>10, <1>11 DEF Invariants

(***************************************************************************)
(* Steps that leave the tables alone.                                      *)
(***************************************************************************)

\* A cluster that the commit has still to program stays so, and none is added
\* once pages are programmed.
LEMMA TablesKept ==
  ASSUME Types, Types', BlockInv, MetaInv, CountInv,
         UNCHANGED <<pmt, root_table, block_dirty_table, forgotten>>,
         meta_data' = meta_data \/ pc' = "off",
         pc \notin {"full", "reclaim"}, pc' \notin {"full", "reclaim"},
         pc = "off" => pc' = "off",
         \A c \in Cluster : Settled(c)' => Settled(c),
         \A c \in Cluster : IsDirty(c) /\ unrooted =>
           IsDirty(c)' /\ unrooted' /\ Len(cache') - slot' <= Len(cache) - slot
  PROVE  BlockInv' /\ MetaInv' /\ CountInv'
<1>1. /\ Current' = Current /\ \A b : Live(b)' = Live(b)
      /\ \A b : Closed(b)' = Closed(b) /\ Total(b)' = Total(b)
  BY DEF Current, Live, Closed, Total
<1>2. BlockInv'
  <2>1. \A c \in Live(root_table.reclaim) : c \in Cluster
    BY DEF Live
  <2>2. \A c \in Live(root_table.reclaim) :
          IsDirty(c)' /\ unrooted' /\ Current.pg + Len(cache') + 1 - slot' < MAX_DIRTY_PAGES
    <3>1. slot \in Int /\ slot' \in Int /\ Len(cache) \in Int /\ Len(cache') \in Int
      BY DEF Types
    <3>2. Current.pg \in Int /\ MAX_DIRTY_PAGES \in Int
      BY TypeFacts, Constants
    <3>3. \A c \in Live(root_table.reclaim) :
            IsDirty(c) /\ unrooted /\ Current.pg + Len(cache) + 1 - slot < MAX_DIRTY_PAGES
      BY DEF BlockInv
    <3>4. \A c \in Live(root_table.reclaim) :
            IsDirty(c)' /\ unrooted' /\ Len(cache') - slot' <= Len(cache) - slot
      BY <2>1, <3>3
    <3> QED
      BY <3>1, <3>2, <3>3, <3>4, SMTT(30)
  <2> QED
    BY <1>1, <2>2 DEF BlockInv
<1>3. MetaInv'
  <2>1. \A b : \A c \in Live(b) : Settled(c)' => Settled(c)
    BY DEF Live
  <2> QED
    BY <1>1, <2>1 DEF MetaInv
<1>4. CountInv'
  BY <1>1 DEF CountInv
<1> QED
  BY <1>2, <1>3, <1>4

(***************************************************************************)
(* PMT_Load, PMT_Update and PMT_Search.                                    *)
(***************************************************************************)

\* Entry k of the cache is, or becomes, the one of cluster c.
LEMMA PutStep ==
  ASSUME Invariants, pc \in {"idle", "load"}, pc' = "idle", want' \in {want, <<>>},
         UNCHANGED <<pmt, flash_root, root_table, block_dirty_table, meta_data, slot,
                     committed, unrooted, forgotten>>,
         NEW c \in Cluster, NEW k \in 1 .. PMT_CACHE_COUNT,
         cache' \in Seq(Entry), Len(cache') \in Nat, Len(cache') <= PMT_CACHE_COUNT,
         1 .. Len(cache') = (1 .. Len(cache)) \cup {k},
         \A i \in 1 .. Len(cache) : i # k => cache'[i] = cache[i] /\ cache[i].cluster # c,
         k \in 1 .. Len(cache) => cache[k].cluster = c,
         cache'[k].cluster = c, cache'[k] # EmptySlot,
         latest' \in [Cluster -> Nat], cache'[k].cell = Node(c, latest'[c]),
         \A x \in Cluster : x # c => latest'[x] = latest[x],
         ~cache'[k].dirty => latest'[c] = latest[c] /\ ~IsDirty(c)
  PROVE  Invariants'
<1> USE DEF Invariants
<1>1. slot = 1 /\ slot' = 1 /\ ~unrooted /\ ~unrooted'
  BY DEF ControlInv
<1>2. Slots = 1 .. Len(cache) /\ Slots' = Slots \cup {k}
  BY <1>1 DEF Slots
<1>3. \A i \in Slots : cache[i] # EmptySlot
  <2>1. CASE pc = "idle"
    BY <2>1 DEF CacheInv
  <2>2. CASE pc = "load"
    <3>1. Len(cache) = 0
      BY <2>2 DEF ControlInv
    <3> QED
      BY <3>1, <1>2
  <2> QED
    BY <2>1, <2>2, Zenon
<1>4. \A x \in Cluster : x # c => (IsDirty(x)' <=> IsDirty(x))
  <2>1. \A i \in Slots : i # k => cache'[i] = cache[i]
    BY <1>2
  <2>2. ASSUME NEW x \in Cluster, x # c, IsDirty(x)
        PROVE  IsDirty(x)'
    BY <1>2, <2>1, <2>2 DEF IsDirty
  <2>3. ASSUME NEW x \in Cluster, x # c, IsDirty(x)'
        PROVE  IsDirty(x)
    BY <1>2, <2>1, <2>3 DEF IsDirty
  <2> QED
    BY <2>2, <2>3
<1>5. \A x \in Cluster : ~IsDirty(x)' => ~IsDirty(x) /\ latest'[x] = latest[x]
  <2>1. cache'[k].dirty => IsDirty(c)'
    BY <1>2 DEF IsDirty
  <2> QED
    BY <1>4, <2>1
<1>6. Types'
  <2>1. slot' \in 1 .. Len(cache') + 1
    BY <1>1
  <2>2. want' \in {<<>>} \cup (Cluster \X BOOLEAN)
    BY DEF Types
  <2> QED
    BY <2>1, <2>2 DEF Types
<1>7. ControlInv'
  BY <1>1 DEF ControlInv
<1>8. CacheInv'
  <2>1. \A i \in Slots : cache[i].cell = Node(cache[i].cluster, latest[cache[i].cluster])
                         /\ cache[i].cluster \in Cluster
    <3>1. \A i \in Slots : cache[i] \in Entry
      BY <1>2, TypeFacts
    <3> QED
      BY <1>3, <3>1, EntryFacts DEF CacheInv
  <2>2. \A i \in Slots' : /\ cache'[i] # EmptySlot
                          /\ cache'[i].cell = Node(cache'[i].cluster, latest'[cache'[i].cluster])
    BY <1>2, <1>3, <2>1, SMTT(30)
  <2>3. \A i, j \in Slots' : cache'[i].cluster = cache'[j].cluster => i = j
    BY <1>2, <1>3 DEF CacheInv
  <2> QED
    BY <2>2, <2>3 DEF CacheInv
<1>9. MapInv'
  <2>1. \A x : CellAt(x)' = CellAt(x)
    BY DEF CellAt
  <2> QED
    BY <1>1, <1>5, <2>1 DEF MapInv, RootPage
<1>10. BlockInv' /\ MetaInv' /\ CountInv'
  BY <1>1, <1>6, TablesKept DEF Settled
<1> QED
  BY <1>6, <1>7, <1>8, <1>9, <1>10

LEMMA MakeEntry ==
  ASSUME NEW c \in Cluster, NEW d \in BOOLEAN, NEW x \in NodeCell
  PROVE  [cluster |-> c, dirty |-> d, cell |-> x] \in Entry
BY DEF Entry

LEMMA NewerType ==
  ASSUME Types, NEW c \in Cluster
  PROVE  Newer(c) \in Nat
<1>1. latest[c] \in Nat
  BY DEF Types
<1> QED
  BY <1>1 DEF Newer

LEMMA LoadStep ==
  ASSUME Invariants, pc \in {"idle", "load"}, pc' = "idle", want' \in {want, <<>>},
         UNCHANGED <<pmt, flash_root, root_table, block_dirty_table, meta_data, slot,
                     committed, unrooted, forgotten>>,
         NEW c \in Cluster, NEW update \in BOOLEAN, ~IsCached(c),
         Len(cache) < PMT_CACHE_COUNT, Load(c, update)
  PROVE  Invariants'
<1> DEFINE e == [cluster |-> c, dirty |-> FALSE, cell |-> CellAt(root_table.map[c])]
           f == IF update THEN Updated(e) ELSE e
           k == Len(cache) + 1
<1>1. Types /\ slot = 1
  BY DEF Invariants, ControlInv
<1>2. ~IsDirty(c)
  BY DEF IsDirty, IsCached
<1>3. /\ f.cluster = c /\ f.dirty = update /\ f.cell = Node(c, latest'[c])
      /\ latest' \in [Cluster -> Nat]
      /\ \A x \in Cluster : x # c => latest'[x] = latest[x]
      /\ ~update => latest'[c] = latest[c]
  <2>1. latest' = IF update THEN [latest EXCEPT ![c] = Newer(c)] ELSE latest
    BY <1>2 DEF Load, LatestAfter
  <2>2. latest \in [Cluster -> Nat]
    BY <1>1 DEF Types
  <2>3. CellAt(root_table.map[c]) = Node(c, latest[c])
    BY <1>2 DEF Invariants, MapInv
  <2>4. CASE update
    BY <2>1, <2>2, <2>4, <1>1, NewerType DEF Updated
  <2>5. CASE ~update
    BY <2>1, <2>2, <2>3, <2>5
  <2> QED
    BY <2>4, <2>5
<1>4. f \in Entry /\ f # EmptySlot
  <2>1. f = [cluster |-> c, dirty |-> update, cell |-> Node(c, latest'[c])]
    BY <1>3 DEF Updated
  <2>2. Node(c, latest'[c]) \in NodeCell
    BY <1>3, Kinds
  <2>3. f \in Entry
    BY <2>1, <2>2 DEF Entry
  <2> HIDE DEF f
  <2> QED
    BY <1>3, <2>3, EntryFacts
<1>5. cache' = Append(cache, f) /\ cache \in Seq(Entry)
  BY <1>1 DEF Load, Types
<1> HIDE DEF f
<1>6. /\ cache' \in Seq(Entry) /\ Len(cache') = Len(cache) + 1
      /\ \A i \in 1 .. Len(cache) : cache'[i] = cache[i]
      /\ cache'[k] = f
  BY <1>4, <1>5, AppendProperties
<1>7. Len(cache) \in Nat /\ k \in 1 .. PMT_CACHE_COUNT
  BY <1>5, Constants
<1>8. \A i \in 1 .. Len(cache) : i # k /\ cache[i].cluster # c
  BY <1>1, <1>7 DEF IsCached, Slots
<1>9. 1 .. Len(cache') = (1 .. Len(cache)) \cup {k} /\ k \notin 1 .. Len(cache)
      /\ Len(cache') \in Nat /\ Len(cache') <= PMT_CACHE_COUNT
  BY <1>6, <1>7, Constants
<1> HIDE DEF k
<1> QED
  BY <1>2, <1>3, <1>4, <1>6, <1>7, <1>8, <1>9, PutStep

LEMMA HitStep ==
  ASSUME Invariants, pc = "idle", pc' = "idle", want' = want,
         UNCHANGED <<pmt, flash_root, root_table, block_dirty_table, meta_data, slot,
                     committed, unrooted, forgotten>>,
         NEW c \in Cluster, NEW update \in BOOLEAN, IsCached(c),
         cache' = [i \in DOMAIN cache |-> IF update /\ cache[i].cluster = c
                                          THEN Updated(cache[i]) ELSE cache[i]],
         latest' = LatestAfter(c, update)
  PROVE  Invariants'
<1>1. Types /\ slot = 1 /\ CacheInv
  BY DEF Invariants, ControlInv
<1>2. /\ Slots = 1 .. Len(cache) /\ DOMAIN cache = 1 .. Len(cache)
      /\ Len(cache) \in Nat /\ Len(cache) <= PMT_CACHE_COUNT /\ cache \in Seq(Entry)
  BY <1>1, TypeFacts DEF Slots, Types
<1>3. PICK k \in 1 .. Len(cache) : cache[k].cluster = c
  BY <1>2 DEF IsCached
<1>4. \A i \in 1 .. Len(cache) : cache[i] \in Entry /\ cache[i] # EmptySlot
  BY <1>1, <1>2 DEF CacheInv
<1>5. \A i \in 1 .. Len(cache) : i # k => cache[i].cluster # c
  BY <1>1, <1>2, <1>3, <1>4 DEF CacheInv
<1>6. IsDirty(c) <=> cache[k].dirty
  BY <1>2, <1>3, <1>5 DEF IsDirty
<1>7. cache[k].cell = Node(c, latest[c]) /\ cache[k].dirty \in BOOLEAN /\ cache[k].cell \in NodeCell
  BY <1>1, <1>2, <1>3, <1>4, EntryFacts DEF CacheInv
<1>8. latest \in [Cluster -> Nat]
  BY <1>1 DEF Types
<1>9. CASE update /\ ~cache[k].dirty
  <2>1. latest' = [latest EXCEPT ![c] = Newer(c)]
    BY <1>6, <1>9 DEF LatestAfter
  <2>2. latest' \in [Cluster -> Nat] /\ latest'[c] = Newer(c) /\ Newer(c) \in Nat
    BY <2>1, <1>1, <1>8, NewerType
  <2>3. cache'[k] = [cluster |-> c, dirty |-> TRUE, cell |-> Node(c, Newer(c))]
    BY <1>2, <1>3, <1>9 DEF Updated
  <2>5. Node(c, Newer(c)) \in NodeCell
    BY <2>2, Kinds
  <2>6. /\ cache'[k] \in Entry /\ cache'[k].cluster = c /\ cache'[k].dirty
        /\ cache'[k].cell = Node(c, Newer(c))
    <3>1. cache'[k] \in Entry
      BY <2>3, <2>5, MakeEntry
    <3> QED
      BY <2>3, <3>1
  <2>7. cache'[k] # EmptySlot
    BY <2>6, EntryFacts
  <2>8. \A i \in 1 .. Len(cache) : i # k => cache'[i] = cache[i]
    BY <1>2, <1>5
  <2>9. /\ cache' \in Seq(Entry) /\ Len(cache') = Len(cache)
    <3>1. \A i \in 1 .. Len(cache) : cache'[i] \in Entry
      BY <2>6, <2>8, <1>4
    <3>2. cache' = [i \in 1 .. Len(cache) |-> cache'[i]]
      BY <1>2
    <3>3. cache' \in [1 .. Len(cache) -> Entry]
      BY <3>1, <3>2
    <3> QED
      BY <1>2, <3>3
  <2>10. k \in 1 .. PMT_CACHE_COUNT /\ 1 .. Len(cache') = (1 .. Len(cache)) \cup {k}
    BY <1>2, <1>3, <2>9, Constants
  <2>11. \A x \in Cluster : x # c => latest'[x] = latest[x]
    BY <2>1, <1>8
  <2>12. /\ Len(cache') \in Nat /\ Len(cache') <= PMT_CACHE_COUNT
         /\ cache'[k].cell = Node(c, latest'[c])
         /\ ~cache'[k].dirty => latest'[c] = latest[c] /\ ~IsDirty(c)
    BY <1>2, <2>2, <2>6, <2>9
  <2> QED
    BY <1>3, <1>5, <2>2, <2>6, <2>7, <2>8, <2>9, <2>10, <2>11, <2>12, PutStep, SMTT(60)
<1>10. CASE ~update \/ cache[k].dirty
  <2>1. latest' = latest
    BY <1>6, <1>10 DEF LatestAfter
  <2>2. cache' = cache
    <3>1. \A i \in DOMAIN cache : cache'[i] = cache[i]
      BY <1>2, <1>5, <1>10 DEF Updated
    <3>2. cache = [i \in DOMAIN cache |-> cache[i]]
      BY <1>2
    <3>3. cache' = [i \in DOMAIN cache |-> cache'[i]]
      OBVIOUS
    <3> QED
      BY <3>1, <3>2, <3>3
  <2>3. k \in 1 .. PMT_CACHE_COUNT /\ 1 .. Len(cache') = (1 .. Len(cache)) \cup {k}
    BY <1>2, <1>3, <2>2, Constants
  <2>4. /\ cache' \in Seq(Entry) /\ Len(cache') \in Nat /\ Len(cache') <= PMT_CACHE_COUNT
        /\ cache'[k].cluster = c /\ cache'[k] # EmptySlot
        /\ latest' \in [Cluster -> Nat] /\ cache'[k].cell = Node(c, latest'[c])
        /\ ~cache'[k].dirty => latest'[c] = latest[c] /\ ~IsDirty(c)
        /\ \A x \in Cluster : x # c => latest'[x] = latest[x]
    BY <1>2, <1>3, <1>4, <1>6, <1>7, <1>8, <2>1, <2>2
  <2> QED
    BY <1>3, <1>5, <2>2, <2>3, <2>4, PutStep
<1> QED
  BY <1>7, <1>9, <1>10

\* A commit starts: all that changes is what the firmware does next.
LEMMA StartStep ==
  ASSUME Invariants, pc = "idle", pc' = "pmt",
         want' \in {<<>>} \cup (Cluster \X BOOLEAN),
         UNCHANGED <<pmt, flash_root, root_table, block_dirty_table, cache, meta_data,
                     slot, latest, committed, unrooted, forgotten>>
  PROVE  Invariants'
<1> USE DEF Invariants
<1>1. Slots' = Slots /\ \A c : IsDirty(c)' = IsDirty(c)
  BY DEF Slots, IsDirty
<1>2. Types'
  BY DEF Types
<1>3. ControlInv'
  BY DEF ControlInv
<1>4. CacheInv'
  BY <1>1 DEF CacheInv
<1>5. MapInv'
  BY <1>1 DEF MapInv, CellAt, RootPage
<1>6. \A c : Settled(c)' = Settled(c)
  BY <1>1 DEF Settled
<1>7. BlockInv' /\ MetaInv' /\ CountInv'
  <2>1. Len(cache') - slot' <= Len(cache) - slot
    BY TypeFacts
  <2> QED
    BY <1>1, <1>2, <1>6, <2>1, TablesKept
<1> QED
  BY <1>2, <1>3, <1>4, <1>5, <1>7

LEMMA AccessStep ==
  ASSUME Invariants, NEW c \in Cluster, NEW update \in BOOLEAN, Access(c, update)
  PROVE  Invariants'
<1>1. /\ pc = "idle"
      /\ UNCHANGED <<pmt, flash_root, root_table, block_dirty_table, meta_data, slot,
                     committed, unrooted, forgotten>>
  BY DEF Access
<1>2. CASE /\ IsCached(c)
           /\ cache' = [i \in DOMAIN cache |-> IF update /\ cache[i].cluster = c
                                               THEN Updated(cache[i]) ELSE cache[i]]
           /\ latest' = LatestAfter(c, update)
           /\ UNCHANGED <<pc, want>>
  BY <1>1, <1>2, HitStep
<1>3. CASE /\ ~IsCached(c) /\ Len(cache) < PMT_CACHE_COUNT
           /\ Load(c, update)
           /\ UNCHANGED <<pc, want>>
  BY <1>1, <1>3, LoadStep
<1>4. CASE pc' = "pmt" /\ want' = <<c, update>> /\ UNCHANGED <<cache, latest>>
  BY <1>1, <1>4, StartStep
<1> QED
  BY <1>2, <1>3, <1>4 DEF Access

LEMMA LoadAfterCommitStep ==
  ASSUME Invariants, LoadAfterCommit
  PROVE  Invariants'
<1>1. /\ pc = "load" /\ pc' = "idle" /\ want' = <<>>
      /\ UNCHANGED <<pmt, flash_root, root_table, block_dirty_table, meta_data, slot,
                     committed, unrooted, forgotten>>
      /\ Load(want[1], want[2])
  BY DEF LoadAfterCommit
<1>2. cache = <<>> /\ want # <<>> /\ want \in {<<>>} \cup (Cluster \X BOOLEAN)
  BY <1>1 DEF Invariants, ControlInv, Types
<1>3. want[1] \in Cluster /\ want[2] \in BOOLEAN
  BY <1>2
<1>4. Len(cache) = 0
  BY <1>2
<1>5. ~IsCached(want[1])
  <2>1. \A i \in Slots : i \in 1 .. Len(cache)
    BY TypeFacts DEF Invariants
  <2> QED
    BY <2>1, <1>4 DEF IsCached
<1>6. Len(cache) < PMT_CACHE_COUNT
  BY <1>4, Constants
<1> QED
  BY <1>1, <1>3, <1>5, <1>6, LoadStep

LEMMA CommitStep ==
  ASSUME Invariants, Commit
  PROVE  Invariants'
<1>1. want \in {<<>>} \cup (Cluster \X BOOLEAN)
  BY DEF Invariants, Types
<1> QED
  BY <1>1, StartStep DEF Commit, ram, past

(***************************************************************************)
(* PMT_Commit.                                                             *)
(***************************************************************************)

LEMMA CommitCleanStep ==
  ASSUME Invariants, CommitClean
  PROVE  Invariants'
<1> USE DEF Invariants
<1>1. /\ pc = "pmt" /\ pc' = "pmt" /\ slot <= Len(cache) /\ ~cache[slot].dirty
      /\ slot' = slot + 1
      /\ UNCHANGED <<pmt, flash_root, root_table, block_dirty_table, cache, meta_data, want,
                     latest, committed, unrooted, forgotten>>
  BY DEF CommitClean, past
<1>2. slot \in Nat /\ Len(cache) \in Nat /\ slot >= 1
  BY TypeFacts
<1>3. Slots' = Slots \ {slot} /\ slot \in Slots
  BY <1>1, <1>2 DEF Slots
<1>4. \A c : IsDirty(c)' <=> IsDirty(c)
  BY <1>1, <1>3 DEF IsDirty
<1>5. Types'
  <2>1. slot' \in 1 .. Len(cache') + 1
    BY <1>1, <1>2
  <2> QED
    BY <1>1, <2>1 DEF Types
<1>6. ControlInv'
  BY <1>1 DEF ControlInv
<1>7. CacheInv'
  BY <1>1, <1>3 DEF CacheInv
<1>8. MapInv'
  BY <1>1, <1>4 DEF MapInv, CellAt, RootPage
<1>9. \A c : Settled(c)' => Settled(c)
  BY <1>1, <1>4 DEF Settled
<1>10. BlockInv' /\ MetaInv' /\ CountInv'
  <2>1. Len(cache') - slot' <= Len(cache) - slot
    BY <1>1, <1>2
  <2> QED
    BY <1>1, <1>4, <1>5, <1>9, <2>1, TablesKept
<1> QED
  BY <1>5, <1>6, <1>7, <1>8, <1>10

LEMMA CommitRootStep ==
  ASSUME Invariants, CommitRoot
  PROVE  Invariants'
<1> USE DEF Invariants
<1>1. /\ pc = "pmt" /\ slot > Len(cache) /\ flash_root' = RootPage
      /\ cache' = <<>> /\ slot' = 1
      /\ pc' = IF want = <<>> THEN "idle" ELSE "load"
      /\ committed' = latest /\ unrooted' = FALSE
      /\ UNCHANGED <<pmt, root_table, block_dirty_table, meta_data, want, latest, forgotten>>
  BY DEF CommitRoot
<1>2. slot \in Nat /\ Len(cache) \in Nat /\ Slots = {}
  BY <1>1, TypeFacts DEF Slots
<1>3. Len(cache') = 0 /\ Slots' = {}
  BY <1>1 DEF Slots
<1>4. \A c : ~IsDirty(c) /\ ~IsDirty(c)' /\ Settled(c)
  BY <1>2, <1>3 DEF IsDirty, Settled
<1>5. Types'
  <2>1. flash_root' \in [root : RootTable, bdt : Counts]
    BY <1>1 DEF RootPage, Types
  <2>2. cache' \in Seq(Entry) /\ Len(cache') <= PMT_CACHE_COUNT
    BY <1>1, <1>3, Constants
  <2>3. slot' \in 1 .. Len(cache') + 1
    BY <1>1, <1>3
  <2>4. unrooted' \in BOOLEAN
    BY <1>1
  <2> QED
    BY <1>1, <2>1, <2>2, <2>3, <2>4 DEF Types
<1>6. ControlInv'
  BY <1>1 DEF ControlInv
<1>7. CacheInv'
  BY <1>3 DEF CacheInv
<1>8. MapInv'
  <2>1. \A c \in Cluster : CellAt(root_table.map[c])' = Node(c, latest[c])
    BY <1>1, <1>4 DEF MapInv, CellAt
  <2>2. flash_root' = RootPage'
    BY <1>1 DEF RootPage
  <2> QED
    BY <1>1, <2>1, <2>2 DEF MapInv
<1>9. BlockInv' /\ MetaInv' /\ CountInv'
  BY <1>1, <1>4, <1>5, TablesKept
<1> QED
  BY <1>5, <1>6, <1>7, <1>8, <1>9

LEMMA ProgramMetaStep ==
  ASSUME Invariants, ProgramMeta
  PROVE  Invariants'
<1> USE DEF Invariants
<1> DEFINE b == Current.blk
<1>1. /\ pc = "full" /\ UNCHANGED <<flash_root, root_table, block_dirty_table, cache, meta_data,
                                   slot, want, latest, committed, unrooted, forgotten>>
  BY DEF ProgramMeta, ram, past
<1>2. /\ b \in PmtBlock /\ b # root_table.reclaim /\ Current.pg = MAX_DIRTY_PAGES
      /\ pmt[b][MAX_DIRTY_PAGES] = Erased
  BY <1>1, TypeFacts, Ranges DEF BlockInv
<1>3. pmt' = [pmt EXCEPT ![b][MAX_DIRTY_PAGES] = Meta(meta_data)] /\ pc' = "reclaim"
  BY <1>2 DEF ProgramMeta, Current
<1>4. /\ meta_data \in [DataPage -> Cluster]
      /\ Meta(meta_data) \in MetaCell /\ Meta(meta_data).clusters = meta_data
  BY Kinds DEF Types
<1>5. /\ pmt'[b][MAX_DIRTY_PAGES] = Meta(meta_data)
      /\ \A x \in PmtBlock : \A p \in Page : x # b \/ p # MAX_DIRTY_PAGES => pmt'[x][p] = pmt[x][p]
  BY <1>2, <1>3, Ranges DEF Types
<1>6. /\ \A c \in Cluster : CellAt(root_table.map[c])' = CellAt(root_table.map[c])
      /\ \A p \in Page : pmt'[root_table.reclaim][p] = pmt[root_table.reclaim][p]
  <2>1. \A c \in Cluster : /\ root_table.map[c].blk \in PmtBlock
                            /\ root_table.map[c].pg \in Page
                            /\ root_table.map[c].pg # MAX_DIRTY_PAGES
    BY TypeFacts, Ranges
  <2>2. \A c \in Cluster : CellAt(root_table.map[c])' = CellAt(root_table.map[c])
    <3> HIDE DEF b
    <3> QED
      BY <1>1, <1>5, <2>1 DEF CellAt
  <2>3. root_table.reclaim \in PmtBlock
    BY TypeFacts
  <2> QED
    BY <1>2, <1>5, <2>2, <2>3
<1>7. Slots' = Slots /\ \A c : IsDirty(c)' = IsDirty(c)
  BY <1>1 DEF Slots, IsDirty
<1>8. /\ Current' = Current /\ \A x : Live(x)' = Live(x) /\ Total(x)' = Total(x)
      /\ \A c : Settled(c)' = Settled(c)
  BY <1>1, <1>7 DEF Current, Live, Total, Settled
<1>9. Types'
  <2>1. pmt' \in [PmtBlock -> [Page -> NodeCell \cup MetaCell \cup {Erased}]]
    <3> HIDE DEF b
    <3> QED
      BY <1>3, <1>4 DEF Types
  <2> QED
    BY <1>1, <1>3, <2>1 DEF Types
<1>10. ControlInv'
  BY <1>1, <1>3 DEF ControlInv
<1>11. CacheInv'
  BY <1>1, <1>3, <1>7 DEF CacheInv
<1>12. MapInv'
  BY <1>1, <1>6, <1>7 DEF MapInv, RootPage
<1>13. BlockInv'
  BY <1>1, <1>3, <1>6, <1>7, <1>8 DEF BlockInv
<1>14. MetaInv'
  <2>1. \A x \in PmtBlock : Closed(x)' => \A c \in Live(x) :
          /\ pmt'[x][MAX_DIRTY_PAGES] \in MetaCell
          /\ Settled(c) /\ x \notin forgotten =>
               pmt'[x][MAX_DIRTY_PAGES].clusters[root_table.map[c].pg] = c
    <3> SUFFICES ASSUME NEW x \in PmtBlock, Closed(x)', NEW c \in Live(x)
                 PROVE  /\ pmt'[x][MAX_DIRTY_PAGES] \in MetaCell
                        /\ Settled(c) /\ x \notin forgotten =>
                             pmt'[x][MAX_DIRTY_PAGES].clusters[root_table.map[c].pg] = c
      OBVIOUS
    <3>1. CASE x = b
      <4>1. Settled(c) /\ x \notin forgotten => meta_data[root_table.map[c].pg] = c
        BY <1>1, <3>1 DEF MetaInv
      <4> QED
        BY <1>4, <1>5, <3>1, <4>1
    <3>2. CASE x # b
      <4>1. Closed(x)
        BY <1>1, <3>2 DEF Closed
      <4>2. pmt'[x][MAX_DIRTY_PAGES] = pmt[x][MAX_DIRTY_PAGES]
        BY <1>5, <3>2, Ranges
      <4> QED
        BY <4>1, <4>2 DEF MetaInv
    <3> QED
      BY <3>1, <3>2
  <2> QED
    BY <1>1, <1>3, <1>8, <2>1 DEF MetaInv
<1>15. CountInv'
  BY <1>1, <1>8 DEF CountInv
<1> QED
  BY <1>9, <1>10, <1>11, <1>12, <1>13, <1>14, <1>15

(***************************************************************************)
(* Power loss and mount.                                                   *)
(***************************************************************************)

LEMMA PowerLossStep ==
  ASSUME Invariants, PowerLoss, risks' = {}
  PROVE  Invariants'
<1> USE DEF Invariants
<1>1. /\ ~unrooted /\ pc' = "off" /\ pc \notin {"off", "hung"}
      /\ root_table' = flash_root.root /\ block_dirty_table' = flash_root.bdt
      /\ cache' = <<>> /\ slot' = 1 /\ want' = <<>> /\ meta_data' = [p \in DataPage |-> 0]
      /\ latest' = committed /\ unrooted' = FALSE
      /\ UNCHANGED <<pmt, flash_root, committed, forgotten>>
  BY DEF PowerLoss
<1>2. root_table' = root_table /\ block_dirty_table' = block_dirty_table
  BY <1>1 DEF MapInv, RootPage
<1>3. pc \notin {"full", "reclaim"}
  BY <1>1 DEF ControlInv
<1>4. Len(cache') = 0 /\ Slots' = {}
  BY <1>1 DEF Slots
<1>5. \A c : ~IsDirty(c)' /\ Settled(c)
  BY <1>1, <1>4 DEF IsDirty, Settled
<1>6. Types'
  <2>1. cache' \in Seq(Entry) /\ Len(cache') <= PMT_CACHE_COUNT /\ slot' \in 1 .. Len(cache') + 1
    BY <1>1, <1>4, Constants
  <2>2. meta_data' \in [DataPage -> Cluster]
    BY <1>1, Ranges
  <2>3. latest' \in [Cluster -> Nat] /\ unrooted' \in BOOLEAN
    BY <1>1 DEF Types
  <2> QED
    BY <1>1, <1>2, <2>1, <2>2, <2>3 DEF Types
<1>7. ControlInv'
  BY <1>1 DEF ControlInv
<1>8. CacheInv'
  BY <1>1, <1>4 DEF CacheInv
<1>9. MapInv'
  BY <1>1, <1>2 DEF MapInv, CellAt, RootPage
<1>10. BlockInv' /\ MetaInv' /\ CountInv'
  BY <1>1, <1>2, <1>3, <1>5, <1>6, TablesKept
<1> QED
  BY <1>6, <1>7, <1>8, <1>9, <1>10

LEMMA FTL_InitStep ==
  ASSUME Invariants, FTL_Init
  PROVE  Invariants'
<1> USE DEF Invariants
<1>1. /\ pc = "off" /\ pc' = "idle"
      /\ forgotten' = IF Current.pg > 0 THEN forgotten \cup {Current.blk} ELSE forgotten
      /\ UNCHANGED <<pmt, flash_root, root_table, block_dirty_table, cache, meta_data, slot,
                     want, latest, committed, unrooted>>
  BY DEF FTL_Init, ram, Current
<1>2. Slots' = Slots /\ \A c : IsDirty(c)' = IsDirty(c) /\ Settled(c)' = Settled(c)
  BY <1>1 DEF Slots, IsDirty, Settled
<1>3. /\ Current' = Current /\ \A b : Live(b)' = Live(b) /\ Total(b)' = Total(b)
      /\ \A b : Closed(b)' = Closed(b)
  BY <1>1 DEF Current, Live, Total, Closed
<1>4. ~unrooted /\ cache = <<>> /\ slot = 1
  BY <1>1 DEF ControlInv
<1>5. Types'
  <2>1. forgotten' \subseteq PmtBlock
    BY <1>1, TypeFacts DEF Types
  <2> QED
    BY <1>1, <2>1 DEF Types
<1>6. ControlInv'
  BY <1>1 DEF ControlInv
<1>7. CacheInv'
  <2>1. Len(cache) = 0
    BY <1>4
  <2>2. Slots = {}
    BY <2>1, <1>4 DEF Slots
  <2> QED
    BY <1>2, <2>2 DEF CacheInv
<1>8. MapInv'
  BY <1>1, <1>2 DEF MapInv, CellAt, RootPage
<1>9. BlockInv'
  BY <1>1, <1>2, <1>3 DEF BlockInv
<1>10. MetaInv'
  <2>1. Current.blk \notin forgotten' => Live(Current.blk) = {}
    <3>1. Current.pg \in Nat
      BY TypeFacts
    <3>2. \A c \in Live(Current.blk) : root_table.map[c].pg < Current.pg
                                       /\ root_table.map[c].pg \in Nat
      BY TypeFacts, Ranges DEF BlockInv, Live
    <3> QED
      BY <1>1, <3>1, <3>2
  <2>2. \A b : b \notin forgotten' => b \notin forgotten
    BY <1>1
  <2>3. root_table.reclaim \notin forgotten'
    BY <1>1 DEF MetaInv, BlockInv
  <2> QED
    BY <1>1, <1>2, <1>3, <2>1, <2>2, <2>3 DEF MetaInv
<1>11. CountInv'
  BY <1>1, <1>3 DEF CountInv
<1> QED
  BY <1>5, <1>6, <1>7, <1>8, <1>9, <1>10, <1>11

(***************************************************************************)
(* CommitDirty.                                                            *)
(***************************************************************************)

\* What the step does to the tables: cluster c goes to the next page.
LEMMA CommitDirtyEffect ==
  ASSUME Invariants, CommitDirty
  PROVE  LET c == cache[slot].cluster
             old == root_table.map[c].blk
         IN  /\ c \in Cluster /\ slot \in Slots /\ IsDirty(c) /\ old \in PmtBlock
             /\ Current.pg < MAX_DIRTY_PAGES /\ Current.pg \in DataPage
             /\ pmt[Current.blk][Current.pg] = Erased
             /\ pmt' = [pmt EXCEPT ![Current.blk][Current.pg] = Node(c, latest[c])]
             /\ root_table' = [map |-> [root_table.map EXCEPT ![c] = Current],
                               current |-> [blk |-> Current.blk, pg |-> Current.pg + 1],
                               reclaim |-> root_table.reclaim]
             /\ Current = [blk |-> Current.blk, pg |-> Current.pg]
             /\ block_dirty_table' = [block_dirty_table EXCEPT ![old] = @ + 1]
             /\ meta_data' = [p \in DataPage |-> IF p = Current.pg THEN c ELSE meta_data[p]]
             /\ pc = "pmt"
             /\ pc' = IF Current.pg + 1 = MAX_DIRTY_PAGES THEN "full" ELSE "pmt"
             /\ slot' = slot + 1 /\ unrooted'
             /\ UNCHANGED <<flash_root, cache, want, latest, committed, forgotten>>
<1> USE DEF Invariants
<1> DEFINE c == cache[slot].cluster
           old == root_table.map[c].blk
<1>1. /\ pc = "pmt" /\ slot <= Len(cache) /\ cache[slot].dirty
      /\ slot' = slot + 1 /\ unrooted' = TRUE
      /\ UNCHANGED <<flash_root, cache, want, latest, committed, forgotten>>
      /\ pmt' = [pmt EXCEPT ![Current.blk][Current.pg] = cache[slot].cell]
      /\ meta_data' = [p \in DataPage |-> IF p = Current.pg THEN c ELSE meta_data[p]]
      /\ root_table' = [root_table EXCEPT !.map[c] = Current, !.current.pg = @ + 1]
      /\ block_dirty_table' = Dirtied(old)
  BY DEF CommitDirty, Current
<1>2. slot \in Slots /\ cache[slot] \in Entry
  BY <1>1, TypeFacts DEF Slots
<1>3. cache[slot] # EmptySlot /\ c \in Cluster
  BY <1>1, <1>2, EntryFacts
<1>4. cache[slot].cell = Node(c, latest[c])
  BY <1>2, <1>3 DEF CacheInv
<1>5. IsDirty(c)
  BY <1>1, <1>2 DEF IsDirty
<1>6. old \in PmtBlock
  BY <1>3, TypeFacts
<1>7. /\ Current.pg < MAX_DIRTY_PAGES /\ Current.pg \in DataPage
      /\ pmt[Current.blk][Current.pg] = Erased
  <2>1. Current.pg \in Nat /\ MAX_DIRTY_PAGES \in Nat
    BY TypeFacts, Constants
  <2>2. Current.pg < MAX_DIRTY_PAGES
    BY <1>1 DEF BlockInv
  <2>3. Current.pg \in DataPage
    BY <2>1, <2>2 DEF DataPage
  <2> QED
    BY <1>1, <2>1, <2>2, <2>3, Ranges DEF BlockInv
<1>8. Current = [blk |-> Current.blk, pg |-> Current.pg]
  BY DEF Types, RootTable, Current
<1>9. root_table' = [map |-> [root_table.map EXCEPT ![c] = Current],
                     current |-> [blk |-> Current.blk, pg |-> Current.pg + 1],
                     reclaim |-> root_table.reclaim]
  <2>1. root_table \in RootTable
    BY DEF Types
  <2> HIDE DEF c
  <2> QED
    BY <1>1, <2>1 DEF RootTable, Current
<1>10. Dirtied(old) = [block_dirty_table EXCEPT ![old] = @ + 1]
  BY DEF Dirtied
<1>11. Dirtied(old)[old] <= MAX_DIRTY_PAGES
  <2>1. c \in Live(old)
    BY <1>3 DEF Live
  <2>2. Cardinality(Live(old)) \in Nat /\ Cardinality(Live(old)) # 0
    BY <2>1, ClusterSets DEF Live
  <2>3. Total(old) <= MAX_DIRTY_PAGES
    <3>1. Current.pg \in Nat /\ Current.pg <= MAX_DIRTY_PAGES
      BY TypeFacts
    <3>2. Total(old) \in Nat
      BY <1>6, <2>2, TypeFacts DEF Total
    <3> QED
      BY <1>6, <3>1, <3>2, Constants DEF CountInv
  <2>4. block_dirty_table[old] \in Nat /\ block_dirty_table \in [PmtBlock -> Nat]
    BY <1>6, TypeFacts DEF Types, Counts
  <2>5. Dirtied(old)[old] = block_dirty_table[old] + 1
    BY <1>6, <1>10, <2>4
  <2> QED
    BY <2>2, <2>3, <2>4, <2>5, Constants, SMTT(30) DEF Total
<1>12. pc' = IF Current.pg + 1 = MAX_DIRTY_PAGES THEN "full" ELSE "pmt"
  <2>1. pc' = IF \/ Current.pg = MAX_DIRTY_PAGES \/ CellAt(Current) # Erased
                 \/ Dirtied(old)[old] > MAX_DIRTY_PAGES
              THEN "hung"
              ELSE IF Current.pg + 1 = MAX_DIRTY_PAGES THEN "full" ELSE "pmt"
    BY DEF CommitDirty, Current
  <2>2. CellAt(Current) = Erased
    BY <1>7 DEF CellAt
  <2>3. Dirtied(old)[old] \in Int
    <3>1. block_dirty_table[old] \in Nat /\ block_dirty_table \in [PmtBlock -> Nat]
      BY <1>6, TypeFacts DEF Types, Counts
    <3> QED
      BY <1>6, <1>10, <3>1, SMTT(30)
  <2>4. ~(Dirtied(old)[old] > MAX_DIRTY_PAGES) /\ Current.pg # MAX_DIRTY_PAGES
    BY <1>7, <1>11, <2>3, Constants, Ranges, SMTT(30)
  <2> QED
    BY <2>1, <2>2, <2>4
<1> QED
  BY <1>1, <1>2, <1>3, <1>4, <1>5, <1>6, <1>7, <1>8, <1>9, <1>10, <1>12

\* Total after a cluster goes from block old to the current block.
LEMMA CommitDirtyCounts ==
  ASSUME Invariants, CommitDirty
  PROVE  CountInv'
<1> USE DEF Invariants
<1> DEFINE c == cache[slot].cluster
           old == root_table.map[c].blk
           cur == Current.blk
<1>1. /\ c \in Cluster /\ old \in PmtBlock
      /\ root_table'.map = [root_table.map EXCEPT ![c] = Current]
      /\ Current' = [blk |-> cur, pg |-> Current.pg + 1]
      /\ root_table'.reclaim = root_table.reclaim
      /\ block_dirty_table' = [block_dirty_table EXCEPT ![old] = @ + 1]
  BY CommitDirtyEffect, SMTT(30) DEF Current
<1>2. /\ root_table.map \in [Cluster -> Location] /\ cur \in PmtBlock
      /\ Current.pg \in Nat /\ root_table.reclaim # cur
  BY TypeFacts DEF BlockInv
<1> HIDE DEF c, cur
<1>3. /\ root_table'.map[c].blk = cur
      /\ \A x \in Cluster : x # c => root_table'.map[x] = root_table.map[x]
  BY <1>1, <1>2 DEF cur
<1> HIDE DEF old
<1>4. \A b : Live(b)' = IF b = cur THEN Live(b) \cup {c} ELSE Live(b) \ {c}
  BY <1>1, <1>3 DEF Live
<1>5. \A b : c \in Live(b) <=> b = old
  BY <1>1 DEF Live, old
<1>6. \A b : /\ Cardinality(Live(b)) \in Nat
             /\ Cardinality(Live(b) \cup {c})
                  = IF b = old THEN Cardinality(Live(b)) ELSE Cardinality(Live(b)) + 1
             /\ Cardinality(Live(b) \ {c})
                  = IF b = old THEN Cardinality(Live(b)) - 1 ELSE Cardinality(Live(b))
  BY <1>5, LiveSets, FS_AddElement, FS_RemoveElement
<1>7. \A b \in PmtBlock : /\ block_dirty_table[b] \in Nat
                          /\ block_dirty_table'[b] = IF b = old THEN block_dirty_table[b] + 1
                                                     ELSE block_dirty_table[b]
  BY <1>1, TypeFacts DEF Types, Counts
<1>8. ASSUME NEW b \in PmtBlock
      PROVE  Total(b)' = IF b = cur THEN Total(b) + 1 ELSE Total(b)
  <2>1. Total(b)' = block_dirty_table'[b] + Cardinality(Live(b)')
    BY DEF Total
  <2>2. CASE b = cur
    BY <1>4, <1>6, <1>7, <2>1, <2>2 DEF Total
  <2>3. CASE b # cur
    BY <1>4, <1>6, <1>7, <2>1, <2>3 DEF Total
  <2> QED
    BY <2>2, <2>3
<1>9. Current'.blk = cur /\ Current'.pg = Current.pg + 1
  BY <1>1
<1> QED
  BY <1>1, <1>2, <1>8, <1>9 DEF CountInv, cur

LEMMA CommitDirtyStep ==
  ASSUME Invariants, CommitDirty
  PROVE  Invariants'
<1> USE DEF Invariants
<1> DEFINE c == cache[slot].cluster
           cur == Current.blk
           pg == Current.pg
<1>1. /\ c \in Cluster /\ slot \in Slots /\ IsDirty(c)
      /\ pg < MAX_DIRTY_PAGES /\ pg \in DataPage
      /\ pmt[cur][pg] = Erased
      /\ pmt' = [pmt EXCEPT ![cur][pg] = Node(c, latest[c])]
      /\ root_table' = [map |-> [root_table.map EXCEPT ![c] = Current],
                        current |-> [blk |-> cur, pg |-> pg + 1],
                        reclaim |-> root_table.reclaim]
      /\ Current = [blk |-> cur, pg |-> pg]
      /\ block_dirty_table' = [block_dirty_table EXCEPT ![root_table.map[c].blk] = @ + 1]
      /\ meta_data' = [p \in DataPage |-> IF p = pg THEN c ELSE meta_data[p]]
      /\ pc = "pmt"
      /\ pc' = IF pg + 1 = MAX_DIRTY_PAGES THEN "full" ELSE "pmt"
      /\ slot' = slot + 1 /\ unrooted'
      /\ UNCHANGED <<flash_root, cache, want, latest, committed, forgotten>>
  BY CommitDirtyEffect
<1>2. /\ cur \in PmtBlock /\ pg \in Nat /\ root_table.reclaim \in PmtBlock
      /\ root_table.map \in [Cluster -> Location]
      /\ slot \in Nat /\ slot >= 1 /\ Len(cache) \in Nat /\ slot <= Len(cache)
      /\ \A i \in Slots : i \in Nat
  BY <1>1, TypeFacts DEF Slots
<1> HIDE DEF c, cur, pg
<1>3. /\ root_table'.map[c] = Current
      /\ \A x \in Cluster : x # c => root_table'.map[x] = root_table.map[x]
      /\ Current'.blk = cur /\ Current'.pg = pg + 1 /\ root_table'.reclaim = root_table.reclaim
      /\ cur' = cur
  BY <1>1, <1>2 DEF Current, cur
<1>4. /\ pmt'[cur][pg] = Node(c, latest[c])
      /\ \A b \in PmtBlock : \A p \in Page : b # cur \/ p # pg => pmt'[b][p] = pmt[b][p]
  BY <1>1, <1>2, Ranges DEF Types
<1>5. Slots' = Slots \ {slot} /\ slot \in Slots
  BY <1>1, <1>2 DEF Slots
<1>6. \A x \in Cluster : IsDirty(x)' <=> (IsDirty(x) /\ x # c)
  <2>1. cache[slot] # EmptySlot
    BY <1>1, Ranges DEF EmptySlot, c
  <2>2. \A i \in Slots : cache[i].cluster = c => i = slot
    BY <1>5, <2>1 DEF CacheInv, c
  <2> QED
    BY <1>1, <1>5, <2>2 DEF IsDirty, c
<1>7. \A b : Live(b)' = IF b = cur THEN Live(b) \cup {c} ELSE Live(b) \ {c}
  BY <1>1, <1>3 DEF Live, cur
<1>8. \A x \in Cluster : Settled(x)' /\ x # c => Settled(x)
  BY <1>1, <1>6 DEF Settled
<1>9. Types'
  <2>1. pmt' \in [PmtBlock -> [Page -> NodeCell \cup MetaCell \cup {Erased}]]
    <3>1. Node(c, latest[c]) \in NodeCell
      BY <1>1, Kinds DEF Types
    <3> QED
      BY <1>1, <3>1 DEF Types
  <2>2. root_table' \in RootTable
    <3>1. Current \in Location
      BY <1>1, <1>2 DEF Location
    <3>2. [root_table.map EXCEPT ![c] = Current] \in [Cluster -> Location]
      BY <1>2, <3>1
    <3>3. pg + 1 \in 0 .. MAX_DIRTY_PAGES
      BY <1>1, <1>2, Constants
    <3> QED
      BY <1>1, <1>2, <3>2, <3>3 DEF RootTable
  <2>3. block_dirty_table' \in Counts
    <3>1. root_table.map[c].blk \in PmtBlock /\ block_dirty_table \in [PmtBlock -> Nat]
      BY <1>1, TypeFacts DEF Types, Counts
    <3> QED
      BY <1>1, <3>1 DEF Counts
  <2>4. meta_data' \in [DataPage -> Cluster]
    BY <1>1 DEF Types
  <2>5. slot' \in 1 .. Len(cache') + 1
    BY <1>1, <1>2
  <2>6. unrooted' \in BOOLEAN /\ pc' \in {"idle", "load", "pmt", "full", "reclaim", "off"}
    <3>1. unrooted' = TRUE
      BY DEF CommitDirty
    <3> QED
      BY <1>1, <3>1
  <2> QED
    BY <1>1, <2>1, <2>2, <2>3, <2>4, <2>5, <2>6 DEF Types
<1>10. ControlInv'
  <2>1. slot' > 1
    BY <1>1, <1>2
  <2> QED
    BY <1>1, <2>1 DEF ControlInv
<1>11. CacheInv'
  BY <1>1, <1>5 DEF CacheInv
<1>12. MapInv'
  <2>1. ASSUME NEW x \in Cluster, ~IsDirty(x)'
        PROVE  CellAt(root_table.map[x])' = Node(x, latest[x])
    <3>1. CASE x = c
      BY <1>1, <1>3, <1>4, <3>1 DEF CellAt
    <3>2. CASE x # c
      <4> DEFINE loc == root_table.map[x]
      <4>1. pmt[loc.blk][loc.pg] = Node(x, latest[x])
        BY <1>6, <2>1, <3>2 DEF MapInv, CellAt
      <4>2. Node(x, latest[x]) # Erased
        BY DEF Node, Erased
      <4>3. loc.blk \in PmtBlock /\ loc.pg \in Page
        BY TypeFacts, Ranges
      <4>4. pmt'[loc.blk][loc.pg] = pmt[loc.blk][loc.pg]
        BY <1>1, <1>4, <4>1, <4>2, <4>3
      <4> QED
        BY <1>3, <3>2, <4>1, <4>4 DEF CellAt
    <3> QED
      BY <3>1, <3>2
  <2> QED
    BY <1>1, <2>1 DEF MapInv
<1>13. BlockInv'
  <2>1. \A p \in Page : p \in Nat
    BY Ranges, Constants
  <2>2. \A p \in Page : p >= pg + 1 => pmt'[cur][p] = Erased
    <3>1. \A p \in Page : p >= pg => pmt[cur][p] = Erased
      BY <1>1 DEF BlockInv, cur, pg
    <3> QED
      BY <1>2, <1>4, <2>1, <3>1
  <2>3. cur # root_table.reclaim
    BY DEF BlockInv, cur
  <2>4. \A p \in Page : pmt'[root_table.reclaim][p] = Erased
    BY <1>2, <1>4, <2>3 DEF BlockInv
  <2>5. \A x \in Live(cur)' : root_table'.map[x].pg < pg + 1
    <3>1. \A x \in Live(cur) : root_table.map[x].pg < pg /\ root_table.map[x].pg \in Nat
      BY TypeFacts, Ranges DEF BlockInv, Live, cur, pg
    <3>2. root_table'.map[c].pg = pg
      BY <1>1, <1>3
    <3>3. \A x \in Live(cur) : x \in Cluster
      BY DEF Live
    <3> QED
      BY <1>2, <1>3, <1>7, <3>1, <3>2, <3>3
  <2>6. \A x \in Live(root_table.reclaim)' :
          IsDirty(x)' /\ pg + 1 + Len(cache) + 1 - slot' < MAX_DIRTY_PAGES
    <3>1. \A x \in Live(root_table.reclaim)' : x \in Live(root_table.reclaim) /\ x # c /\ x \in Cluster
      BY <1>3, <1>7, <2>3 DEF Live
    <3>2. \A x \in Live(root_table.reclaim) :
            IsDirty(x) /\ pg + Len(cache) + 1 - slot < MAX_DIRTY_PAGES
      BY DEF BlockInv, pg
    <3>3. pg + 1 + Len(cache) + 1 - slot' = pg + Len(cache) + 1 - slot
      BY <1>1, <1>2
    <3> QED
      BY <1>6, <3>1, <3>2, <3>3
  <2>7. IF pc' \in {"full", "reclaim"} THEN pg + 1 = MAX_DIRTY_PAGES ELSE pg + 1 < MAX_DIRTY_PAGES
    BY <1>1, <1>2, Constants
  <2> QED
    BY <1>1, <1>3, <2>2, <2>3, <2>4, <2>5, <2>6, <2>7 DEF BlockInv
<1>14. MetaInv'
  <2>1. ASSUME NEW b \in PmtBlock, Closed(b)', NEW x \in Live(b)'
        PROVE  /\ pmt'[b][MAX_DIRTY_PAGES] \in MetaCell
               /\ Settled(x)' /\ b \notin forgotten =>
                    pmt'[b][MAX_DIRTY_PAGES].clusters[root_table'.map[x].pg] = x
    <3>1. Closed(b) /\ b # cur
      BY <1>1, <1>3, <2>1 DEF Closed, cur
    <3>2. x \in Live(b) /\ x # c /\ x \in Cluster
      BY <1>7, <2>1, <3>1 DEF Live
    <3>3. pmt'[b][MAX_DIRTY_PAGES] = pmt[b][MAX_DIRTY_PAGES]
      BY <1>4, <3>1, Ranges
    <3> QED
      BY <1>3, <1>8, <3>1, <3>2, <3>3 DEF MetaInv
  <2>2. ASSUME cur \notin forgotten, NEW x \in Live(cur)', Settled(x)'
        PROVE  meta_data'[root_table'.map[x].pg] = x
    <3>1. CASE x = c
      BY <1>1, <1>3, <3>1
    <3>2. CASE x # c
      <4>1. x \in Live(cur) /\ x \in Cluster
        BY <1>3, <1>7, <2>2, <3>2 DEF Live
      <4>2. meta_data[root_table.map[x].pg] = x
        BY <1>1, <1>8, <2>2, <3>2, <4>1 DEF MetaInv, cur
      <4>3. root_table.map[x].pg \in DataPage /\ root_table.map[x].pg # pg
        <5>1. root_table.map[x].pg < pg /\ root_table.map[x].pg \in DataPage
          BY <4>1, TypeFacts DEF BlockInv, cur, pg
        <5> QED
          BY <1>2, <5>1, Ranges
      <4> QED
        BY <1>1, <1>3, <3>2, <4>1, <4>2, <4>3
    <3> QED
      BY <3>1, <3>2
  <2>3. root_table'.reclaim \notin forgotten'
    BY <1>1, <1>3 DEF MetaInv
  <2> QED
    BY <1>1, <1>3, <2>1, <2>2, <2>3 DEF MetaInv
<1> QED
  BY <1>9, <1>10, <1>11, <1>12, <1>13, <1>14, CommitDirtyCounts

(***************************************************************************)
(* pmt_reclaim_blocks.                                                     *)
(***************************************************************************)

LEMMA DirtiestFacts ==
  ASSUME Types, NEW bound \in Nat, \A b \in PmtBlock : block_dirty_table[b] <= bound
  PROVE  /\ DirtiestBlock \in PmtBlock
         /\ \A b \in PmtBlock : block_dirty_table[b] <= block_dirty_table[DirtiestBlock]
<1> DEFINE counts == {block_dirty_table[b] : b \in PmtBlock}
           dirtiest == {b \in PmtBlock : block_dirty_table[b] = Max(counts)}
<1>1. /\ counts \in SUBSET Nat /\ counts # {} /\ PmtBlock \subseteq Nat
      /\ \A x \in counts : x <= bound
  <2>1. \A b \in PmtBlock : block_dirty_table[b] \in Nat
    BY TypeFacts
  <2>2. 0 \in PmtBlock /\ PmtBlock \subseteq Nat
    BY Ranges
  <2> QED
    BY <2>1, <2>2
<1>2. Max(counts) \in counts /\ \A x \in counts : x <= Max(counts)
  <2> HIDE DEF counts
  <2> QED
    BY <1>1, MaxIsGreatest
<1>3. dirtiest \in SUBSET Nat /\ dirtiest # {}
  BY <1>1, <1>2
<1>4. Min(dirtiest) \in dirtiest
  <2> HIDE DEF dirtiest
  <2> QED
    BY <1>3, MinIsLeast
<1>5. DirtiestBlock = Min(dirtiest)
  BY DEF DirtiestBlock
<1> QED
  BY <1>2, <1>4, <1>5

\* The clusters do not fill all other blocks: one of them is dirtier than the
\* cache is large, which the reclaim block never is.
LEMMA DirtiestIsFull ==
  ASSUME Types, BlockInv, CountInv, pc = "reclaim"
  PROVE  /\ DirtiestBlock \in PmtBlock /\ DirtiestBlock # root_table.reclaim
         /\ Total(DirtiestBlock) = MAX_DIRTY_PAGES
         /\ PMT_CACHE_COUNT <= block_dirty_table[DirtiestBlock]
<1> DEFINE Others == PmtBlock \ {root_table.reclaim}
           k == MAX_DIRTY_PAGES - PMT_CACHE_COUNT + 1
           v == DirtiestBlock
<1>1. \A b \in PmtBlock : block_dirty_table[b] \in Nat /\ Cardinality(Live(b)) \in Nat
  BY TypeFacts, LiveSets
<1>2. \A b \in Others : Total(b) = MAX_DIRTY_PAGES
  BY DEF CountInv, BlockInv
<1>3. \A b \in PmtBlock : block_dirty_table[b] <= MAX_DIRTY_PAGES
  BY <1>1, <1>2, Constants DEF CountInv, Total
<1>4. v \in PmtBlock /\ \A b \in PmtBlock : block_dirty_table[b] <= block_dirty_table[v]
  BY <1>3, Constants, DirtiestFacts
<1>5. \E b \in Others : PMT_CACHE_COUNT <= block_dirty_table[b]
  <2> SUFFICES ASSUME \A b \in Others : block_dirty_table[b] < PMT_CACHE_COUNT
               PROVE  FALSE
    BY <1>1, Constants
  <2>1. k \in Nat \ {0}
    BY Constants
  <2>2. \A b \in Others : k <= Cardinality(Live(b))
    BY <1>1, <1>2, Constants DEF Total
  <2> HIDE DEF k
  <2>3. \A b \in Others : \E f \in [1 .. k -> Live(b)] :
          \A i, j \in 1 .. k : f[i] = f[j] => i = j
    <3> SUFFICES ASSUME NEW b \in Others
                 PROVE  \E f \in [1 .. k -> Live(b)] : \A i, j \in 1 .. k : f[i] = f[j] => i = j
      OBVIOUS
    <3>1. ExistsBijection(1 .. Cardinality(Live(b)), Live(b))
      BY LiveSets, FS_CardinalityType
    <3>2. PICK g : g \in Bijection(1 .. Cardinality(Live(b)), Live(b))
      BY <3>1 DEF ExistsBijection
    <3>3. /\ g \in [1 .. Cardinality(Live(b)) -> Live(b)]
          /\ \A i, j \in 1 .. Cardinality(Live(b)) : g[i] = g[j] => i = j
      BY <3>2 DEF Bijection, Injection, IsInjective
    <3>4. \A i \in 1 .. k : i \in 1 .. Cardinality(Live(b))
      BY <1>1, <2>1, <2>2
    <3> DEFINE f == [i \in 1 .. k |-> g[i]]
    <3>5. f \in [1 .. k -> Live(b)] /\ \A i, j \in 1 .. k : f[i] = f[j] => i = j
      BY <3>3, <3>4
    <3> QED
      BY <3>5
  <2> DEFINE pick == [b \in Others |-> CHOOSE f \in [1 .. k -> Live(b)] :
                                         \A i, j \in 1 .. k : f[i] = f[j] => i = j]
  <2>4. \A b \in Others : /\ pick[b] \in [1 .. k -> Live(b)]
                          /\ \A i, j \in 1 .. k : pick[b][i] = pick[b][j] => i = j
    BY <2>3
  <2> HIDE DEF pick
  <2> DEFINE all == [x \in Others \X (1 .. k) |-> pick[x[1]][x[2]]]
  <2>5. \A x \in Others \X (1 .. k) : all[x] \in Live(x[1]) /\ all[x] \in Cluster
    <3>1. \A x \in Others \X (1 .. k) : x[1] \in Others /\ x[2] \in 1 .. k
      OBVIOUS
    <3>2. \A b : \A c \in Live(b) : c \in Cluster
      BY DEF Live
    <3>3. \A x \in Others \X (1 .. k) : all[x] = pick[x[1]][x[2]]
      OBVIOUS
    <3>4. \A b \in Others : \A i \in 1 .. k : pick[b][i] \in Live(b)
      BY <2>4
    <3> HIDE DEF all, Others
    <3> QED
      BY <3>1, <3>2, <3>3, <3>4
  <2>6. \A x, y \in Others \X (1 .. k) : all[x] = all[y] => x = y
    <3> SUFFICES ASSUME NEW x \in Others \X (1 .. k), NEW y \in Others \X (1 .. k), all[x] = all[y]
                 PROVE  x = y
      OBVIOUS
    <3>1. x[1] = y[1]
      <4>1. all[x] \in Live(x[1]) /\ all[x] \in Live(y[1])
        BY <2>5
      <4> QED
        BY <4>1 DEF Live
    <3>2. x[2] = y[2]
      BY <2>4, <3>1
    <3> QED
      BY <3>1, <3>2
  <2>7. all \in Injection(Others \X (1 .. k), Cluster)
    BY <2>5, <2>6 DEF Injection, IsInjective
  <2>8. Cardinality(Others \X (1 .. k)) <= MAX_DIRTY_PAGES
    <3> HIDE DEF all, Others
    <3> QED
      BY <2>7, Constants, FS_Injection
  <2>9. IsFiniteSet(Others) /\ Cardinality(Others) = PMT_BLOCK_COUNT - 1
    <3>1. PMT_BLOCK_COUNT \in Int /\ PMT_BLOCK_COUNT >= 3
      BY PmtAssumption
    <3>2. IsFiniteSet(PmtBlock) /\ Cardinality(PmtBlock) = PMT_BLOCK_COUNT
      BY <3>1, IntervalSize DEF PmtBlock
    <3> QED
      BY <3>1, <3>2, TypeFacts, FS_RemoveElement
  <2> DEFINE firsts == 1 .. k
  <2>10. IsFiniteSet(firsts) /\ Cardinality(firsts) = k
    BY <2>1, IntervalSize
  <2>11. Cardinality(Others \X (1 .. k)) = (PMT_BLOCK_COUNT - 1) * k
    <3> HIDE DEF Others, firsts
    <3>1. Cardinality(Others \X firsts) = Cardinality(Others) * Cardinality(firsts)
      BY <2>9, <2>10, FS_Product
    <3>2. Cardinality(Others \X firsts) = (PMT_BLOCK_COUNT - 1) * k
      BY <2>9, <2>10, <3>1
    <3> QED
      BY <3>2 DEF firsts
  <2>12. (PMT_BLOCK_COUNT - 1) * k > MAX_DIRTY_PAGES
    BY PmtAssumption, Constants DEF k
  <2>13. (PMT_BLOCK_COUNT - 1) * k \in Int
    BY <2>1, PmtAssumption
  <2> QED
    BY <2>8, <2>11, <2>12, <2>13, Constants
<1>6. PMT_CACHE_COUNT <= block_dirty_table[v]
  BY <1>1, <1>4, <1>5, Constants
<1>7. v # root_table.reclaim
  <2>1. Total(root_table.reclaim) < PMT_CACHE_COUNT
    BY TypeFacts DEF CountInv
  <2> QED
    BY <1>1, <1>4, <1>6, <2>1, Constants DEF Total
<1> QED
  BY <1>2, <1>4, <1>6, <1>7

\* A commit fills no other block once a cluster went with the reclaim block.
LEMMA ReclaimFacts ==
  ASSUME Invariants, pc = "reclaim"
  PROVE  /\ Live(root_table.reclaim) = {}
         /\ unrooted /\ slot > 1
         /\ \A c \in Cluster : Settled(c) <=> ~IsDirty(c)
<1>1. Current.pg = MAX_DIRTY_PAGES /\ unrooted /\ slot > 1
  BY DEF Invariants, BlockInv, ControlInv
<1>2. Current.pg + Len(cache) + 1 - slot >= MAX_DIRTY_PAGES
  BY <1>1, TypeFacts, Constants DEF Invariants
<1>3. \A c \in Live(root_table.reclaim) : Current.pg + Len(cache) + 1 - slot < MAX_DIRTY_PAGES
  BY DEF Invariants, BlockInv
<1>4. Current.pg + Len(cache) + 1 - slot \in Int
  BY TypeFacts DEF Invariants
<1> QED
  BY <1>1, <1>2, <1>3, <1>4, Constants DEF Settled

LEMMA ReclaimEraseStep ==
  ASSUME Invariants, pmt_reclaim_blocks, ReclaimErase(DirtiestBlock)
  PROVE  Invariants'
<1> USE DEF Invariants
<1> DEFINE v == DirtiestBlock
<1>1. /\ pc = "reclaim" /\ pc' = "pmt"
      /\ block_dirty_table[v] = MAX_DIRTY_PAGES
      /\ pmt' = [pmt EXCEPT ![v] = AllErased]
      /\ root_table' = [root_table EXCEPT !.current = [blk |-> v, pg |-> 0]]
      /\ block_dirty_table' = ResetCounts({v})
      /\ forgotten' = forgotten \ {v}
      /\ UNCHANGED <<cache, meta_data, flash_root, slot, want, latest, committed, unrooted>>
  BY DEF pmt_reclaim_blocks, ReclaimErase
<1>2. /\ v \in PmtBlock /\ v # root_table.reclaim /\ Total(v) = MAX_DIRTY_PAGES
  BY <1>1, DirtiestIsFull
<1>3. /\ Live(root_table.reclaim) = {} /\ unrooted
      /\ Current.pg = MAX_DIRTY_PAGES
      /\ root_table.reclaim \in PmtBlock /\ Current.blk \in PmtBlock
  BY <1>1, ReclaimFacts, TypeFacts DEF BlockInv
<1> HIDE DEF v
<1>4. Live(v) = {}
  <2>1. Cardinality(Live(v)) \in Nat /\ (Cardinality(Live(v)) = 0 <=> Live(v) = {})
    BY ClusterSets DEF Live
  <2> QED
    BY <1>1, <1>2, <2>1, Constants DEF Total
<1>5. /\ root_table'.map = root_table.map /\ root_table'.reclaim = root_table.reclaim
      /\ Current' = [blk |-> v, pg |-> 0] /\ root_table' \in RootTable
  <2>1. root_table \in RootTable /\ 0 \in 0 .. MAX_DIRTY_PAGES
    BY Constants DEF Types
  <2> QED
    BY <1>1, <1>2, <2>1 DEF RootTable, Current
<1>6. /\ \A p \in Page : pmt'[v][p] = Erased
      /\ \A b \in PmtBlock : b # v => pmt'[b] = pmt[b]
  BY <1>1, <1>2 DEF Types, AllErased
<1>7. Slots' = Slots /\ \A c : IsDirty(c)' = IsDirty(c) /\ Settled(c)' = Settled(c)
  BY <1>1 DEF Slots, IsDirty, Settled
<1>8. \A b : Live(b)' = Live(b)
  BY <1>5 DEF Live
<1>9. \A b \in PmtBlock : block_dirty_table'[b] = IF b = v THEN 0 ELSE block_dirty_table[b]
  BY <1>1 DEF ResetCounts
<1>10. Types'
  <2>1. pmt' \in [PmtBlock -> [Page -> NodeCell \cup MetaCell \cup {Erased}]]
    <3>1. AllErased \in [Page -> NodeCell \cup MetaCell \cup {Erased}]
      BY DEF AllErased
    <3> QED
      BY <1>1, <1>2, <3>1 DEF Types
  <2>2. block_dirty_table' \in Counts
    BY <1>1, TypeFacts DEF ResetCounts, Counts
  <2> QED
    BY <1>1, <1>5, <2>1, <2>2 DEF Types
<1>11. ControlInv'
  BY <1>1 DEF ControlInv
<1>12. CacheInv'
  BY <1>1, <1>7 DEF CacheInv
<1>13. MapInv'
  <2>1. \A c \in Cluster : CellAt(root_table.map[c])' = CellAt(root_table.map[c])
    <3>1. \A c \in Cluster : root_table.map[c].blk \in PmtBlock /\ root_table.map[c].blk # v
      BY <1>4, TypeFacts DEF Live
    <3> QED
      BY <1>5, <1>6, <3>1 DEF CellAt
  <2> QED
    BY <1>1, <1>3, <1>5, <1>7, <2>1 DEF MapInv
<1>14. BlockInv'
  <2>2. Current'.blk = v /\ Current'.pg = 0 /\ 0 < MAX_DIRTY_PAGES
    BY <1>5, Constants
  <2>3. \A p \in Page : pmt'[root_table'.reclaim][p] = Erased
    BY <1>2, <1>3, <1>5, <1>6 DEF BlockInv
  <2>4. Live(Current.blk)' = {} /\ Live(root_table.reclaim)' = {}
    BY <1>3, <1>4, <1>5, <1>8, <2>2
  <2> QED
    BY <1>1, <1>2, <1>5, <1>6, <2>2, <2>3, <2>4 DEF BlockInv
<1>15. MetaInv'
  <2>1. Current'.blk = v /\ Live(Current.blk)' = {}
    BY <1>4, <1>5, <1>8
  <2>2. ASSUME NEW b \in PmtBlock, Closed(b)', NEW c \in Live(b)
        PROVE  /\ pmt'[b][MAX_DIRTY_PAGES] \in MetaCell
               /\ Settled(c) /\ b \notin forgotten' =>
                    pmt'[b][MAX_DIRTY_PAGES].clusters[root_table.map[c].pg] = c
    <3>1. b # v /\ Closed(b)
      BY <1>1, <1>5, <2>1, <2>2 DEF Closed
    <3> QED
      BY <1>1, <1>6, <3>1 DEF MetaInv
  <2>3. root_table'.reclaim \notin forgotten'
    BY <1>1, <1>5 DEF MetaInv
  <2> QED
    BY <1>5, <1>7, <1>8, <2>1, <2>2, <2>3 DEF MetaInv
<1>16. CountInv'
  <2>1. \A b \in PmtBlock : Total(b)' = IF b = v THEN 0 ELSE Total(b)
    <3>1. \A b : Total(b)' = block_dirty_table'[b] + Cardinality(Live(b)')
      BY DEF Total
    <3>2. Cardinality(Live(v)) = 0
      BY <1>4, FS_EmptySet
    <3> QED
      BY <1>8, <1>9, <3>1, <3>2 DEF Total
  <2>2. Current'.blk = v /\ Current'.pg = 0
    BY <1>5
  <2> QED
    BY <1>2, <1>3, <1>5, <2>1, <2>2 DEF CountInv
<1> QED
  BY <1>10, <1>11, <1>12, <1>13, <1>14, <1>15, <1>16

\* The live pages, counted from 0 in their order, and back.
LEMMA RankFacts ==
  ASSUME NEW live \in SUBSET DataPage
  PROVE  LET to(p) == Cardinality({q \in live : q < p})
             from(q) == CHOOSE p \in live : to(p) = q
             targets == 0 .. Cardinality(live) - 1
         IN  /\ Cardinality(live) \in Nat
             /\ \A p \in live : to(p) \in targets /\ from(to(p)) = p
             /\ \A q \in targets : from(q) \in live
<1> DEFINE to(p) == Cardinality({q \in live : q < p})
           from(q) == CHOOSE p \in live : to(p) = q
           targets == 0 .. Cardinality(live) - 1
<1>1. \A S \in SUBSET live : IsFiniteSet(S) /\ Cardinality(S) \in Nat
  BY ClusterSets, Ranges
<1>2. \A p \in live : p \in Nat
  BY Ranges
<1>3. ASSUME NEW p \in live
      PROVE  to(p) \in targets
  <2> DEFINE S == {q \in live : q < p}
  <2>1. S \in SUBSET live /\ p \notin S /\ IsFiniteSet(live)
    BY <1>1, <1>2
  <2> HIDE DEF S
  <2>2. Cardinality(S) <= Cardinality(live) /\ (Cardinality(live) = Cardinality(S) => live = S)
    BY <2>1, FS_Subset
  <2>3. Cardinality(S) # Cardinality(live)
    BY <2>1, <2>2
  <2>4. Cardinality(S) \in 0 .. Cardinality(live) - 1
    BY <1>1, <2>1, <2>2, <2>3
  <2> QED
    BY <2>4 DEF S
<1>4. ASSUME NEW p \in live, NEW q \in live, p < q
      PROVE  to(p) < to(q)
  <2> DEFINE S == {x \in live : x < p}
             T == {x \in live : x < q}
  <2>1. S \in SUBSET T /\ p \in T /\ p \notin S /\ T \in SUBSET live /\ S \in SUBSET live
    BY <1>2, <1>4
  <2> HIDE DEF S, T
  <2>2. IsFiniteSet(T) /\ Cardinality(S) \in Nat /\ Cardinality(T) \in Nat
    BY <1>1, <2>1
  <2>3. Cardinality(S) <= Cardinality(T) /\ (Cardinality(T) = Cardinality(S) => T = S)
    BY <2>1, <2>2, FS_Subset
  <2>4. Cardinality(S) < Cardinality(T)
    BY <2>1, <2>2, <2>3
  <2> QED
    BY <2>4 DEF S, T
<1>5. \A p, q \in live : to(p) = to(q) => p = q
  <2> SUFFICES ASSUME NEW p \in live, NEW q \in live, to(p) = to(q), p # q PROVE FALSE
    OBVIOUS
  <2>1. p < q \/ q < p
    BY <1>2
  <2>2. to(p) \in Int /\ to(q) \in Int
    BY <1>3
  <2>3. to(p) < to(q) \/ to(q) < to(p)
    BY <1>4, <2>1
  <2> HIDE DEF to
  <2> QED
    BY <2>2, <2>3
<1>6. IsFiniteSet(live) /\ Cardinality(live) \in Nat
  BY <1>1
<1>7. \A q \in targets : \E p \in live : to(p) = q
  <2> DEFINE rank == [p \in live |-> to(p)]
  <2>1. rank \in Injection(live, targets)
    <3>1. \A p \in live : rank[p] = to(p)
      OBVIOUS
    <3>2. rank \in [live -> targets]
      BY <1>3
    <3> HIDE DEF to
    <3> QED
      BY <1>5, <3>1, <3>2 DEF Injection, IsInjective
  <2>2. IsFiniteSet(targets) /\ Cardinality(targets) = Cardinality(live)
    BY <1>6, IntervalSize
  <2>3. rank \in Surjection(live, targets)
    <3> HIDE DEF rank, targets
    <3> QED
      BY <2>1, <2>2, FS_Injection
  <2>4. \A q \in targets : \E p \in live : rank[p] = q
    BY <2>3 DEF Surjection
  <2> QED
    BY <2>4
<1>8. \A q \in targets : from(q) \in live /\ to(from(q)) = q
  <2> HIDE DEF to, targets
  <2> QED
    BY <1>7
<1>9. \A p \in live : from(to(p)) = p
  <2> SUFFICES ASSUME NEW p \in live PROVE from(to(p)) = p
    OBVIOUS
  <2>1. to(p) \in targets
    BY <1>3
  <2>2. from(to(p)) \in live /\ to(from(to(p))) = to(p)
    BY <1>8, <2>1
  <2> HIDE DEF to, from
  <2> QED
    BY <1>5, <2>2
<1> QED
  BY <1>3, <1>6, <1>8, <1>9

\* The clusters that are dirty in the cache have a slot each.
LEMMA DirtySlots ==
  ASSUME Types, slot > 1, NEW S \in SUBSET Cluster, \A c \in S : IsDirty(c)
  PROVE  Cardinality(S) < PMT_CACHE_COUNT
<1> DEFINE where == [c \in S |-> CHOOSE i \in Slots : cache[i].cluster = c]
<1>1. \A c \in S : where[c] \in Slots /\ cache[where[c]].cluster = c
  BY DEF IsDirty
<1> HIDE DEF where
<1>2. where \in Injection(S, Slots)
  <2>1. where \in [S -> Slots]
    BY <1>1 DEF where
  <2> QED
    BY <1>1, <2>1 DEF Injection, IsInjective
<1>3. slot \in Int /\ Len(cache) \in Int /\ slot <= Len(cache) + 1 /\ Len(cache) <= PMT_CACHE_COUNT
  BY TypeFacts DEF Types
<1>4. IsFiniteSet(Slots) /\ Cardinality(Slots) < PMT_CACHE_COUNT
  <2>1. IsFiniteSet(Slots) /\ Cardinality(Slots) = IF slot > Len(cache) THEN 0 ELSE Len(cache) - slot + 1
    BY <1>3, FS_Interval DEF Slots
  <2> QED
    BY <1>3, <2>1, Constants
<1>5. Cardinality(S) <= Cardinality(Slots)
  BY <1>2, <1>4, FS_Injection
<1>6. Cardinality(S) \in Nat /\ Cardinality(Slots) \in Nat
  BY <1>4, ClusterSets, FS_CardinalityType
<1> QED
  BY <1>4, <1>5, <1>6, Constants

\* What the step does: the clusters of block v that are not dirty in the cache
\* move to the first pages of the reclaim block.
LEMMA ReclaimCopyEffect ==
  ASSUME Invariants, pmt_reclaim_blocks, ReclaimCopy(DirtiestBlock), risks' = {}
  PROVE  LET v == DirtiestBlock
             r == root_table.reclaim
             moved == {c \in Live(v) : ~IsDirty(c)}
             n == Cardinality(moved)
         IN  /\ pc = "reclaim" /\ pc' = "pmt"
             /\ v \in PmtBlock /\ r \in PmtBlock /\ v # r /\ v \notin forgotten
             /\ n \in Nat /\ n + PMT_CACHE_COUNT <= MAX_DIRTY_PAGES
             /\ pmt' \in [PmtBlock -> [Page -> NodeCell \cup MetaCell \cup {Erased}]]
             /\ \A b \in PmtBlock : b # v /\ b # r => pmt'[b] = pmt[b]
             /\ \A p \in Page : pmt'[v][p] = Erased
             /\ \A p \in Page : p >= n => pmt'[r][p] = Erased
             /\ \A c \in moved : LET pg == root_table'.map[c].pg
                                 IN  /\ root_table'.map[c].blk = r /\ pg \in Nat /\ pg < n
                                     /\ pmt'[r][pg] = CellAt(root_table.map[c])
                                     /\ meta_data'[pg] = c
             /\ \A c \in Cluster : c \notin moved => root_table'.map[c] = root_table.map[c]
             /\ root_table' \in RootTable /\ meta_data' \in [DataPage -> Cluster]
             /\ Current' = [blk |-> r, pg |-> n] /\ root_table'.reclaim = v
             /\ block_dirty_table' = ResetCounts({r, v})
             /\ cache' = SlotsLeft(moved)
             /\ forgotten' = forgotten \ {v}
             /\ UNCHANGED <<flash_root, slot, want, latest, committed, unrooted>>
<1> USE DEF Invariants
<1> DEFINE v == DirtiestBlock
           r == root_table.reclaim
           moved == {c \in Live(v) : ~IsDirty(c)}
           named == pmt[v][MAX_DIRTY_PAGES].clusters
           live == LivePages(v)
           to(p) == Cardinality({q \in live : q < p})
           from(q) == CHOOSE p \in live : to(p) = q
           n == Cardinality(live)
           targets == 0 .. n - 1
<1>1. /\ pc = "reclaim" /\ block_dirty_table[v] < MAX_DIRTY_PAGES
      /\ pmt' = [pmt EXCEPT
           ![r] = [q \in Page |-> IF q \in targets THEN pmt[v][from(q)] ELSE pmt[r][q]],
           ![v] = AllErased]
      /\ root_table' =
           [map |-> [c \in Cluster |-> IF c \in {named[p] : p \in live}
                       THEN [blk |-> r, pg |-> to(root_table.map[c].pg)]
                       ELSE root_table.map[c]],
            current |-> [blk |-> r, pg |-> n],
            reclaim |-> v]
      /\ block_dirty_table' = ResetCounts({r, v})
      /\ meta_data' = [q \in DataPage |-> IF q \in targets THEN named[from(q)] ELSE meta_data[q]]
      /\ cache' = SlotsLeft({named[p] : p \in live})
      /\ forgotten' = forgotten \ {v}
      /\ v \notin forgotten
      /\ pc' = IF /\ pmt[v][MAX_DIRTY_PAGES] # Erased
                  /\ \A q \in targets : pmt[r][q] = Erased
               THEN "pmt" ELSE "hung"
      /\ UNCHANGED <<flash_root, slot, want, latest, committed, unrooted>>
  BY DEF pmt_reclaim_blocks, ReclaimCopy
<1>2. /\ v \in PmtBlock /\ v # r /\ Total(v) = MAX_DIRTY_PAGES
      /\ PMT_CACHE_COUNT <= block_dirty_table[v]
  BY <1>1, DirtiestIsFull
<1>3. /\ r \in PmtBlock /\ \A p \in Page : pmt[r][p] = Erased
      /\ block_dirty_table[v] \in Nat /\ Cardinality(Live(v)) \in Nat
      /\ \A c \in Cluster : Settled(c) <=> ~IsDirty(c)
  BY <1>1, <1>2, ReclaimFacts, TypeFacts, LiveSets DEF BlockInv
<1> HIDE DEF v, r
<1>4. /\ pmt[v][MAX_DIRTY_PAGES] \in MetaCell
      /\ \A c \in moved : named[root_table.map[c].pg] = c
  <2>1. Closed(v)
    BY <1>1, <1>2 DEF Closed, r
  <2>2. Live(v) # {}
    <3>1. Cardinality(Live(v)) # 0
      BY <1>1, <1>2, <1>3, Constants DEF Total
    <3> QED
      BY <3>1, FS_EmptySet
  <2>3. \A c \in Live(v) : c \in Cluster
    BY DEF Live
  <2> QED
    BY <1>1, <1>2, <1>3, <2>1, <2>2, <2>3 DEF MetaInv
<1>5. named \in [DataPage -> Cluster] /\ pmt[v][MAX_DIRTY_PAGES] # Erased
  BY <1>4, Kinds DEF MetaCell
<1> HIDE DEF named
<1>6. live = {p \in DataPage : ~IsDirty(named[p]) /\ root_table.map[named[p]] = [blk |-> v, pg |-> p]}
  BY <1>5 DEF LivePages, NeedsPage, named
<1> HIDE DEF live
<1>7. /\ live \in SUBSET DataPage
      /\ \A p \in live : /\ named[p] \in moved
                         /\ root_table.map[named[p]].blk = v /\ root_table.map[named[p]].pg = p
  BY <1>5, <1>6 DEF Live
<1>8. \A c \in moved : c \in Cluster /\ root_table.map[c].pg \in live
  <2> SUFFICES ASSUME NEW c \in moved PROVE c \in Cluster /\ root_table.map[c].pg \in live
    OBVIOUS
  <2>1. c \in Cluster /\ root_table.map[c].blk = v /\ ~IsDirty(c)
    BY DEF Live
  <2>2. /\ root_table.map[c].pg \in DataPage
        /\ root_table.map[c] = [blk |-> v, pg |-> root_table.map[c].pg]
    BY <2>1, TypeFacts
  <2>3. named[root_table.map[c].pg] = c
    BY <1>4
  <2> QED
    BY <1>6, <2>1, <2>2, <2>3
<1>9. {named[p] : p \in live} = moved
  BY <1>4, <1>7, <1>8
<1>10. /\ n \in Nat
       /\ \A p \in live : to(p) \in targets /\ from(to(p)) = p
       /\ \A q \in targets : from(q) \in live
  BY <1>7, RankFacts
<1> HIDE DEF to, from
<1>11. Cardinality(moved) = n /\ n <= Cardinality(Live(v))
  <2>1. moved \in SUBSET Live(v) /\ IsFiniteSet(moved) /\ Cardinality(moved) <= Cardinality(Live(v))
    BY LiveSets, FS_Subset
  <2> DEFINE f == [p \in live |-> named[p]]
  <2>2. f \in Bijection(live, moved)
    <3>1. \A p \in live : f[p] = named[p] /\ f[p] \in moved /\ root_table.map[f[p]].pg = p
      BY <1>7
    <3>2. f \in [live -> moved]
      BY <3>1
    <3> HIDE DEF moved
    <3>3. \A c \in moved : root_table.map[c].pg \in live /\ f[root_table.map[c].pg] = c
      BY <1>4, <1>8, <3>1
    <3> HIDE DEF f
    <3>4. f \in Injection(live, moved)
      BY <3>1, <3>2 DEF Injection, IsInjective
    <3>5. f \in Surjection(live, moved)
      BY <3>2, <3>3 DEF Surjection
    <3> QED
      BY <3>4, <3>5 DEF Bijection
  <2>3. IsFiniteSet(live)
    BY <1>7, ClusterSets, Ranges
  <2> HIDE DEF f, moved
  <2>4. Cardinality(moved) = Cardinality(live)
    BY <2>2, <2>3, FS_Bijection DEF ExistsBijection
  <2> QED
    BY <2>1, <2>4
<1>12. n + PMT_CACHE_COUNT <= MAX_DIRTY_PAGES
  BY <1>2, <1>3, <1>10, <1>11, Constants DEF Total
<1> HIDE DEF n
<1>13. \A q \in targets : q \in DataPage /\ q \in Page
  BY <1>10, <1>12, Constants DEF DataPage, Page
<1>14. pc' = "pmt"
  BY <1>1, <1>3, <1>5, <1>13
<1>15. /\ pmt'[r] = [q \in Page |-> IF q \in targets THEN pmt[v][from(q)] ELSE pmt[r][q]]
       /\ pmt'[v] = AllErased
       /\ \A b \in PmtBlock : b # v /\ b # r => pmt'[b] = pmt[b]
  BY <1>1, <1>2, <1>3 DEF Types
<1>16. /\ \A p \in Page : pmt'[v][p] = Erased
       /\ \A p \in Page : p >= n => pmt'[r][p] = Erased
  <2>1. \A p \in Page : p >= n => p \notin targets
    BY <1>10, Ranges, Constants
  <2> HIDE DEF targets
  <2> QED
    BY <1>3, <1>15, <2>1 DEF AllErased
<1>17. pmt' \in [PmtBlock -> [Page -> NodeCell \cup MetaCell \cup {Erased}]]
  <2> DEFINE Cells == NodeCell \cup MetaCell \cup {Erased}
  <2>1. pmt \in [PmtBlock -> [Page -> Cells]]
    BY DEF Types
  <2>2. AllErased \in [Page -> Cells]
    BY DEF AllErased
  <2>3. \A q \in targets : from(q) \in Page
    BY <1>7, <1>10, Ranges
  <2> HIDE DEF Cells
  <2>4. [q \in Page |-> IF q \in targets THEN pmt[v][from(q)] ELSE pmt[r][q]] \in [Page -> Cells]
    BY <1>2, <1>3, <2>1, <2>3
  <2>5. pmt' \in [PmtBlock -> [Page -> Cells]]
    BY <1>1, <2>1, <2>2, <2>4
  <2> QED
    BY <2>5 DEF Cells
<1>18. root_table'.map = [c \in Cluster |-> IF c \in moved
                            THEN [blk |-> r, pg |-> to(root_table.map[c].pg)]
                            ELSE root_table.map[c]]
  BY <1>1, <1>9
<1>19. /\ root_table'.reclaim = v /\ Current' = [blk |-> r, pg |-> n]
  BY <1>1 DEF Current
<1>20. \A c \in Cluster : c \notin moved => root_table'.map[c] = root_table.map[c]
  <2> HIDE DEF moved
  <2> QED
    BY <1>18
<1>21. ASSUME NEW c \in moved
       PROVE  LET pg == root_table'.map[c].pg
              IN  /\ root_table'.map[c].blk = r /\ pg \in Nat /\ pg < n
                  /\ pmt'[r][pg] = CellAt(root_table.map[c])
                  /\ meta_data'[pg] = c
  <2>1. root_table'.map[c] = [blk |-> r, pg |-> to(root_table.map[c].pg)]
    BY <1>8, <1>18
  <2>2. /\ root_table.map[c].pg \in live
        /\ to(root_table.map[c].pg) \in targets
        /\ from(to(root_table.map[c].pg)) = root_table.map[c].pg
    BY <1>8, <1>10
  <2>3. root_table.map[c].blk = v
    BY DEF Live
  <2>4. pmt'[r][to(root_table.map[c].pg)] = CellAt(root_table.map[c])
    BY <1>13, <1>15, <2>2, <2>3 DEF CellAt
  <2>5. meta_data'[to(root_table.map[c].pg)] = c
    BY <1>1, <1>4, <1>13, <2>2
  <2>6. to(root_table.map[c].pg) \in Nat /\ to(root_table.map[c].pg) < n
    BY <1>10, <2>2
  <2> QED
    BY <2>1, <2>4, <2>5, <2>6
<1>22. root_table' \in RootTable
  <2>1. \A c \in moved : [blk |-> r, pg |-> to(root_table.map[c].pg)] \in Location
    BY <1>3, <1>8, <1>10, <1>13 DEF Location
  <2>2. root_table.map \in [Cluster -> Location]
    BY TypeFacts
  <2> HIDE DEF moved
  <2>3. root_table'.map \in [Cluster -> Location]
    BY <1>18, <2>1, <2>2
  <2>4. n \in 0 .. MAX_DIRTY_PAGES
    BY <1>10, <1>12, Constants
  <2>5. root_table' = [map |-> root_table'.map, current |-> [blk |-> r, pg |-> n], reclaim |-> v]
    BY <1>1
  <2> QED
    BY <1>2, <1>3, <2>3, <2>4, <2>5 DEF RootTable
<1>23. meta_data' \in [DataPage -> Cluster]
  <2>1. \A q \in targets : named[from(q)] \in Cluster
    BY <1>5, <1>7, <1>10
  <2>2. meta_data \in [DataPage -> Cluster]
    BY DEF Types
  <2> HIDE DEF targets
  <2> QED
    BY <1>1, <2>1, <2>2
<1>24. cache' = SlotsLeft(moved)
  BY <1>1, <1>9
<1> HIDE DEF moved, targets
<1>25. Cardinality(moved) \in Nat /\ Cardinality(moved) + PMT_CACHE_COUNT <= MAX_DIRTY_PAGES
  BY <1>10, <1>11, <1>12
<1>26. Cardinality(moved) = n
  BY <1>11
<1>27. /\ pc = "reclaim" /\ v \notin forgotten /\ forgotten' = forgotten \ {v}
       /\ block_dirty_table' = ResetCounts({r, v})
       /\ UNCHANGED <<flash_root, slot, want, latest, committed, unrooted>>
  BY <1>1
<1>28. \A c \in moved : LET pg == root_table'.map[c].pg
                        IN  /\ root_table'.map[c].blk = r /\ pg \in Nat /\ pg < n
                            /\ pmt'[r][pg] = CellAt(root_table.map[c])
                            /\ meta_data'[pg] = c
  BY <1>21
<1> QED
  BY <1>2, <1>3, <1>14, <1>15, <1>16, <1>17, <1>19, <1>20, <1>22, <1>23, <1>24,
     <1>25, <1>26, <1>27, <1>28, Zenon DEF moved, v, r

LEMMA ReclaimCopyStep ==
  ASSUME Invariants, pmt_reclaim_blocks, ReclaimCopy(DirtiestBlock), risks' = {}
  PROVE  Invariants'
<1> USE DEF Invariants
<1> DEFINE v == DirtiestBlock
           r == root_table.reclaim
           moved == {c \in Live(v) : ~IsDirty(c)}
           n == Cardinality(moved)
<1>1. /\ pc = "reclaim" /\ pc' = "pmt"
      /\ v \in PmtBlock /\ r \in PmtBlock /\ v # r /\ v \notin forgotten
      /\ n \in Nat /\ n + PMT_CACHE_COUNT <= MAX_DIRTY_PAGES
      /\ pmt' \in [PmtBlock -> [Page -> NodeCell \cup MetaCell \cup {Erased}]]
      /\ \A b \in PmtBlock : b # v /\ b # r => pmt'[b] = pmt[b]
      /\ \A p \in Page : pmt'[v][p] = Erased
      /\ \A p \in Page : p >= n => pmt'[r][p] = Erased
      /\ \A c \in moved : LET pg == root_table'.map[c].pg
                          IN  /\ root_table'.map[c].blk = r /\ pg \in Nat /\ pg < n
                              /\ pmt'[r][pg] = CellAt(root_table.map[c])
                              /\ meta_data'[pg] = c
      /\ \A c \in Cluster : c \notin moved => root_table'.map[c] = root_table.map[c]
      /\ root_table' \in RootTable /\ meta_data' \in [DataPage -> Cluster]
      /\ Current' = [blk |-> r, pg |-> n] /\ root_table'.reclaim = v
      /\ block_dirty_table' = ResetCounts({r, v})
      /\ cache' = SlotsLeft(moved)
      /\ forgotten' = forgotten \ {v}
      /\ UNCHANGED <<flash_root, slot, want, latest, committed, unrooted>>
  BY ReclaimCopyEffect
<1>2. /\ Live(r) = {} /\ unrooted /\ slot > 1 /\ Current.pg = MAX_DIRTY_PAGES
      /\ \A c \in Cluster : Settled(c) <=> ~IsDirty(c)
  BY <1>1, ReclaimFacts DEF BlockInv
<1>3. Total(v) = MAX_DIRTY_PAGES
  BY <1>1, DirtiestIsFull
<1>4. \A c \in moved : c \in Cluster /\ root_table.map[c].blk = v /\ ~IsDirty(c)
  BY DEF Live
<1>5. \A c \in Cluster : c \notin moved => root_table.map[c].blk # v \/ IsDirty(c)
  BY DEF Live
<1> HIDE DEF v, r, moved, n
<1>6. /\ slot' = slot /\ Slots \subseteq DOMAIN cache /\ DOMAIN cache = 1 .. Len(cache)
      /\ Len(cache) \in Nat /\ slot \in Nat /\ slot <= Len(cache) + 1
      /\ Len(cache) <= PMT_CACHE_COUNT
      /\ \A i \in Slots : cache[i] \in Entry
  BY <1>1, TypeFacts DEF Types
<1>7. cache' \in Seq(Entry) /\ Len(cache') = Len(cache) /\ Slots' = Slots
  <2>1. \A i \in 1 .. Len(cache) : cache[i] \in Entry
    BY TypeFacts
  <2>2. EmptySlot \in Entry
    BY DEF Entry
  <2>3. cache' \in [1 .. Len(cache) -> Entry]
    BY <1>1, <1>6, <2>1, <2>2 DEF SlotsLeft
  <2>4. cache' \in Seq(Entry) /\ Len(cache') = Len(cache)
    BY <1>6, <2>3
  <2> QED
    BY <1>6, <2>4 DEF Slots
<1>8. \A i \in Slots : cache'[i] = IF cache[i].cluster \in moved THEN EmptySlot ELSE cache[i]
  BY <1>1, <1>6 DEF SlotsLeft
<1>9. \A c \in Cluster : /\ IsDirty(c)' <=> IsDirty(c)
                         /\ Settled(c)' <=> Settled(c)
  <2>1. ~EmptySlot.dirty
    BY DEF EmptySlot
  <2>2. \A i \in Slots : cache[i].dirty => cache[i].cluster \notin moved
    BY <1>4 DEF IsDirty
  <2>3. \A c \in Cluster : IsDirty(c)' <=> IsDirty(c)
    BY <1>7, <1>8, <2>1, <2>2 DEF IsDirty
  <2> QED
    BY <1>1, <2>3 DEF Settled
<1>10. \A c \in Cluster : /\ c \in moved => root_table'.map[c].blk = r
                          /\ c \notin moved => root_table'.map[c].blk = root_table.map[c].blk
  BY <1>1
<1>11. \A b : Live(b)' = IF b = r THEN moved ELSE Live(b) \ moved
  <2>1. \A b, c : c \in Live(b)' <=> c \in Cluster /\ root_table'.map[c].blk = b
    BY DEF Live
  <2>2. \A b, c : c \in Live(b) <=> c \in Cluster /\ root_table.map[c].blk = b
    BY DEF Live
  <2> SUFFICES ASSUME NEW b, NEW c
               PROVE  c \in Live(b)' <=> c \in IF b = r THEN moved ELSE Live(b) \ moved
    BY Zenon
  <2>3. CASE c \in moved
    BY <1>4, <1>10, <2>1, <2>3
  <2>4. CASE c \notin moved
    BY <1>2, <1>10, <2>1, <2>2, <2>4
  <2> QED
    BY <2>3, <2>4
<1>12. \A b \in PmtBlock : b # v /\ b # r => Live(b)' = Live(b)
  BY <1>4, <1>11 DEF Live
<1>13. /\ Current'.blk = r /\ Current'.pg = n /\ root_table'.reclaim = v
  BY <1>1
<1>14. \A c \in Live(v) \ moved : c \in Cluster /\ IsDirty(c)
  BY <1>5 DEF Live
<1>15. Types'
  <2>1. block_dirty_table' \in Counts
    BY <1>1, TypeFacts DEF ResetCounts, Counts
  <2>2. forgotten' \subseteq PmtBlock
    BY <1>1 DEF Types
  <2>3. slot' \in 1 .. Len(cache') + 1 /\ Len(cache') <= PMT_CACHE_COUNT
    BY <1>2, <1>6, <1>7
  <2> QED
    BY <1>1, <1>7, <2>1, <2>2, <2>3 DEF Types
<1>16. ControlInv'
  BY <1>1 DEF ControlInv
<1>17. CacheInv'
  <2>1. \A i \in Slots : cache'[i] # EmptySlot => cache'[i] = cache[i]
    BY <1>8
  <2>2. \A i, j \in Slots : cache'[i] # EmptySlot /\ cache'[i].cluster = cache'[j].cluster => i = j
    <3> SUFFICES ASSUME NEW i \in Slots, NEW j \in Slots, cache'[i] # EmptySlot,
                        cache'[i].cluster = cache'[j].cluster
                 PROVE  i = j
      OBVIOUS
    <3>1. cache'[i] = cache[i] /\ cache[i].cluster \in Cluster
      BY <1>6, <2>1, EntryFacts
    <3>2. cache'[j] # EmptySlot
      BY <3>1, EntryFacts, Ranges DEF EmptySlot
    <3> QED
      BY <2>1, <3>1, <3>2 DEF CacheInv
  <2> QED
    BY <1>1, <1>7, <2>1, <2>2 DEF CacheInv
<1>18. MapInv'
  <2>1. ASSUME NEW c \in Cluster, ~IsDirty(c)
        PROVE  CellAt(root_table.map[c])' = Node(c, latest[c])
    <3>1. CellAt(root_table.map[c]) = Node(c, latest[c])
      BY <2>1 DEF MapInv
    <3>2. CASE c \in moved
      BY <1>1, <3>1, <3>2 DEF CellAt
    <3>3. CASE c \notin moved
      <4>1. root_table.map[c].blk \in PmtBlock /\ root_table.map[c].blk # v
            /\ root_table.map[c].blk # r
        BY <1>2, <1>5, <2>1, <3>3, TypeFacts DEF Live
      <4> QED
        BY <1>1, <3>1, <3>3, <4>1, ZenonT(40) DEF CellAt
    <3> QED
      BY <3>2, <3>3
  <2> QED
    BY <1>1, <1>2, <1>9, <2>1 DEF MapInv
<1>19. BlockInv'
  <2>1. n < MAX_DIRTY_PAGES
    BY <1>1, Constants
  <2>2. \A c \in moved : root_table'.map[c].pg < n
    BY <1>1
  <2>3. n + Len(cache') + 1 - slot' < MAX_DIRTY_PAGES
    BY <1>1, <1>2, <1>6, <1>7, Constants
  <2>4. Live(Current.blk)' = moved /\ Live(root_table.reclaim)' = Live(v) \ moved
    BY <1>1, <1>11, <1>13
  <2> QED
    BY <1>1, <1>2, <1>9, <1>13, <1>14, <2>1, <2>2, <2>3, <2>4 DEF BlockInv
<1>20. MetaInv'
  <2>1. ASSUME NEW b \in PmtBlock, Closed(b)', NEW c \in Live(b)'
        PROVE  /\ pmt'[b][MAX_DIRTY_PAGES] \in MetaCell
               /\ Settled(c)' /\ b \notin forgotten' =>
                    pmt'[b][MAX_DIRTY_PAGES].clusters[root_table'.map[c].pg] = c
    <3>1. b # v /\ b # r
      BY <1>1, <1>13, <2>1 DEF Closed
    <3>2. c \in Live(b) /\ c \in Cluster /\ c \notin moved
      BY <1>4, <1>12, <2>1, <3>1 DEF Live
    <3>3. Closed(b) /\ pmt'[b] = pmt[b] /\ root_table'.map[c] = root_table.map[c]
      BY <1>1, <3>1, <3>2 DEF Closed, r
    <3> QED
      BY <1>1, <1>9, <2>1, <3>1, <3>2, <3>3 DEF MetaInv
  <2>2. \A c \in moved : meta_data'[root_table'.map[c].pg] = c
    BY <1>1
  <2>3. Live(Current.blk)' = moved
    BY <1>11, <1>13
  <2>4. root_table'.reclaim \notin forgotten'
    BY <1>1
  <2> QED
    BY <2>1, <2>2, <2>3, <2>4 DEF MetaInv
<1>21. CountInv'
  <2>1. \A b \in PmtBlock : block_dirty_table'[b] = IF b = v \/ b = r THEN 0
                                                    ELSE block_dirty_table[b]
    BY <1>1 DEF ResetCounts
  <2>2. \A b \in PmtBlock : Total(b)' = block_dirty_table'[b] + Cardinality(Live(b)')
    BY DEF Total
  <2>4. Cardinality(Live(v) \ moved) < PMT_CACHE_COUNT
    <3>1. Live(v) \ moved \in SUBSET Cluster
      BY <1>14
    <3> QED
      BY <1>2, <1>14, <3>1, DirtySlots
  <2>5. Cardinality(Live(v) \ moved) \in Nat
    BY <1>14, ClusterSets
  <2>6. ASSUME NEW b \in PmtBlock
        PROVE  IF b = v THEN Total(b)' < PMT_CACHE_COUNT
               ELSE Total(b)' = IF b = r THEN n ELSE MAX_DIRTY_PAGES
    <3>1. CASE b = v
      <4>1. Live(b)' = Live(v) \ moved /\ block_dirty_table'[b] = 0
        BY <1>1, <1>11, <2>1, <3>1
      <4> QED
        BY <2>2, <2>4, <2>5, <3>1, <4>1
    <3>2. CASE b = r
      <4>1. Live(b)' = moved /\ block_dirty_table'[b] = 0
        BY <1>11, <2>1, <3>2
      <4> QED
        <5>1. Total(b)' = 0 + n
          BY <2>2, <4>1 DEF n
        <5> QED
          BY <1>1, <3>2, <5>1
    <3>3. CASE b # v /\ b # r
      <4>1. Total(b)' = Total(b)
        BY <1>12, <2>1, <2>2, <3>3 DEF Total
      <4> QED
        BY <1>2, <3>3, <4>1 DEF CountInv, r
    <3> QED
      BY <3>1, <3>2, <3>3
  <2> QED
    BY <1>13, <2>6 DEF CountInv
<1> QED
  BY <1>15, <1>16, <1>17, <1>18, <1>19, <1>20, <1>21

(***************************************************************************)
(* All steps.                                                              *)
(***************************************************************************)

\* A risk once taken stays.
LEMMA RisksGrow ==
  ASSUME [Next]_vars, risks' = {}
  PROVE  risks = {}
<1>1. CASE \E c \in Cluster, update \in BOOLEAN : Access(c, update)
  BY <1>1 DEF Access
<1>2. CASE LoadAfterCommit
  BY <1>2 DEF LoadAfterCommit
<1>3. CASE Commit \/ CommitClean \/ ProgramMeta
  BY <1>3 DEF Commit, CommitClean, ProgramMeta, past
<1>4. CASE CommitDirty \/ CommitRoot \/ FTL_Init
  BY <1>4 DEF CommitDirty, CommitRoot, FTL_Init
<1>5. CASE pmt_reclaim_blocks
  BY <1>5 DEF pmt_reclaim_blocks, ReclaimErase, ReclaimCopy
<1>6. CASE PowerLoss
  BY <1>6 DEF PowerLoss
<1>7. CASE UNCHANGED vars
  BY <1>7 DEF vars, past
<1> QED
  BY <1>1, <1>2, <1>3, <1>4, <1>5, <1>6, <1>7 DEF Next

LEMMA NextInvariants ==
  ASSUME Invariants, [Next]_vars, risks' = {}
  PROVE  Invariants'
<1>1. CASE \E c \in Cluster, update \in BOOLEAN : Access(c, update)
  BY <1>1, AccessStep
<1>2. CASE LoadAfterCommit
  BY <1>2, LoadAfterCommitStep
<1>3. CASE Commit
  BY <1>3, CommitStep
<1>4. CASE CommitClean
  BY <1>4, CommitCleanStep
<1>5. CASE CommitDirty
  BY <1>5, CommitDirtyStep
<1>6. CASE ProgramMeta
  BY <1>6, ProgramMetaStep
<1>7. CASE pmt_reclaim_blocks
  <2>1. CASE ReclaimErase(DirtiestBlock)
    BY <1>7, <2>1, ReclaimEraseStep
  <2>2. CASE ReclaimCopy(DirtiestBlock)
    BY <1>7, <2>2, ReclaimCopyStep
  <2> QED
    BY <1>7, <2>1, <2>2 DEF pmt_reclaim_blocks
<1>8. CASE CommitRoot
  BY <1>8, CommitRootStep
<1>9. CASE PowerLoss
  BY <1>9, PowerLossStep
<1>10. CASE FTL_Init
  BY <1>10, FTL_InitStep
<1>11. CASE UNCHANGED vars
  <2> USE <1>11 DEF vars, ram, past, Invariants
  <2>1. Types'
    BY DEF Types
  <2>2. ControlInv' /\ CacheInv' /\ MapInv'
    BY DEF ControlInv, CacheInv, MapInv, Slots, IsDirty, CellAt, RootPage
  <2>3. BlockInv' /\ MetaInv'
    BY DEF BlockInv, MetaInv, Current, Live, Slots, IsDirty, Settled, Closed
  <2>4. CountInv'
    BY DEF CountInv, Total, Live, Current
  <2> QED
    BY <2>1, <2>2, <2>3, <2>4
<1> QED
  BY <1>1, <1>2, <1>3, <1>4, <1>5, <1>6, <1>7, <1>8, <1>9, <1>10, <1>11 DEF Next

LEMMA Inductive == Spec => []IInv
<1>1. PMT_Format => IInv
  BY InitInvariants DEF IInv
<1>2. IInv /\ [Next]_vars => IInv'
  BY RisksGrow, NextInvariants DEF IInv
<1> QED
  BY <1>1, <1>2, PTL DEF Spec

(***************************************************************************)
(* The theorems.                                                           *)
(***************************************************************************)

\* PMT_Load finds every cluster as PMT_Update left it, wherever commits and
\* reclaims have put its page (PMT_Commit, pmt_reclaim_blocks).
THEOREM EveryClusterIsFound == Spec => []ClustersFound
<1>1. IInv => ClustersFound
  <2> SUFFICES ASSUME Invariants, pc = "idle", NEW c \in Cluster
               PROVE  IF IsCached(c) THEN \E i \in Slots : cache[i].cell = Node(c, latest[c])
                      ELSE CellAt(root_table.map[c]) = Node(c, latest[c])
    BY DEF IInv, ClustersFound
  <2>1. CASE IsCached(c)
    <3>1. PICK i \in Slots : cache[i].cluster = c
      BY <2>1 DEF IsCached
    <3>2. cache[i] # EmptySlot
      BY DEF Invariants, CacheInv
    <3> QED
      BY <2>1, <3>1, <3>2 DEF Invariants, CacheInv
  <2>2. CASE ~IsCached(c)
    BY <2>2 DEF Invariants, MapInv, IsDirty, IsCached
  <2> QED
    BY <2>1, <2>2
<1> QED
  BY <1>1, Inductive, PTL

\* What the last ROOT page names is there until the next one is programmed: a
\* power loss between two commits leaves the clusters of the last commit.
THEOREM TheLastCommitSurvives == Spec => []CommitSurvives
<1>1. IInv => CommitSurvives
  <2> SUFFICES ASSUME Invariants, ~unrooted, NEW c \in Cluster
               PROVE  CellAt(flash_root.root.map[c]) = Node(c, committed[c])
    BY DEF IInv, CommitSurvives
  <2>1. flash_root.root = root_table
    BY DEF Invariants, MapInv, RootPage
  <2> QED
    BY <2>1 DEF Invariants, MapInv
<1> QED
  BY <1>1, Inductive, PTL

\* block_dirty_table is exact when no commit runs, and the reclaim block holds
\* no page that anything needs.
THEOREM DirtyCountsAreExact == Spec => []DirtyCountsExact
<1>1. IInv => DirtyCountsExact
  <2> SUFFICES ASSUME Invariants, pc = "idle", NEW b \in PmtBlock
               PROVE  IF b = root_table.reclaim
                      THEN Live(b) = {} /\ Total(b) < PMT_CACHE_COUNT
                      ELSE Total(b) = IF b = Current.blk THEN Current.pg ELSE MAX_DIRTY_PAGES
    BY DEF IInv, DirtyCountsExact, Live, Total, Current
  <2>1. Live(root_table.reclaim) = {}
    BY DEF Invariants, ControlInv, BlockInv
  <2> QED
    BY <2>1 DEF Invariants, CountInv
<1> QED
  BY <1>1, Inductive, PTL

\* No ASSERT of PMT_Commit and pmt_reclaim_blocks fails, no page is programmed
\* twice and the block to reclaim has its meta data page.
THEOREM NoAssertFails == Spec => []AssertsHold
<1>1. IInv => AssertsHold
  BY DEF IInv, Invariants, Types, AssertsHold
<1> QED
  BY <1>1, Inductive, PTL

=============================================================================
