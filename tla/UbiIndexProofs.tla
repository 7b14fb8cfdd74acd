---------------------------- MODULE UbiIndexProofs ----------------------------
(***************************************************************************)
(* Proofs about UbiIndex, for any number of blocks, pages a block, failed  *)
(* programs and power losses: until a block that the last index table uses *)
(* is erased, a mount finds the contents of every logical block, every     *)
(* block has one role, and without failed programs a mount finds its       *)
(* tables.                                                                 *)
(***************************************************************************)
EXTENDS UbiIndex, FiniteSetTheorems, SequenceTheorems, WellFoundedInduction, TLAPS

(***************************************************************************)
(* The invariant.                                                          *)
(***************************************************************************)

Plr == [log : LogBlock, phy : PhyBlock] \cup {NoPlr}
Mapping == [LogBlock -> PhyBlock]
UserCell == [kind : {"user"}, log : LogBlock, gen : Nat]
IndexCell == [kind : {"index"}, area : PhyBlock, area_bad : BOOLEAN,
              free : SUBSET PhyBlock, worn : SUBSET PhyBlock, plr : Plr]
AreaCell == [kind : {"area"}, map : Mapping]
Table == UserCell \cup IndexCell \cup AreaCell
Pages == Seq(Table \cup {Torn})
AnchorPage == [new : PhyBlock, old : PhyBlock \cup {NoBlock}, old_bad : BOOLEAN,
               prev : 0 .. AnchorCount]

\* What can be read from the pages of a block.
IsIndex(pages) == Readable(pages) # {} /\ Last(pages).kind = "index"
IsArea(pages) == Readable(pages) # {} /\ Last(pages).kind = "area"

\* The last index table, and the mapping it stands for: that of its area table,
\* with the update it announces.
Home == saved.blk
Saved == saved.page
Intact == IsIndex(flash[Home])
Apply(m, u) == IF u = NoPlr THEN m ELSE [m EXCEPT ![u.log] = u.phy]
SavedMap == Apply(Last(flash[Saved.area]).map, Saved.plr)

\* The mapping and the blocks the firmware works with.
Busy == pc \in {"idle", "commit", "area", "index", "anchor", "anchored", "readarea"}
Loading == caller \in {"new", "old"} /\ pc \in {"index", "anchor", "anchored", "readarea"}
Mine == Apply(IF Loading THEN Last(flash[area]).map ELSE map, plr)
Announced == pc \in {"anchor", "anchored"}
Unused == IF Announced THEN free \cup {anchor_table.new} ELSE free

\* The logical blocks the caller has not given up.
Others == LogBlock \ {doing.log}

Types ==
  /\ flash \in [PhyBlock -> Pages]
  /\ anchors \in [Anchor -> Seq(AnchorPage)]
  /\ saved \in [blk : PhyBlock, page : IndexCell]
  /\ bad \subseteq PhyBlock /\ data \in [LogBlock -> Pages] /\ doing \in Plr
  /\ area_bad \in BOOLEAN /\ index_bad \in BOOLEAN
  /\ early \in BOOLEAN /\ exhausted \in BOOLEAN
  /\ mounting \in BOOLEAN /\ area_reclaim \in BOOLEAN /\ anchor_reclaimed \in BOOLEAN
  /\ free \subseteq PhyBlock /\ worn \subseteq PhyBlock /\ plr \in Plr
  /\ ops \in Nat /\ fails \in Nat /\ index_next_page \in Nat
  /\ anchor_block \in Anchor \/ pc = "off"
  /\ anchor_table \in AnchorPage \/ pc = "off"
  /\ Busy => /\ area \in PhyBlock /\ index_block \in PhyBlock
             /\ Loading \/ map \in Mapping
  /\ pc \in {"idle", "commit", "area", "index", "anchor", "anchored", "off",
             "readindex", "readarea", "failed", "confused"}
  /\ caller \in {"none", "first", "last", "new", "old"}

\* What a mount would find: the last index table, if its block has not been
\* erased since, the area table it names, and the blocks that one maps to.
SavedInv == Intact =>
  /\ Last(flash[Home]) = Saved /\ IsArea(flash[Saved.area])
  /\ OneRoleEach(SavedMap, Saved.area, Home, Saved.free)
  /\ \A l \in Others : flash[SavedMap[l]] = data[l]
  /\ doing # NoPlr => \A l \in Others : SavedMap[l] # doing.phy
  /\ \A l \in LogBlock : ~IsIndex(flash[SavedMap[l]])

\* What the firmware would find.
MineInv == Busy =>
  /\ OneRoleEach(Mine, area, index_block, Unused)
  /\ Announced => anchor_table.new \notin free
  /\ \A l \in Others : flash[Mine[l]] = data[l]
  /\ doing # NoPlr => \A l \in Others : Mine[l] # doing.phy
  /\ \A l \in LogBlock : ~IsIndex(flash[Mine[l]])
  /\ doing # NoPlr /\ ~mounting /\ ~Loading =>
       doing.log = plr.log /\ flash[Mine[doing.log]] = <<>>

\* The mapping in RAM and the area table that can be read.
UpToDate == /\ Intact /\ Home = index_block
            /\ Saved.area = area /\ Saved.plr = plr /\ Saved.free = free
            /\ SavedMap = Mine
NotNeeded(b) == Intact => b # Saved.area /\ \A l \in Others : SavedMap[l] # b
Fresh == area_reclaim /\ NotNeeded(area) /\ (Intact => area # Home)
InIndex == pc \in {"index", "anchor", "anchored"}
AreaInv ==
  /\ pc = "idle" => /\ IsArea(flash[area]) /\ Last(flash[area]).map = map /\ Mine = map
                    /\ doing = NoPlr
  /\ (pc = "commit" /\ ~AREA_IsFull) \/ (InIndex /\ caller = "first") =>
       IsArea(flash[area]) /\ Apply(Last(flash[area]).map, plr) = Mine
  /\ InIndex /\ caller = "last" =>
       IsArea(flash[area]) /\ Last(flash[area]).map = map /\ Mine = map
  /\ pc \in {"commit", "area"} \/ (InIndex /\ ~Loading) => plr # NoPlr
  /\ pc = "area" => UpToDate \/ Fresh
  /\ InIndex => caller # "none"

\* A mount has read the last index table; no free block is one this table uses
\* when a call begins.
LoadInv ==
  /\ pc = "idle" \/ Loading => free \subseteq Saved.free \cup {Home}
  /\ pc = "idle" /\ Intact => SavedMap = map /\ Saved.area = area
  /\ Loading => /\ Intact /\ Saved.area = area /\ Saved.plr = plr
                /\ Announced \/ (pc = "index" /\ IndexFull) => index_block = Home
  /\ mounting => pc \notin {"off", "readindex", "readarea"} /\ ~Loading
  /\ pc = "readarea" => caller \in {"new", "old"}

\* The records of the anchor: at most one besides the last.
Live == {a \in Anchor : anchors[a] # <<>>}
Records == {Last(anchors[a]) : a \in Live}
             \cup IF pc = "readindex" THEN {anchor_table} ELSE {}

IndexInv == Busy =>
  /\ index_block = Home \/ (~IsIndex(flash[index_block]) /\ NotNeeded(index_block))
  /\ Announced => /\ flash[anchor_table.new] = <<>> /\ NotNeeded(anchor_table.new)
                  /\ anchor_table.old = index_block
  /\ ~Announced => index_block = Home \/ \A r \in Records : r.new = index_block

\* No record leads to an index table but the last.
RecordInv == \A r \in Records :
  \/ r.new = Home /\ Intact
  \/ ~IsIndex(flash[r.new]) /\ (r.old \in {Home, NoBlock} \/ ~IsIndex(flash[r.old]))

AnchorsInv ==
  /\ Live # {}
  /\ pc \notin {"off", "anchor", "anchored", "failed", "confused"} => Live = {anchor_block}
  /\ pc = "anchor" =>
       IF anchor_reclaimed
       THEN /\ anchor_next_page = 0
            /\ Live = {anchor_table.prev} /\ anchor_table.prev # anchor_block
       ELSE Live = {anchor_block}
  /\ pc = "anchored" =>
       /\ anchor_block \in Live /\ Last(anchors[anchor_block]) = anchor_table
       /\ IF anchor_reclaimed
          THEN Live \subseteq {anchor_block, anchor_table.prev} /\ anchor_table.prev # anchor_block
          ELSE Live = {anchor_block}

\* Without failed programs or want of free blocks the last index table is never
\* lost: a block announced in its place is empty, and announced when it is full.
Lucky == fails = 0 /\ ~exhausted /\ ~early
AtHome == \A r \in Records : r.new = Home
HomeInv ==
  /\ Intact /\ Len(flash[Home]) <= PPB /\ \A i \in DOMAIN flash[Home] : flash[Home][i] # Torn
  /\ \A r \in Records : r.new = Home \/ /\ flash[r.new] = <<>> /\ r.old = Home
                                        /\ Len(flash[Home]) = PPB
LuckyInv ==
  /\ HomeInv /\ pc \notin {"failed", "confused"}
  /\ Busy => index_next_page = Len(flash[index_block])
  /\ pc \in {"idle", "commit", "area", "readarea"} => index_block = Home /\ AtHome
  /\ Announced => index_block = Home /\ IndexFull
  /\ pc = "index" => IF IndexFull THEN index_block = Home
                     ELSE \A r \in Records : r.new = index_block

Invariants == SavedInv /\ MineInv /\ AreaInv /\ LoadInv /\ IndexInv /\ RecordInv
IInv == Types /\ AnchorsInv /\ (~early => Invariants)

(***************************************************************************)
(* Pages of a block.                                                       *)
(***************************************************************************)

LEMMA Kinds ==
  /\ \A t \in Table : t # Torn /\ t.kind # "torn"
  /\ \A t \in Table : t.kind = "index" => t \in IndexCell
  /\ \A t \in Table : t.kind = "area" => t.map \in Mapping
  /\ \A t \in IndexCell : t \in Table /\ t.kind = "index"
  /\ \A m \in Mapping : AreaPage(m) \in AreaCell /\ AreaPage(m).kind = "area"
                        /\ AreaPage(m).map = m
  /\ \A t \in AreaCell : t \in Table /\ t.kind = "area"
  /\ \A t \in UserCell : t \in Table /\ t.kind = "user"
  /\ \A l \in LogBlock, n \in Nat : User(l, n) \in UserCell
  /\ Torn \in Table \cup {Torn}
BY DEF Table, Torn, UserCell, IndexCell, AreaCell, AreaPage, User

LEMMA LeastExists ==
  ASSUME NEW S \in SUBSET Nat, S # {}
  PROVE  \E x \in S : \A y \in S : x <= y
<1>1. PICK x \in S : \A y \in S : ~(<<y, x>> \in OpToRel(<, Nat))
  BY NatLessThanWellFounded, WFMin
<1>2. ASSUME NEW y \in S PROVE x <= y
  <2>1. y < x => <<y, x>> \in OpToRel(<, Nat)
    BY DEF OpToRel
  <2>2. ~(y < x)
    BY <1>1, <2>1, Zenon
  <2> QED
    BY <2>2
<1> QED
  BY <1>2

\* The last page that can be read, if there is one.
LEMMA LastReadable ==
  ASSUME NEW S, NEW pages \in Seq(S), Readable(pages) # {}
  PROVE  \E i \in Readable(pages) :
           (\A j \in Readable(pages) : j <= i) /\ Last(pages) = pages[i]
<1> DEFINE n == Len(pages)
           T == {n - x : x \in Readable(pages)}
<1>1. n \in Nat /\ Readable(pages) \subseteq 1 .. n
  BY DEF Readable
<1>2. T \in SUBSET Nat /\ T # {}
  <2>1. PICK x \in Readable(pages) : TRUE
    OBVIOUS
  <2>2. n - x \in T
    BY <2>1
  <2>3. \A y \in Readable(pages) : n - y \in Nat
    BY <1>1
  <2> QED
    BY <2>2, <2>3
<1>3. PICK t \in T : \A u \in T : t <= u
  <2> HIDE DEF T
  <2> QED
    BY <1>2, LeastExists
<1>4. PICK i \in Readable(pages) : t = n - i
  OBVIOUS
<1>5. ASSUME NEW j \in Readable(pages)
      PROVE  j <= i
  <2>1. n - j \in T
    OBVIOUS
  <2>2. t <= n - j
    BY <1>3, <2>1
  <2> HIDE DEF T
  <2> QED
    BY <1>1, <1>4, <2>2
<1>6. \A k \in Readable(pages) : (\A j \in Readable(pages) : j <= k) => k = i
  BY <1>1, <1>5
<1> HIDE DEF T
<1>7. Last(pages) = pages[i]
  BY <1>5, <1>6, Zenon DEF Last
<1> QED
  BY <1>5, <1>7

LEMMA LastIsTable ==
  ASSUME NEW pages \in Pages, Readable(pages) # {}
  PROVE  Last(pages) \in Table
BY LastReadable DEF Readable, Pages

LEMMA IndexTable ==
  ASSUME NEW pages \in Pages, IsIndex(pages)
  PROVE  Last(pages) \in IndexCell
BY LastIsTable, Kinds DEF IsIndex

LEMMA AreaTable ==
  ASSUME NEW pages \in Pages, IsArea(pages)
  PROVE  Last(pages).map \in Mapping /\ ~IsIndex(pages)
BY LastIsTable, Kinds DEF IsArea, IsIndex

LEMMA NoPages == <<>> \in Pages /\ Readable(<<>>) = {} /\ ~IsIndex(<<>>) /\ ~IsArea(<<>>)
BY DEF Pages, Readable, IsIndex, IsArea

LEMMA AppendReadable ==
  ASSUME NEW S, NEW pages \in Seq(S), NEW t \in S, t # Torn
  PROVE  Readable(Append(pages, t)) # {} /\ Last(Append(pages, t)) = t
<1> DEFINE new == Append(pages, t)
<1>1. new \in Seq(S) /\ Len(new) = Len(pages) + 1 /\ new[Len(pages) + 1] = t
  OBVIOUS
<1>2. Len(pages) + 1 \in Readable(new) /\ \A j \in Readable(new) : j <= Len(pages) + 1
  BY <1>1 DEF Readable
<1>3. PICK i \in Readable(new) : (\A j \in Readable(new) : j <= i) /\ Last(new) = new[i]
  BY <1>1, <1>2, LastReadable
<1>4. i = Len(pages) + 1
  BY <1>1, <1>2, <1>3 DEF Readable
<1> QED
  BY <1>1, <1>2, <1>3, <1>4

LEMMA AppendTable ==
  ASSUME NEW pages \in Pages, NEW t \in Table
  PROVE  LET new == Append(pages, t)
         IN  /\ new \in Pages /\ Readable(new) # {} /\ Last(new) = t
             /\ (IsIndex(new) <=> t.kind = "index") /\ (IsArea(new) <=> t.kind = "area")
<1>1. t # Torn /\ Append(pages, t) \in Pages
  BY Kinds DEF Pages
<1>2. Readable(Append(pages, t)) # {} /\ Last(Append(pages, t)) = t
  BY <1>1, AppendReadable DEF Pages
<1> QED
  BY <1>1, <1>2 DEF IsIndex, IsArea

\* What a page that cannot be read leaves as it was.
SameTable(new, old) ==
  Readable(new) = Readable(old) /\ (Readable(old) # {} => Last(new) = Last(old))

LEMMA AppendTorn ==
  ASSUME NEW pages \in Pages
  PROVE  Append(pages, Torn) \in Pages /\ SameTable(Append(pages, Torn), pages)
<1> DEFINE new == Append(pages, Torn)
<1>1. /\ new \in Pages /\ Len(new) = Len(pages) + 1 /\ new[Len(pages) + 1] = Torn
      /\ \A i \in 1 .. Len(pages) : new[i] = pages[i]
      /\ DOMAIN pages = 1 .. Len(pages) /\ DOMAIN new = 1 .. Len(pages) + 1
      /\ Len(pages) \in Nat
  BY DEF Pages
<1>2. Readable(new) = Readable(pages)
  BY <1>1 DEF Readable
<1>3. ASSUME Readable(pages) # {}
      PROVE  Last(new) = Last(pages)
  <2>1. PICK i \in Readable(new) : (\A j \in Readable(new) : j <= i) /\ Last(new) = new[i]
    BY <1>1, <1>2, <1>3, LastReadable DEF Pages
  <2>2. PICK k \in Readable(pages) :
          (\A j \in Readable(pages) : j <= k) /\ Last(pages) = pages[k]
    BY <1>3, LastReadable DEF Pages
  <2>3. i = k /\ i \in 1 .. Len(pages)
    BY <1>1, <1>2, <2>1, <2>2 DEF Readable
  <2> QED
    BY <1>1, <2>1, <2>2, <2>3
<1> QED
  BY <1>1, <1>2, <1>3 DEF SameTable

LEMMA SameKinds ==
  ASSUME NEW new, NEW old, SameTable(new, old)
  PROVE  /\ (IsIndex(new) <=> IsIndex(old)) /\ (IsArea(new) <=> IsArea(old))
         /\ Readable(old) # {} => Last(new) = Last(old)
BY DEF SameTable, IsIndex, IsArea

LEMMA ApplyPlr ==
  ASSUME NEW m \in Mapping, NEW u \in Plr
  PROVE  /\ Apply(m, u) \in Mapping
         /\ Apply(Apply(m, u), u) = Apply(m, u)
         /\ u # NoPlr => /\ u \in [log : LogBlock, phy : PhyBlock]
                         /\ Apply(m, u) = [m EXCEPT ![u.log] = u.phy]
                         /\ Apply(m, u)[u.log] = u.phy
                         /\ \A l \in LogBlock : l # u.log => Apply(m, u)[l] = m[l]
         /\ u = NoPlr \/ m[u.log] = u.phy => Apply(m, u) = m
BY DEF Apply, Mapping, Plr

\* Pages of the anchor can all be read.
LEMMA AnchorPages ==
  ASSUME NEW pages \in Seq(AnchorPage)
  PROVE  /\ pages # <<>> => Last(pages) \in AnchorPage
         /\ \A r \in AnchorPage : /\ Append(pages, r) \in Seq(AnchorPage)
                                  /\ Append(pages, r) # <<>> /\ Last(Append(pages, r)) = r
<1>1. ASSUME NEW r \in AnchorPage
      PROVE  r # Torn
  <2>1. "new" \in DOMAIN r /\ DOMAIN Torn = {"kind"}
    BY DEF AnchorPage, Torn
  <2> QED
    BY <2>1
<1>2. ASSUME pages # <<>>
      PROVE  Last(pages) \in AnchorPage
  <2>1. 1 \in Readable(pages)
    BY <1>1, <1>2 DEF Readable
  <2>2. PICK i \in Readable(pages) : Last(pages) = pages[i]
    BY <2>1, LastReadable
  <2> QED
    BY <2>2 DEF Readable
<1>3. ASSUME NEW r \in AnchorPage
      PROVE  Append(pages, r) \in Seq(AnchorPage) /\ Append(pages, r) # <<>>
             /\ Last(Append(pages, r)) = r
  BY <1>1, AppendReadable
<1> QED
  BY <1>2, <1>3

LEMMA EraseBlock ==
  ASSUME flash \in [PhyBlock -> Pages], NEW b \in PhyBlock, flash' = Erased(b)
  PROVE  /\ flash' \in [PhyBlock -> Pages] /\ flash'[b] = <<>>
         /\ \A c \in PhyBlock : c # b => flash'[c] = flash[c]
BY NoPages DEF Erased

LEMMA ProgramBlock ==
  ASSUME flash \in [PhyBlock -> Pages], NEW b \in PhyBlock, NEW page, NEW t \in Table,
         NEW ok \in Outcome(b, page), flash' = Programmed(b, page, t, ok)
  PROVE  /\ ok \in BOOLEAN /\ flash' \in [PhyBlock -> Pages]
         /\ \A c \in PhyBlock : c # b => flash'[c] = flash[c]
         /\ ok => flash'[b] = Append(flash[b], t)
         /\ ok => /\ Readable(flash'[b]) # {} /\ Last(flash'[b]) = t
                  /\ IsIndex(flash'[b]) <=> t.kind = "index"
                  /\ IsArea(flash'[b]) <=> t.kind = "area"
         /\ ~ok => SameTable(flash'[b], flash[b])
<1>1. ok \in BOOLEAN /\ (ok => ~(page < Len(flash[b])))
  BY DEF Outcome
<1>2. flash[b] \in Pages
  OBVIOUS
<1>3. CASE page < Len(flash[b])
  <2>1. ~ok /\ flash' = flash
    BY <1>1, <1>3 DEF Programmed
  <2> QED
    BY <1>1, <2>1 DEF SameTable
<1>4. CASE ~(page < Len(flash[b])) /\ ok
  <2>1. flash' = [flash EXCEPT ![b] = Append(@, t)]
    BY <1>4 DEF Programmed
  <2>2. /\ flash'[b] = Append(flash[b], t)
        /\ \A c \in PhyBlock : c # b => flash'[c] = flash[c]
    BY <2>1
  <2>3. /\ flash'[b] \in Pages /\ Readable(flash'[b]) # {} /\ Last(flash'[b]) = t
        /\ IsIndex(flash'[b]) <=> t.kind = "index"
        /\ IsArea(flash'[b]) <=> t.kind = "area"
    BY <1>2, <2>2, AppendTable
  <2>4. flash' \in [PhyBlock -> Pages]
    BY <2>1, <2>2, <2>3
  <2> QED
    BY <1>4, <2>2, <2>3, <2>4
<1>5. CASE ~(page < Len(flash[b])) /\ ~ok
  <2>1. flash' = [flash EXCEPT ![b] = Append(@, Torn)]
    BY <1>5 DEF Programmed
  <2>2. flash'[b] = Append(flash[b], Torn)
    BY <2>1
  <2> QED
    BY <1>1, <1>2, <1>5, <2>1, <2>2, AppendTorn
<1> QED
  BY <1>1, <1>3, <1>4, <1>5

(***************************************************************************)
(* Types.                                                                  *)
(***************************************************************************)

LEMMA Constants ==
  /\ PPB \in Nat /\ PPB >= 2 /\ AnchorCount \in Nat /\ AnchorCount >= 2
  /\ Formatted \in Mapping /\ Area0 \in PhyBlock /\ Index0 \in PhyBlock
  /\ NoBlock \notin PhyBlock /\ NoBlock \notin LogBlock
  /\ NoPlr \in Plr /\ NoPlr.log = NoBlock /\ NoPlr.phy = NoBlock
  /\ \A l \in LogBlock, b \in PhyBlock :
       [log |-> l, phy |-> b] \in Plr /\ [log |-> l, phy |-> b] # NoPlr
BY FormatAssumption, CountAssumption DEF Mapping, Plr, NoPlr

LEMMA PlrFields ==
  ASSUME NEW u \in Plr
  PROVE  /\ u # NoPlr => u.log \in LogBlock /\ u.phy \in PhyBlock
         /\ u = NoPlr => u.log = NoBlock /\ u.phy = NoBlock
         /\ u = NoPlr <=> u.log = NoBlock
BY Constants DEF Plr, NoPlr

LEMMA TableTypes ==
  /\ \A t \in IndexCell :
       /\ t.area \in PhyBlock /\ t.free \subseteq PhyBlock /\ t.worn \subseteq PhyBlock
       /\ t.area_bad \in BOOLEAN /\ t.plr \in Plr /\ t.kind = "index"
  /\ \A a \in PhyBlock, f \in SUBSET PhyBlock, w \in SUBSET PhyBlock, u \in Plr :
       \A abad \in BOOLEAN :
         /\ IndexPage(a, abad, f, w, u) \in IndexCell
         /\ IndexPage(a, abad, f, w, u).area = a /\ IndexPage(a, abad, f, w, u).free = f
         /\ IndexPage(a, abad, f, w, u).plr = u
BY DEF IndexCell, IndexPage

LEMMA OnePage ==
  ASSUME NEW t \in Table
  PROVE  /\ <<t>> \in Pages /\ Readable(<<t>>) # {} /\ Last(<<t>>) = t
         /\ (IsIndex(<<t>>) <=> t.kind = "index") /\ (IsArea(<<t>>) <=> t.kind = "area")
<1>1. <<t>> = Append(<<>>, t)
  OBVIOUS
<1> QED
  BY <1>1, NoPages, AppendTable

\* What UBI_Format programs.
LEMMA FormatFlash ==
  ASSUME Init
  PROVE  /\ flash \in [PhyBlock -> Pages]
         /\ flash[Area0] = <<AreaPage(Formatted)>>
         /\ flash[Index0] = <<IndexPage(Area0, FALSE, Free0, Worn0, NoPlr)>>
         /\ \A l \in LogBlock : flash[Formatted[l]] = <<User(l, 0)>>
<1> DEFINE cell(b) == CASE b = Area0 -> <<AreaPage(map)>>
                        [] b = Index0 -> <<IndexPage(Area0, FALSE, free, worn, NoPlr)>>
                        [] b \in Free0 -> <<>>
                        [] OTHER -> <<User(CHOOSE l \in LogBlock : map[l] = b, 0)>>
<1>1. map = Formatted /\ free = Free0 /\ worn = Worn0
      /\ flash = [b \in PhyBlock |-> cell(b)]
  BY DEF Init
<1>2. \A l, k \in LogBlock : Formatted[l] = Formatted[k] => l = k
  BY FormatAssumption
<1>3. \A l \in LogBlock : /\ Formatted[l] \in PhyBlock /\ Formatted[l] \notin Free0
                          /\ Formatted[l] # Area0 /\ Formatted[l] # Index0
  BY FormatAssumption DEF Free0
<1>4. ASSUME NEW b \in PhyBlock, b # Area0, b # Index0, b \notin Free0
      PROVE  \E l \in LogBlock : b = Formatted[l]
  BY <1>4 DEF Free0
<1>5. ASSUME NEW l \in LogBlock
      PROVE  cell(Formatted[l]) = <<User(l, 0)>>
  <2>1. (CHOOSE k \in LogBlock : map[k] = Formatted[l]) = l
    BY <1>1, <1>2
  <2> QED
    BY <1>3, <2>1
<1>6. Area0 # Index0 /\ Area0 \notin Free0 /\ Index0 \notin Free0
      /\ Free0 \in SUBSET PhyBlock /\ Worn0 \in SUBSET PhyBlock
  BY FormatAssumption DEF Free0
<1>7. AreaPage(Formatted) \in Table /\ IndexPage(Area0, FALSE, Free0, Worn0, NoPlr) \in Table
      /\ \A l \in LogBlock : User(l, 0) \in Table
  BY <1>6, Constants, TableTypes, Kinds DEF Table
<1>8. ASSUME NEW b \in PhyBlock
      PROVE  cell(b) \in Pages
  <2>1. CASE b = Area0
    BY <1>1, <1>6, <1>7, <2>1, OnePage
  <2>2. CASE b = Index0
    BY <1>1, <1>6, <1>7, <2>2, OnePage
  <2>3. CASE b \in Free0
    BY <1>6, <2>3, NoPages
  <2>4. CASE b # Area0 /\ b # Index0 /\ b \notin Free0
    <3>1. PICK l \in LogBlock : b = Formatted[l]
      BY <1>4, <2>4
    <3> QED
      BY <1>5, <1>7, <3>1, OnePage
  <2> QED
    BY <2>1, <2>2, <2>3, <2>4
<1>9. cell(Area0) = <<AreaPage(Formatted)>>
      /\ cell(Index0) = <<IndexPage(Area0, FALSE, Free0, Worn0, NoPlr)>>
  BY <1>1, <1>6
<1> HIDE DEF cell
<1> QED
  BY <1>1, <1>3, <1>5, <1>8, <1>9, Constants

LEMMA FormatTypes ==
  ASSUME Init
  PROVE  Types
<1>1. /\ map = Formatted /\ free = Free0 /\ worn = Worn0 /\ area = Area0 /\ plr = NoPlr
      /\ area_bad = FALSE /\ index_bad = FALSE /\ early = FALSE /\ exhausted = FALSE
      /\ mounting = FALSE /\ area_reclaim = FALSE /\ anchor_reclaimed = FALSE
      /\ ops = 0 /\ fails = 0 /\ index_next_page = 1 /\ anchor_block = 1
      /\ index_block = Index0 /\ bad = {} /\ doing = NoPlr /\ pc = "idle" /\ caller = "none"
      /\ anchor_table = [new |-> Index0, old |-> NoBlock, old_bad |-> FALSE, prev |-> 0]
      /\ anchors = [a \in Anchor |-> IF a = 1 THEN <<anchor_table>> ELSE <<>>]
      /\ data = [l \in LogBlock |-> <<User(l, 0)>>]
      /\ saved = [blk |-> Index0, page |-> IndexPage(Area0, FALSE, Free0, Worn0, NoPlr)]
  BY DEF Init
<1>2. Free0 \in SUBSET PhyBlock /\ Worn0 \in SUBSET PhyBlock
  BY FormatAssumption DEF Free0
<1>3. flash \in [PhyBlock -> Pages]
  BY FormatFlash
<1>4. anchor_table \in AnchorPage /\ 1 \in Anchor
  BY <1>1, Constants DEF AnchorPage, Anchor
<1>5. <<anchor_table>> \in Seq(AnchorPage) /\ <<>> \in Seq(AnchorPage)
  BY <1>4
<1>6. anchors \in [Anchor -> Seq(AnchorPage)]
  BY <1>1, <1>5
<1>7. saved \in [blk : PhyBlock, page : IndexCell]
  BY <1>1, <1>2, Constants, TableTypes
<1>8. data \in [LogBlock -> Pages]
  <2>1. \A l \in LogBlock : <<User(l, 0)>> \in Pages
    BY Kinds, OnePage
  <2> QED
    BY <1>1, <2>1
<1> QED
  BY <1>1, <1>2, <1>3, <1>4, <1>6, <1>7, <1>8, Constants DEF Types

LEMMA FirstFree == First \subseteq free
BY DEF First

LEMMA EraseTypes ==
  ASSUME Types, NEW l \in LogBlock, UBI_Erase(l) \/ ubi_reclaim_badblock(l)
  PROVE  Types'
<1>1. PICK new \in First :
        /\ flash' = Erased(new) \/ flash' = [flash EXCEPT ![new] = flash[map[l]]]
        /\ free' = (free \ {new}) \cup {map[l]} /\ plr' = [log |-> l, phy |-> new]
  BY DEF UBI_Erase, ubi_reclaim_badblock
<1>2. /\ worn' = worn \/ worn' = worn \cup {map[l]}
      /\ doing' = doing \/ doing' = [log |-> l, phy |-> map[l]]
      /\ ops' = ops + 1
  BY DEF UBI_Erase, ubi_reclaim_badblock, history
<1>3. /\ pc = "idle" /\ pc' = "commit" /\ area_reclaim' = FALSE /\ mounting' = FALSE
      /\ UNCHANGED <<anchors, area, area_bad, map, anchor_table, anchor_block, index_block,
                     index_bad, index_next_page, caller, anchor_reclaimed, fails, data, bad,
                     exhausted, saved, early>>
  BY DEF UBI_Erase, ubi_reclaim_badblock, area_table, anchor, index, history
<1>4. new \in PhyBlock /\ map \in Mapping /\ map[l] \in PhyBlock
  BY <1>3, FirstFree DEF Types, Busy, Loading, Mapping
<1>5. flash' \in [PhyBlock -> Pages]
  BY <1>1, <1>4, EraseBlock DEF Types
<1>6. /\ plr' \in Plr /\ doing' \in Plr /\ free' \subseteq PhyBlock /\ worn' \subseteq PhyBlock
      /\ ops' \in Nat
  BY <1>1, <1>2, <1>4, Constants DEF Types
<1> QED
  BY <1>3, <1>4, <1>5, <1>6 DEF Types, Busy, Loading

LEMMA UserWriteTypes ==
  ASSUME Types, NEW l \in LogBlock, UserWrite(l)
  PROVE  Types'
<1>1. /\ pc = "idle"
      /\ data' = [data EXCEPT ![l] = <<User(l, ops)>>]
      /\ flash' = [flash EXCEPT ![map[l]] = Append(@, User(l, ops))]
      /\ UNCHANGED <<anchors, ram, pc, control, bounds, doing, bad, exhausted, saved, early>>
  BY DEF UserWrite
<1>2. map \in Mapping /\ map[l] \in PhyBlock
  BY <1>1 DEF Types, Busy, Loading, Mapping
<1>3. User(l, ops) \in Table
  BY Kinds DEF Types
<1>4. flash' \in [PhyBlock -> Pages]
  <2>1. flash[map[l]] \in Pages
    BY <1>2 DEF Types
  <2>2. Append(flash[map[l]], User(l, ops)) \in Pages
    BY <1>3, <2>1, AppendTable
  <2> QED
    BY <1>1, <2>2 DEF Types
<1>5. data' \in [LogBlock -> Pages]
  BY <1>1, <1>3, OnePage DEF Types
<1> QED
  BY <1>1, <1>4, <1>5
  DEF Types, Busy, Loading, ram, index_table, area_table, anchor, index, control, bounds

LEMMA CommitTypes ==
  ASSUME Types, CommitToNextPage \/ CommitToNewBlock
  PROVE  Types'
<1>1. CASE CommitToNextPage
  BY <1>1 DEF CommitToNextPage, Types, Busy, Loading, ram, index_table, area_table, anchor,
       index, bounds, history
<1>2. CASE CommitToNewBlock
  <2>1. PICK new \in First :
          /\ flash' = Erased(new) /\ area' = new
          /\ free' = (free \ {new}) \cup Put(area, area_bad)
          /\ bad' = bad \cup ({area} \ Put(area, area_bad))
          /\ EarlyErase(new)
    BY <1>2 DEF CommitToNewBlock
  <2>2. /\ pc = "commit" /\ pc' = "area" /\ area_bad' = FALSE /\ area_reclaim' = TRUE
        /\ UNCHANGED <<anchors, worn, plr, map, anchor_table, anchor_block, index_block,
                       index_bad, index_next_page, caller, mounting, anchor_reclaimed, ops,
                       fails, data, doing, exhausted, saved>>
    BY <1>2 DEF CommitToNewBlock, area_table, anchor, index, bounds
  <2>3. new \in PhyBlock /\ area \in PhyBlock
    BY <2>2, FirstFree DEF Types, Busy
  <2>4. free' \subseteq PhyBlock /\ bad' \subseteq PhyBlock
    BY <2>1, <2>3 DEF Types, Put
  <2>5. early' \in BOOLEAN
    BY <2>1 DEF EarlyErase, Types
  <2>6. flash' \in [PhyBlock -> Pages]
    BY <2>1, <2>3, EraseBlock DEF Types
  <2> QED
    BY <2>1, <2>2, <2>3, <2>4, <2>5, <2>6 DEF Types, Busy, Loading
<1> QED
  BY <1>1, <1>2

LEMMA NoFreeBlockTypes ==
  ASSUME Types, CommitNoFreeBlock \/ IndexNoFreeBlock
  PROVE  Types'
<1>1. PICK next \in {"failed", "readarea"} :
        NoFreeBlock(next) /\ (next = "readarea" => pc = "index" /\ caller = "new")
  BY DEF CommitNoFreeBlock, IndexNoFreeBlock
<1>2. /\ pc' = next /\ exhausted' = TRUE
      /\ UNCHANGED <<flash, anchors, area, area_bad, free, worn, plr, map, anchor_table,
                     anchor_block, index_block, index_bad, index_next_page, caller, mounting,
                     area_reclaim, anchor_reclaimed, ops, fails, data, doing, bad, saved, early>>
  BY <1>1 DEF NoFreeBlock, ram, index_table, area_table, anchor, index, control, bounds
<1>3. pc \in {"index", "commit"} /\ (pc' = "readarea" => pc = "index" /\ caller = "new")
  BY <1>1, <1>2 DEF CommitNoFreeBlock, IndexNoFreeBlock
<1> QED
  BY <1>1, <1>2, <1>3 DEF Types, Busy, Loading

\* AREA_Update.
LEMMA AreaUpdateEffect ==
  ASSUME Types, AREA_Update
  PROVE  \E ok \in BOOLEAN :
           /\ flash' \in [PhyBlock -> Pages]
           /\ \A c \in PhyBlock : c # area => flash'[c] = flash[c]
           /\ ok => Readable(flash'[area]) # {} /\ Last(flash'[area]) = AreaPage(map')
           /\ ~ok => SameTable(flash'[area], flash[area]) /\ area_offset' = PPB - 1
           /\ map' = [map EXCEPT ![plr.log] = plr.phy] /\ map' \in Mapping
           /\ fails' \in Nat /\ area_bad' \in BOOLEAN
           /\ \/ ~ok /\ Retry /\ UNCHANGED caller
              \/ /\ ok /\ area_reclaim /\ pc' = "index" /\ caller' = "last"
                 /\ UNCHANGED <<is_updating_area, doing, data>>
              \/ ok /\ ~area_reclaim /\ Return(map', mounting) /\ UNCHANGED caller
           /\ pc = "area"
           /\ UNCHANGED <<anchors, area, free, worn, plr, anchor_table, anchor_block,
                          anchor_next_page, index_block, index_bad, index_next_page,
                          mounting, area_reclaim, anchor_reclaimed, ops, crashes, bad,
                          exhausted, saved, early>>
<1> DEFINE page == (area_offset + 1) % PPB
           new == [map EXCEPT ![plr.log] = plr.phy]
<1>1. PICK ok \in Outcome(area, page) :
        /\ flash' = Programmed(area, page, AreaPage(new), ok)
        /\ Counted(area, page, ok)
        /\ area_offset' = IF ok THEN page ELSE PPB - 1
        /\ area_bad' = (area_bad \/ ~ok)
        /\ \/ ~ok /\ Retry /\ UNCHANGED caller
           \/ /\ ok /\ area_reclaim /\ pc' = "index" /\ caller' = "last"
              /\ UNCHANGED <<is_updating_area, doing, data>>
           \/ ok /\ ~area_reclaim /\ Return(new, mounting) /\ UNCHANGED caller
  BY DEF AREA_Update
<1>2. /\ pc = "area" /\ map' = new
      /\ UNCHANGED <<anchors, area, free, worn, plr, anchor_table, anchor_block,
                     anchor_next_page, index_block, index_bad, index_next_page,
                     mounting, area_reclaim, anchor_reclaimed, ops, crashes, bad,
                     exhausted, saved, early>>
  BY DEF AREA_Update, anchor, index
<1>3. /\ area \in PhyBlock /\ map \in Mapping /\ plr \in Plr /\ fails \in Nat
      /\ flash \in [PhyBlock -> Pages] /\ area_bad \in BOOLEAN
  BY <1>2 DEF Types, Busy, Loading
<1>4. new \in Mapping
  BY <1>3, PlrFields, Constants DEF Mapping
<1> HIDE DEF page, new
<1>5. AreaPage(new) \in Table
  BY <1>4, Kinds
<1>6. /\ ok \in BOOLEAN /\ flash' \in [PhyBlock -> Pages]
      /\ \A c \in PhyBlock : c # area => flash'[c] = flash[c]
      /\ ok => Readable(flash'[area]) # {} /\ Last(flash'[area]) = AreaPage(new)
      /\ ~ok => SameTable(flash'[area], flash[area])
  <2> DEFINE cell == AreaPage(new)
  <2>1. /\ flash' = Programmed(area, page, cell, ok) /\ cell \in Table
        /\ flash \in [PhyBlock -> Pages] /\ area \in PhyBlock
    BY <1>1, <1>3, <1>5
  <2> HIDE DEF cell
  <2>2. /\ ok \in BOOLEAN /\ flash' \in [PhyBlock -> Pages]
        /\ \A c \in PhyBlock : c # area => flash'[c] = flash[c]
        /\ ok => Readable(flash'[area]) # {} /\ Last(flash'[area]) = cell
        /\ ~ok => SameTable(flash'[area], flash[area])
    BY <2>1, ProgramBlock
  <2> QED
    BY <2>2, Zenon DEF cell
<1>7. fails' \in Nat
  BY <1>1, <1>3 DEF Counted
<1>8. map' = [map EXCEPT ![plr.log] = plr.phy]
  BY <1>2 DEF new
<1>9. area_bad' \in BOOLEAN
  BY <1>1, <1>3, <1>6
<1>10. ~ok => area_offset' = PPB - 1
  BY <1>1, <1>6
<1> QED
  BY <1>1, <1>2, <1>4, <1>6, <1>7, <1>8, <1>9, <1>10

\* What a call that returns tells of the contents of the block it was changing.
LEMMA ReturnTypes ==
  ASSUME Types, NEW m \in Mapping, NEW b \in BOOLEAN, Return(m, b)
  PROVE  /\ pc' = "idle" /\ doing' = NoPlr /\ data' \in [LogBlock -> Pages]
         /\ doing = NoPlr => data' = data
         /\ \A l \in Others : data'[l] = data[l]
         /\ doing # NoPlr => /\ doing.log \in LogBlock
                             /\ data'[doing.log] = IF b THEN flash[m[doing.log]] ELSE <<>>
<1>1. /\ pc' = "idle" /\ doing' = NoPlr
      /\ data' = IF doing = NoPlr THEN data
                 ELSE [data EXCEPT ![doing.log] = IF b THEN flash[m[doing.log]] ELSE <<>>]
  BY DEF Return
<1>2. doing \in Plr /\ data \in [LogBlock -> Pages] /\ flash \in [PhyBlock -> Pages]
  BY DEF Types
<1>3. CASE doing = NoPlr
  BY <1>1, <1>2, <1>3
<1>4. CASE doing # NoPlr
  <2>1. doing.log \in LogBlock
    BY <1>2, <1>4, PlrFields
  <2>2. (IF b THEN flash[m[doing.log]] ELSE <<>>) \in Pages
    BY <1>2, <2>1, NoPages DEF Mapping
  <2> QED
    BY <1>1, <1>2, <1>4, <2>1, <2>2 DEF Others
<1> QED
  BY <1>3, <1>4

LEMMA AreaUpdateTypes ==
  ASSUME Types, AREA_Update
  PROVE  Types'
<1>1. PICK ok \in BOOLEAN :
        /\ flash' \in [PhyBlock -> Pages]
        /\ map' = [map EXCEPT ![plr.log] = plr.phy] /\ map' \in Mapping
        /\ fails' \in Nat /\ area_bad' \in BOOLEAN
        /\ \/ ~ok /\ Retry /\ UNCHANGED caller
           \/ /\ ok /\ area_reclaim /\ pc' = "index" /\ caller' = "last"
              /\ UNCHANGED <<is_updating_area, doing, data>>
           \/ ok /\ ~area_reclaim /\ Return(map', mounting) /\ UNCHANGED caller
        /\ pc = "area"
        /\ UNCHANGED <<anchors, area, free, worn, plr, anchor_table, anchor_block,
                       anchor_next_page, index_block, index_bad, index_next_page,
                       mounting, area_reclaim, anchor_reclaimed, ops, crashes, bad,
                       exhausted, saved, early>>
  BY AreaUpdateEffect
<1>2. /\ pc' \in {"commit", "index", "idle"}
      /\ data' \in [LogBlock -> Pages] /\ doing' \in Plr
      /\ caller' \in {"none", "first", "last", "new", "old"}
  <2>1. data \in [LogBlock -> Pages] /\ doing \in Plr /\ mounting \in BOOLEAN
        /\ caller \in {"none", "first", "last", "new", "old"}
    BY DEF Types
  <2>2. CASE ~ok /\ Retry /\ UNCHANGED caller
    BY <2>1, <2>2 DEF Retry
  <2>3. CASE pc' = "index" /\ caller' = "last" /\ UNCHANGED <<is_updating_area, doing, data>>
    BY <2>1, <2>3
  <2>4. CASE Return(map', mounting) /\ UNCHANGED caller
    BY <1>1, <2>1, <2>4, ReturnTypes, Constants
  <2> QED
    BY <1>1, <2>2, <2>3, <2>4
<1> QED
  BY <1>1, <1>2 DEF Types, Busy, Loading

\* index_update.
LEMMA IndexReclaimEffect ==
  ASSUME Types, IndexReclaim
  PROVE  \E new \in free :
           /\ new \in PhyBlock
           /\ flash' \in [PhyBlock -> Pages] /\ flash'[new] = <<>>
           /\ \A c \in PhyBlock : c # new => flash'[c] = flash[c]
           /\ free' = free \ {new}
           /\ anchor_table' = [anchor_table EXCEPT !.new = new, !.old = index_block,
                                                   !.old_bad = index_bad]
           /\ anchor_table' \in AnchorPage
           /\ anchor_table'.new = new /\ anchor_table'.old = index_block
           /\ EarlyErase(new)
           /\ pc = "index" /\ IndexFull /\ pc' = "anchor" /\ anchor_reclaimed' = FALSE
           /\ UNCHANGED <<anchors, area, area_bad, worn, plr, map, area_offset,
                          anchor_block, anchor_next_page, index_block, index_bad,
                          index_next_page, is_updating_area, caller, mounting,
                          area_reclaim, ops, crashes, fails, data, doing, bad, exhausted,
                          saved>>
<1>1. PICK new \in First :
        /\ flash' = Erased(new) /\ free' = free \ {new}
        /\ anchor_table' = [anchor_table EXCEPT !.new = new, !.old = index_block,
                                                !.old_bad = index_bad]
        /\ EarlyErase(new)
  BY DEF IndexReclaim
<1>2. /\ pc = "index" /\ IndexFull /\ pc' = "anchor" /\ anchor_reclaimed' = FALSE
      /\ UNCHANGED <<anchors, area, area_bad, worn, plr, map, area_offset,
                     anchor_block, anchor_next_page, index_block, index_bad,
                     index_next_page, is_updating_area, caller, mounting,
                     area_reclaim, ops, crashes, fails, data, doing, bad, exhausted,
                     saved>>
  BY DEF IndexReclaim, area_table, index, bounds
<1>3. new \in free /\ new \in PhyBlock
  BY FirstFree DEF Types
<1>4. /\ flash' \in [PhyBlock -> Pages] /\ flash'[new] = <<>>
      /\ \A c \in PhyBlock : c # new => flash'[c] = flash[c]
  BY <1>1, <1>3, EraseBlock DEF Types
<1>5. anchor_table \in AnchorPage /\ index_block \in PhyBlock /\ index_bad \in BOOLEAN
  BY <1>2 DEF Types, Busy
<1>6. anchor_table' \in AnchorPage /\ anchor_table'.new = new /\ anchor_table'.old = index_block
  BY <1>1, <1>3, <1>5 DEF AnchorPage
<1> QED
  BY <1>1, <1>2, <1>3, <1>4, <1>6

LEMMA IndexReclaimTypes ==
  ASSUME Types, IndexReclaim
  PROVE  Types'
<1>1. PICK new \in free :
        /\ flash' \in [PhyBlock -> Pages]
        /\ free' = free \ {new}
        /\ anchor_table' \in AnchorPage
        /\ EarlyErase(new)
        /\ pc = "index" /\ pc' = "anchor" /\ anchor_reclaimed' = FALSE
        /\ UNCHANGED <<anchors, area, area_bad, worn, plr, map, area_offset,
                       anchor_block, anchor_next_page, index_block, index_bad,
                       index_next_page, is_updating_area, caller, mounting,
                       area_reclaim, ops, crashes, fails, data, doing, bad, exhausted,
                       saved>>
  BY IndexReclaimEffect
<1>2. early' \in BOOLEAN
  BY <1>1 DEF EarlyErase, Types
<1> QED
  BY <1>1, <1>2 DEF Types, Busy, Loading

LEMMA AnchorReclaimEffect ==
  ASSUME Types, AnchorReclaim
  PROVE  \E next \in Anchor :
           /\ next # anchor_block /\ anchor_block \in Anchor /\ anchor_block' = next
           /\ anchor_table' \in AnchorPage /\ anchor_table'.prev = anchor_block
           /\ anchor_table'.new = anchor_table.new /\ anchor_table'.old = anchor_table.old
           /\ anchors' = [anchors EXCEPT ![next] = <<>>]
           /\ anchor_next_page = PPB /\ anchor_next_page' = 0 /\ anchor_reclaimed' = TRUE
           /\ pc = "anchor"
           /\ UNCHANGED <<flash, area, area_bad, free, worn, plr, map, area_offset,
                          index_block, index_bad, index_next_page, is_updating_area, pc,
                          caller, mounting, area_reclaim, ops, crashes, fails, data, doing,
                          bad, exhausted, saved, early>>
<1> DEFINE next == (anchor_block % AnchorCount) + 1
<1>1. /\ pc = "anchor" /\ anchor_next_page = PPB
      /\ anchor_table' = [anchor_table EXCEPT !.prev = anchor_block]
      /\ anchors' = [anchors EXCEPT ![next] = <<>>]
      /\ anchor_block' = next /\ anchor_next_page' = 0 /\ anchor_reclaimed' = TRUE
      /\ UNCHANGED <<flash, area, area_bad, free, worn, plr, map, area_offset,
                     index_block, index_bad, index_next_page, is_updating_area, pc,
                     caller, mounting, area_reclaim, ops, crashes, fails, data, doing,
                     bad, exhausted, saved, early>>
  BY DEF AnchorReclaim, index_table, area_table, index, bounds, history
<1>2. anchor_block \in Anchor /\ anchor_table \in AnchorPage
  BY <1>1 DEF Types
<1>3. next \in Anchor /\ next # anchor_block
  BY <1>2, Constants DEF Anchor
<1>4. /\ anchor_table' \in AnchorPage /\ anchor_table'.prev = anchor_block
      /\ anchor_table'.new = anchor_table.new /\ anchor_table'.old = anchor_table.old
  BY <1>1, <1>2 DEF AnchorPage, Anchor
<1> QED
  BY <1>1, <1>2, <1>3, <1>4

LEMMA AnchorReclaimTypes ==
  ASSUME Types, AnchorReclaim
  PROVE  Types'
<1>1. PICK next \in Anchor :
        /\ anchor_block' = next /\ anchor_table' \in AnchorPage
        /\ anchors' = [anchors EXCEPT ![next] = <<>>]
        /\ anchor_reclaimed' = TRUE
        /\ UNCHANGED <<flash, area, area_bad, free, worn, plr, map, area_offset,
                       index_block, index_bad, index_next_page, is_updating_area, pc,
                       caller, mounting, area_reclaim, ops, crashes, fails, data, doing,
                       bad, exhausted, saved, early>>
  BY AnchorReclaimEffect
<1>2. anchors' \in [Anchor -> Seq(AnchorPage)]
  BY <1>1 DEF Types
<1> QED
  BY <1>1, <1>2 DEF Types, Busy, Loading

LEMMA AnchorWriteEffect ==
  ASSUME Types, AnchorWrite
  PROVE  /\ anchors' = [anchors EXCEPT ![anchor_block] = Append(@, anchor_table)]
         /\ anchors' \in [Anchor -> Seq(AnchorPage)]
         /\ anchors'[anchor_block] # <<>> /\ Last(anchors'[anchor_block]) = anchor_table
         /\ anchor_block \in Anchor /\ anchor_table \in AnchorPage
         /\ anchor_next_page # PPB
         /\ pc = "anchor" /\ pc' = "anchored"
         /\ UNCHANGED <<flash, area, area_bad, free, worn, plr, map, area_offset,
                        anchor_table, anchor_block, anchor_next_page, index_block,
                        index_bad, index_next_page, is_updating_area, caller, mounting,
                        area_reclaim, anchor_reclaimed, ops, crashes, fails, data, doing,
                        bad, exhausted, saved, early>>
<1>1. /\ pc = "anchor" /\ pc' = "anchored" /\ anchor_next_page # PPB
      /\ anchors' = [anchors EXCEPT ![anchor_block] = Append(@, anchor_table)]
      /\ UNCHANGED <<flash, area, area_bad, free, worn, plr, map, area_offset,
                     anchor_table, anchor_block, anchor_next_page, index_block,
                     index_bad, index_next_page, is_updating_area, caller, mounting,
                     area_reclaim, anchor_reclaimed, ops, crashes, fails, data, doing,
                     bad, exhausted, saved, early>>
  BY DEF AnchorWrite, ram, index_table, area_table, anchor, index, control, bounds, history
<1>2. /\ anchor_block \in Anchor /\ anchor_table \in AnchorPage
      /\ anchors \in [Anchor -> Seq(AnchorPage)]
  BY <1>1 DEF Types
<1>3. LET pages == Append(anchors[anchor_block], anchor_table)
      IN  pages \in Seq(AnchorPage) /\ pages # <<>> /\ Last(pages) = anchor_table
  BY <1>2, AnchorPages
<1>4. anchors'[anchor_block] = Append(anchors[anchor_block], anchor_table)
      /\ anchors' \in [Anchor -> Seq(AnchorPage)]
  BY <1>1, <1>2, <1>3
<1> QED
  BY <1>1, <1>2, <1>3, <1>4

LEMMA AnchorWriteTypes ==
  ASSUME Types, AnchorWrite
  PROVE  Types'
BY AnchorWriteEffect DEF Types, Busy, Loading

LEMMA AnchorDoneEffect ==
  ASSUME Types, AnchorDone
  PROVE  /\ anchors' = IF anchor_reclaimed THEN [anchors EXCEPT ![anchor_table.prev] = <<>>]
                       ELSE anchors
         /\ anchors' \in [Anchor -> Seq(AnchorPage)]
         /\ free' = free \cup Put(index_block, index_bad) /\ free' \subseteq PhyBlock
         /\ bad' = bad \cup ({index_block} \ Put(index_block, index_bad))
         /\ bad' \subseteq PhyBlock
         /\ index_block' = anchor_table.new /\ index_block' \in PhyBlock
         /\ index_next_page' = 0 /\ index_bad' = FALSE
         /\ pc = "anchored" /\ pc' = "index"
         /\ UNCHANGED <<flash, area, area_bad, worn, plr, map, area_offset, anchor_table,
                        anchor_block, is_updating_area, caller, mounting, area_reclaim,
                        anchor_reclaimed, ops, crashes, fails, data, doing, exhausted,
                        saved, early>>
<1>1. /\ anchors' = IF anchor_reclaimed THEN [anchors EXCEPT ![anchor_table.prev] = <<>>]
                    ELSE anchors
      /\ free' = free \cup Put(index_block, index_bad)
      /\ bad' = bad \cup ({index_block} \ Put(index_block, index_bad))
      /\ index_block' = anchor_table.new /\ index_next_page' = 0 /\ index_bad' = FALSE
      /\ pc = "anchored" /\ pc' = "index"
      /\ UNCHANGED <<flash, area, area_bad, worn, plr, map, area_offset, anchor_table,
                     anchor_block, is_updating_area, caller, mounting, area_reclaim,
                     anchor_reclaimed, ops, crashes, fails, data, doing, exhausted,
                     saved, early>>
  BY DEF AnchorDone, ReleaseIndexBlock, area_table, control, bounds
<1>2. anchor_table \in AnchorPage /\ index_block \in PhyBlock
  BY <1>1 DEF Types, Busy
<1>3. anchors' \in [Anchor -> Seq(AnchorPage)]
  <2>1. anchors \in [Anchor -> Seq(AnchorPage)] /\ <<>> \in Seq(AnchorPage)
    BY DEF Types
  <2>2. [anchors EXCEPT ![anchor_table.prev] = <<>>] \in [Anchor -> Seq(AnchorPage)]
    BY <2>1
  <2> QED
    BY <1>1, <2>1, <2>2
<1>4. free' \subseteq PhyBlock /\ bad' \subseteq PhyBlock
  BY <1>1, <1>2 DEF Types, Put
<1>5. anchor_table.new \in PhyBlock
  BY <1>2 DEF AnchorPage
<1> QED
  BY <1>1, <1>3, <1>4, <1>5

LEMMA AnchorDoneTypes ==
  ASSUME Types, AnchorDone
  PROVE  Types'
<1>1. /\ anchors' \in [Anchor -> Seq(AnchorPage)]
      /\ free' \subseteq PhyBlock /\ bad' \subseteq PhyBlock
      /\ index_block' \in PhyBlock /\ index_bad' \in BOOLEAN
      /\ pc = "anchored" /\ pc' = "index"
      /\ UNCHANGED <<flash, area, area_bad, worn, plr, map, area_offset, anchor_table,
                     anchor_block, is_updating_area, caller, mounting, area_reclaim,
                     anchor_reclaimed, ops, crashes, fails, data, doing, exhausted,
                     saved, early>>
  BY AnchorDoneEffect
<1>2. index_next_page' \in Nat
  BY AnchorDoneEffect
<1> QED
  BY <1>1, <1>2 DEF Types, Busy, Loading

LEMMA IndexWriteEffect ==
  ASSUME Types, IndexWrite
  PROVE  \E ok \in BOOLEAN :
           /\ flash' \in [PhyBlock -> Pages]
           /\ \A c \in PhyBlock : c # index_block => flash'[c] = flash[c]
           /\ ok => /\ Last(flash'[index_block]) = ThisIndex /\ IsIndex(flash'[index_block])
                    /\ flash'[index_block] = Append(flash[index_block], ThisIndex)
                    /\ index_next_page' = index_next_page + 1
           /\ ~ok => SameTable(flash'[index_block], flash[index_block]) /\ index_next_page' = PPB
           /\ ThisIndex \in IndexCell
           /\ saved' = IF ok THEN [blk |-> index_block, page |-> ThisIndex] ELSE saved
           /\ saved' \in [blk : PhyBlock, page : IndexCell]
           /\ fails' \in Nat /\ index_bad' \in BOOLEAN
           /\ \/ ~ok /\ caller \in {"first", "last"} /\ Retry
              \/ ok /\ caller = "last" /\ Return(map, mounting)
              \/ ok /\ caller = "first" /\ pc' = "area" /\ UNCHANGED <<doing, data>>
              \/ ok /\ caller \in {"new", "old"} /\ pc' = "readarea" /\ UNCHANGED <<doing, data>>
              \/ ~ok /\ caller = "new" /\ pc' = "readarea" /\ UNCHANGED <<doing, data>>
              \/ ~ok /\ caller = "old" /\ pc' = "failed" /\ UNCHANGED <<doing, data>>
           /\ pc = "index" /\ ~IndexFull
           /\ index_block \in PhyBlock /\ area \in PhyBlock
           /\ UNCHANGED <<anchors, area, area_bad, free, worn, plr, map, area_offset,
                          anchor_table, anchor_block, anchor_next_page, index_block,
                          caller, mounting, area_reclaim, anchor_reclaimed, ops, crashes,
                          bad, exhausted, early>>
<1>1. PICK ok \in Outcome(index_block, index_next_page) :
        /\ flash' = Programmed(index_block, index_next_page, ThisIndex, ok)
        /\ saved' = IF ok THEN [blk |-> index_block, page |-> ThisIndex] ELSE saved
        /\ Counted(index_block, index_next_page, ok)
        /\ index_next_page' = IF ok THEN index_next_page + 1 ELSE PPB
        /\ index_bad' = (index_bad \/ ~ok)
        /\ \/ ~ok /\ caller \in {"first", "last"} /\ Retry
           \/ ok /\ caller = "last" /\ Return(map, mounting)
           \/ /\ pc' = CASE caller = "first" /\ ok -> "area"
                         [] caller = "new" \/ (caller = "old" /\ ok) -> "readarea"
                         [] caller = "old" /\ ~ok -> "failed"
                         [] OTHER -> "none"
              /\ pc' # "none"
              /\ UNCHANGED <<is_updating_area, doing, data>>
  BY DEF IndexWrite
<1>2. /\ pc = "index" /\ ~IndexFull
      /\ UNCHANGED <<anchors, area, area_bad, free, worn, plr, map, area_offset,
                     anchor_table, anchor_block, anchor_next_page, index_block,
                     caller, mounting, area_reclaim, anchor_reclaimed, ops, crashes,
                     bad, exhausted, early>>
  BY DEF IndexWrite, index_table, area_table, anchor, control
<1>3. /\ area \in PhyBlock /\ area_bad \in BOOLEAN /\ plr \in Plr /\ index_block \in PhyBlock
      /\ free \in SUBSET PhyBlock /\ worn \in SUBSET PhyBlock /\ index_bad \in BOOLEAN
      /\ flash \in [PhyBlock -> Pages] /\ fails \in Nat
      /\ saved \in [blk : PhyBlock, page : IndexCell]
  BY <1>2 DEF Types, Busy
<1>4. ThisIndex \in IndexCell
  BY <1>3, TableTypes DEF ThisIndex
<1>5. ThisIndex \in Table /\ ThisIndex.kind = "index"
  BY <1>4, Kinds
<1>6. /\ ok \in BOOLEAN /\ flash' \in [PhyBlock -> Pages]
      /\ \A c \in PhyBlock : c # index_block => flash'[c] = flash[c]
      /\ ok => /\ Last(flash'[index_block]) = ThisIndex /\ IsIndex(flash'[index_block])
               /\ flash'[index_block] = Append(flash[index_block], ThisIndex)
      /\ ~ok => SameTable(flash'[index_block], flash[index_block])
  BY <1>1, <1>3, <1>5, ProgramBlock
<1>7. fails' \in Nat
  BY <1>1, <1>3, <1>6 DEF Counted
<1>8. index_bad' \in BOOLEAN
  BY <1>1, <1>3, <1>6
<1>9. saved' \in [blk : PhyBlock, page : IndexCell]
  BY <1>1, <1>3, <1>4, <1>6
<1>10. (ok => index_next_page' = index_next_page + 1) /\ (~ok => index_next_page' = PPB)
  BY <1>1, <1>6
<1>11. \/ ~ok /\ caller \in {"first", "last"} /\ Retry
       \/ ok /\ caller = "last" /\ Return(map, mounting)
       \/ ok /\ caller = "first" /\ pc' = "area" /\ UNCHANGED <<doing, data>>
       \/ ok /\ caller \in {"new", "old"} /\ pc' = "readarea" /\ UNCHANGED <<doing, data>>
       \/ ~ok /\ caller = "new" /\ pc' = "readarea" /\ UNCHANGED <<doing, data>>
       \/ ~ok /\ caller = "old" /\ pc' = "failed" /\ UNCHANGED <<doing, data>>
  BY <1>1, <1>6
<1>12. saved' = IF ok THEN [blk |-> index_block, page |-> ThisIndex] ELSE saved
  BY <1>1
<1> QED
  BY <1>2, <1>3, <1>4, <1>6, <1>7, <1>8, <1>9, <1>10, <1>11, <1>12

LEMMA IndexWriteTypes ==
  ASSUME Types, IndexWrite
  PROVE  Types'
<1>1. PICK ok \in BOOLEAN :
        /\ flash' \in [PhyBlock -> Pages]
        /\ saved' \in [blk : PhyBlock, page : IndexCell]
        /\ fails' \in Nat /\ index_bad' \in BOOLEAN
        /\ index_next_page' = index_next_page + 1 \/ index_next_page' = PPB
        /\ \/ ~ok /\ caller \in {"first", "last"} /\ Retry
           \/ ok /\ caller = "last" /\ Return(map, mounting)
           \/ ok /\ caller = "first" /\ pc' = "area" /\ UNCHANGED <<doing, data>>
           \/ ok /\ caller \in {"new", "old"} /\ pc' = "readarea" /\ UNCHANGED <<doing, data>>
           \/ ~ok /\ caller = "new" /\ pc' = "readarea" /\ UNCHANGED <<doing, data>>
           \/ ~ok /\ caller = "old" /\ pc' = "failed" /\ UNCHANGED <<doing, data>>
        /\ pc = "index"
        /\ UNCHANGED <<anchors, area, area_bad, free, worn, plr, map, area_offset,
                       anchor_table, anchor_block, anchor_next_page, index_block,
                       caller, mounting, area_reclaim, anchor_reclaimed, ops, crashes,
                       bad, exhausted, early>>
  BY IndexWriteEffect
<1>2. index_next_page' \in Nat
  BY <1>1, Constants DEF Types
<1>3. data \in [LogBlock -> Pages] /\ doing \in Plr /\ mounting \in BOOLEAN
      /\ caller \in {"none", "first", "last", "new", "old"}
      /\ (caller \in {"first", "last"} => map \in Mapping)
  BY <1>1 DEF Types, Busy, Loading
<1>4. /\ data' \in [LogBlock -> Pages] /\ doing' \in Plr
      /\ \/ caller \in {"first", "last"} /\ pc' \in {"commit", "idle", "area"}
         \/ caller \in {"new", "old"} /\ pc' \in {"readarea", "failed"}
  <2>1. CASE ~ok /\ caller \in {"first", "last"} /\ Retry
    BY <1>3, <2>1 DEF Retry
  <2>2. CASE ok /\ caller = "last" /\ Return(map, mounting)
    BY <1>3, <2>2, ReturnTypes, Constants
  <2> QED
    BY <1>1, <1>3, <2>1, <2>2
<1> QED
  BY <1>1, <1>2, <1>3, <1>4 DEF Types, Busy, Loading

\* Power losses and mounts.
LEMMA PowerLossEffect ==
  ASSUME Types, PowerLoss
  PROVE  /\ pc' = "off" /\ pc \notin {"off", "failed", "confused"}
         /\ caller' = "none" /\ mounting' = FALSE /\ free' = {}
         /\ UNCHANGED <<flash, anchors, ops, fails, data, doing, bad, exhausted, saved, early>>
BY DEF PowerLoss, history

LEMMA PowerLossTypes ==
  ASSUME Types, PowerLoss
  PROVE  Types'
<1>1. /\ pc' = "off" /\ caller' = "none" /\ mounting' = FALSE
      /\ area_bad' = FALSE /\ free' = {} /\ worn' = {} /\ plr' = NoPlr
      /\ index_bad' = FALSE /\ area_reclaim' = FALSE /\ anchor_reclaimed' = FALSE
      /\ UNCHANGED <<flash, anchors, ops, fails, data, doing, bad, exhausted, saved, early>>
  BY DEF PowerLoss, history
<1>2. index_next_page' \in Nat
  BY DEF PowerLoss
<1> QED
  BY <1>1, <1>2, Constants DEF Types, Busy, Loading

LEMMA AnchorInitEffect ==
  ASSUME Types, AnchorsInv, ANCHOR_Init
  PROVE  \E read \in Live, newer \in Live :
           /\ anchor_table' = Last(anchors[read]) /\ anchor_table' \in AnchorPage
           /\ anchors' = [a \in Anchor |-> IF a = newer THEN anchors[a] ELSE <<>>]
           /\ anchors' \in [Anchor -> Seq(AnchorPage)]
           /\ anchor_block' = newer
           /\ pc = "off" /\ pc' = "readindex"
           /\ UNCHANGED <<flash, area, area_bad, free, worn, plr, map, area_offset,
                          index_block, index_bad, index_next_page, caller, mounting,
                          area_reclaim, anchor_reclaimed, ops, crashes, fails, data, doing,
                          bad, exhausted, saved, early>>
<1> DEFINE first == CHOOSE a \in Live : \A b \in Live : a <= b
           second == CHOOSE a \in Live \ {first} : \A b \in Live \ {first} : a <= b
           newer == IF Cardinality(Live) = 1 \/ Last(anchors[first]).prev = second
                    THEN first ELSE second
           read == IF Cardinality(Live) = 1 THEN first ELSE second
<1>1. /\ anchor_table' = Last(anchors[read])
      /\ anchors' = [a \in Anchor |-> IF a = newer THEN anchors[a] ELSE <<>>]
      /\ anchor_block' = newer
      /\ pc = "off" /\ pc' = "readindex"
      /\ UNCHANGED <<flash, area, area_bad, free, worn, plr, map, area_offset,
                     index_block, index_bad, index_next_page, caller, mounting,
                     area_reclaim, anchor_reclaimed, ops, crashes, fails, data, doing,
                     bad, exhausted, saved, early>>
  BY DEF ANCHOR_Init, Live, index_table, area_table, index, control, bounds, history
<1>2. Live \in SUBSET Anchor /\ Live # {} /\ Anchor \in SUBSET Nat
  BY Constants DEF AnchorsInv, Live, Anchor
<1>3. first \in Live
  <2>1. \E a \in Live : \A b \in Live : a <= b
    BY <1>2, LeastExists
  <2> QED
    BY <2>1
<1>4. Cardinality(Live) # 1 => second \in Live
  <2>1. SUFFICES ASSUME Cardinality(Live) # 1
                 PROVE  second \in Live
    OBVIOUS
  <2>2. Live \ {first} # {}
    <3>1. SUFFICES ASSUME Live \ {first} = {}
                   PROVE  FALSE
      OBVIOUS
    <3>2. Live = {first}
      BY <1>3, <3>1
    <3> QED
      BY <2>1, <3>2, FS_Singleton
  <2> HIDE DEF first
  <2>3. \E a \in Live \ {first} : \A b \in Live \ {first} : a <= b
    BY <1>2, <2>2, LeastExists
  <2> QED
    BY <2>3
<1>5. read \in Live /\ newer \in Live
  BY <1>3, <1>4
<1> HIDE DEF read, newer
<1>6. anchors \in [Anchor -> Seq(AnchorPage)] /\ <<>> \in Seq(AnchorPage)
  BY DEF Types
<1>7. anchors' \in [Anchor -> Seq(AnchorPage)]
  BY <1>1, <1>6
<1>8. anchor_table' \in AnchorPage
  BY <1>1, <1>5, <1>6, AnchorPages DEF Live
<1> QED
  BY <1>1, <1>5, <1>7, <1>8

LEMMA AnchorInitTypes ==
  ASSUME Types, AnchorsInv, ANCHOR_Init
  PROVE  Types'
<1>1. PICK read \in Live, newer \in Live :
           /\ anchor_table' \in AnchorPage
           /\ anchors' \in [Anchor -> Seq(AnchorPage)]
           /\ anchor_block' = newer
           /\ pc = "off" /\ pc' = "readindex"
           /\ UNCHANGED <<flash, area, area_bad, free, worn, plr, map, area_offset,
                          index_block, index_bad, index_next_page, caller, mounting,
                          area_reclaim, anchor_reclaimed, ops, crashes, fails, data, doing,
                          bad, exhausted, saved, early>>
  BY AnchorInitEffect
<1>2. newer \in Anchor
  BY DEF Live
<1> QED
  BY <1>1, <1>2 DEF Types, Busy, Loading

LEMMA IndexInitEffect ==
  ASSUME Types, INDEX_Init
  PROVE  /\ pc = "readindex"
         /\ anchor_table \in AnchorPage
         /\ \/ pc' \in {"confused", "failed"}
            \/ /\ pc' = "index" /\ caller' \in {"new", "old"}
               /\ \/ index_block' = anchor_table.new /\ caller' = "new"
                  \/ /\ Readable(flash[anchor_table.new]) = {} /\ caller' = "old"
                     /\ index_block' = anchor_table.old /\ index_next_page' = PPB
               /\ index_block' \in PhyBlock /\ IsIndex(flash[index_block'])
               /\ LET t == Last(flash[index_block'])
                  IN  t \in IndexCell /\ area' = t.area /\ free' = t.free /\ plr' = t.plr
         /\ area_bad' \in BOOLEAN /\ index_bad' \in BOOLEAN /\ index_next_page' \in Nat
         /\ free' \subseteq PhyBlock /\ worn' \subseteq PhyBlock /\ plr' \in Plr
         /\ caller' \in {"none", "first", "last", "new", "old"}
         /\ UNCHANGED <<flash, anchors, map, anchor_table, anchor_block, anchor_next_page,
                        mounting, area_reclaim, anchor_reclaimed, ops, crashes, fails, data,
                        doing, bad, exhausted, saved, early>>
<1> DEFINE new == anchor_table.new
           old == anchor_table.old
<1>1. /\ pc = "readindex"
      /\ UNCHANGED <<flash, anchors, map, anchor_table, anchor_block, anchor_next_page,
                     mounting, area_reclaim, anchor_reclaimed, ops, crashes, fails, data,
                     doing, bad, exhausted, saved, early>>
  BY DEF INDEX_Init, area_table, anchor, bounds, history
<1>2. \/ /\ Readable(flash[new]) # {} /\ ReadIndex(new)
         /\ index_block' = new /\ index_bad' = FALSE
         /\ index_next_page' = Cardinality(Readable(flash[new])) /\ caller' = "new"
      \/ /\ Readable(flash[new]) = {} /\ OldReadable(old) /\ ReadIndex(old)
         /\ index_block' = old /\ index_bad' = anchor_table.old_bad
         /\ index_next_page' = PPB /\ caller' = "old"
      \/ pc' = "failed" /\ UNCHANGED <<index_table, index, caller>>
  BY DEF INDEX_Init
<1>3. /\ anchor_table \in AnchorPage /\ flash \in [PhyBlock -> Pages]
      /\ area_bad \in BOOLEAN /\ index_bad \in BOOLEAN /\ index_next_page \in Nat
      /\ free \subseteq PhyBlock /\ worn \subseteq PhyBlock /\ plr \in Plr
      /\ caller \in {"none", "first", "last", "new", "old"}
  BY <1>1 DEF Types
<1>4. /\ new \in PhyBlock /\ old \in PhyBlock \cup {NoBlock}
      /\ anchor_table.old_bad \in BOOLEAN
  BY <1>3 DEF AnchorPage
<1> HIDE DEF new, old
<1>5. ASSUME NEW b \in PhyBlock, Readable(flash[b]) # {}, ReadIndex(b)
      PROVE  /\ \/ pc' = "confused"
                \/ /\ pc' = "index" /\ IsIndex(flash[b]) /\ Last(flash[b]) \in IndexCell
                   /\ area' = Last(flash[b]).area /\ free' = Last(flash[b]).free
                   /\ plr' = Last(flash[b]).plr
             /\ area_bad' \in BOOLEAN /\ free' \subseteq PhyBlock /\ worn' \subseteq PhyBlock
             /\ plr' \in Plr
  <2>1. CASE Last(flash[b]).kind # "index"
    BY <1>3, <1>5, <2>1 DEF ReadIndex, index_table
  <2>2. CASE Last(flash[b]).kind = "index"
    <3>1. IsIndex(flash[b]) /\ Last(flash[b]) \in IndexCell
      BY <1>3, <1>5, <2>2, IndexTable DEF IsIndex
    <3> QED
      BY <1>5, <2>2, <3>1, TableTypes DEF ReadIndex
  <2> QED
    BY <2>1, <2>2
<1>6. CASE /\ Readable(flash[new]) # {} /\ ReadIndex(new)
           /\ index_block' = new /\ index_bad' = FALSE
           /\ index_next_page' = Cardinality(Readable(flash[new])) /\ caller' = "new"
  <2>1. index_next_page' \in Nat
    <3>1. flash[new] \in Pages /\ IsFiniteSet(1 .. Len(flash[new]))
      BY <1>3, <1>4, FS_Interval DEF Pages
    <3>2. Readable(flash[new]) \subseteq 1 .. Len(flash[new])
      BY <3>1 DEF Readable, Pages
    <3> QED
      BY <1>6, <3>1, <3>2, FS_Subset, FS_CardinalityType
  <2> QED
    BY <1>1, <1>3, <1>4, <1>5, <1>6, <2>1 DEF new
<1>7. CASE /\ Readable(flash[new]) = {} /\ OldReadable(old) /\ ReadIndex(old)
           /\ index_block' = old /\ index_bad' = anchor_table.old_bad
           /\ index_next_page' = PPB /\ caller' = "old"
  <2>1. old \in PhyBlock /\ Readable(flash[old]) # {}
    BY <1>4, <1>7 DEF OldReadable
  <2>2. PPB \in Nat
    BY Constants
  <2> QED
    BY <1>1, <1>3, <1>4, <1>5, <1>7, <2>1, <2>2 DEF new, old
<1>8. CASE pc' = "failed" /\ UNCHANGED <<index_table, index, caller>>
  BY <1>1, <1>3, <1>8 DEF index_table, index
<1> QED
  BY <1>2, <1>6, <1>7, <1>8

LEMMA IndexInitTypes ==
  ASSUME Types, INDEX_Init
  PROVE  Types'
<1>1. /\ pc = "readindex" /\ anchor_table \in AnchorPage
      /\ \/ pc' \in {"confused", "failed"}
         \/ /\ pc' = "index" /\ caller' \in {"new", "old"}
            /\ index_block' \in PhyBlock
            /\ area' \in PhyBlock
      /\ area_bad' \in BOOLEAN /\ index_bad' \in BOOLEAN
      /\ free' \subseteq PhyBlock /\ worn' \subseteq PhyBlock /\ plr' \in Plr
      /\ caller' \in {"none", "first", "last", "new", "old"}
      /\ UNCHANGED <<flash, anchors, map, anchor_table, anchor_block, anchor_next_page,
                     mounting, area_reclaim, anchor_reclaimed, ops, crashes, fails, data,
                     doing, bad, exhausted, saved, early>>
  BY IndexInitEffect, TableTypes
<1>2. index_next_page' \in Nat
  BY IndexInitEffect
<1> QED
  BY <1>1, <1>2 DEF Types, Busy, Loading

LEMMA AreaInitEffect ==
  ASSUME Types, AREA_Init
  PROVE  /\ pc = "readarea" /\ mounting' = TRUE /\ area_reclaim' = FALSE
         /\ area \in PhyBlock /\ area' \in PhyBlock
         /\ LET m == Last(flash[area]).map
            IN  \/ /\ pc' = "confused" /\ ~IsArea(flash[area])
                   /\ UNCHANGED <<map, doing, data>>
                \/ /\ pc' = "commit" /\ IsArea(flash[area]) /\ m \in Mapping
                   /\ plr # NoPlr /\ map' = Apply(m, plr)
                   /\ UNCHANGED <<doing, data>>
                \/ /\ Return(m, TRUE) /\ IsArea(flash[area]) /\ m \in Mapping
                   /\ map' = m /\ Apply(m, plr) = m
         /\ UNCHANGED <<flash, anchors, area, area_bad, free, worn, plr, anchor_table,
                        anchor_block, anchor_next_page, index_block, index_bad,
                        index_next_page, caller, anchor_reclaimed, ops, crashes, fails,
                        bad, exhausted, saved, early>>
<1> DEFINE t == Last(flash[area])
<1>1. /\ pc = "readarea" /\ mounting' = TRUE /\ area_reclaim' = FALSE
      /\ IF Readable(flash[area]) = {} \/ t.kind # "area"
         THEN /\ pc' = "confused"
              /\ UNCHANGED <<area_table, is_updating_area, doing, data>>
         ELSE /\ area_offset' = Cardinality(Readable(flash[area])) - 1
              /\ IF AREA_CheckUpdatePLR(t.map)
                 THEN /\ map' = [t.map EXCEPT ![plr.log] = plr.phy]
                      /\ is_updating_area' = TRUE
                      /\ pc' = "commit"
                      /\ UNCHANGED <<doing, data>>
                 ELSE map' = t.map /\ Return(t.map, TRUE)
      /\ UNCHANGED <<flash, anchors, area, area_bad, free, worn, plr, anchor_table,
                     anchor_block, anchor_next_page, index_block, index_bad,
                     index_next_page, caller, anchor_reclaimed, ops, crashes, fails,
                     bad, exhausted, saved, early>>
  BY DEF AREA_Init, index_table, anchor, index, bounds
<1>2. area \in PhyBlock /\ plr \in Plr /\ flash[area] \in Pages
  BY <1>1 DEF Types, Busy
<1>3. IsArea(flash[area]) => t.map \in Mapping
  BY <1>2, AreaTable
<1>4. CASE ~IsArea(flash[area])
  BY <1>1, <1>2, <1>4 DEF IsArea, area_table
<1>5. CASE IsArea(flash[area]) /\ AREA_CheckUpdatePLR(t.map)
  <2>1. /\ plr # NoPlr /\ map' = [t.map EXCEPT ![plr.log] = plr.phy] /\ pc' = "commit"
        /\ UNCHANGED <<doing, data>>
    BY <1>1, <1>5 DEF IsArea, AREA_CheckUpdatePLR
  <2> QED
    BY <1>1, <1>2, <1>3, <1>5, <2>1 DEF Apply
<1>6. CASE IsArea(flash[area]) /\ ~AREA_CheckUpdatePLR(t.map)
  <2>1. map' = t.map /\ Return(t.map, TRUE)
    BY <1>1, <1>6 DEF IsArea
  <2>2. Apply(t.map, plr) = t.map
    BY <1>2, <1>3, <1>6, ApplyPlr DEF AREA_CheckUpdatePLR
  <2> QED
    BY <1>1, <1>2, <1>3, <1>6, <2>1, <2>2
<1> QED
  BY <1>4, <1>5, <1>6

LEMMA AreaInitTypes ==
  ASSUME Types, AREA_Init
  PROVE  Types'
<1> DEFINE m == Last(flash[area]).map
<1>1. /\ pc = "readarea" /\ mounting' = TRUE /\ area_reclaim' = FALSE
      /\ area \in PhyBlock /\ area' \in PhyBlock
      /\ \/ pc' = "confused" /\ UNCHANGED <<doing, data>>
         \/ pc' = "commit" /\ map' = Apply(m, plr) /\ m \in Mapping /\ UNCHANGED <<doing, data>>
         \/ Return(m, TRUE) /\ map' = m /\ m \in Mapping
      /\ UNCHANGED <<flash, anchors, area, area_bad, free, worn, plr, anchor_table,
                     anchor_block, anchor_next_page, index_block, index_bad,
                     index_next_page, caller, anchor_reclaimed, ops, crashes, fails,
                     bad, exhausted, saved, early>>
  BY AreaInitEffect
<1> HIDE DEF m
<1>2. /\ pc' \in {"confused", "commit", "idle"} /\ (pc' # "confused" => map' \in Mapping)
      /\ data' \in [LogBlock -> Pages] /\ doing' \in Plr
  <2>1. data \in [LogBlock -> Pages] /\ doing \in Plr /\ plr \in Plr
    BY DEF Types
  <2>2. CASE pc' = "confused" /\ UNCHANGED <<doing, data>>
    BY <2>1, <2>2
  <2>3. CASE pc' = "commit" /\ map' = Apply(m, plr) /\ m \in Mapping /\ UNCHANGED <<doing, data>>
    BY <2>1, <2>3, ApplyPlr
  <2>4. CASE Return(m, TRUE) /\ map' = m /\ m \in Mapping
    BY <2>4, ReturnTypes, Constants
  <2> QED
    BY <1>1, <2>2, <2>3, <2>4
<1>3. Busy' => area' \in PhyBlock /\ index_block' \in PhyBlock /\ map' \in Mapping
  BY <1>1, <1>2 DEF Types, Busy
<1>5. /\ ops' \in Nat /\ fails' \in Nat /\ index_next_page' \in Nat
      /\ area_bad' \in BOOLEAN /\ index_bad' \in BOOLEAN
      /\ early' \in BOOLEAN /\ exhausted' \in BOOLEAN
      /\ mounting' \in BOOLEAN /\ area_reclaim' \in BOOLEAN /\ anchor_reclaimed' \in BOOLEAN
  BY <1>1 DEF Types
<1>4. /\ flash' \in [PhyBlock -> Pages] /\ saved' \in [blk : PhyBlock, page : IndexCell]
      /\ anchors' \in [Anchor -> Seq(AnchorPage)]
      /\ anchor_block' \in Anchor \/ pc' = "off"
      /\ anchor_table' \in AnchorPage \/ pc' = "off"
  BY <1>1 DEF Types
<1> QED
  BY <1>1, <1>2, <1>3, <1>4, <1>5 DEF Types

LEMMA TypesStep ==
  ASSUME Types, AnchorsInv, [Next]_vars
  PROVE  Types'
<1>1. CASE \E l \in LogBlock : UBI_Erase(l) \/ ubi_reclaim_badblock(l) \/ UserWrite(l)
  BY <1>1, EraseTypes, UserWriteTypes
<1>2. CASE PowerLoss
  BY <1>2, PowerLossTypes
<1>3. CASE Step
  BY <1>3, CommitTypes, NoFreeBlockTypes, AreaUpdateTypes, IndexReclaimTypes,
     AnchorReclaimTypes, AnchorWriteTypes, AnchorDoneTypes, IndexWriteTypes,
     AnchorInitTypes, IndexInitTypes, AreaInitTypes DEF Step
<1>4. CASE UNCHANGED vars
  BY <1>4 DEF Types, Busy, Loading, vars, ram, index_table, area_table, anchor, index,
       control, bounds, history
<1> QED
  BY <1>1, <1>2, <1>3, <1>4 DEF Next

(***************************************************************************)
(* The anchor.                                                             *)
(***************************************************************************)

\* The steps that leave the anchor alone, and pc outside the update of it.
LEMMA AnchorsKept ==
  ASSUME Types, AnchorsInv, UNCHANGED <<anchors, anchor_block, anchor_table>>,
         \/ pc' = pc /\ UNCHANGED <<anchor_next_page, anchor_reclaimed>>
         \/ /\ pc \in {"readindex", "idle", "commit", "area", "index", "readarea"}
            /\ pc' \in {"idle", "commit", "area", "index", "readarea", "failed", "confused"}
  PROVE  AnchorsInv'
<1>1. Live' = Live
  BY DEF Live
<1> QED
  BY <1>1 DEF AnchorsInv

LEMMA AnchorsStep ==
  ASSUME Types, AnchorsInv, [Next]_vars
  PROVE  AnchorsInv'
<1>1. CASE \E l \in LogBlock : UBI_Erase(l) \/ ubi_reclaim_badblock(l) \/ UserWrite(l)
  <2>1. UNCHANGED <<anchors, anchor_block, anchor_table>> /\ pc = "idle" /\ pc' \in {"idle", "commit"}
    BY <1>1 DEF UBI_Erase, ubi_reclaim_badblock, UserWrite, anchor, ram
  <2> QED
    BY <2>1, AnchorsKept
<1>2. CASE PowerLoss
  <2>1. Live' = Live /\ pc' = "off"
    BY <1>2, PowerLossEffect DEF Live
  <2> QED
    BY <2>1 DEF AnchorsInv
<1>3. CASE CommitToNextPage \/ CommitToNewBlock \/ CommitNoFreeBlock \/ IndexNoFreeBlock
  <2>1. UNCHANGED <<anchors, anchor_block, anchor_table>> /\ pc \in {"commit", "index"}
        /\ pc' \in {"index", "area", "failed", "readarea"}
    BY <1>3 DEF CommitToNextPage, CommitToNewBlock, CommitNoFreeBlock, IndexNoFreeBlock,
         NoFreeBlock, anchor, ram
  <2> QED
    BY <2>1, AnchorsKept
<1>4. CASE AREA_Update
  <2>1. UNCHANGED <<anchors, anchor_block, anchor_table>> /\ pc = "area"
        /\ pc' \in {"idle", "commit", "index"}
    BY <1>4, AreaUpdateEffect DEF Retry, Return
  <2> QED
    BY <2>1, AnchorsKept
<1>5. CASE IndexReclaim
  <2>1. /\ UNCHANGED <<anchors, anchor_block>> /\ pc = "index" /\ pc' = "anchor"
        /\ anchor_reclaimed' = FALSE
    BY <1>5, IndexReclaimEffect
  <2>2. Live' = Live
    BY <2>1 DEF Live
  <2> QED
    BY <2>1, <2>2 DEF AnchorsInv
<1>6. CASE AnchorReclaim
  <2>1. PICK next \in Anchor :
           /\ next # anchor_block /\ anchor_block \in Anchor /\ anchor_block' = next
           /\ anchor_table'.prev = anchor_block
           /\ anchors' = [anchors EXCEPT ![next] = <<>>]
           /\ anchor_next_page = PPB /\ anchor_next_page' = 0 /\ anchor_reclaimed' = TRUE
           /\ pc = "anchor" /\ pc' = pc
    BY <1>6, AnchorReclaimEffect
  <2>2. Live = {anchor_block}
    BY <2>1, Constants DEF AnchorsInv
  <2>3. Live' = Live
    BY <2>1, <2>2 DEF Live, Types
  <2> QED
    BY <2>1, <2>2, <2>3 DEF AnchorsInv
<1>7. CASE AnchorWrite
  <2>1. /\ anchors' = [anchors EXCEPT ![anchor_block] = Append(@, anchor_table)]
        /\ anchors'[anchor_block] # <<>> /\ Last(anchors'[anchor_block]) = anchor_table
        /\ anchor_block \in Anchor /\ pc = "anchor" /\ pc' = "anchored"
        /\ UNCHANGED <<anchor_table, anchor_block, anchor_reclaimed>>
    BY <1>7, AnchorWriteEffect
  <2>2. Live' = Live \cup {anchor_block}
    BY <2>1 DEF Live, Types
  <2>3. IF anchor_reclaimed THEN Live = {anchor_table.prev} /\ anchor_table.prev # anchor_block
        ELSE Live = {anchor_block}
    BY <2>1 DEF AnchorsInv
  <2> QED
    BY <2>1, <2>2, <2>3 DEF AnchorsInv
<1>8. CASE AnchorDone
  <2>1. /\ anchors' = IF anchor_reclaimed THEN [anchors EXCEPT ![anchor_table.prev] = <<>>]
                      ELSE anchors
        /\ pc = "anchored" /\ pc' = "index"
        /\ UNCHANGED anchor_block
    BY <1>8, AnchorDoneEffect
  <2>2. /\ anchor_block \in Live
        /\ IF anchor_reclaimed
           THEN Live \subseteq {anchor_block, anchor_table.prev} /\ anchor_table.prev # anchor_block
           ELSE Live = {anchor_block}
    BY <2>1 DEF AnchorsInv
  <2>3. Live' = {anchor_block}
    BY <2>1, <2>2 DEF Live, Types
  <2> QED
    BY <2>1, <2>3 DEF AnchorsInv
<1>9. CASE IndexWrite
  <2>1. UNCHANGED <<anchors, anchor_block, anchor_table>> /\ pc = "index"
        /\ pc' \in {"idle", "commit", "area", "readarea", "failed"}
    BY <1>9, IndexWriteEffect DEF Retry, Return
  <2> QED
    BY <2>1, AnchorsKept
<1>10. CASE ANCHOR_Init
  <2>1. PICK read \in Live, newer \in Live :
          /\ anchors' = [a \in Anchor |-> IF a = newer THEN anchors[a] ELSE <<>>]
          /\ anchor_block' = newer /\ pc' = "readindex"
    BY <1>10, AnchorInitEffect
  <2>2. Live' = {newer}
    BY <2>1 DEF Live
  <2> QED
    BY <2>1, <2>2 DEF AnchorsInv
<1>11. CASE INDEX_Init
  <2>1. UNCHANGED <<anchors, anchor_block, anchor_table>> /\ pc = "readindex"
        /\ pc' \in {"index", "confused", "failed"}
    BY <1>11, IndexInitEffect
  <2> QED
    BY <2>1, AnchorsKept
<1>12. CASE AREA_Init
  <2>1. UNCHANGED <<anchors, anchor_block, anchor_table>> /\ pc = "readarea"
        /\ pc' \in {"idle", "commit", "confused"}
    BY <1>12, AreaInitEffect DEF Return
  <2> QED
    BY <2>1, AnchorsKept
<1>13. CASE UNCHANGED vars
  <2>1. UNCHANGED <<anchors, anchor_block, anchor_table, pc, anchor_next_page, anchor_reclaimed>>
    BY <1>13 DEF vars, ram, anchor, control
  <2> QED
    BY <2>1, AnchorsKept
<1> QED
  BY <1>1, <1>2, <1>3, <1>4, <1>5, <1>6, <1>7, <1>8, <1>9, <1>10, <1>11, <1>12, <1>13
  DEF Next, Step

(***************************************************************************)
(* Steps and the invariant.                                                *)
(***************************************************************************)

LEMMA RecordTypes ==
  ASSUME Types
  PROVE  Records \subseteq AnchorPage
<1>1. \A a \in Live : Last(anchors[a]) \in AnchorPage
  BY AnchorPages DEF Types, Live
<1> QED
  BY <1>1 DEF Records, Types

\* The tables are well typed where they are used.
LEMMA SavedTypes ==
  ASSUME Types
  PROVE  /\ Home \in PhyBlock /\ Saved \in IndexCell /\ Saved.area \in PhyBlock
         /\ Saved.free \subseteq PhyBlock /\ Saved.plr \in Plr
         /\ SavedInv /\ Intact => SavedMap \in Mapping /\ \A l \in LogBlock : SavedMap[l] \in PhyBlock
<1>1. Home \in PhyBlock /\ Saved \in IndexCell
  BY DEF Types, Home, Saved
<1>2. Saved.area \in PhyBlock /\ Saved.free \subseteq PhyBlock /\ Saved.plr \in Plr
  BY <1>1, TableTypes
<1>3. ASSUME SavedInv, Intact
      PROVE  SavedMap \in Mapping
  <2>1. Last(flash[Saved.area]).map \in Mapping
    BY <1>2, <1>3, AreaTable DEF SavedInv, Types
  <2> QED
    BY <1>2, <2>1, ApplyPlr DEF SavedMap
<1> QED
  BY <1>1, <1>2, <1>3 DEF Mapping

LEMMA MineTypes ==
  ASSUME Types, Invariants, Busy
  PROVE  /\ Mine \in Mapping /\ \A l \in LogBlock : Mine[l] \in PhyBlock
         /\ Loading => Mine = SavedMap /\ Intact /\ Saved.area = area /\ ~mounting
         /\ ~Loading => Mine = Apply(map, plr) /\ map \in Mapping
         /\ plr \in Plr /\ area \in PhyBlock /\ index_block \in PhyBlock /\ free \subseteq PhyBlock
         /\ area # index_block /\ area \notin free /\ index_block \notin free
         /\ \A l \in LogBlock : /\ Mine[l] # area /\ Mine[l] # index_block
                                /\ Mine[l] \notin free
<1>1. Loading => Mine = SavedMap /\ Intact /\ Saved.area = area /\ ~mounting
  BY DEF Invariants, LoadInv, Mine, SavedMap
<1>2. ~Loading => Mine = Apply(map, plr) /\ map \in Mapping
  BY DEF Mine, Types
<1>3. plr \in Plr /\ area \in PhyBlock /\ index_block \in PhyBlock /\ free \subseteq PhyBlock
  BY DEF Types
<1>4. Mine \in Mapping
  BY <1>1, <1>2, <1>3, SavedTypes, ApplyPlr DEF Invariants
<1>5. OneRoleEach(Mine, area, index_block, Unused) /\ free \subseteq Unused
  BY DEF Invariants, MineInv, Unused
<1>6. /\ area # index_block /\ area \notin free /\ index_block \notin free
      /\ \A l \in LogBlock : /\ Mine[l] # area /\ Mine[l] # index_block
                             /\ Mine[l] \notin free
  BY <1>5 DEF OneRoleEach
<1> QED
  BY <1>1, <1>2, <1>3, <1>4, <1>6 DEF Mapping

\* No step but the program of an index table makes a block hold one.
NoNewIndex == \A b \in PhyBlock : IsIndex(flash'[b]) => IsIndex(flash[b])

\* The last index table is as good after a step as before.
LEMMA SavedStep ==
  ASSUME SavedInv, saved' = saved, bad \subseteq bad',
         \A l \in LogBlock : Intact' => ~IsIndex(flash'[SavedMap[l]]),
         Intact' => /\ Intact /\ Last(flash'[Home]) = Last(flash[Home])
                    /\ IsArea(flash'[Saved.area])
                    /\ Apply(Last(flash'[Saved.area]).map, Saved.plr) = SavedMap
                    /\ \A l \in Others' : flash'[SavedMap[l]] = data'[l]
                    /\ doing' # NoPlr => \A l \in Others' : SavedMap[l] # doing'.phy
  PROVE  SavedInv' /\ (Intact' => SavedMap' = SavedMap)
<1>1. Home' = Home /\ Saved' = Saved
  BY DEF Home, Saved
<1>2. Intact' => SavedMap' = SavedMap
  BY <1>1 DEF SavedMap
<1>3. Intact' => OneRoleEach(SavedMap, Saved.area, Home, Saved.free)'
  <2>1. SUFFICES ASSUME Intact'
                 PROVE  OneRoleEach(SavedMap, Saved.area, Home, Saved.free)'
    OBVIOUS
  <2>2. OneRoleEach(SavedMap, Saved.area, Home, Saved.free)
    BY <2>1 DEF SavedInv
  <2> QED
    BY <1>1, <1>2, <2>1, <2>2 DEF OneRoleEach
<1>4. Intact' => /\ Last(flash'[Home]) = Saved
                 /\ \A l \in LogBlock : ~IsIndex(flash'[SavedMap[l]])
  BY DEF SavedInv
<1> QED
  BY <1>1, <1>2, <1>3, <1>4 DEF SavedInv

\* A step that keeps flash and the last index table.
LEMMA QuietSaved ==
  ASSUME UNCHANGED <<flash, saved, doing>>
  PROVE  /\ Home' = Home /\ Saved' = Saved /\ (Intact' <=> Intact) /\ SavedMap' = SavedMap
         /\ \A b : NotNeeded(b)' <=> NotNeeded(b)
         /\ SavedInv /\ UNCHANGED <<data, bad>> => SavedInv'
<1>1. Home' = Home /\ Saved' = Saved /\ (Intact' <=> Intact) /\ SavedMap' = SavedMap
  BY DEF Home, Saved, Intact, SavedMap
<1>2. Others' = Others /\ \A b : NotNeeded(b)' <=> NotNeeded(b)
  BY <1>1 DEF NotNeeded, Others
<1>3. ASSUME SavedInv, UNCHANGED <<data, bad>>
      PROVE  SavedInv'
  <2>1. OneRoleEach(SavedMap, Saved.area, Home, Saved.free)
          => OneRoleEach(SavedMap, Saved.area, Home, Saved.free)'
    BY <1>1, <1>3 DEF OneRoleEach
  <2> QED
    BY <1>1, <1>2, <1>3, <2>1 DEF SavedInv
<1> QED
  BY <1>1, <1>2, <1>3

\* The records of the anchor, after a step that adds none.
LEMMA RecordStep ==
  ASSUME Types, RecordInv, saved' = saved, NoNewIndex, Records' \subseteq Records,
         Intact => Intact' \/ \A r \in Records : r.new # Home
  PROVE  RecordInv'
<1>1. SUFFICES ASSUME NEW r \in Records'
               PROVE  \/ r.new = Home' /\ Intact'
                      \/ /\ ~IsIndex(flash'[r.new])
                         /\ r.old \in {Home', NoBlock} \/ ~IsIndex(flash'[r.old])
  BY DEF RecordInv
<1>2. r \in Records /\ r \in AnchorPage
  BY RecordTypes
<1>3. r.new \in PhyBlock /\ r.old \in PhyBlock \cup {NoBlock}
  BY <1>2 DEF AnchorPage
<1>4. \/ r.new = Home /\ Intact
      \/ ~IsIndex(flash[r.new]) /\ (r.old \in {Home, NoBlock} \/ ~IsIndex(flash[r.old]))
  BY <1>2 DEF RecordInv
<1> QED
  BY <1>2, <1>3, <1>4 DEF NoNewIndex, Home

LEMMA RecordsSame ==
  ASSUME UNCHANGED anchors,
         \/ pc # "readindex" /\ pc' # "readindex"
         \/ UNCHANGED <<pc, anchor_table>>
  PROVE  Records' = Records
BY DEF Records, Live

\* The mapping the firmware works with is as good after a step as before.
LEMMA MineStep ==
  ASSUME Types, Invariants, Busy, Mine' = Mine,
         \A l \in LogBlock : flash'[Mine[l]] = flash[Mine[l]],
         OneRoleEach(Mine, area, index_block, Unused)',
         Announced' => anchor_table'.new \notin free',
         \/ /\ UNCHANGED <<doing, data, plr>>
            /\ ~mounting' /\ ~Loading' => ~mounting /\ ~Loading
         \/ doing' = NoPlr /\ \A l \in LogBlock : data'[l] = flash[Mine[l]]
  PROVE  MineInv'
<1>1. /\ \A l \in Others : flash[Mine[l]] = data[l]
      /\ doing # NoPlr => \A l \in Others : Mine[l] # doing.phy
      /\ \A l \in LogBlock : ~IsIndex(flash[Mine[l]])
      /\ doing # NoPlr /\ ~mounting /\ ~Loading =>
           doing.log = plr.log /\ flash[Mine[doing.log]] = <<>>
  BY DEF Invariants, MineInv
<1>2. doing # NoPlr => doing.log \in LogBlock
  BY PlrFields DEF Types
<1>3. \A l \in LogBlock : ~IsIndex(flash'[Mine[l]])
  BY <1>1
<1>4. CASE /\ UNCHANGED <<doing, data, plr>>
           /\ ~mounting' /\ ~Loading' => ~mounting /\ ~Loading
  <2>1. Others' = Others /\ Others \subseteq LogBlock
    BY <1>4 DEF Others
  <2>2. /\ \A l \in Others : flash'[Mine[l]] = data'[l]
        /\ doing' # NoPlr => \A l \in Others : Mine[l] # doing'.phy
    BY <1>1, <1>4, <2>1
  <2>3. doing' # NoPlr /\ ~mounting' /\ ~Loading' =>
           doing'.log = plr'.log /\ flash'[Mine[doing'.log]] = <<>>
    BY <1>1, <1>2, <1>4
  <2> QED
    BY <1>3, <2>1, <2>2, <2>3 DEF MineInv
<1>5. CASE doing' = NoPlr /\ \A l \in LogBlock : data'[l] = flash[Mine[l]]
  <2>1. Others' \subseteq LogBlock
    BY DEF Others
  <2> QED
    BY <1>3, <1>5, <2>1 DEF MineInv
<1> QED
  BY <1>4, <1>5

\* Steps that leave flash alone. What does not depend on where the call is:
LEMMA QuietStep ==
  ASSUME Types, AnchorsInv, Invariants, UNCHANGED <<flash, saved, doing, data, bad>>,
         Records' \subseteq Records,
         MineInv', AreaInv', LoadInv', IndexInv'
  PROVE  Invariants'
<1>1. SavedInv'
  BY QuietSaved DEF Invariants
<1>2. RecordInv'
  BY QuietSaved, RecordStep DEF Invariants, NoNewIndex
<1> QED
  BY <1>1, <1>2 DEF Invariants

\* No call, or one that has failed.
LEMMA StoppedStep ==
  ASSUME Types, AnchorsInv, Invariants, UNCHANGED <<flash, saved, doing, data, bad>>,
         Records' \subseteq Records, pc' \in {"off", "readindex", "failed", "confused"},
         mounting' => pc' \notin {"off", "readindex"}
  PROVE  Invariants'
<1>1. ~Busy' /\ ~Loading' /\ ~InIndex' /\ pc' \notin {"idle", "commit", "area"}
  BY DEF Busy, Loading, InIndex
<1>2. MineInv' /\ AreaInv' /\ LoadInv' /\ IndexInv'
  BY <1>1 DEF MineInv, AreaInv, LoadInv, IndexInv
<1> QED
  BY <1>2, QuietStep

LEMMA PowerLossStep ==
  ASSUME Types, AnchorsInv, Invariants, PowerLoss
  PROVE  Invariants'
<1>1. /\ pc' = "off" /\ mounting' = FALSE
      /\ UNCHANGED <<flash, anchors, data, doing, bad, saved>>
  BY PowerLossEffect
<1>2. Records' \subseteq Records
  BY <1>1 DEF Records, Live
<1> QED
  BY <1>1, <1>2, StoppedStep

LEMMA AnchorInitStep ==
  ASSUME Types, AnchorsInv, Invariants, ANCHOR_Init
  PROVE  Invariants'
<1>1. PICK read \in Live, newer \in Live :
        /\ anchor_table' = Last(anchors[read])
        /\ anchors' = [a \in Anchor |-> IF a = newer THEN anchors[a] ELSE <<>>]
        /\ pc = "off" /\ pc' = "readindex"
        /\ UNCHANGED <<flash, mounting, data, doing, bad, saved>>
  BY AnchorInitEffect
<1>2. Live' = {newer} /\ anchors'[newer] = anchors[newer]
  BY <1>1 DEF Live
<1>3. Records' \subseteq Records
  BY <1>1, <1>2 DEF Records
<1>4. ~mounting
  BY <1>1 DEF Invariants, LoadInv
<1> QED
  BY <1>1, <1>3, <1>4, StoppedStep

LEMMA NoFreeBlockStep ==
  ASSUME Types, AnchorsInv, Invariants, CommitNoFreeBlock \/ IndexNoFreeBlock
  PROVE  Invariants'
<1>1. PICK next \in {"failed", "readarea"} :
        NoFreeBlock(next) /\ (next = "readarea" => pc = "index" /\ caller = "new")
  BY DEF CommitNoFreeBlock, IndexNoFreeBlock
<1>2. /\ pc' = next /\ pc \in {"commit", "index"}
      /\ UNCHANGED <<flash, anchors, area, area_bad, free, plr, map, area_offset, anchor_table,
                     index_block, index_next_page, caller, mounting, area_reclaim, data,
                     doing, bad, saved, early>>
  BY <1>1 DEF NoFreeBlock, CommitNoFreeBlock, IndexNoFreeBlock, ram, index_table, area_table,
       anchor, index, control
<1>3. Records' = Records
  BY <1>2, RecordsSame
<1>4. CASE next = "failed"
  BY <1>2, <1>3, <1>4, StoppedStep
<1>5. CASE next = "readarea"
  <2>1. Loading /\ Loading' /\ Busy /\ Busy' /\ ~Announced /\ ~Announced' /\ ~mounting
        /\ pc = "index" /\ pc' = "readarea"
    BY <1>1, <1>2, <1>5, MineTypes DEF Loading, Busy, Announced
  <2>2. Mine' = Mine /\ Unused' = Unused
    BY <1>2, <2>1 DEF Mine, Unused
  <2>3. MineInv'
    BY <1>2, <2>1, <2>2 DEF Invariants, MineInv, OneRoleEach, Others
  <2>4. AreaInv' /\ LoadInv'
    BY <1>2, <2>1 DEF AreaInv, LoadInv, InIndex, Invariants, Intact, Home, Saved, Loading
  <2>5. IndexInv'
    BY <1>2, <1>3, <2>1, QuietSaved DEF IndexInv, Invariants
  <2> QED
    BY <1>2, <1>3, <2>3, <2>4, <2>5, QuietStep
<1> QED
  BY <1>4, <1>5

LEMMA CommitToNextPageStep ==
  ASSUME Types, AnchorsInv, Invariants, CommitToNextPage
  PROVE  Invariants'
<1>1. /\ pc = "commit" /\ ~AREA_IsFull /\ pc' = "index" /\ caller' = "first"
      /\ UNCHANGED <<flash, anchors, area, area_bad, free, plr, map, area_offset, anchor_table,
                     index_block, index_next_page, mounting, area_reclaim, data,
                     doing, bad, saved, early>>
  BY DEF CommitToNextPage, ram, index_table, area_table, anchor, index, history
<1>2. Records' = Records
  BY <1>1, RecordsSame
<1>3. ~Loading /\ ~Loading' /\ Busy /\ Busy' /\ ~Announced /\ ~Announced'
  BY <1>1 DEF Loading, Busy, Announced
<1>4. Mine' = Mine /\ Unused' = Unused
  BY <1>1, <1>3 DEF Mine, Unused
<1>5. MineInv'
  BY <1>1, <1>3, <1>4 DEF Invariants, MineInv, OneRoleEach, Others
<1>6. AreaInv'
  BY <1>1, <1>3, <1>4 DEF AreaInv, InIndex, Invariants
<1>7. LoadInv'
  BY <1>1, <1>3 DEF LoadInv, Invariants
<1>8. IndexInv'
  BY <1>1, <1>2, <1>3, QuietSaved DEF IndexInv, Invariants
<1> QED
  BY <1>1, <1>2, <1>5, <1>6, <1>7, <1>8, QuietStep

LEMMA AnchorReclaimStep ==
  ASSUME Types, AnchorsInv, Invariants, AnchorReclaim
  PROVE  Invariants'
<1>1. PICK next \in Anchor :
        /\ next # anchor_block
        /\ anchor_table'.new = anchor_table.new /\ anchor_table'.old = anchor_table.old
        /\ anchors' = [anchors EXCEPT ![next] = <<>>]
        /\ pc = "anchor" /\ anchor_next_page = PPB
        /\ UNCHANGED <<flash, area, area_bad, free, plr, map, area_offset, pc,
                       index_block, index_next_page, caller, mounting, area_reclaim, data,
                       doing, bad, saved, early>>
  BY AnchorReclaimEffect
<1>2. Live' \subseteq Live /\ \A a \in Live' : anchors'[a] = anchors[a]
  BY <1>1 DEF Live, Types
<1>3. Records' \subseteq Records
  BY <1>1, <1>2 DEF Records
<1>4. Busy /\ Busy' /\ Announced /\ Announced' /\ (Loading' <=> Loading)
  BY <1>1 DEF Loading, Busy, Announced
<1>5. Mine' = Mine /\ Unused' = Unused
  BY <1>1, <1>4 DEF Mine, Unused
<1>6. MineInv'
  BY <1>1, <1>4, <1>5 DEF Invariants, MineInv, OneRoleEach, Others
<1>7. AreaInv'
  BY <1>1, <1>4, <1>5 DEF AreaInv, InIndex, Invariants
<1>8. LoadInv'
  BY <1>1, <1>4, QuietSaved DEF LoadInv, Invariants
<1>9. IndexInv'
  BY <1>1, <1>4, QuietSaved DEF IndexInv, Invariants
<1> QED
  BY <1>1, <1>3, <1>6, <1>7, <1>8, <1>9, QuietStep

LEMMA AnchorWriteStep ==
  ASSUME Types, AnchorsInv, Invariants, AnchorWrite
  PROVE  Invariants'
<1>1. /\ anchors' = [anchors EXCEPT ![anchor_block] = Append(@, anchor_table)]
      /\ anchors'[anchor_block] # <<>> /\ Last(anchors'[anchor_block]) = anchor_table
      /\ anchor_block \in Anchor
      /\ pc = "anchor" /\ pc' = "anchored"
      /\ UNCHANGED <<flash, area, area_bad, free, plr, map, area_offset, anchor_table,
                     index_block, index_next_page, caller, mounting, area_reclaim, data,
                     doing, bad, saved, early>>
  BY AnchorWriteEffect
<1>2. Records' \subseteq Records \cup {anchor_table}
  <2>1. \A a \in Anchor : a # anchor_block => anchors'[a] = anchors[a]
    BY <1>1 DEF Types
  <2> QED
    BY <1>1, <2>1 DEF Records, Live
<1>3. Busy /\ Busy' /\ Announced /\ Announced' /\ (Loading' <=> Loading)
  BY <1>1 DEF Loading, Busy, Announced
<1>4. Mine' = Mine /\ Unused' = Unused
  BY <1>1, <1>3 DEF Mine, Unused
<1>5. SavedInv'
  BY <1>1, QuietSaved DEF Invariants
<1>6. MineInv'
  BY <1>1, <1>3, <1>4 DEF Invariants, MineInv, OneRoleEach, Others
<1>7. AreaInv'
  BY <1>1, <1>3, <1>4 DEF AreaInv, InIndex, Invariants
<1>8. LoadInv'
  BY <1>1, <1>3, QuietSaved DEF LoadInv, Invariants
<1>9. IndexInv'
  BY <1>1, <1>3, QuietSaved DEF IndexInv, Invariants
<1>10. RecordInv'
  <2>1. /\ flash[anchor_table.new] = <<>> /\ anchor_table.old = index_block
        /\ index_block = Home \/ ~IsIndex(flash[index_block])
    BY <1>3 DEF Invariants, IndexInv
  <2>2. Home' = Home /\ (Intact' <=> Intact)
    BY <1>1, QuietSaved
  <2> QED
    BY <1>1, <1>2, <2>1, <2>2, NoPages DEF Invariants, RecordInv
<1> QED
  BY <1>5, <1>6, <1>7, <1>8, <1>9, <1>10 DEF Invariants

\* The anchor has one record when the update of it ends.
LEMMA AnchorDoneRecords ==
  ASSUME Types, AnchorsInv, AnchorsInv', AnchorDone
  PROVE  Records' = {anchor_table} /\ anchor_table \in Records
<1>1. pc = "anchored" /\ pc' = "index" /\ UNCHANGED anchor_block
  BY AnchorDoneEffect
<1>2. Live' = {anchor_block}
  BY <1>1 DEF AnchorsInv
<1>3. /\ anchor_block \in Live /\ Last(anchors[anchor_block]) = anchor_table
      /\ anchor_reclaimed => anchor_table.prev # anchor_block
  BY <1>1 DEF AnchorsInv
<1>4. anchor_block \in Anchor /\ anchors \in [Anchor -> Seq(AnchorPage)]
  BY <1>1 DEF Types
<1>5. anchors'[anchor_block] = anchors[anchor_block]
  BY <1>3, <1>4, AnchorDoneEffect
<1> QED
  BY <1>1, <1>2, <1>3, <1>5 DEF Records

LEMMA AnchorDoneStep ==
  ASSUME Types, AnchorsInv, AnchorsInv', Invariants, AnchorDone
  PROVE  Invariants'
<1>1. /\ free' = free \cup Put(index_block, index_bad)
      /\ bad' = bad \cup ({index_block} \ Put(index_block, index_bad))
      /\ index_block' = anchor_table.new /\ index_next_page' = 0
      /\ pc = "anchored" /\ pc' = "index"
      /\ UNCHANGED <<flash, area, plr, map, area_offset, anchor_table, anchor_block, caller,
                     mounting, area_reclaim, data, doing, saved, early>>
  BY AnchorDoneEffect
<1>2. Records' = {anchor_table}
  BY AnchorDoneRecords
<1>3. anchor_table \in Records
  BY AnchorDoneRecords
<1>4. Busy /\ Busy' /\ Announced /\ ~Announced' /\ (Loading' <=> Loading)
  BY <1>1 DEF Loading, Busy, Announced
<1>5. Mine' = Mine
  BY <1>1, <1>4 DEF Mine
<1>6. /\ index_block \in PhyBlock /\ area # index_block
      /\ \A l \in LogBlock : Mine[l] # index_block
  BY <1>4, MineTypes
<1>7. Home' = Home /\ Saved' = Saved /\ (Intact' <=> Intact) /\ SavedMap' = SavedMap
      /\ \A b : NotNeeded(b)' <=> NotNeeded(b)
  BY <1>1, QuietSaved
<1>8. SavedInv'
  BY <1>1, <1>7, SavedStep DEF Invariants, SavedInv, Others, SavedMap
<1>9. MineInv'
  <2>1. OneRoleEach(Mine, area, index_block, Unused)'
    <3>1. OneRoleEach(Mine, area, index_block, free \cup {anchor_table.new})
          /\ anchor_table.new \notin free
      BY <1>4 DEF Invariants, MineInv, Unused
    <3>2. Unused' = free'
      BY <1>4 DEF Unused
    <3> QED
      BY <1>1, <1>5, <1>6, <3>1, <3>2 DEF OneRoleEach, Put
  <2> QED
    BY <1>1, <1>4, <1>5, <2>1, MineStep
<1>10. AreaInv'
  BY <1>1, <1>4, <1>5 DEF AreaInv, InIndex, Invariants
<1>11. LoadInv'
  <2>1. ~IndexFull'
    BY <1>1, Constants DEF IndexFull
  <2>2. Loading => index_block = Home
    BY <1>4 DEF Invariants, LoadInv
  <2>3. Loading => free' \subseteq Saved.free \cup {Home}
    BY <1>1, <2>2 DEF Invariants, LoadInv, Put
  <2> QED
    BY <1>1, <1>4, <1>7, <2>1, <2>3 DEF Invariants, LoadInv
<1>12. IndexInv'
  <2>1. flash[anchor_table.new] = <<>> /\ NotNeeded(anchor_table.new)
    BY <1>4 DEF Invariants, IndexInv
  <2> QED
    BY <1>1, <1>2, <1>4, <1>7, <2>1, NoPages DEF IndexInv
<1>13. RecordInv'
  BY <1>1, <1>2, <1>3, <1>7 DEF Invariants, RecordInv
<1> QED
  BY <1>8, <1>9, <1>10, <1>11, <1>12, <1>13 DEF Invariants

LEMMA IndexInitStep ==
  ASSUME Types, AnchorsInv, Invariants, INDEX_Init
  PROVE  Invariants'
<1>1. /\ pc = "readindex" /\ anchor_table \in AnchorPage
      /\ \/ pc' \in {"confused", "failed"}
         \/ /\ pc' = "index" /\ caller' \in {"new", "old"}
            /\ \/ index_block' = anchor_table.new
               \/ /\ Readable(flash[anchor_table.new]) = {}
                  /\ index_block' = anchor_table.old
            /\ index_block' \in PhyBlock /\ IsIndex(flash[index_block'])
            /\ LET t == Last(flash[index_block'])
               IN  area' = t.area /\ free' = t.free /\ plr' = t.plr
      /\ UNCHANGED <<flash, anchors, anchor_table, mounting, data, doing, bad, saved, early>>
  BY IndexInitEffect
<1>2. Records' \subseteq Records /\ anchor_table \in Records
  BY <1>1 DEF Records, Live
<1>3. ~mounting
  BY <1>1 DEF Invariants, LoadInv
<1>4. CASE pc' \in {"confused", "failed"}
  BY <1>1, <1>2, <1>4, StoppedStep
<1>5. CASE pc' = "index"
  <2>1. index_block' = Home /\ Intact
    <3>1. \/ anchor_table.new = Home /\ Intact
          \/ /\ ~IsIndex(flash[anchor_table.new])
             /\ anchor_table.old \in {Home, NoBlock} \/ ~IsIndex(flash[anchor_table.old])
      BY <1>2 DEF Invariants, RecordInv
    <3>2. \/ index_block' = anchor_table.new
          \/ /\ Readable(flash[anchor_table.new]) = {}
             /\ index_block' = anchor_table.old
      BY <1>1, <1>5
    <3>3. IsIndex(flash[index_block']) /\ index_block' # NoBlock
      BY <1>1, <1>5, Constants
    <3>4. CASE index_block' = anchor_table.new
      BY <3>1, <3>3, <3>4
    <3>5. CASE /\ Readable(flash[anchor_table.new]) = {}
               /\ index_block' = anchor_table.old
      <4>1. ~IsIndex(flash[anchor_table.new]) /\ ~(anchor_table.new = Home /\ Intact)
        BY <3>5 DEF IsIndex, Intact
      <4> QED
        BY <3>1, <3>3, <3>5, <4>1 DEF Intact
    <3> QED
      BY <3>2, <3>4, <3>5
  <2>2. Last(flash[Home]) = Saved
    BY <2>1 DEF Invariants, SavedInv
  <2>3. area' = Saved.area /\ free' = Saved.free /\ plr' = Saved.plr /\ caller' \in {"new", "old"}
    BY <1>1, <1>5, <2>1, <2>2
  <2>4. Loading' /\ Busy' /\ ~Announced' /\ InIndex'
    BY <1>5, <2>3 DEF Loading, Busy, Announced, InIndex
  <2>5. Home' = Home /\ Saved' = Saved /\ (Intact' <=> Intact) /\ SavedMap' = SavedMap
    BY <1>1, QuietSaved
  <2>6. Mine' = SavedMap /\ Unused' = Saved.free
    BY <1>1, <2>3, <2>4 DEF Mine, SavedMap, Unused
  <2>7. MineInv'
    BY <1>1, <2>1, <2>3, <2>4, <2>6 DEF Invariants, SavedInv, MineInv, OneRoleEach, Others
  <2>8. AreaInv'
    BY <1>5, <2>3, <2>4 DEF AreaInv
  <2>9. LoadInv'
    BY <1>1, <1>3, <1>5, <2>1, <2>3, <2>4, <2>5 DEF LoadInv
  <2>10. IndexInv'
    BY <2>1, <2>4, <2>5 DEF IndexInv
  <2> QED
    BY <1>1, <1>2, <2>7, <2>8, <2>9, <2>10, QuietStep
<1> QED
  BY <1>1, <1>4, <1>5

\* What a call that returns leaves in data is what flash holds, by whatever
\* mapping the caller of Return has made sure of.
LEMMA ReturnData ==
  ASSUME Types, Invariants, Busy, NEW b \in BOOLEAN, Return(Mine, b),
         ~b => ~mounting /\ ~Loading
  PROVE  /\ pc' = "idle" /\ doing' = NoPlr /\ Others' = LogBlock
         /\ \A l \in LogBlock : data'[l] = flash[Mine[l]]
<1>1. Mine \in Mapping
  BY MineTypes
<1>2. /\ pc' = "idle" /\ doing' = NoPlr
      /\ \A l \in Others : data'[l] = data[l]
      /\ doing # NoPlr => /\ doing.log \in LogBlock
                          /\ data'[doing.log] = IF b THEN flash[Mine[doing.log]] ELSE <<>>
  BY <1>1, ReturnTypes
<1>3. /\ \A l \in Others : flash[Mine[l]] = data[l]
      /\ doing # NoPlr /\ ~b => flash[Mine[doing.log]] = <<>>
  BY DEF Invariants, MineInv
<1>4. \A l \in LogBlock : l \in Others \/ (doing # NoPlr /\ l = doing.log)
  BY Constants, PlrFields DEF Others, Types
<1>5. Others' = LogBlock
  BY <1>2, Constants DEF Others
<1> QED
  BY <1>2, <1>3, <1>4, <1>5

LEMMA AreaInitStep ==
  ASSUME Types, AnchorsInv, Invariants, AREA_Init
  PROVE  Invariants'
<1> DEFINE m == Last(flash[area]).map
<1>1. /\ pc = "readarea" /\ mounting' = TRUE
      /\ \/ pc' = "confused" /\ UNCHANGED <<map, doing, data>>
         \/ /\ pc' = "commit" /\ IsArea(flash[area]) /\ m \in Mapping
            /\ plr # NoPlr /\ map' = Apply(m, plr)
            /\ UNCHANGED <<doing, data>>
         \/ /\ Return(m, TRUE) /\ IsArea(flash[area]) /\ m \in Mapping
            /\ map' = m /\ Apply(m, plr) = m
      /\ UNCHANGED <<flash, anchors, area, area_bad, free, plr, anchor_table, index_block,
                     index_next_page, caller, bad, saved, early>>
  BY AreaInitEffect
<1>2. Busy /\ ~Announced /\ Loading
  <2>1. Busy /\ ~Announced
    BY <1>1 DEF Busy, Announced
  <2> QED
    BY <1>1, <2>1 DEF Invariants, LoadInv, Loading
<1>3. /\ Mine = SavedMap /\ Intact /\ Saved.area = area /\ Saved.plr = plr
      /\ Mine = Apply(m, plr) /\ free \subseteq Saved.free \cup {Home}
  BY <1>2 DEF Invariants, LoadInv, Mine, SavedMap
<1>4. Records' = Records
  BY <1>1, RecordsSame DEF Return
<1>5. Home' = Home /\ Saved' = Saved /\ (Intact' <=> Intact) /\ SavedMap' = SavedMap
  BY <1>1 DEF Home, Saved, Intact, SavedMap
<1>6. plr \in Plr /\ m = Last(flash[area]).map
  BY DEF Types
<1> HIDE DEF m
<1>7. CASE pc' = "confused" /\ UNCHANGED <<map, doing, data>>
  BY <1>1, <1>4, <1>7, StoppedStep
<1>8. CASE /\ pc' = "commit" /\ IsArea(flash[area]) /\ m \in Mapping
           /\ plr # NoPlr /\ map' = Apply(m, plr)
           /\ UNCHANGED <<doing, data>>
  <2>1. Busy' /\ ~Announced' /\ ~Loading' /\ ~InIndex'
    BY <1>8 DEF Busy, Announced, Loading, InIndex
  <2>2. Mine' = Mine
    BY <1>1, <1>3, <1>6, <1>8, <2>1, ApplyPlr DEF Mine
  <2>3. MineInv'
    <3>1. OneRoleEach(Mine, area, index_block, Unused)'
      BY <1>1, <1>2, <2>1, <2>2 DEF Invariants, MineInv, OneRoleEach, Unused
    <3> QED
      BY <1>1, <1>2, <1>8, <2>1, <2>2, <3>1, MineStep
  <2>4. AreaInv'
    BY <1>1, <1>3, <1>6, <1>8, <2>1, <2>2 DEF AreaInv
  <2>5. LoadInv'
    BY <1>8, <2>1 DEF LoadInv
  <2>6. IndexInv'
    BY <1>1, <1>2, <1>4, <1>8, <2>1, QuietSaved DEF IndexInv, Invariants
  <2> QED
    BY <1>1, <1>4, <1>8, <2>3, <2>4, <2>5, <2>6, QuietStep
<1>9. CASE /\ Return(m, TRUE) /\ IsArea(flash[area]) /\ m \in Mapping
           /\ map' = m /\ Apply(m, plr) = m
  <2>1. /\ pc' = "idle" /\ doing' = NoPlr /\ Others' = LogBlock
        /\ \A l \in LogBlock : data'[l] = flash[Mine[l]]
    BY <1>2, <1>3, <1>9, ReturnData
  <2>2. Busy' /\ ~Announced' /\ ~Loading' /\ ~InIndex'
    BY <2>1 DEF Busy, Announced, Loading, InIndex
  <2>3. Mine' = Mine /\ Mine = map'
    BY <1>1, <1>3, <1>9, <2>2 DEF Mine
  <2>4. SavedInv'
    BY <1>1, <1>3, <2>1, SavedStep DEF Invariants, SavedInv, SavedMap, Intact, Home
  <2>5. MineInv'
    <3>1. OneRoleEach(Mine, area, index_block, Unused)'
      BY <1>1, <1>2, <2>2, <2>3 DEF Invariants, MineInv, OneRoleEach, Unused
    <3> QED
      BY <1>1, <1>2, <2>1, <2>2, <2>3, <3>1, MineStep
  <2>6. AreaInv'
    BY <1>1, <1>6, <1>9, <2>1, <2>2, <2>3 DEF AreaInv
  <2>7. LoadInv'
    BY <1>1, <1>3, <1>5, <2>1, <2>2, <2>3 DEF LoadInv
  <2>8. IndexInv'
    <3>1. /\ index_block = Home \/ ~IsIndex(flash[index_block])
          /\ index_block = Home \/ \A r \in Records : r.new = index_block
      BY <1>2 DEF Invariants, IndexInv
    <3>2. NotNeeded(index_block)'
      BY <1>1, <1>2, <1>3, <1>5, <2>1, MineTypes DEF NotNeeded
    <3> QED
      BY <1>1, <1>4, <1>5, <2>2, <3>1, <3>2 DEF IndexInv
  <2>9. RecordInv'
    BY <1>1, <1>4, <1>5 DEF Invariants, RecordInv
  <2> QED
    BY <2>4, <2>5, <2>6, <2>7, <2>8, <2>9 DEF Invariants
<1> QED
  BY <1>1, <1>7, <1>8, <1>9

LEMMA UserWriteStep ==
  ASSUME Types, AnchorsInv, Invariants, NEW l \in LogBlock, UserWrite(l)
  PROVE  Invariants'
<1> DEFINE b == map[l]
<1>1. /\ pc = "idle" /\ pc' = "idle" /\ data[l] = <<>>
      /\ data' = [data EXCEPT ![l] = <<User(l, ops)>>]
      /\ flash' = [flash EXCEPT ![b] = Append(@, User(l, ops))]
      /\ UNCHANGED <<anchors, area, area_bad, free, plr, map, area_offset, anchor_table,
                     index_block, index_next_page, caller, mounting, area_reclaim,
                     doing, bad, saved, early>>
  BY DEF UserWrite, ram, index_table, area_table, anchor, index, control
<1>2. /\ Busy /\ Busy' /\ ~Announced /\ ~Announced' /\ ~Loading /\ ~Loading'
      /\ ~InIndex /\ ~InIndex'
  BY <1>1 DEF Busy, Announced, Loading, InIndex
<1>3. /\ Mine = map /\ Mine' = map /\ Unused = free /\ Unused' = free
      /\ doing = NoPlr /\ doing' = NoPlr /\ Others = LogBlock /\ Others' = LogBlock
  <2>1. Mine = map /\ doing = NoPlr
    BY <1>1 DEF Invariants, AreaInv
  <2> QED
    BY <1>1, <1>2, <2>1, Constants DEF Mine, Unused, Others
<1>4. /\ map \in Mapping /\ b \in PhyBlock /\ area \in PhyBlock /\ index_block \in PhyBlock
      /\ b # area /\ b # index_block
      /\ \A k \in LogBlock : map[k] \in PhyBlock /\ (k # l => map[k] # b)
  <2>1. OneRoleEach(map, area, index_block, free)
    BY <1>2, <1>3 DEF Invariants, MineInv
  <2> QED
    BY <1>2, <1>3, <2>1, MineTypes DEF OneRoleEach
<1>5. /\ flash \in [PhyBlock -> Pages] /\ data \in [LogBlock -> Pages]
      /\ User(l, ops) \in Table /\ User(l, ops).kind = "user"
  BY Kinds DEF Types
<1>6. flash[b] = <<>>
  BY <1>1, <1>2, <1>3 DEF Invariants, MineInv
<1>7. /\ flash'[b] = <<User(l, ops)>> /\ ~IsIndex(flash'[b]) /\ ~IsArea(flash'[b])
      /\ \A c \in PhyBlock : c # b => flash'[c] = flash[c]
  <2>1. flash'[b] = Append(flash[b], User(l, ops)) /\ \A c \in PhyBlock : c # b => flash'[c] = flash[c]
    BY <1>1, <1>4, <1>5
  <2>2. Append(<<>>, User(l, ops)) = <<User(l, ops)>>
    OBVIOUS
  <2>3. ~IsIndex(<<User(l, ops)>>) /\ ~IsArea(<<User(l, ops)>>)
    BY <1>5, OnePage
  <2> QED
    BY <1>6, <2>1, <2>2, <2>3
<1> HIDE DEF b
<1>8. /\ NoNewIndex
      /\ \A k \in LogBlock : /\ flash'[map[k]] = data'[k]
                             /\ ~IsIndex(flash'[map[k]])
  <2>1. \A k \in LogBlock : flash[map[k]] = data[k] /\ ~IsIndex(flash[map[k]])
    BY <1>2, <1>3 DEF Invariants, MineInv
  <2>2. NoNewIndex
    BY <1>7 DEF NoNewIndex
  <2>3. \A k \in LogBlock : flash'[map[k]] = data'[k]
    <3>1. data'[l] = <<User(l, ops)>> /\ \A k \in LogBlock : k # l => data'[k] = data[k]
      BY <1>1, <1>5
    <3>2. \A k \in LogBlock : k # l => flash'[map[k]] = flash[map[k]]
      BY <1>4, <1>7
    <3> QED
      BY <1>7, <2>1, <3>1, <3>2 DEF b
  <2>4. \A k \in LogBlock : ~IsIndex(flash'[map[k]])
    BY <1>4, <2>1, <2>2 DEF NoNewIndex
  <2> QED
    BY <2>2, <2>3, <2>4
<1>9. Home \in PhyBlock /\ Saved.area \in PhyBlock /\ Home' = Home /\ Saved' = Saved
  BY <1>1, SavedTypes DEF Home, Saved
<1>10. Intact => SavedMap = map /\ Saved.area = area /\ Home # b
  <2>1. Intact => SavedMap = map /\ Saved.area = area
    BY <1>1 DEF Invariants, LoadInv
  <2>2. Intact => Home # b
    BY <1>6, NoPages DEF Intact
  <2> QED
    BY <2>1, <2>2
<1>11. /\ Intact' <=> Intact
       /\ Intact => Last(flash'[Home]) = Last(flash[Home])
       /\ flash'[area] = flash[area] /\ flash'[index_block] = flash[index_block]
  <2>1. Intact' => Home # b
    BY <1>7, <1>9 DEF Intact
  <2> QED
    BY <1>4, <1>7, <1>9, <1>10, <2>1 DEF Intact
<1>12. SavedInv' /\ (Intact' => SavedMap' = SavedMap)
  BY <1>1, <1>3, <1>8, <1>10, <1>11, SavedStep DEF Invariants, SavedInv, SavedMap
<1>13. MineInv'
  <2>1. OneRoleEach(Mine, area, index_block, Unused)'
    BY <1>1, <1>2, <1>3 DEF Invariants, MineInv, OneRoleEach
  <2> QED
    BY <1>2, <1>3, <1>8, <2>1 DEF MineInv
<1>14. AreaInv'
  BY <1>1, <1>2, <1>3, <1>11 DEF Invariants, AreaInv
<1>15. LoadInv'
  BY <1>1, <1>2, <1>9, <1>11, <1>12 DEF Invariants, LoadInv
<1>16. Records' = Records
  BY <1>1, RecordsSame
<1>17. IndexInv'
  <2>1. /\ index_block = Home \/ (~IsIndex(flash[index_block]) /\ NotNeeded(index_block))
        /\ index_block = Home \/ \A r \in Records : r.new = index_block
    BY <1>2 DEF Invariants, IndexInv
  <2>2. NotNeeded(index_block) => NotNeeded(index_block)'
    BY <1>1, <1>3, <1>9, <1>11, <1>12 DEF NotNeeded
  <2> QED
    BY <1>1, <1>2, <1>9, <1>11, <1>16, <2>1, <2>2 DEF IndexInv
<1>18. RecordInv'
  BY <1>1, <1>8, <1>11, <1>16, RecordStep DEF Invariants
<1> QED
  BY <1>12, <1>13, <1>14, <1>15, <1>17, <1>18 DEF Invariants

\* A free block that is erased, or written by the caller: the tables and the
\* other blocks stay as they are, and it holds no index table. If it was the
\* block of the last one, the records of the anchor no longer name it.
LEMMA TakenBlock ==
  ASSUME Types, Invariants, Busy, ~Announced, pc # "readindex", pc' # "readindex",
         NEW new \in free, saved' = saved, bad \subseteq bad', anchors' = anchors,
         data' = data, Others' \subseteq Others,
         doing' # NoPlr => \A l \in Others' : Intact /\ new # Home => SavedMap[l] # doing'.phy,
         \A c \in PhyBlock : c # new => flash'[c] = flash[c],
         ~IsIndex(flash'[new]), new # Home => NotNeeded(new)
  PROVE  /\ SavedInv' /\ RecordInv' /\ (Intact' => SavedMap' = SavedMap)
         /\ Home' = Home /\ Saved' = Saved
         /\ Intact' <=> Intact /\ new # Home
         /\ \A c \in PhyBlock : NotNeeded(c) => NotNeeded(c)'
<1>1. new \in PhyBlock /\ Home \in PhyBlock /\ Saved.area \in PhyBlock
  BY SavedTypes DEF Types
<1>2. Home' = Home /\ Saved' = Saved
  BY DEF Home, Saved
<1>3. Intact' <=> Intact /\ new # Home
  BY <1>1, <1>2 DEF Intact
<1>4. NoNewIndex
  BY DEF NoNewIndex
<1>5. \A l \in LogBlock : Intact => SavedMap[l] \in PhyBlock
  BY SavedTypes DEF Invariants
<1>6. SavedInv' /\ (Intact' => SavedMap' = SavedMap)
  <2>1. Others \subseteq LogBlock
    BY DEF Others
  <2>2. ASSUME Intact'
        PROVE  /\ Last(flash'[Home]) = Last(flash[Home])
               /\ flash'[Saved.area] = flash[Saved.area]
               /\ \A l \in Others : flash'[SavedMap[l]] = flash[SavedMap[l]]
    BY <1>1, <1>3, <1>5, <2>1, <2>2 DEF NotNeeded
  <2>3. ASSUME Intact'
        PROVE  /\ IsArea(flash[Saved.area])
               /\ \A l \in Others : flash[SavedMap[l]] = data[l]
               /\ \A l \in LogBlock : ~IsIndex(flash[SavedMap[l]])
    BY <1>3, <2>3 DEF Invariants, SavedInv
  <2>4. \A l \in LogBlock : Intact' => ~IsIndex(flash'[SavedMap[l]])
    BY <1>3, <1>4, <1>5, <2>3 DEF NoNewIndex
  <2>5. Intact' => /\ Intact /\ Last(flash'[Home]) = Last(flash[Home])
                   /\ IsArea(flash'[Saved.area])
                   /\ Apply(Last(flash'[Saved.area]).map, Saved.plr) = SavedMap
                   /\ \A l \in Others' : flash'[SavedMap[l]] = data'[l]
                   /\ doing' # NoPlr => \A l \in Others' : SavedMap[l] # doing'.phy
    BY <1>3, <2>2, <2>3 DEF SavedMap
  <2> QED
    BY <2>4, <2>5, SavedStep DEF Invariants
<1>7. Records' = Records
  BY RecordsSame
<1>8. RecordInv'
  <2>1. ASSUME new = Home
        PROVE  \A r \in Records : r.new # Home
    <3>1. index_block # Home
      BY <2>1, MineTypes
    <3>2. \A r \in Records : r.new = index_block
      BY <3>1 DEF Invariants, IndexInv
    <3> QED
      BY <3>1, <3>2
  <2> QED
    BY <1>3, <1>4, <1>7, <2>1, RecordStep DEF Invariants
<1>9. ASSUME NEW c \in PhyBlock, NotNeeded(c)
      PROVE  NotNeeded(c)'
  BY <1>2, <1>3, <1>6, <1>9 DEF NotNeeded
<1> QED
  BY <1>2, <1>3, <1>6, <1>8, <1>9

\* UBI_Erase and ubi_reclaim_badblock: a free block takes the place of another.
LEMMA EraseStep ==
  ASSUME Types, AnchorsInv, Invariants, NEW l \in LogBlock,
         UBI_Erase(l) \/ ubi_reclaim_badblock(l)
  PROVE  Invariants'
<1>1. PICK new \in First :
        /\ \/ flash' = Erased(new) /\ doing' = [log |-> l, phy |-> map[l]]
           \/ flash' = [flash EXCEPT ![new] = flash[map[l]]] /\ doing' = doing
        /\ free' = (free \ {new}) \cup {map[l]} /\ plr' = [log |-> l, phy |-> new]
  BY DEF UBI_Erase, ubi_reclaim_badblock, history
<1>2. /\ pc = "idle" /\ pc' = "commit" /\ mounting' = FALSE
      /\ UNCHANGED <<anchors, area, map, area_offset, anchor_table, index_block,
                     index_next_page, caller, data, bad, saved, early>>
  BY DEF UBI_Erase, ubi_reclaim_badblock, area_table, anchor, index, history
<1>3. /\ Busy /\ Busy' /\ ~Announced /\ ~Announced' /\ ~Loading /\ ~Loading'
      /\ ~InIndex /\ ~InIndex' /\ Unused = free /\ Unused' = free'
  BY <1>2 DEF Busy, Announced, Loading, InIndex, Unused
<1>4. /\ Mine = map /\ doing = NoPlr /\ Others = LogBlock
      /\ IsArea(flash[area]) /\ Last(flash[area]).map = map
  <2>1. /\ Mine = map /\ doing = NoPlr
        /\ IsArea(flash[area]) /\ Last(flash[area]).map = map
    BY <1>2 DEF Invariants, AreaInv
  <2> QED
    BY <2>1, Constants DEF Others
<1>5. /\ map \in Mapping /\ area \in PhyBlock /\ index_block \in PhyBlock
      /\ new \in free /\ new \in PhyBlock /\ new # area /\ new # index_block
      /\ \A k \in LogBlock : map[k] \in PhyBlock /\ map[k] # new
      /\ \A k \in LogBlock : k # l => map[k] # map[l]
  <2>1. OneRoleEach(map, area, index_block, free)
    BY <1>3, <1>4 DEF Invariants, MineInv
  <2> QED
    BY <1>3, <1>4, <2>1, MineTypes, FirstFree DEF OneRoleEach
<1>6. flash \in [PhyBlock -> Pages]
  BY DEF Types
<1>7. /\ \A c \in PhyBlock : c # new => flash'[c] = flash[c]
      /\ \/ flash'[new] = <<>> /\ doing' = [log |-> l, phy |-> map[l]]
         \/ flash'[new] = flash[map[l]] /\ doing' = NoPlr
  BY <1>1, <1>4, <1>5, <1>6 DEF Erased
<1>8. \A k \in LogBlock : flash[map[k]] = data[k] /\ ~IsIndex(flash[map[k]])
  BY <1>3, <1>4 DEF Invariants, MineInv
<1>9. ~IsIndex(flash'[new])
  BY <1>7, <1>8, NoPages
<1>10. /\ Others' \subseteq LogBlock
       /\ doing' # NoPlr => Others' = LogBlock \ {l} /\ doing'.log = l /\ doing'.phy = map[l]
  BY <1>7 DEF Others
<1>11. Intact => SavedMap = map
  BY <1>2 DEF Invariants, LoadInv
<1>12. new # Home => NotNeeded(new)
  <2>1. SUFFICES ASSUME new # Home, Intact
                 PROVE  new # Saved.area /\ \A k \in Others : SavedMap[k] # new
    BY DEF NotNeeded
  <2>2. free \subseteq Saved.free \cup {Home}
    BY <1>2 DEF Invariants, LoadInv
  <2>3. OneRoleEach(SavedMap, Saved.area, Home, Saved.free)
    BY <2>1 DEF Invariants, SavedInv
  <2> QED
    BY <1>4, <1>5, <2>1, <2>2, <2>3 DEF OneRoleEach
<1>13. /\ SavedInv' /\ RecordInv' /\ (Intact' => SavedMap' = SavedMap)
       /\ Home' = Home /\ Saved' = Saved
       /\ \A c \in PhyBlock : NotNeeded(c) => NotNeeded(c)'
  <2>1. doing' # NoPlr => \A k \in Others' : Intact /\ new # Home => SavedMap[k] # doing'.phy
    BY <1>5, <1>10, <1>11
  <2>2. Others' \subseteq Others
    BY <1>4, <1>10
  <2>3. pc # "readindex" /\ pc' # "readindex" /\ bad \subseteq bad'
    BY <1>2
  <2> QED
    BY <1>2, <1>3, <1>5, <1>7, <1>9, <1>12, <2>1, <2>2, <2>3, TakenBlock
<1>14. /\ plr' # NoPlr /\ plr'.log = l /\ Mine' = Apply(map, plr')
       /\ Mine'[l] = new /\ \A k \in LogBlock : k # l => Mine'[k] = map[k]
  <2>1. plr' \in Plr /\ plr' # NoPlr /\ plr'.log = l /\ plr'.phy = new
    BY <1>1, <1>5, Constants
  <2>2. Mine' = Apply(map, plr')
    BY <1>2, <1>3 DEF Mine
  <2> QED
    BY <1>5, <2>1, <2>2, ApplyPlr
<1>15. MineInv'
  <2>1. OneRoleEach(Mine, area, index_block, Unused)'
    <3>1. OneRoleEach(map, area, index_block, free)
      BY <1>3, <1>4 DEF Invariants, MineInv
    <3>2. PhyBlock \ bad \subseteq {map[k] : k \in LogBlock} \cup {area, index_block} \cup free
      BY <3>1 DEF OneRoleEach
    <3>3. PhyBlock \ bad' \subseteq {Mine'[k] : k \in LogBlock} \cup {area, index_block} \cup free'
      <4>1. \A k \in LogBlock : map[k] \in {Mine'[j] : j \in LogBlock} \cup free'
        BY <1>1, <1>14
      <4>2. free \subseteq {Mine'[j] : j \in LogBlock} \cup free'
        BY <1>1, <1>14
      <4> QED
        BY <1>2, <3>2, <4>1, <4>2
    <3>4. \A j, k \in LogBlock : Mine'[j] = Mine'[k] => j = k
      BY <1>5, <1>14, <3>1 DEF OneRoleEach
    <3>5. /\ area # index_block
          /\ \A k \in LogBlock : map[k] \notin {area, index_block} \cup free
          /\ {area, index_block} \cap free = {}
      BY <3>1 DEF OneRoleEach
    <3>6. \A k \in LogBlock : Mine'[k] \notin {area, index_block} \cup free'
      BY <1>1, <1>5, <1>14, <3>5
    <3>7. {area, index_block} \cap free' = {}
      BY <1>1, <3>5
    <3> QED
      BY <1>2, <1>3, <3>3, <3>4, <3>5, <3>6, <3>7 DEF OneRoleEach
  <2>2. \A k \in LogBlock : ~IsIndex(flash'[Mine'[k]])
    BY <1>5, <1>7, <1>8, <1>9, <1>14
  <2>3. \A k \in Others' : flash'[Mine'[k]] = data'[k]
    <3>1. \A k \in LogBlock : k # l => flash'[Mine'[k]] = data'[k]
      BY <1>2, <1>5, <1>7, <1>8, <1>14
    <3>2. doing' = NoPlr => flash'[Mine'[l]] = data'[l]
      BY <1>2, <1>7, <1>8, <1>14, Constants
    <3> QED
      BY <1>10, <3>1, <3>2
  <2>4. doing' # NoPlr => /\ \A k \in Others' : Mine'[k] # doing'.phy
                          /\ doing'.log = plr'.log /\ flash'[Mine'[doing'.log]] = <<>>
    BY <1>5, <1>7, <1>10, <1>14
  <2> QED
    BY <1>3, <2>1, <2>2, <2>3, <2>4 DEF MineInv
<1>16. AreaInv'
  <2>1. flash'[area'] = flash[area]
    BY <1>2, <1>5, <1>7
  <2> QED
    BY <1>2, <1>3, <1>4, <1>14, <2>1 DEF AreaInv
<1>17. LoadInv'
  BY <1>2, <1>3 DEF LoadInv
<1>18. IndexInv'
  <2>1. /\ index_block = Home \/ (~IsIndex(flash[index_block]) /\ NotNeeded(index_block))
        /\ index_block = Home \/ \A r \in Records : r.new = index_block
    BY <1>3 DEF Invariants, IndexInv
  <2>2. flash'[index_block] = flash[index_block] /\ Records' = Records
    BY <1>2, <1>5, <1>7, RecordsSame
  <2> QED
    BY <1>2, <1>3, <1>5, <1>13, <2>1, <2>2 DEF IndexInv
<1> QED
  BY <1>13, <1>15, <1>16, <1>17, <1>18 DEF Invariants

\* What EarlyErase watches.
LEMMA InOrder ==
  ASSUME Types, Invariants, NEW new \in PhyBlock, EarlyErase(new), ~early'
  PROVE  NotNeeded(new)
<1>1. SUFFICES ASSUME Intact
               PROVE  new # Saved.area /\ \A l \in Others : SavedMap[l] # new
  BY DEF NotNeeded
<1>2. new \in Saved.free \/ (new = doing.phy /\ new # Saved.area)
  BY DEF EarlyErase, Saved
<1>3. /\ OneRoleEach(SavedMap, Saved.area, Home, Saved.free)
      /\ doing # NoPlr => \A l \in Others : SavedMap[l] # doing.phy
  BY <1>1 DEF Invariants, SavedInv
<1>4. Others \subseteq LogBlock
  BY DEF Others
<1>5. CASE new \in Saved.free
  BY <1>3, <1>4, <1>5 DEF OneRoleEach
<1>6. CASE new = doing.phy /\ new # Saved.area
  <2>1. doing # NoPlr
    BY <1>6, Constants
  <2> QED
    BY <1>3, <1>6, <2>1
<1> QED
  BY <1>2, <1>5, <1>6

LEMMA CommitToNewBlockStep ==
  ASSUME Types, AnchorsInv, Invariants, CommitToNewBlock, ~early'
  PROVE  Invariants'
<1>1. PICK new \in First :
        /\ flash' = Erased(new) /\ area' = new
        /\ free' = (free \ {new}) \cup Put(area, area_bad)
        /\ bad' = bad \cup ({area} \ Put(area, area_bad))
        /\ EarlyErase(new)
  BY DEF CommitToNewBlock
<1>2. /\ pc = "commit" /\ pc' = "area" /\ area_reclaim' = TRUE
      /\ UNCHANGED <<anchors, plr, map, area_offset, anchor_table, index_block,
                     index_next_page, caller, mounting, data, doing, saved>>
  BY DEF CommitToNewBlock, area_table, anchor, index
<1>3. /\ Busy /\ Busy' /\ ~Announced /\ ~Announced' /\ ~Loading /\ ~Loading'
      /\ ~InIndex /\ ~InIndex' /\ Unused = free /\ Unused' = free'
  BY <1>2 DEF Busy, Announced, Loading, InIndex, Unused
<1>4. Mine' = Mine
  BY <1>2, <1>3 DEF Mine
<1>5. OneRoleEach(Mine, area, index_block, free)
  BY <1>3 DEF Invariants, MineInv
<1>6. /\ new \in free /\ new \in PhyBlock /\ index_block \in PhyBlock /\ new # index_block
      /\ \A l \in LogBlock : Mine[l] \in PhyBlock /\ Mine[l] # new
  BY <1>3, MineTypes, FirstFree
<1>7. flash'[new] = <<>> /\ \A c \in PhyBlock : c # new => flash'[c] = flash[c]
  BY <1>1, <1>6, EraseBlock DEF Types
<1>8. NotNeeded(new)
  BY <1>1, <1>6, InOrder
<1>9. /\ SavedInv' /\ RecordInv' /\ (Intact' => SavedMap' = SavedMap)
      /\ Home' = Home /\ Saved' = Saved
      /\ Intact' <=> Intact /\ new # Home
      /\ \A c \in PhyBlock : NotNeeded(c) => NotNeeded(c)'
  <2>1. doing' # NoPlr => \A k \in Others' : Intact /\ new # Home => SavedMap[k] # doing'.phy
    BY <1>2 DEF Invariants, SavedInv, Others
  <2>2. Others' = Others /\ bad \subseteq bad' /\ pc # "readindex" /\ pc' # "readindex"
    BY <1>1, <1>2 DEF Others
  <2>3. ~IsIndex(flash'[new])
    BY <1>7, NoPages
  <2> QED
    BY <1>2, <1>3, <1>6, <1>7, <1>8, <2>1, <2>2, <2>3, TakenBlock
<1>10. MineInv'
  <2>1. \A l \in LogBlock : flash'[Mine[l]] = flash[Mine[l]]
    BY <1>6, <1>7
  <2>2. OneRoleEach(Mine, area, index_block, Unused)'
    BY <1>1, <1>2, <1>3, <1>4, <1>5, <1>6 DEF OneRoleEach, Put
  <2> QED
    BY <1>2, <1>3, <1>4, <2>1, <2>2, MineStep
<1>11. AreaInv'
  <2>1. Fresh'
    BY <1>1, <1>2, <1>6, <1>8, <1>9 DEF Fresh
  <2>2. plr' # NoPlr
    BY <1>2 DEF Invariants, AreaInv
  <2> QED
    BY <1>2, <1>3, <2>1, <2>2 DEF AreaInv
<1>12. LoadInv'
  BY <1>2, <1>3 DEF LoadInv
<1>13. IndexInv'
  <2>1. /\ index_block = Home \/ (~IsIndex(flash[index_block]) /\ NotNeeded(index_block))
        /\ index_block = Home \/ \A r \in Records : r.new = index_block
    BY <1>3 DEF Invariants, IndexInv
  <2>2. flash'[index_block] = flash[index_block] /\ Records' = Records
    BY <1>2, <1>6, <1>7, RecordsSame
  <2> QED
    BY <1>2, <1>3, <1>6, <1>9, <2>1, <2>2 DEF IndexInv
<1> QED
  BY <1>9, <1>10, <1>11, <1>12, <1>13 DEF Invariants

LEMMA IndexReclaimStep ==
  ASSUME Types, AnchorsInv, Invariants, IndexReclaim, ~early'
  PROVE  Invariants'
<1>1. PICK new \in free :
        /\ new \in PhyBlock /\ flash'[new] = <<>>
        /\ \A c \in PhyBlock : c # new => flash'[c] = flash[c]
        /\ free' = free \ {new}
        /\ anchor_table'.new = new /\ anchor_table'.old = index_block
        /\ EarlyErase(new)
        /\ pc = "index" /\ IndexFull /\ pc' = "anchor"
        /\ UNCHANGED <<anchors, area, plr, map, area_offset, index_block, index_next_page,
                       caller, mounting, area_reclaim, data, doing, bad, saved>>
  BY IndexReclaimEffect
<1>2. /\ Busy /\ Busy' /\ ~Announced /\ Announced' /\ (Loading' <=> Loading)
      /\ InIndex /\ InIndex' /\ Unused = free /\ Unused' = free
  BY <1>1 DEF Busy, Announced, Loading, InIndex, Unused
<1>3. OneRoleEach(Mine, area, index_block, free)
  BY <1>2 DEF Invariants, MineInv
<1>4. /\ index_block \in PhyBlock /\ new # index_block /\ area \in PhyBlock /\ new # area
      /\ \A l \in LogBlock : Mine[l] \in PhyBlock /\ Mine[l] # new
  BY <1>2, MineTypes
<1>5. flash'[area'] = flash[area] /\ flash'[index_block] = flash[index_block]
  BY <1>1, <1>4
<1>6. Mine' = Mine
  BY <1>1, <1>2, <1>5 DEF Mine
<1>7. NotNeeded(new)
  BY <1>1, InOrder
<1>8. /\ SavedInv' /\ RecordInv' /\ (Intact' => SavedMap' = SavedMap)
      /\ Home' = Home /\ Saved' = Saved
      /\ Intact' <=> Intact /\ new # Home
      /\ \A c \in PhyBlock : NotNeeded(c) => NotNeeded(c)'
  <2>1. doing' # NoPlr => \A k \in Others' : Intact /\ new # Home => SavedMap[k] # doing'.phy
    BY <1>1 DEF Invariants, SavedInv, Others
  <2>2. Others' = Others /\ bad \subseteq bad' /\ pc # "readindex" /\ pc' # "readindex"
    BY <1>1 DEF Others
  <2>3. ~IsIndex(flash'[new])
    BY <1>1, NoPages
  <2> QED
    BY <1>1, <1>2, <1>7, <2>1, <2>2, <2>3, TakenBlock
<1>9. MineInv'
  <2>1. \A l \in LogBlock : flash'[Mine[l]] = flash[Mine[l]]
    BY <1>1, <1>4
  <2>2. OneRoleEach(Mine, area, index_block, Unused)'
    BY <1>1, <1>2, <1>3, <1>6 DEF OneRoleEach
  <2> QED
    BY <1>1, <1>2, <1>6, <2>1, <2>2, MineStep
<1>10. AreaInv'
  BY <1>1, <1>2, <1>5, <1>6 DEF Invariants, AreaInv, InIndex
<1>11. LoadInv'
  <2>1. Loading => index_block = Home /\ new # Home
    BY <1>1, <1>2, <1>4 DEF Invariants, LoadInv
  <2> QED
    BY <1>1, <1>2, <1>8, <2>1 DEF Invariants, LoadInv
<1>12. IndexInv'
  <2>1. index_block = Home \/ (~IsIndex(flash[index_block]) /\ NotNeeded(index_block))
    BY <1>2 DEF Invariants, IndexInv
  <2> QED
    BY <1>1, <1>2, <1>4, <1>5, <1>7, <1>8, <2>1 DEF IndexInv
<1> QED
  BY <1>8, <1>9, <1>10, <1>11, <1>12 DEF Invariants

LEMMA AreaUpdateStep ==
  ASSUME Types, AnchorsInv, Invariants, AREA_Update
  PROVE  Invariants'
<1>1. PICK ok \in BOOLEAN :
        /\ \A c \in PhyBlock : c # area => flash'[c] = flash[c]
        /\ ok => Readable(flash'[area]) # {} /\ Last(flash'[area]) = AreaPage(map')
        /\ ~ok => SameTable(flash'[area], flash[area]) /\ area_offset' = PPB - 1
        /\ map' = [map EXCEPT ![plr.log] = plr.phy] /\ map' \in Mapping
        /\ \/ ~ok /\ pc' = "commit" /\ UNCHANGED <<doing, data>>
           \/ /\ ok /\ area_reclaim /\ pc' = "index" /\ caller' = "last"
              /\ UNCHANGED <<doing, data>>
           \/ ok /\ ~area_reclaim /\ Return(map', mounting)
        /\ pc = "area"
        /\ UNCHANGED <<anchors, area, free, plr, anchor_table, index_block, index_next_page,
                       mounting, area_reclaim, bad, saved, early>>
  BY AreaUpdateEffect DEF Retry
<1>2. pc' \in {"commit", "index", "idle"} /\ (pc' = "index" => caller' = "last")
  BY <1>1 DEF Return
<1>3. /\ Busy /\ Busy' /\ ~Announced /\ ~Announced' /\ ~Loading /\ ~Loading' /\ ~InIndex
      /\ Unused = free /\ Unused' = free
  BY <1>1, <1>2 DEF Busy, Announced, Loading, InIndex, Unused
<1>4. /\ Mine \in Mapping /\ map' = Mine /\ Mine' = Mine /\ plr # NoPlr /\ plr \in Plr
      /\ Apply(Mine, plr) = Mine
  <2>1. plr # NoPlr
    BY <1>1 DEF Invariants, AreaInv
  <2>2. Mine = Apply(map, plr) /\ map \in Mapping /\ plr \in Plr
    BY <1>3, MineTypes
  <2>3. map' = Mine /\ Apply(Mine, plr) = Mine
    BY <1>1, <2>1, <2>2, ApplyPlr
  <2>4. Mine' = Apply(map', plr)
    BY <1>1, <1>3 DEF Mine
  <2> QED
    BY <1>1, <2>1, <2>2, <2>3, <2>4
<1>5. /\ area \in PhyBlock /\ index_block \in PhyBlock /\ area # index_block
      /\ \A l \in LogBlock : Mine[l] \in PhyBlock /\ Mine[l] # area
  BY <1>3, MineTypes
<1>6. ok => IsArea(flash'[area]) /\ ~IsIndex(flash'[area]) /\ Last(flash'[area]).map = Mine
  BY <1>1, <1>4, Kinds DEF IsArea, IsIndex
<1>7. ~ok => /\ IsArea(flash'[area]) <=> IsArea(flash[area])
             /\ IsIndex(flash'[area]) <=> IsIndex(flash[area])
             /\ IsArea(flash[area]) => Last(flash'[area]) = Last(flash[area])
  BY <1>1, SameKinds DEF IsArea
<1>8. NoNewIndex
  BY <1>1, <1>6, <1>7 DEF NoNewIndex
<1>9. UpToDate \/ Fresh
  BY <1>1 DEF Invariants, AreaInv
<1>10. /\ Home \in PhyBlock /\ Saved.area \in PhyBlock
       /\ Home' = Home /\ Saved' = Saved
  BY <1>1, SavedTypes DEF Home, Saved
<1>11. Intact => area # Home
  BY <1>5, <1>9 DEF UpToDate, Fresh
<1>12. (Intact' <=> Intact) /\ (Intact => flash'[Home] = flash[Home])
  BY <1>1, <1>8, <1>10, <1>11 DEF Intact, NoNewIndex
<1>13. Intact => /\ IsArea(flash'[Saved.area])
                 /\ Apply(Last(flash'[Saved.area]).map, Saved.plr) = SavedMap
  <2>1. Intact => IsArea(flash[Saved.area])
    BY DEF Invariants, SavedInv
  <2>2. CASE UpToDate
    <3>1. Saved.area = area /\ Saved.plr = plr /\ SavedMap = Mine
      BY <2>2 DEF UpToDate
    <3> QED
      BY <1>4, <1>6, <1>7, <2>1, <3>1 DEF SavedMap
  <2>3. CASE Fresh
    <3>1. Intact => flash'[Saved.area] = flash[Saved.area]
      BY <1>1, <1>10, <2>3 DEF Fresh, NotNeeded
    <3> QED
      BY <2>1, <3>1 DEF SavedMap
  <2> QED
    BY <1>9, <2>2, <2>3
<1>14. \A l \in LogBlock : flash'[Mine[l]] = flash[Mine[l]]
  BY <1>1, <1>5
<1>15. pc' = "idle" => /\ ok /\ UpToDate /\ doing' = NoPlr /\ Others' = LogBlock
                       /\ \A l \in LogBlock : data'[l] = flash[Mine[l]]
  <2>1. SUFFICES ASSUME pc' = "idle"
                 PROVE  /\ ok /\ UpToDate /\ doing' = NoPlr /\ Others' = LogBlock
                        /\ \A l \in LogBlock : data'[l] = flash[Mine[l]]
    OBVIOUS
  <2>2. ok /\ ~area_reclaim /\ Return(Mine, mounting)
    BY <1>1, <1>4, <2>1
  <2>3. mounting \in BOOLEAN
    BY DEF Types
  <2>4. doing' = NoPlr /\ Others' = LogBlock /\ \A l \in LogBlock : data'[l] = flash[Mine[l]]
    BY <1>3, <2>2, <2>3, ReturnData
  <2> QED
    BY <1>9, <2>2, <2>4 DEF Fresh
<1>16. pc' # "idle" => doing' = doing /\ data' = data /\ Others' = Others
  BY <1>1 DEF Others, Return
<1>17. SavedInv' /\ (Intact' => SavedMap' = SavedMap)
  <2>1. Intact => /\ \A l \in LogBlock : SavedMap[l] \in PhyBlock /\ ~IsIndex(flash[SavedMap[l]])
                  /\ \A l \in Others : flash[SavedMap[l]] = data[l]
                  /\ doing # NoPlr => \A l \in Others : SavedMap[l] # doing.phy
    BY SavedTypes DEF Invariants, SavedInv
  <2>2. \A l \in LogBlock : Intact' => ~IsIndex(flash'[SavedMap[l]])
    BY <1>8, <1>12, <2>1 DEF NoNewIndex
  <2>3. ASSUME Intact'
        PROVE  \A l \in Others' : flash'[SavedMap[l]] = data'[l]
    <3>1. CASE pc' = "idle"
      BY <1>14, <1>15, <3>1 DEF UpToDate
    <3>2. CASE pc' # "idle"
      <4>1. \A l \in Others : l \in LogBlock /\ SavedMap[l] # area
        BY <1>5, <1>9, <1>12, <2>3 DEF Others, UpToDate, Fresh, NotNeeded
      <4> QED
        BY <1>1, <1>12, <1>16, <2>1, <2>3, <3>2, <4>1
    <3> QED
      BY <3>1, <3>2
  <2>4. Intact' => (doing' # NoPlr => \A l \in Others' : SavedMap[l] # doing'.phy)
    BY <1>12, <1>15, <1>16, <2>1
  <2> QED
    BY <1>1, <1>12, <1>13, <2>2, <2>3, <2>4, SavedStep DEF Invariants
<1>18. MineInv'
  <2>1. OneRoleEach(Mine, area, index_block, Unused)'
    BY <1>1, <1>3, <1>4 DEF Invariants, MineInv, OneRoleEach
  <2>2. \/ UNCHANGED <<doing, data, plr>> /\ (~mounting' => ~mounting)
        \/ doing' = NoPlr /\ \A l \in LogBlock : data'[l] = flash[Mine[l]]
    BY <1>1, <1>15, <1>16
  <2> QED
    BY <1>3, <1>4, <1>14, <2>1, <2>2, MineStep
<1>19. AreaInv'
  <2>1. pc' = "commit" => AREA_IsFull'
    BY <1>1 DEF AREA_IsFull, Return
  <2>2. pc' # "commit" => ok
    BY <1>1
  <2>3. (InIndex' => caller' = "last") /\ pc' # "area"
    BY <1>2 DEF InIndex
  <2>4. pc' # "commit" => IsArea(flash'[area']) /\ Last(flash'[area']).map = map'
    BY <1>1, <1>4, <1>6, <2>2
  <2>5. plr' # NoPlr /\ Mine' = map' /\ (InIndex' => pc' # "commit")
    BY <1>1, <1>4 DEF InIndex
  <2> QED
    BY <1>15, <2>1, <2>3, <2>4, <2>5 DEF AreaInv
<1>20. LoadInv'
  BY <1>1, <1>2, <1>3, <1>4, <1>10, <1>12, <1>15, <1>17 DEF LoadInv, UpToDate
<1>21. Records' = Records
  BY <1>1, <1>2, RecordsSame
<1>22. IndexInv'
  <2>1. /\ index_block = Home \/ (~IsIndex(flash[index_block]) /\ NotNeeded(index_block))
        /\ index_block = Home \/ \A r \in Records : r.new = index_block
    BY <1>3 DEF Invariants, IndexInv
  <2>2. index_block = Home \/ NotNeeded(index_block)'
    BY <1>1, <1>10, <1>12, <1>15, <1>16, <1>17, <2>1 DEF NotNeeded, UpToDate
  <2> QED
    BY <1>1, <1>3, <1>5, <1>10, <1>21, <2>1, <2>2 DEF IndexInv
<1>23. RecordInv'
  BY <1>1, <1>8, <1>12, <1>21, RecordStep DEF Invariants
<1> QED
  BY <1>17, <1>18, <1>19, <1>20, <1>22, <1>23 DEF Invariants

\* The area table that index_update relies on.
LEMMA IndexArea ==
  ASSUME Types, Invariants, pc = "index"
  PROVE  /\ IsArea(flash[area]) /\ Apply(Last(flash[area]).map, plr) = Mine
         /\ Busy /\ InIndex /\ ~Announced /\ Unused = free
         /\ ~Loading => plr # NoPlr /\ caller \in {"first", "last"}
         /\ caller = "last" => Last(flash[area]).map = map /\ Mine = map
         /\ OneRoleEach(Mine, area, index_block, free)
<1>1. Busy /\ InIndex /\ ~Announced /\ Unused = free
  BY DEF Busy, InIndex, Announced, Unused
<1>2. ~Loading => plr # NoPlr /\ caller \in {"first", "last"}
  BY <1>1 DEF Invariants, AreaInv, Loading, Types
<1>3. caller = "last" => Last(flash[area]).map = map /\ Mine = map
  BY <1>1 DEF Invariants, AreaInv
<1>4. OneRoleEach(Mine, area, index_block, free)
  BY <1>1 DEF Invariants, MineInv
<1>5. IsArea(flash[area]) /\ Apply(Last(flash[area]).map, plr) = Mine
  <2>1. CASE Loading
    <3>1. Intact /\ Saved.area = area
      BY <2>1 DEF Invariants, LoadInv
    <3> QED
      BY <2>1, <3>1 DEF Invariants, SavedInv, Mine
  <2>2. CASE caller = "first"
    BY <1>1, <2>2 DEF Invariants, AreaInv
  <2>3. CASE caller = "last"
    <3>1. ~Loading
      BY <2>3 DEF Loading
    <3>2. Mine = Apply(map, plr)
      BY <3>1 DEF Mine
    <3> QED
      BY <1>1, <2>3, <3>2 DEF Invariants, AreaInv
  <2> QED
    BY <1>2, <2>1, <2>2, <2>3
<1> QED
  BY <1>1, <1>2, <1>3, <1>4, <1>5

\* index_update fails to program the page.
LEMMA IndexFailStep ==
  ASSUME Types, AnchorsInv, Invariants, pc = "index", saved' = saved,
         flash \in [PhyBlock -> Pages],
         \A c \in PhyBlock : c # index_block => flash'[c] = flash[c],
         SameTable(flash'[index_block], flash[index_block]),
         \/ caller \in {"first", "last"} /\ pc' = "commit"
         \/ caller = "new" /\ pc' = "readarea"
         \/ caller = "old" /\ pc' = "failed",
         UNCHANGED <<anchors, area, free, plr, map, area_offset, anchor_table, index_block,
                     caller, mounting, area_reclaim, bad, doing, data>>
  PROVE  Invariants'
<1>1. /\ IsArea(flash[area]) /\ Apply(Last(flash[area]).map, plr) = Mine
      /\ Busy /\ InIndex /\ ~Announced /\ Unused = free
      /\ ~Loading => plr # NoPlr
  BY IndexArea
<1>2. /\ ~Announced' /\ ~InIndex' /\ Unused' = free /\ (Loading' => Loading)
      /\ (~Loading' => ~Loading \/ ~Busy')
  BY DEF Announced, InIndex, Unused, Loading, Busy
<1>3. /\ area \in PhyBlock /\ index_block \in PhyBlock /\ area # index_block
      /\ Mine \in Mapping /\ \A l \in LogBlock : Mine[l] \in PhyBlock /\ Mine[l] # index_block
  BY <1>1, MineTypes
<1>4. flash'[area] = flash[area]
  BY <1>3
<1>5. /\ IsIndex(flash'[index_block]) <=> IsIndex(flash[index_block])
      /\ IsIndex(flash[index_block]) => Last(flash'[index_block]) = Last(flash[index_block])
  BY SameKinds DEF IsIndex
<1>6. NoNewIndex
  BY <1>5 DEF NoNewIndex
<1>7. /\ Home \in PhyBlock /\ Saved.area \in PhyBlock
      /\ Home' = Home /\ Saved' = Saved
  BY SavedTypes DEF Home, Saved
<1>8. /\ Intact' <=> Intact
      /\ Intact => Last(flash'[Home]) = Last(flash[Home])
  BY <1>5, <1>7 DEF Intact
<1>9. index_block = Home \/ (~IsIndex(flash[index_block]) /\ NotNeeded(index_block))
  BY <1>1 DEF Invariants, IndexInv
<1>10. Intact => /\ OneRoleEach(SavedMap, Saved.area, Home, Saved.free)
                 /\ IsArea(flash[Saved.area])
                 /\ \A l \in LogBlock : SavedMap[l] \in PhyBlock /\ ~IsIndex(flash[SavedMap[l]])
                 /\ \A l \in Others : flash[SavedMap[l]] = data[l]
                 /\ doing # NoPlr => \A l \in Others : SavedMap[l] # doing.phy
  BY SavedTypes DEF Invariants, SavedInv
<1>11. Others \subseteq LogBlock /\ Others' = Others
  BY DEF Others
<1>12. Intact => /\ Saved.area # index_block
                 /\ \A l \in Others : SavedMap[l] # index_block
  <2>1. CASE index_block = Home
    BY <1>10, <1>11, <2>1 DEF OneRoleEach
  <2>2. CASE NotNeeded(index_block)
    BY <2>2 DEF NotNeeded
  <2> QED
    BY <1>9, <2>1, <2>2
<1>13. SavedInv' /\ (Intact' => SavedMap' = SavedMap)
  <2>1. \A l \in LogBlock : Intact' => ~IsIndex(flash'[SavedMap[l]])
    BY <1>6, <1>8, <1>10 DEF NoNewIndex
  <2>2. Intact => flash'[Saved.area] = flash[Saved.area]
    BY <1>7, <1>12
  <2>3. Intact => \A l \in Others' : flash'[SavedMap[l]] = data'[l]
    BY <1>10, <1>11, <1>12
  <2>4. Intact' => /\ Intact /\ Last(flash'[Home]) = Last(flash[Home])
                   /\ IsArea(flash'[Saved.area])
                   /\ Apply(Last(flash'[Saved.area]).map, Saved.plr) = SavedMap
                   /\ \A l \in Others' : flash'[SavedMap[l]] = data'[l]
                   /\ doing' # NoPlr => \A l \in Others' : SavedMap[l] # doing'.phy
    BY <1>8, <1>10, <1>11, <2>2, <2>3 DEF SavedMap
  <2> QED
    BY <2>1, <2>4, SavedStep DEF Invariants
<1>14. Records' = Records
  BY RecordsSame
<1>15. RecordInv'
  BY <1>6, <1>8, <1>14, RecordStep DEF Invariants
<1>16. CASE ~Busy'
  <2>1. pc' = "failed" /\ ~Loading'
    BY <1>16 DEF Busy, Loading
  <2> QED
    BY <1>13, <1>15, <1>16, <2>1 DEF Invariants, MineInv, AreaInv, LoadInv, IndexInv, InIndex
<1>17. CASE Busy'
  <2>1. (Loading' <=> Loading) /\ Mine' = Mine
    BY <1>2, <1>4, <1>17 DEF Mine
  <2>2. MineInv'
    <3>1. OneRoleEach(Mine, area, index_block, Unused)'
      BY <1>1, <1>2, <2>1, IndexArea DEF OneRoleEach
    <3>2. \A l \in LogBlock : flash'[Mine[l]] = flash[Mine[l]]
      BY <1>3
    <3> QED
      BY <1>1, <1>2, <2>1, <3>1, <3>2, MineStep
  <2>3. AreaInv'
    <3>1. pc' # "idle" /\ pc' # "area" /\ (pc' = "commit" => ~Loading)
      BY DEF Loading
    <3> QED
      BY <1>1, <1>2, <1>4, <2>1, <3>1 DEF AreaInv
  <2>4. LoadInv'
    <3>1. Loading => ~mounting
      BY DEF Invariants, LoadInv
    <3>2. pc' = "readarea" => Loading
      BY DEF Loading
    <3> QED
      BY <1>2, <1>7, <1>8, <2>1, <3>1, <3>2 DEF Invariants, LoadInv
  <2>5. IndexInv'
    <3>1. index_block = Home \/ \A r \in Records : r.new = index_block
      BY <1>1 DEF Invariants, IndexInv
    <3>2. NotNeeded(index_block) => NotNeeded(index_block)'
      BY <1>7, <1>8, <1>11, <1>13 DEF NotNeeded
    <3> QED
      BY <1>2, <1>5, <1>7, <1>9, <1>14, <3>1, <3>2 DEF IndexInv
  <2> QED
    BY <1>13, <1>15, <2>2, <2>3, <2>4, <2>5 DEF Invariants
<1> QED
  BY <1>16, <1>17

\* index_update programs the page: from now on this is the last index table.
LEMMA IndexWriteStep ==
  ASSUME Types, AnchorsInv, Invariants, IndexWrite
  PROVE  Invariants'
<1>1. PICK ok \in BOOLEAN :
        /\ \A c \in PhyBlock : c # index_block => flash'[c] = flash[c]
        /\ ok => Last(flash'[index_block]) = ThisIndex /\ IsIndex(flash'[index_block])
        /\ ~ok => SameTable(flash'[index_block], flash[index_block])
        /\ saved' = IF ok THEN [blk |-> index_block, page |-> ThisIndex] ELSE saved
        /\ \/ ~ok /\ caller \in {"first", "last"} /\ Retry
           \/ ok /\ caller = "last" /\ Return(map, mounting)
           \/ ok /\ caller = "first" /\ pc' = "area" /\ UNCHANGED <<doing, data>>
           \/ ok /\ caller \in {"new", "old"} /\ pc' = "readarea" /\ UNCHANGED <<doing, data>>
           \/ ~ok /\ caller = "new" /\ pc' = "readarea" /\ UNCHANGED <<doing, data>>
           \/ ~ok /\ caller = "old" /\ pc' = "failed" /\ UNCHANGED <<doing, data>>
        /\ pc = "index"
        /\ UNCHANGED <<anchors, area, area_bad, free, worn, plr, map, area_offset,
                       anchor_table, index_block, caller, mounting, area_reclaim, bad, early>>
  BY IndexWriteEffect
<1>2. CASE ~ok
  <2>1. \/ caller \in {"first", "last"} /\ pc' = "commit"
        \/ caller = "new" /\ pc' = "readarea"
        \/ caller = "old" /\ pc' = "failed"
    BY <1>1, <1>2 DEF Retry
  <2>2. UNCHANGED <<doing, data>>
    BY <1>1, <1>2 DEF Retry
  <2> QED
    BY <1>1, <1>2, <2>1, <2>2, IndexFailStep DEF Types
<1>3. CASE ok
  <2>1. /\ IsArea(flash[area]) /\ Apply(Last(flash[area]).map, plr) = Mine
        /\ Busy /\ ~Announced /\ Unused = free
        /\ ~Loading => plr # NoPlr /\ caller \in {"first", "last"}
        /\ caller = "last" => Last(flash[area]).map = map /\ Mine = map
        /\ OneRoleEach(Mine, area, index_block, free)
    BY <1>1, IndexArea
  <2>2. \/ caller = "last" /\ pc' = "idle" /\ Return(map, mounting)
        \/ caller = "first" /\ pc' = "area" /\ UNCHANGED <<doing, data>>
        \/ caller \in {"new", "old"} /\ pc' = "readarea" /\ UNCHANGED <<doing, data>>
    BY <1>1, <1>3 DEF Return
  <2>3. /\ Busy' /\ ~Announced' /\ ~InIndex' /\ Unused' = free /\ (Loading' <=> Loading)
    BY <1>1, <2>2 DEF Busy, Announced, InIndex, Unused, Loading
  <2>4. /\ area \in PhyBlock /\ index_block \in PhyBlock /\ area # index_block
        /\ \A l \in LogBlock : Mine[l] \in PhyBlock /\ Mine[l] # index_block
    BY <2>1, MineTypes
  <2>5. flash'[area] = flash[area]
    BY <1>1, <2>4
  <2>6. Mine' = Mine
    BY <1>1, <2>3, <2>5 DEF Mine
  <2>7. /\ Home' = index_block /\ Saved' = ThisIndex
        /\ ThisIndex.area = area /\ ThisIndex.free = free /\ ThisIndex.plr = plr
    <3>1. Home' = index_block /\ Saved' = ThisIndex
      BY <1>1, <1>3 DEF Home, Saved
    <3> QED
      BY <3>1 DEF ThisIndex, IndexPage
  <2>8. Intact' /\ Last(flash'[Home']) = Saved'
    BY <1>1, <1>3, <2>7 DEF Intact
  <2>9. SavedMap' = Mine
    BY <2>1, <2>5, <2>7 DEF SavedMap
  <2>10. \A l \in LogBlock : flash'[Mine[l]] = flash[Mine[l]]
    BY <1>1, <2>4
  <2>11. pc' = "idle" => /\ doing' = NoPlr
                         /\ \A l \in LogBlock : data'[l] = flash[Mine[l]]
    <3>1. SUFFICES ASSUME pc' = "idle"
                   PROVE  doing' = NoPlr /\ \A l \in LogBlock : data'[l] = flash[Mine[l]]
      OBVIOUS
    <3>2. caller = "last" /\ Return(Mine, mounting)
      BY <2>1, <2>2, <3>1
    <3>3. mounting \in BOOLEAN /\ ~Loading
      BY <3>2 DEF Types, Loading
    <3> QED
      BY <2>1, <3>2, <3>3, ReturnData
  <2>12. pc' # "idle" => UNCHANGED <<doing, data>>
    BY <2>2
  <2>13. MineInv'
    <3>1. OneRoleEach(Mine, area, index_block, Unused)'
      BY <1>1, <2>1, <2>3, <2>6 DEF OneRoleEach
    <3>2. \/ UNCHANGED <<doing, data, plr>>
          \/ doing' = NoPlr /\ \A l \in LogBlock : data'[l] = flash[Mine[l]]
      BY <1>1, <2>11, <2>12
    <3> QED
      BY <1>1, <2>1, <2>3, <2>6, <2>10, <3>1, <3>2, MineStep
  <2>14. SavedInv'
    <3>1. OneRoleEach(SavedMap, Saved.area, Home, Saved.free)'
      BY <1>1, <2>1, <2>7, <2>9 DEF OneRoleEach
    <3>2. /\ \A l \in Others' : flash'[Mine[l]] = data'[l]
          /\ doing' # NoPlr => \A l \in Others' : Mine[l] # doing'.phy
          /\ \A l \in LogBlock : ~IsIndex(flash'[Mine[l]])
      BY <2>3, <2>6, <2>13 DEF MineInv
    <3> QED
      BY <2>1, <2>5, <2>7, <2>8, <2>9, <3>1, <3>2 DEF SavedInv
  <2>15. UpToDate'
    BY <1>1, <2>6, <2>7, <2>8, <2>9 DEF UpToDate
  <2>16. AreaInv'
    BY <1>1, <2>1, <2>2, <2>3, <2>5, <2>6, <2>11, <2>15 DEF AreaInv, Loading
  <2>17. LoadInv'
    <3>1. Loading => ~mounting
      BY DEF Invariants, LoadInv
    <3>2. pc' = "idle" => SavedMap' = map'
      BY <1>1, <2>1, <2>2, <2>9
    <3>3. pc' = "readarea" => caller' \in {"new", "old"} /\ Loading
      BY <1>1, <2>2 DEF Loading
    <3> QED
      BY <1>1, <2>2, <2>3, <2>7, <2>8, <3>1, <3>2, <3>3 DEF LoadInv
  <2>18. IndexInv'
    BY <1>1, <2>3, <2>7 DEF IndexInv
  <2>19. Records' = Records
    BY <1>1, <2>2, RecordsSame
  <2>20. RecordInv'
    <3>1. SUFFICES ASSUME NEW r \in Records, r.new # index_block
                   PROVE  /\ ~IsIndex(flash'[r.new])
                          /\ r.old \in {index_block, NoBlock} \/ ~IsIndex(flash'[r.old])
      BY <2>7, <2>8, <2>19 DEF RecordInv
    <3>2. index_block = Home
      BY <2>1, <3>1 DEF Invariants, IndexInv
    <3>3. /\ ~IsIndex(flash[r.new])
          /\ r.old \in {Home, NoBlock} \/ ~IsIndex(flash[r.old])
      BY <3>1, <3>2 DEF Invariants, RecordInv
    <3>4. r.new \in PhyBlock /\ r.old \in PhyBlock \cup {NoBlock}
      BY RecordTypes DEF AnchorPage
    <3> QED
      BY <1>1, <3>1, <3>2, <3>3, <3>4
  <2> QED
    BY <2>13, <2>14, <2>16, <2>17, <2>18, <2>20 DEF Invariants
<1> QED
  BY <1>2, <1>3

LEMMA StutterStep ==
  ASSUME Types, AnchorsInv, Invariants, UNCHANGED vars
  PROVE  Invariants'
<1>1. UNCHANGED <<flash, anchors, area, free, plr, map, area_offset, anchor_table, index_block,
                  index_next_page, pc, caller, mounting, area_reclaim, data, doing, bad, saved>>
  BY DEF vars, ram, index_table, area_table, anchor, index, control, history
<1>2. Records' = Records /\ Mine' = Mine /\ Unused' = Unused
      /\ Home' = Home /\ Saved' = Saved /\ SavedMap' = SavedMap /\ (Intact' <=> Intact)
  BY <1>1 DEF Records, Live, Mine, Loading, Unused, Announced, Home, Saved, SavedMap, Intact
<1>3. (Busy' <=> Busy) /\ (Announced' <=> Announced) /\ (Loading' <=> Loading)
      /\ (InIndex' <=> InIndex) /\ Others' = Others /\ \A b : NotNeeded(b)' <=> NotNeeded(b)
  BY <1>1, <1>2 DEF Busy, Announced, Loading, InIndex, Others, NotNeeded
<1>4. MineInv'
  BY <1>1, <1>2, <1>3 DEF Invariants, MineInv, OneRoleEach
<1>5. AreaInv'
  BY <1>1, <1>2, <1>3 DEF Invariants, AreaInv, AREA_IsFull, UpToDate, Fresh
<1>6. LoadInv' /\ IndexInv'
  BY <1>1, <1>2, <1>3 DEF Invariants, LoadInv, IndexInv, IndexFull
<1> QED
  BY <1>1, <1>2, <1>4, <1>5, <1>6, QuietStep

LEMMA FormatInvariants ==
  ASSUME Init
  PROVE  AnchorsInv /\ Invariants
<1>1. /\ map = Formatted /\ free = Free0 /\ worn = Worn0 /\ area = Area0 /\ plr = NoPlr
      /\ mounting = FALSE /\ index_block = Index0 /\ bad = {} /\ doing = NoPlr
      /\ anchor_block = 1
      /\ pc = "idle" /\ caller = "none"
      /\ anchor_table = [new |-> Index0, old |-> NoBlock, old_bad |-> FALSE, prev |-> 0]
      /\ anchors = [a \in Anchor |-> IF a = 1 THEN <<anchor_table>> ELSE <<>>]
      /\ data = [l \in LogBlock |-> <<User(l, 0)>>]
      /\ saved = [blk |-> Index0, page |-> IndexPage(Area0, FALSE, Free0, Worn0, NoPlr)]
  BY DEF Init
<1>2. Types
  BY FormatTypes
<1>3. /\ flash[Area0] = <<AreaPage(Formatted)>>
      /\ flash[Index0] = <<IndexPage(Area0, FALSE, Free0, Worn0, NoPlr)>>
      /\ \A l \in LogBlock : flash[Formatted[l]] = <<User(l, 0)>>
  BY FormatFlash
<1>4. /\ Busy /\ ~Announced /\ ~Loading /\ ~InIndex /\ Unused = Free0 /\ Others = LogBlock
  BY <1>1, Constants DEF Busy, Announced, Loading, InIndex, Unused, Others
<1>5. /\ Home = Index0 /\ Saved = IndexPage(Area0, FALSE, Free0, Worn0, NoPlr)
      /\ Saved.area = Area0 /\ Saved.free = Free0 /\ Saved.plr = NoPlr
      /\ Saved \in Table /\ Saved.kind = "index"
  <2>1. Home = Index0 /\ Saved = IndexPage(Area0, FALSE, Free0, Worn0, NoPlr)
    BY <1>1 DEF Home, Saved
  <2>2. Saved \in IndexCell
    BY <1>2, SavedTypes
  <2> QED
    BY <2>1, <2>2, Kinds DEF IndexPage
<1>6. Intact /\ Last(flash[Home]) = Saved
  BY <1>3, <1>5, OnePage DEF Intact
<1>7. IsArea(flash[Area0]) /\ Last(flash[Area0]).map = Formatted
  <2>1. AreaPage(Formatted) \in Table /\ AreaPage(Formatted).kind = "area"
        /\ AreaPage(Formatted).map = Formatted
    BY Constants, Kinds
  <2> QED
    BY <1>3, <2>1, OnePage
<1>8. \A l \in LogBlock : ~IsIndex(flash[Formatted[l]]) /\ flash[Formatted[l]] = data[l]
  <2>1. \A l \in LogBlock : User(l, 0) \in Table /\ User(l, 0).kind = "user"
    BY Kinds
  <2> QED
    BY <1>1, <1>3, <2>1, OnePage
<1>9. SavedMap = Formatted /\ Mine = Formatted
  <2>1. Mine = Apply(Formatted, NoPlr)
    BY <1>1, <1>4 DEF Mine
  <2> QED
    BY <1>5, <1>7, <2>1 DEF SavedMap, Apply
<1>10. OneRoleEach(Formatted, Area0, Index0, Free0)
  BY <1>1, FormatAssumption DEF OneRoleEach, Free0
<1>11. 1 \in Anchor /\ Live = {1} /\ Last(anchors[1]) = anchor_table
  <2>1. 1 \in Anchor
    BY Constants DEF Anchor
  <2>2. anchors[1] = <<anchor_table>> /\ <<anchor_table>> # <<>>
    BY <1>1, <2>1
  <2>3. \A a \in Anchor : a # 1 => anchors[a] = <<>>
    BY <1>1
  <2>4. anchor_table \in AnchorPage
    BY <1>1, <1>2 DEF Types
  <2>5. <<anchor_table>> = Append(<<>>, anchor_table) /\ <<>> \in Seq(AnchorPage)
    OBVIOUS
  <2>6. Last(<<anchor_table>>) = anchor_table
    BY <2>4, <2>5, AnchorPages
  <2> QED
    BY <2>1, <2>2, <2>3, <2>6 DEF Live
<1>12. Records = {anchor_table} /\ anchor_table.new = Index0
  BY <1>1, <1>11 DEF Records
<1>13. AnchorsInv
  BY <1>1, <1>11 DEF AnchorsInv
<1>14. SavedInv
  BY <1>1, <1>4, <1>5, <1>6, <1>7, <1>8, <1>9, <1>10 DEF SavedInv
<1>15. MineInv
  BY <1>1, <1>4, <1>8, <1>9, <1>10 DEF MineInv
<1>16. AreaInv
  BY <1>1, <1>4, <1>7, <1>9 DEF AreaInv
<1>17. LoadInv
  BY <1>1, <1>4, <1>5, <1>9 DEF LoadInv
<1>18. IndexInv /\ RecordInv
  BY <1>1, <1>4, <1>5, <1>6, <1>12 DEF IndexInv, RecordInv
<1> QED
  BY <1>13, <1>14, <1>15, <1>16, <1>17, <1>18 DEF Invariants

LEMMA EarlyStays ==
  ASSUME [Next]_vars
  PROVE  early => early'
<1>1. ASSUME NEW b, EarlyErase(b)
      PROVE  early => early'
  BY <1>1 DEF EarlyErase
<1>2. CASE \E l \in LogBlock : UBI_Erase(l) \/ ubi_reclaim_badblock(l) \/ UserWrite(l)
  BY <1>2 DEF UBI_Erase, ubi_reclaim_badblock, UserWrite, history
<1>3. CASE CommitToNewBlock \/ IndexReclaim
  BY <1>1, <1>3 DEF CommitToNewBlock, IndexReclaim
<1>4. CASE PowerLoss \/ UNCHANGED vars
  BY <1>4 DEF PowerLoss, vars, history
<1>5. CASE \/ CommitToNextPage \/ CommitNoFreeBlock \/ AREA_Update \/ IndexNoFreeBlock
           \/ AnchorReclaim \/ AnchorWrite
  BY <1>5 DEF CommitToNextPage, CommitNoFreeBlock, AREA_Update, IndexNoFreeBlock, NoFreeBlock,
       AnchorReclaim, AnchorWrite, history
<1>6. CASE AnchorDone \/ IndexWrite \/ ANCHOR_Init \/ INDEX_Init \/ AREA_Init
  BY <1>6 DEF AnchorDone, IndexWrite, ANCHOR_Init, INDEX_Init, AREA_Init, history
<1> QED
  BY <1>2, <1>3, <1>4, <1>5, <1>6 DEF Next, Step

LEMMA InvariantsStep ==
  ASSUME Types, AnchorsInv, AnchorsInv', Invariants, [Next]_vars, ~early'
  PROVE  Invariants'
<1>1. CASE \E l \in LogBlock : UBI_Erase(l) \/ ubi_reclaim_badblock(l) \/ UserWrite(l)
  BY <1>1, EraseStep, UserWriteStep
<1>2. CASE PowerLoss
  BY <1>2, PowerLossStep
<1>3. CASE Step
  BY <1>3, CommitToNextPageStep, CommitToNewBlockStep, NoFreeBlockStep, AreaUpdateStep,
     IndexReclaimStep, AnchorReclaimStep, AnchorWriteStep, AnchorDoneStep, IndexWriteStep,
     AnchorInitStep, IndexInitStep, AreaInitStep DEF Step
<1>4. CASE UNCHANGED vars
  BY <1>4, StutterStep
<1> QED
  BY <1>1, <1>2, <1>3, <1>4 DEF Next

(***************************************************************************)
(* Theorems.                                                               *)
(***************************************************************************)

\* The invariant, of every behaviour of the tables.
THEOREM Inductive == Spec => []IInv
<1>1. Init => IInv
  BY FormatTypes, FormatInvariants DEF IInv
<1>2. IInv /\ [Next]_vars => IInv'
  BY TypesStep, AnchorsStep, EarlyStays, InvariantsStep DEF IInv
<1> QED
  BY <1>1, <1>2, PTL DEF Spec

\* A mount finds what the caller left in every logical block: UBI_Init reads
\* the last index table and completes the update it announces.
THEOREM MountFindsData == Spec => []MappingSurvives
<1>1. IInv => MappingSurvives
  <2>1. SUFFICES ASSUME IInv, pc = "idle", ~early
                 PROVE  \A l \in LogBlock : flash[map[l]] = data[l]
    BY DEF MappingSurvives
  <2>2. Invariants /\ Busy /\ Mine = map /\ doing = NoPlr
    BY <2>1 DEF IInv, Invariants, AreaInv, Busy
  <2> QED
    BY <2>2, Constants DEF Invariants, MineInv, Others
<1> QED
  BY <1>1, Inductive, PTL

\* No block has two roles, and none is lost but the bad ones, whenever the
\* free table has been cut short or read back.
THEOREM OneRole == Spec => []BlocksAccounted
<1>1. IInv => BlocksAccounted
  <2>1. SUFFICES ASSUME IInv, pc = "idle", ~early
                 PROVE  OneRoleEach(map, area, index_block, free)
    BY DEF BlocksAccounted
  <2>2. Invariants /\ Busy /\ ~Announced /\ Mine = map
    BY <2>1 DEF IInv, Invariants, AreaInv, Busy, Announced
  <2> QED
    BY <2>2 DEF Invariants, MineInv, Unused
<1> QED
  BY <1>1, Inductive, PTL

(***************************************************************************)
(* Without failed programs or want of free blocks a mount succeeds.        *)
(***************************************************************************)

\* The counters of what goes wrong only grow.
LEMMA LuckStays ==
  ASSUME Types, [Next]_vars
  PROVE  Lucky' => Lucky
<1>1. ASSUME NEW b, NEW page, NEW ok, Counted(b, page, ok)
      PROVE  fails' = 0 => fails = 0
  <2>1. fails' = fails \/ fails' = fails + 1
    BY <1>1 DEF Counted
  <2> QED
    BY <2>1 DEF Types
<1>2. early => early'
  BY EarlyStays
<1>3. (fails' = 0 => fails = 0) /\ (exhausted => exhausted')
  <2>1. CASE \E l \in LogBlock : UBI_Erase(l) \/ ubi_reclaim_badblock(l) \/ UserWrite(l)
    BY <2>1 DEF UBI_Erase, ubi_reclaim_badblock, UserWrite, bounds, history
  <2>2. CASE AREA_Update \/ IndexWrite
    BY <1>1, <2>2 DEF AREA_Update, IndexWrite
  <2>3. CASE PowerLoss \/ UNCHANGED vars
    BY <2>3 DEF PowerLoss, vars, bounds, history
  <2>4. CASE CommitNoFreeBlock \/ IndexNoFreeBlock
    BY <2>4 DEF CommitNoFreeBlock, IndexNoFreeBlock, NoFreeBlock, bounds
  <2>5. CASE CommitToNextPage
    BY <2>5 DEF CommitToNextPage, bounds, history
  <2>6. CASE CommitToNewBlock
    BY <2>6 DEF CommitToNewBlock, bounds
  <2>7. CASE IndexReclaim
    <3>1. UNCHANGED <<bounds, exhausted>>
      BY <2>7, Zenon DEF IndexReclaim
    <3> QED
      BY <3>1 DEF bounds
  <2>8. CASE AnchorReclaim
    <3>1. UNCHANGED <<bounds, history>>
      BY <2>8, Zenon DEF AnchorReclaim
    <3> QED
      BY <3>1 DEF bounds, history
  <2>9. CASE AnchorWrite
    BY <2>9, AnchorWriteEffect
  <2>10. CASE AnchorDone
    BY <2>10, AnchorDoneEffect
  <2>11. CASE ANCHOR_Init
    BY <2>11 DEF ANCHOR_Init, bounds, history
  <2>12. CASE INDEX_Init
    BY <2>12, IndexInitEffect
  <2>13. CASE AREA_Init
    BY <2>13, AreaInitEffect
  <2> QED
    BY <2>1, <2>2, <2>3, <2>4, <2>5, <2>6, <2>7, <2>8, <2>9, <2>10, <2>11, <2>12, <2>13
    DEF Next, Step
<1> QED
  BY <1>2, <1>3 DEF Lucky

\* A step that leaves the last index table alone, and the announced blocks empty.
LEMMA HomeStep ==
  ASSUME Types, HomeInv, saved' = saved, flash'[Home] = flash[Home], Records' \subseteq Records,
         AtHome \/ \A c \in PhyBlock : flash[c] = <<>> => flash'[c] = <<>>
  PROVE  HomeInv' /\ Home' = Home /\ (AtHome => AtHome')
<1>1. Home' = Home /\ Home \in PhyBlock
  BY SavedTypes DEF Home
<1>2. AtHome => AtHome'
  BY <1>1 DEF AtHome
<1>3. \A r \in Records : r.new \in PhyBlock
  BY RecordTypes DEF AnchorPage
<1>4. ASSUME NEW r \in Records'
      PROVE  r.new = Home \/ /\ flash'[r.new] = <<>> /\ r.old = Home
                             /\ Len(flash'[Home]) = PPB
  BY <1>3 DEF HomeInv, AtHome
<1> QED
  BY <1>1, <1>2, <1>4 DEF HomeInv, Intact

\* Calls before and after they write the index table.
LEMMA LuckyCall ==
  ASSUME Types, AnchorsInv, LuckyInv, Busy, saved' = saved, anchors' = anchors,
         pc \in {"idle", "commit", "area", "readarea"},
         pc' \in {"idle", "commit", "area", "index"},
         UNCHANGED <<index_block, index_next_page>>, flash'[index_block] = flash[index_block]
  PROVE  LuckyInv'
<1>1. HomeInv /\ index_block = Home /\ AtHome /\ index_next_page = Len(flash[index_block])
  BY DEF LuckyInv
<1>2. Records' = Records
  BY RecordsSame
<1>3. HomeInv' /\ Home' = Home /\ AtHome'
  BY <1>1, <1>2, HomeStep
<1> QED
  BY <1>1, <1>3 DEF LuckyInv, Announced, AtHome

\* The blocks that calls write are not that of the index table.
LEMMA LuckyErase ==
  ASSUME Types, AnchorsInv, Invariants, LuckyInv, NEW l \in LogBlock,
         UBI_Erase(l) \/ ubi_reclaim_badblock(l) \/ UserWrite(l)
  PROVE  LuckyInv'
<1>1. /\ pc = "idle" /\ pc' \in {"idle", "commit"}
      /\ UNCHANGED <<anchors, index_block, index_next_page, saved>>
  BY DEF UBI_Erase, ubi_reclaim_badblock, UserWrite, index, ram, history
<1>2. Busy /\ Mine = map
  BY <1>1 DEF Busy, Invariants, AreaInv
<1>3. \E b \in PhyBlock : b # index_block /\ \A c \in PhyBlock : c # b => flash'[c] = flash[c]
  <2>1. CASE UBI_Erase(l) \/ ubi_reclaim_badblock(l)
    <3>1. PICK new \in First : \/ flash' = Erased(new)
                               \/ flash' = [flash EXCEPT ![new] = flash[map[l]]]
      BY <2>1 DEF UBI_Erase, ubi_reclaim_badblock
    <3>2. new \in PhyBlock /\ new # index_block
      BY <1>2, MineTypes, FirstFree
    <3> QED
      BY <3>1, <3>2 DEF Erased, Types
  <2>2. CASE UserWrite(l)
    <3>1. flash' = [flash EXCEPT ![map[l]] = Append(@, User(l, ops))]
      BY <2>2 DEF UserWrite
    <3>2. map[l] \in PhyBlock /\ map[l] # index_block
      BY <1>2, MineTypes
    <3> QED
      BY <3>1, <3>2 DEF Types
  <2> QED
    BY <2>1, <2>2
<1>4. flash'[index_block] = flash[index_block]
  BY <1>2, <1>3, MineTypes
<1> QED
  BY <1>1, <1>2, <1>4, LuckyCall

LEMMA LuckyCommit ==
  ASSUME Types, AnchorsInv, Invariants, LuckyInv,
         CommitToNextPage \/ CommitToNewBlock \/ AREA_Update \/ AREA_Init
  PROVE  LuckyInv'
<1>1. CASE CommitToNextPage
  <2>1. /\ pc = "commit" /\ pc' = "index"
        /\ UNCHANGED <<flash, anchors, index_block, index_next_page, saved>>
    BY <1>1 DEF CommitToNextPage, ram, index, history
  <2> QED
    BY <2>1, LuckyCall DEF Busy
<1>2. CASE CommitToNewBlock
  <2>1. PICK new \in First : flash' = Erased(new)
    BY <1>2 DEF CommitToNewBlock
  <2>2. /\ pc = "commit" /\ pc' = "area"
        /\ UNCHANGED <<anchors, index_block, index_next_page, saved>>
    BY <1>2 DEF CommitToNewBlock, index
  <2>3. Busy
    BY <2>2 DEF Busy
  <2>4. new \in PhyBlock /\ new # index_block /\ index_block \in PhyBlock
    BY <2>3, MineTypes, FirstFree
  <2>5. flash'[index_block] = flash[index_block]
    BY <2>1, <2>4, EraseBlock DEF Types
  <2> QED
    BY <2>2, <2>3, <2>5, LuckyCall
<1>3. CASE AREA_Update
  <2>1. /\ pc = "area" /\ pc' \in {"commit", "index", "idle"}
        /\ \A c \in PhyBlock : c # area => flash'[c] = flash[c]
        /\ UNCHANGED <<anchors, index_block, index_next_page, saved>>
    BY <1>3, AreaUpdateEffect DEF Retry, Return
  <2>2. Busy
    BY <2>1 DEF Busy
  <2>3. index_block \in PhyBlock /\ index_block # area
    BY <2>2, MineTypes
  <2> QED
    BY <2>1, <2>2, <2>3, LuckyCall
<1>4. CASE AREA_Init
  <2>1. /\ pc = "readarea"
        /\ \/ pc' = "confused" /\ ~IsArea(flash[area])
           \/ pc' \in {"commit", "idle"}
        /\ UNCHANGED <<flash, anchors, index_block, index_next_page, saved>>
    BY <1>4, AreaInitEffect DEF Return
  <2>2. Busy /\ Loading
    BY <2>1 DEF Busy, Loading, Invariants, LoadInv
  <2>3. IsArea(flash[area])
    <3>1. Intact /\ Saved.area = area
      BY <2>2 DEF Invariants, LoadInv
    <3> QED
      BY <3>1 DEF Invariants, SavedInv
  <2> QED
    BY <2>1, <2>2, <2>3, LuckyCall
<1> QED
  BY <1>1, <1>2, <1>3, <1>4

\* A full index table: its block is left for an empty one.
LEMMA LuckyReclaim ==
  ASSUME Types, AnchorsInv, AnchorsInv', Invariants, LuckyInv,
         IndexReclaim \/ AnchorReclaim \/ AnchorWrite \/ AnchorDone
  PROVE  LuckyInv'
<1>1. HomeInv /\ (Announced => index_block = Home /\ IndexFull)
      /\ (Busy => index_next_page = Len(flash[index_block]))
  BY DEF LuckyInv
<1>2. CASE IndexReclaim
  <2>1. PICK new \in free :
          /\ new \in PhyBlock /\ flash'[new] = <<>>
          /\ \A c \in PhyBlock : c # new => flash'[c] = flash[c]
          /\ pc = "index" /\ IndexFull /\ pc' = "anchor"
          /\ UNCHANGED <<anchors, index_block, index_next_page, saved>>
    BY <1>2, IndexReclaimEffect
  <2>2. Busy
    BY <2>1 DEF Busy
  <2>3. index_block \in PhyBlock /\ new # index_block /\ index_block = Home
    BY <2>1, <2>2, MineTypes DEF LuckyInv
  <2>4. Records' = Records
    BY <2>1, RecordsSame
  <2>5. \A c \in PhyBlock : flash[c] = <<>> => flash'[c] = <<>>
    BY <2>1
  <2>6. HomeInv' /\ Home' = Home
    BY <1>1, <2>1, <2>3, <2>4, <2>5, HomeStep
  <2> QED
    BY <1>1, <2>1, <2>2, <2>3, <2>6 DEF LuckyInv, Announced, IndexFull
<1>3. CASE AnchorReclaim
  <2>1. PICK next \in Anchor :
          /\ anchors' = [anchors EXCEPT ![next] = <<>>]
          /\ pc = "anchor" /\ pc' = "anchor"
          /\ UNCHANGED <<flash, index_block, index_next_page, saved>>
    BY <1>3, AnchorReclaimEffect
  <2>2. Records' \subseteq Records
    <3>1. anchors \in [Anchor -> Seq(AnchorPage)]
      BY DEF Types
    <3>2. \A a \in Live' : a \in Live /\ anchors'[a] = anchors[a]
      BY <2>1, <3>1 DEF Live
    <3> QED
      BY <2>1, <3>2 DEF Records
  <2>3. HomeInv' /\ Home' = Home
    BY <1>1, <2>1, <2>2, HomeStep
  <2> QED
    BY <1>1, <2>1, <2>3 DEF LuckyInv, Announced, IndexFull, Busy
<1>4. CASE AnchorWrite
  <2>1. /\ anchors' = [anchors EXCEPT ![anchor_block] = Append(@, anchor_table)]
        /\ anchors'[anchor_block] # <<>> /\ Last(anchors'[anchor_block]) = anchor_table
        /\ anchor_block \in Anchor
        /\ pc = "anchor" /\ pc' = "anchored"
        /\ UNCHANGED <<flash, anchor_table, index_block, index_next_page, saved>>
    BY <1>4, AnchorWriteEffect
  <2>2. Announced /\ Busy /\ Announced' /\ Busy'
    BY <2>1 DEF Announced, Busy
  <2>3. flash[anchor_table.new] = <<>> /\ anchor_table.old = index_block
    BY <2>2 DEF Invariants, IndexInv
  <2>4. index_block = Home /\ Len(flash[Home]) = PPB
    BY <1>1, <2>2 DEF IndexFull
  <2>5. Records' \subseteq Records \cup {anchor_table}
    <3>1. anchors \in [Anchor -> Seq(AnchorPage)]
      BY DEF Types
    <3>2. \A a \in Live' : \/ a \in Live /\ anchors'[a] = anchors[a]
                           \/ Last(anchors'[a]) = anchor_table
      BY <2>1, <3>1 DEF Live
    <3> QED
      BY <2>1, <3>2 DEF Records
  <2>6. Home' = Home /\ (Intact' <=> Intact)
    BY <2>1, QuietSaved DEF Home, Intact
  <2>7. HomeInv'
    BY <1>1, <2>1, <2>3, <2>4, <2>5, <2>6 DEF HomeInv
  <2> QED
    BY <1>1, <2>1, <2>2, <2>6, <2>7 DEF LuckyInv, IndexFull
<1>5. CASE AnchorDone
  <2>1. /\ index_block' = anchor_table.new /\ index_next_page' = 0
        /\ pc = "anchored" /\ pc' = "index"
        /\ UNCHANGED <<flash, saved>>
    BY <1>5, AnchorDoneEffect
  <2>2. Records' = {anchor_table} /\ anchor_table \in Records
    BY <1>5, AnchorDoneRecords
  <2>3. flash[anchor_table.new] = <<>>
    BY <2>1 DEF Invariants, IndexInv, Announced, Busy
  <2>4. HomeInv'
    BY <1>1, <2>1, <2>2, HomeStep
  <2>5. ~IndexFull' /\ Len(<<>>) = 0
    BY <2>1, Constants DEF IndexFull
  <2> QED
    BY <2>1, <2>2, <2>3, <2>4, <2>5 DEF LuckyInv, Announced
<1> QED
  BY <1>2, <1>3, <1>4, <1>5

\* The page after the last one of the table is programmed.
LEMMA LuckyWrite ==
  ASSUME Types, AnchorsInv, Invariants, LuckyInv, IndexWrite, fails' = 0
  PROVE  LuckyInv'
<1>1. /\ pc = "index" /\ ~IndexFull
      /\ UNCHANGED <<anchors, anchor_table, index_block>>
  BY DEF IndexWrite, anchor
<1>2. Busy /\ HomeInv /\ index_next_page = Len(flash[index_block])
      /\ \A r \in Records : r.new = index_block
  BY <1>1 DEF Busy, LuckyInv
<1>3. index_block \in PhyBlock /\ flash[index_block] \in Pages /\ ThisIndex \in IndexCell
  BY <1>2, MineTypes, IndexWriteEffect DEF Types
<1>4. PICK ok \in Outcome(index_block, index_next_page) :
        /\ flash' = Programmed(index_block, index_next_page, ThisIndex, ok)
        /\ saved' = IF ok THEN [blk |-> index_block, page |-> ThisIndex] ELSE saved
        /\ Counted(index_block, index_next_page, ok)
        /\ index_next_page' = IF ok THEN index_next_page + 1 ELSE PPB
        /\ ok => pc' \in {"idle", "area", "readarea"}
  BY DEF IndexWrite, Return
<1>5. Len(flash[index_block]) \in Nat /\ ~(index_next_page < Len(flash[index_block]))
  BY <1>2, <1>3 DEF Pages
<1>6. ok
  <2>1. ~ok => fails' = fails + 1
    BY <1>4, <1>5 DEF Counted
  <2> QED
    BY <2>1 DEF Types
<1>7. /\ Home' = index_block /\ flash' = [flash EXCEPT ![index_block] = Append(@, ThisIndex)]
      /\ index_next_page' = index_next_page + 1
  BY <1>4, <1>5, <1>6 DEF Home, Programmed
<1>8. flash'[index_block] = Append(flash[index_block], ThisIndex)
  BY <1>3, <1>7 DEF Types
<1>9. Intact'
  BY <1>3, <1>7, <1>8, AppendTable, Kinds DEF Intact
<1>10. /\ Len(flash[index_block]) < PPB
       /\ \A i \in DOMAIN flash[index_block] : flash[index_block][i] # Torn
  <2>1. CASE index_block = Home
    BY <1>1, <1>2, <1>5, <2>1, Constants DEF HomeInv, IndexFull
  <2>2. CASE index_block # Home
    <3>1. PICK a \in Live : TRUE
      BY DEF AnchorsInv
    <3>2. Last(anchors[a]) \in Records
      BY <3>1 DEF Records
    <3>3. flash[index_block] = <<>>
      BY <1>2, <2>2, <3>2 DEF HomeInv
    <3> QED
      BY <3>3, Constants
  <2> QED
    BY <2>1, <2>2
<1>11. /\ Len(flash'[index_block]) = Len(flash[index_block]) + 1
       /\ \A i \in DOMAIN flash'[index_block] : flash'[index_block][i] # Torn
  <2>1. ThisIndex # Torn
    BY <1>3, Kinds
  <2> QED
    BY <1>3, <1>8, <1>10, <2>1 DEF Pages
<1>12. Records' = Records
  BY <1>1, <1>4, <1>6, RecordsSame
<1>13. AtHome'
  BY <1>2, <1>7, <1>12 DEF AtHome
<1>14. HomeInv'
  BY <1>5, <1>7, <1>9, <1>10, <1>11, <1>13, Constants DEF HomeInv, AtHome
<1> QED
  BY <1>1, <1>2, <1>4, <1>6, <1>7, <1>11, <1>13, <1>14 DEF LuckyInv, Announced

\* The records read lead to the last index table, whichever of two is read.
LEMMA LuckyMount ==
  ASSUME Types, AnchorsInv, Invariants, LuckyInv, PowerLoss \/ ANCHOR_Init \/ INDEX_Init
  PROVE  LuckyInv'
<1>1. CASE PowerLoss
  <2>1. pc' = "off" /\ UNCHANGED <<flash, anchors, saved>>
    BY <1>1, PowerLossEffect
  <2>2. Records' \subseteq Records
    BY <2>1 DEF Records, Live
  <2>3. HomeInv'
    BY <2>1, <2>2, HomeStep DEF LuckyInv
  <2> QED
    BY <2>1, <2>3 DEF LuckyInv, Busy, Announced
<1>2. CASE ANCHOR_Init
  <2>1. PICK read \in Live, newer \in Live :
          /\ anchor_table' = Last(anchors[read])
          /\ anchors' = [a \in Anchor |-> IF a = newer THEN anchors[a] ELSE <<>>]
          /\ pc = "off" /\ pc' = "readindex"
          /\ UNCHANGED <<flash, saved>>
    BY <1>2, AnchorInitEffect
  <2>2. Live' = {newer} /\ anchors'[newer] = anchors[newer]
    BY <2>1 DEF Live
  <2>3. Records' \subseteq Records
    BY <2>1, <2>2 DEF Records
  <2>4. HomeInv'
    BY <2>1, <2>3, HomeStep DEF LuckyInv
  <2> QED
    BY <2>1, <2>4 DEF LuckyInv, Busy, Announced
<1>3. CASE INDEX_Init
  <2> DEFINE new == anchor_table.new
             old == anchor_table.old
  <2>1. /\ pc = "readindex" /\ UNCHANGED <<flash, anchors, anchor_table, saved>>
        /\ \/ /\ Readable(flash[new]) # {} /\ ReadIndex(new)
              /\ index_block' = new
              /\ index_next_page' = Cardinality(Readable(flash[new]))
           \/ /\ Readable(flash[new]) = {} /\ OldReadable(old) /\ ReadIndex(old)
              /\ index_block' = old /\ index_next_page' = PPB
           \/ Readable(flash[new]) = {} /\ ~OldReadable(old)
    BY <1>3 DEF INDEX_Init, anchor, history
  <2>2. anchor_table \in Records /\ Records' \subseteq Records
    BY <1>3, <2>1, IndexInitEffect DEF Records, Live
  <2>3. HomeInv /\ HomeInv' /\ Home' = Home
    BY <2>1, <2>2, HomeStep DEF LuckyInv
  <2>4. /\ Home \in PhyBlock /\ flash[Home] \in Pages /\ Home # NoBlock
        /\ Readable(flash[Home]) # {} /\ Last(flash[Home]).kind = "index"
    BY <2>3, SavedTypes, Constants DEF HomeInv, Intact, IsIndex, Types
  <2>5. Cardinality(Readable(flash[Home])) = Len(flash[Home])
    <3>1. Readable(flash[Home]) = 1 .. Len(flash[Home]) /\ Len(flash[Home]) \in Nat
      BY <2>3, <2>4 DEF Readable, HomeInv, Pages
    <3> QED
      BY <3>1, FS_Interval
  <2>6. \/ new = Home
        \/ /\ new # Home /\ flash[new] = <<>> /\ old = Home /\ Len(flash[Home]) = PPB
    BY <2>2, <2>3 DEF HomeInv
  <2>7. index_block' = Home /\ pc' = "index" /\ index_next_page' = Len(flash[Home])
    <3> HIDE DEF new, old
    <3>1. ReadIndex(Home) => pc' = "index"
      BY <2>4 DEF ReadIndex
    <3>2. OldReadable(Home)
      BY <2>4 DEF OldReadable
    <3> QED
      BY <2>1, <2>4, <2>5, <2>6, <3>1, <3>2, NoPages
  <2>8. Len(flash[Home]) # PPB => \A r \in Records' : r.new = Home
    BY <2>2, <2>3 DEF HomeInv
  <2> HIDE DEF new, old
  <2> QED
    BY <2>1, <2>3, <2>7, <2>8 DEF LuckyInv, Announced, IndexFull
<1> QED
  BY <1>1, <1>2, <1>3

LEMMA FormatLucky ==
  ASSUME Init
  PROVE  LuckyInv
<1>1. /\ pc = "idle" /\ index_block = Index0 /\ index_next_page = 1
      /\ anchor_table = [new |-> Index0, old |-> NoBlock, old_bad |-> FALSE, prev |-> 0]
      /\ anchors = [a \in Anchor |-> IF a = 1 THEN <<anchor_table>> ELSE <<>>]
      /\ saved = [blk |-> Index0, page |-> IndexPage(Area0, FALSE, Free0, Worn0, NoPlr)]
  BY DEF Init
<1>2. Types /\ Invariants
  BY FormatTypes, FormatInvariants
<1>3. Home = Index0 /\ flash[Home] = <<Saved>> /\ Saved \in IndexCell
  BY <1>1, <1>2, FormatFlash, SavedTypes DEF Home, Saved
<1>4. Saved # Torn /\ Intact
  BY <1>3, Kinds, OnePage DEF Intact
<1>5. AtHome
  <2>1. <<anchor_table>> = Append(<<>>, anchor_table) /\ <<>> \in Seq(AnchorPage)
    OBVIOUS
  <2>2. Last(<<anchor_table>>) = anchor_table
    BY <1>1, <1>2, <2>1, AnchorPages DEF Types
  <2>3. \A a \in Live : anchors[a] = <<anchor_table>>
    BY <1>1 DEF Live
  <2>4. Records = {Last(anchors[a]) : a \in Live}
    BY <1>1 DEF Records
  <2>5. \A r \in Records : r = anchor_table
    BY <2>2, <2>3, <2>4
  <2>6. anchor_table.new = Index0
    BY <1>1
  <2> QED
    BY <1>3, <2>5, <2>6 DEF AtHome
<1> QED
  BY <1>1, <1>3, <1>4, <1>5, Constants DEF LuckyInv, HomeInv, AtHome, Announced

LEMMA LuckyStep ==
  ASSUME Types, AnchorsInv, AnchorsInv', Invariants, LuckyInv, [Next]_vars, Lucky'
  PROVE  LuckyInv'
<1>1. CASE \E l \in LogBlock : UBI_Erase(l) \/ ubi_reclaim_badblock(l) \/ UserWrite(l)
  BY <1>1, LuckyErase
<1>2. CASE PowerLoss
  BY <1>2, LuckyMount
<1>3. CASE CommitNoFreeBlock \/ IndexNoFreeBlock
  BY <1>3 DEF CommitNoFreeBlock, IndexNoFreeBlock, NoFreeBlock, Lucky
<1>4. CASE Step /\ ~(CommitNoFreeBlock \/ IndexNoFreeBlock)
  BY <1>4, LuckyCommit, LuckyReclaim, LuckyWrite, LuckyMount DEF Step, Lucky
<1>5. CASE UNCHANGED vars
  <2>1. UNCHANGED <<flash, anchors, anchor_table, index_block, index_next_page, pc, saved>>
    BY <1>5 DEF vars, ram, anchor, index, history
  <2>2. Records' = Records
    BY <2>1 DEF Records, Live
  <2>3. HomeInv' /\ Home' = Home
    BY <2>1, <2>2, HomeStep DEF LuckyInv
  <2> QED
    BY <2>1, <2>2, <2>3 DEF LuckyInv, Busy, Announced, AtHome, IndexFull
<1> QED
  BY <1>1, <1>2, <1>3, <1>4, <1>5 DEF Next

\* A mount finds its tables, whatever the step at which the power failed.
THEOREM TablesFound == Spec => []MountSucceeds
<1> DEFINE Inv == IInv /\ (Lucky => LuckyInv)
<1>1. Init => Inv
  BY FormatTypes, FormatInvariants, FormatLucky DEF IInv
<1>2. Inv /\ [Next]_vars => Inv'
  <2>1. SUFFICES ASSUME Inv, [Next]_vars
                 PROVE  Inv'
    OBVIOUS
  <2>2. IInv'
    BY <2>1, TypesStep, AnchorsStep, EarlyStays, InvariantsStep DEF IInv
  <2>3. Lucky' => LuckyInv'
    BY <2>1, <2>2, LuckStays, LuckyStep DEF IInv, Lucky
  <2> QED
    BY <2>2, <2>3
<1>3. Inv => MountSucceeds
  BY DEF MountSucceeds, Lucky, LuckyInv
<1> QED
  BY <1>1, <1>2, <1>3, PTL DEF Spec

=============================================================================
