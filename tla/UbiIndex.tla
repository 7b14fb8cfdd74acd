------------------------------ MODULE UbiIndex ------------------------------
(***************************************************************************)
(* The three tables of the UBI layer and what a power loss does to them:   *)
(* core/ubi/ubi_index.c, ubi_area.c, ubi_anchor.c, ubi_table.c and         *)
(* UBI_Init.                                                               *)
(*                                                                         *)
(* Each table is a log in a block of its own: the area table maps logical  *)
(* to physical blocks, the index table says where the area table is and    *)
(* which blocks are free, the anchor says where the index table is. An     *)
(* update of the mapping writes two or three of them, one page program at  *)
(* a time, and the power may fail between any two.                         *)
(*                                                                         *)
(* One area. The free table is a set (its order is UbiWrite's matter): any *)
(* block may come first, but one given up by ubi_reclaim_badblock, with    *)
(* STATIC_WL_THRESHOLD added to its erase count, comes last. A page        *)
(* program is atomic, as in the power loss test of mtd_api.c, or fails and *)
(* leaves a page that cannot be read; pages of the anchor do not fail.     *)
(***************************************************************************)
EXTENDS Integers, Sequences, FiniteSets

CONSTANTS
  LogBlock,      \* logical blocks
  PhyBlock,      \* physical blocks, without those of the anchor
  Formatted,     \* where the format puts them: [LogBlock -> PhyBlock],
  Area0, Index0, \* the area table and the index table
  NoBlock,       \* INVALID_BLOCK
  Worn0,         \* blocks erased more often than the others
  PPB,           \* PAGE_PER_PHY_BLOCK
  AnchorCount,   \* ANCHOR_BLOCK_COUNT
  MaxOps,        \* bound: UBI_Erase and ubi_reclaim_badblock
  MaxCrash,      \* bound: power losses
  MaxFail        \* bound: page programs that fail

Anchor == 1 .. AnchorCount
Free0 == PhyBlock \ ({Formatted[l] : l \in LogBlock} \cup {Area0, Index0})
NoPlr == [log |-> NoBlock, phy |-> NoBlock]

ASSUME FormatAssumption ==
  /\ Formatted \in [LogBlock -> PhyBlock] /\ {Area0, Index0} \subseteq PhyBlock
  /\ \A l, k \in LogBlock : Formatted[l] = Formatted[k] => l = k
  /\ Area0 # Index0 /\ {Area0, Index0} \cap {Formatted[l] : l \in LogBlock} = {}
  /\ NoBlock \notin PhyBlock \cup LogBlock /\ Worn0 \subseteq PhyBlock
ASSUME CountAssumption == PPB \in Nat \ {0, 1} /\ AnchorCount \in Nat \ {0, 1}
ASSUME BoundAssumption == MaxOps \in Nat /\ MaxCrash \in Nat /\ MaxFail \in Nat

VARIABLES
  \* On flash: the pages programmed since the last erase of a block.
  flash,         \* of a physical block
  anchors,       \* of an anchor block
  \* In RAM: index_table, cached_area_table and its offset, anchor_table.
  area, area_bad, free, worn, plr,
  map, area_offset,
  anchor_table, anchor_block, anchor_next_page,
  index_block, index_bad, index_next_page, is_updating_area,
  \* Control.
  pc,            \* where the call is
  caller,        \* who has called index_update
  mounting,      \* UBI_Init has called INDEX_Update_Commit
  area_reclaim, anchor_reclaimed,
  ops, crashes, fails,
  \* History variables.
  data,          \* what the caller has in each logical block
  doing,         \* UBI_Erase that has not returned: its block, and the old one
  bad,           \* blocks given up after a failed program
  exhausted,     \* no free block was left
  saved,         \* the last index table programmed, and where
  early          \* a block with data was erased while that table still used it

index_table == <<area, area_bad, free, worn, plr>>
area_table == <<map, area_offset>>
anchor == <<anchor_table, anchor_block, anchor_next_page>>
index == <<index_block, index_bad, index_next_page>>
ram == <<index_table, area_table, anchor, index, is_updating_area>>
bounds == <<ops, crashes, fails>>
history == <<data, doing, bad, exhausted, saved, early>>
control == <<caller, mounting, area_reclaim, anchor_reclaimed>>
vars == <<flash, anchors, ram, pc, control, bounds, history>>

Torn == [kind |-> "torn"]                   \* its program has failed
User(l, n) == [kind |-> "user", log |-> l, gen |-> n]
IndexPage(a, abad, f, w, u) ==
  [kind |-> "index", area |-> a, area_bad |-> abad, free |-> f, worn |-> w, plr |-> u]
AreaPage(m) == [kind |-> "area", map |-> m]

\* TABLE_Read: the last page of the block that can be read.
Readable(pages) == {i \in DOMAIN pages : pages[i] # Torn}
Last(pages) == pages[CHOOSE i \in Readable(pages) : \A j \in Readable(pages) : j <= i]

\* UBI_Format.
Init ==
  /\ map = Formatted /\ area_offset = 0
  /\ area = Area0 /\ area_bad = FALSE /\ plr = NoPlr
  /\ free = Free0 /\ worn = Worn0
  /\ flash = [b \in PhyBlock |->
                CASE b = Area0 -> <<AreaPage(map)>>
                  [] b = Index0 -> <<IndexPage(Area0, FALSE, free, worn, NoPlr)>>
                  [] b \in Free0 -> <<>>
                  [] OTHER -> <<User(CHOOSE l \in LogBlock : map[l] = b, 0)>>]
  /\ anchor_table = [new |-> Index0, old |-> NoBlock, old_bad |-> FALSE, prev |-> 0]
  /\ anchors = [a \in Anchor |-> IF a = 1 THEN <<anchor_table>> ELSE <<>>]
  /\ anchor_block = 1 /\ anchor_next_page = 1
  /\ index_block = Index0 /\ index_bad = FALSE /\ index_next_page = 1
  /\ is_updating_area = FALSE
  /\ pc = "idle" /\ caller = "none" /\ mounting = FALSE
  /\ area_reclaim = FALSE /\ anchor_reclaimed = FALSE
  /\ ops = 0 /\ crashes = 0 /\ fails = 0
  /\ data = [l \in LogBlock |-> <<User(l, 0)>>] /\ doing = NoPlr
  /\ bad = {} /\ exhausted = FALSE /\ early = FALSE
  /\ saved = [blk |-> Index0, page |-> IndexPage(Area0, FALSE, Free0, Worn0, NoPlr)]

-----------------------------------------------------------------------------
(* Helpers. *)

Erased(b) == [flash EXCEPT ![b] = <<>>]

\* MTD_Program of a table: a page that failed before fails again.
Outcome(b, page) == {ok \in BOOLEAN : IF page < Len(flash[b]) THEN ~ok
                                      ELSE ok \/ fails < MaxFail}
Programmed(b, page, cell, ok) ==
  IF page < Len(flash[b]) THEN flash
  ELSE [flash EXCEPT ![b] = Append(@, IF ok THEN cell ELSE Torn)]
Counted(b, page, ok) == fails' = IF ok \/ page < Len(flash[b]) THEN fails ELSE fails + 1

\* INDEX_FreeBlock_Get takes one of these.
First == IF free \subseteq worn THEN free ELSE free \ worn

\* Whether the last index table still uses the block. The contents of the one
\* UBI_Erase gives up are of no use, unless the area table has moved there.
EarlyErase(b) ==
  early' = (early \/ b \notin saved.page.free \cup ({doing.phy} \ {saved.page.area}))

\* INDEX_FreeBlock_Put: a block with INVALID_EC falls off the table.
Put(b, is_bad) == IF is_bad THEN {} ELSE {b}

NoFreeBlock(next) ==
  /\ free = {}
  /\ pc' = next /\ exhausted' = TRUE
  /\ UNCHANGED <<flash, anchors, ram, control, bounds, data, doing, bad, saved, early>>

-----------------------------------------------------------------------------
(* The operations that change the mapping. *)

\* UBI_Erase: another block, just erased, takes the place of the old one.
UBI_Erase(l) ==
  /\ pc = "idle" /\ ops < MaxOps /\ ops' = ops + 1
  /\ \E new \in First :
       /\ flash' = Erased(new)
       /\ free' = (free \ {new}) \cup {map[l]}
       /\ plr' = [log |-> l, phy |-> new]
  /\ doing' = [log |-> l, phy |-> map[l]]
  /\ is_updating_area' = TRUE /\ area_reclaim' = FALSE /\ mounting' = FALSE
  /\ pc' = "commit"
  /\ UNCHANGED <<anchors, area, area_bad, worn, area_table, anchor, index, caller,
                 anchor_reclaimed, crashes, fails, data, bad, exhausted, saved, early>>

\* ubi_reclaim_badblock: the same, with the pages copied.
ubi_reclaim_badblock(l) ==
  /\ pc = "idle" /\ ops < MaxOps /\ ops' = ops + 1
  /\ \E new \in First :
       /\ flash' = [flash EXCEPT ![new] = flash[map[l]]]
       /\ free' = (free \ {new}) \cup {map[l]}
       /\ plr' = [log |-> l, phy |-> new]
  /\ worn' = worn \cup {map[l]}
  /\ is_updating_area' = TRUE /\ area_reclaim' = FALSE /\ mounting' = FALSE
  /\ pc' = "commit"
  /\ UNCHANGED <<anchors, area, area_bad, area_table, anchor, index, caller,
                 anchor_reclaimed, crashes, fails, history>>

\* The caller programs the block it has erased.
UserWrite(l) ==
  /\ pc = "idle" /\ data[l] = <<>>
  /\ data' = [data EXCEPT ![l] = <<User(l, ops)>>]
  /\ flash' = [flash EXCEPT ![map[l]] = Append(@, User(l, ops))]
  /\ UNCHANGED <<anchors, ram, pc, control, bounds, doing, bad, exhausted,
                 saved, early>>

-----------------------------------------------------------------------------
(* INDEX_Update_Commit: while a page program finds a bad block, once more. *)

\* The area table goes to the next page of its block after the index table, or
\* to a new block before it.
AREA_IsFull == area_offset = PPB - 1

CommitToNextPage ==
  /\ pc = "commit" /\ ~AREA_IsFull
  /\ pc' = "index" /\ caller' = "first"
  /\ UNCHANGED <<flash, anchors, ram, mounting, area_reclaim, anchor_reclaimed, bounds,
                 history>>

CommitToNewBlock ==
  /\ pc = "commit" /\ AREA_IsFull
  /\ \E new \in First :
       /\ flash' = Erased(new)
       /\ free' = (free \ {new}) \cup Put(area, area_bad)
       /\ bad' = bad \cup ({area} \ Put(area, area_bad))
       /\ area' = new
       /\ EarlyErase(new)
  /\ area_bad' = FALSE /\ area_reclaim' = TRUE
  /\ pc' = "area"
  /\ UNCHANGED <<anchors, worn, plr, area_table, anchor, index, is_updating_area, caller,
                 mounting, anchor_reclaimed, bounds, data, doing, exhausted, saved>>

CommitNoFreeBlock ==
  /\ pc = "commit" /\ AREA_IsFull
  /\ NoFreeBlock("failed")

\* The call that changed the mapping, or UBI_Init, returns. After a power loss
\* the caller knows nothing of the block it was erasing: any contents will do
\* until it is erased again. (No block of map_ changes in a step that returns.)
Return(map_, mounting_) ==
  /\ pc' = "idle" /\ is_updating_area' = FALSE /\ doing' = NoPlr
  /\ data' = IF doing = NoPlr THEN data
             ELSE [data EXCEPT ![doing.log] = IF mounting_ THEN flash[map_[doing.log]] ELSE <<>>]

Retry ==
  /\ pc' = "commit" /\ UNCHANGED <<is_updating_area, doing, data>>

AREA_Update ==
  LET page == (area_offset + 1) % PPB
      new == [map EXCEPT ![plr.log] = plr.phy]
  IN  /\ pc = "area"
      /\ \E ok \in Outcome(area, page) :
           /\ flash' = Programmed(area, page, AreaPage(new), ok)
           /\ Counted(area, page, ok)
           /\ area_offset' = IF ok THEN page ELSE PPB - 1
           /\ area_bad' = (area_bad \/ ~ok)
           /\ \/ ~ok /\ Retry /\ UNCHANGED caller
              \/ /\ ok /\ area_reclaim
                 /\ pc' = "index" /\ caller' = "last"
                 /\ UNCHANGED <<is_updating_area, doing, data>>
              \/ ok /\ ~area_reclaim /\ Return(new, mounting) /\ UNCHANGED caller
      /\ map' = new
      /\ UNCHANGED <<anchors, area, free, worn, plr, anchor, index, mounting, area_reclaim,
                     anchor_reclaimed, ops, crashes, bad, exhausted, saved, early>>

-----------------------------------------------------------------------------
(* index_update, called from INDEX_Update_Commit and from INDEX_Init. *)

IndexFull == index_next_page = PPB

\* A full index block: a new one is announced in the anchor first.
IndexReclaim ==
  /\ pc = "index" /\ IndexFull
  /\ \E new \in First :
       /\ flash' = Erased(new)
       /\ free' = free \ {new}
       /\ anchor_table' = [anchor_table EXCEPT !.new = new, !.old = index_block,
                                               !.old_bad = index_bad]
       /\ EarlyErase(new)
  /\ pc' = "anchor" /\ anchor_reclaimed' = FALSE
  /\ UNCHANGED <<anchors, area, area_bad, worn, plr, area_table, anchor_block,
                 anchor_next_page, index, is_updating_area, caller, mounting,
                 area_reclaim, bounds, data, doing, bad, exhausted, saved>>

\* INDEX_Init ignores what index_update of the new block returns.
IndexNoFreeBlock ==
  /\ pc = "index" /\ IndexFull
  /\ NoFreeBlock(IF caller = "new" THEN "readarea" ELSE "failed")

\* ANCHOR_Update: a full anchor block is followed by the next one, which holds
\* its number; the block left is erased after the page is written.
AnchorReclaim ==
  LET next == (anchor_block % AnchorCount) + 1
  IN  /\ pc = "anchor" /\ anchor_next_page = PPB
      /\ anchor_table' = [anchor_table EXCEPT !.prev = anchor_block]
      /\ anchors' = [anchors EXCEPT ![next] = <<>>]
      /\ anchor_block' = next /\ anchor_next_page' = 0 /\ anchor_reclaimed' = TRUE
      /\ UNCHANGED <<flash, index_table, area_table, index, is_updating_area, pc, caller,
                     mounting, area_reclaim, bounds, history>>

AnchorWrite ==
  /\ pc = "anchor" /\ anchor_next_page # PPB
  /\ anchors' = [anchors EXCEPT ![anchor_block] = Append(@, anchor_table)]
  /\ pc' = "anchored"
  /\ UNCHANGED <<flash, ram, control, bounds, history>>

\* Mutant: the block left is not put into the free table.
MutKeepIndexBlock == UNCHANGED <<free, bad>>

\* The current index block is released, although its table is the last one
\* that can be read until the new block has its first page.
ReleaseIndexBlock ==
  /\ free' = free \cup Put(index_block, index_bad)
  /\ bad' = bad \cup ({index_block} \ Put(index_block, index_bad))

AnchorDone ==
  /\ pc = "anchored"
  /\ anchors' = IF anchor_reclaimed THEN [anchors EXCEPT ![anchor_table.prev] = <<>>]
                ELSE anchors
  /\ anchor_next_page' = anchor_next_page + 1
  /\ ReleaseIndexBlock
  /\ index_block' = anchor_table.new /\ index_next_page' = 0 /\ index_bad' = FALSE
  /\ pc' = "index"
  /\ UNCHANGED <<flash, area, area_bad, worn, plr, area_table, anchor_table,
                 anchor_block, is_updating_area, control, bounds, data, doing, exhausted,
                 saved, early>>

ThisIndex == IndexPage(area, area_bad, free, worn, plr)

IndexWrite ==
  /\ pc = "index" /\ ~IndexFull
  /\ \E ok \in Outcome(index_block, index_next_page) :
       /\ flash' = Programmed(index_block, index_next_page, ThisIndex, ok)
       /\ saved' = IF ok THEN [blk |-> index_block, page |-> ThisIndex] ELSE saved
       /\ Counted(index_block, index_next_page, ok)
       /\ index_next_page' = IF ok THEN index_next_page + 1 ELSE PPB
       /\ index_bad' = (index_bad \/ ~ok)
       /\ \/ ~ok /\ caller \in {"first", "last"} /\ Retry
          \/ ok /\ caller = "last" /\ Return(map, mounting)
          \/ /\ pc' = CASE caller = "first" /\ ok -> "area"
                        [] caller = "new" \/ (caller = "old" /\ ok) -> "readarea"
                        [] caller = "old" /\ ~ok -> "failed"
                        [] OTHER -> "none"
             /\ pc' # "none"
             /\ UNCHANGED <<is_updating_area, doing, data>>
  /\ UNCHANGED <<anchors, index_table, area_table, anchor, index_block, control, ops,
                 crashes, bad, exhausted, early>>

-----------------------------------------------------------------------------
(* Power loss and UBI_Init. *)

PowerLoss ==
  /\ pc \notin {"off", "failed", "confused"}
  /\ crashes < MaxCrash /\ crashes' = crashes + 1
  /\ pc' = "off"
  /\ area' = NoBlock /\ area_bad' = FALSE /\ free' = {} /\ worn' = {} /\ plr' = NoPlr
  /\ map' = [l \in LogBlock |-> NoBlock] /\ area_offset' = 0
  /\ anchor_table' = [new |-> NoBlock, old |-> NoBlock, old_bad |-> FALSE, prev |-> 0]
  /\ anchor_block' = 0 /\ anchor_next_page' = 0
  /\ index_block' = NoBlock /\ index_bad' = FALSE /\ index_next_page' = 0
  /\ is_updating_area' = FALSE
  /\ caller' = "none" /\ mounting' = FALSE
  /\ area_reclaim' = FALSE /\ anchor_reclaimed' = FALSE
  /\ UNCHANGED <<flash, anchors, ops, fails, history>>

\* The anchor blocks are searched in order. When the first one found is the
\* newer of two, anchor_table is left with what was read from the second.
ANCHOR_Init ==
  LET found == {a \in Anchor : anchors[a] # <<>>}
      first == CHOOSE a \in found : \A b \in found : a <= b
      second == CHOOSE a \in found \ {first} : \A b \in found \ {first} : a <= b
      newer == IF Cardinality(found) = 1 \/ Last(anchors[first]).prev = second
               THEN first ELSE second
      read == IF Cardinality(found) = 1 THEN first ELSE second
  IN  /\ pc = "off"
      /\ anchor_table' = Last(anchors[read])
      /\ anchors' = [a \in Anchor |-> IF a = newer THEN anchors[a] ELSE <<>>]
      /\ anchor_block' = newer /\ anchor_next_page' = Len(anchors[newer])
      /\ pc' = "readindex"
      /\ UNCHANGED <<flash, index_table, area_table, index, is_updating_area, control,
                     bounds, history>>

\* The index table read from a block.
ReadIndex(b) ==
  LET t == Last(flash[b])
  IN  IF t.kind # "index"
      THEN pc' = "confused" /\ UNCHANGED index_table
      ELSE /\ pc' = "index"
           /\ area' = t.area /\ area_bad' = t.area_bad /\ free' = t.free
           /\ worn' = t.worn /\ plr' = t.plr

\* Mutant: the old block is not looked at.
MutNewOnly(old) == FALSE

OldReadable(old) == old # NoBlock /\ Readable(flash[old]) # {}

INDEX_Init ==
  LET new == anchor_table.new
      old == anchor_table.old
  IN  /\ pc = "readindex"
      /\ \/ /\ Readable(flash[new]) # {}
            /\ ReadIndex(new)
            /\ index_block' = new /\ index_bad' = FALSE
            /\ index_next_page' = Cardinality(Readable(flash[new]))
            /\ caller' = "new"
         \/ /\ Readable(flash[new]) = {} /\ OldReadable(old)
            /\ ReadIndex(old)
            /\ index_block' = old /\ index_bad' = anchor_table.old_bad
            /\ index_next_page' = PPB
            /\ caller' = "old"
         \/ /\ Readable(flash[new]) = {} /\ ~OldReadable(old)
            /\ pc' = "failed"
            /\ UNCHANGED <<index_table, index, caller>>
      /\ UNCHANGED <<flash, anchors, area_table, anchor, is_updating_area, mounting,
                     area_reclaim, anchor_reclaimed, bounds, history>>

\* Mutant: the update of the area that the power loss cut short is forgotten.
MutNoPLR(m) == FALSE

AREA_CheckUpdatePLR(m) == plr # NoPlr /\ m[plr.log] # plr.phy

AREA_Init ==
  LET t == Last(flash[area])
  IN  /\ pc = "readarea"
      /\ mounting' = TRUE /\ area_reclaim' = FALSE
      /\ IF Readable(flash[area]) = {} \/ t.kind # "area"
         THEN /\ pc' = "confused"
              /\ UNCHANGED <<area_table, is_updating_area, doing, data>>
         ELSE /\ area_offset' = Cardinality(Readable(flash[area])) - 1
              /\ IF AREA_CheckUpdatePLR(t.map)
                 THEN /\ map' = [t.map EXCEPT ![plr.log] = plr.phy]
                      /\ is_updating_area' = TRUE
                      /\ pc' = "commit"
                      /\ UNCHANGED <<doing, data>>
                 ELSE map' = t.map /\ Return(t.map, TRUE)
      /\ UNCHANGED <<flash, anchors, index_table, anchor, index, caller,
                     anchor_reclaimed, bounds, bad, exhausted, saved, early>>

-----------------------------------------------------------------------------
Step ==
  \/ CommitToNextPage \/ CommitToNewBlock \/ CommitNoFreeBlock \/ AREA_Update
  \/ IndexReclaim \/ IndexNoFreeBlock \/ AnchorReclaim \/ AnchorWrite \/ AnchorDone
  \/ IndexWrite \/ ANCHOR_Init \/ INDEX_Init \/ AREA_Init

Next ==
  \/ \E l \in LogBlock : UBI_Erase(l) \/ ubi_reclaim_badblock(l) \/ UserWrite(l)
  \/ PowerLoss
  \/ Step

Spec == Init /\ [][Next]_vars

-----------------------------------------------------------------------------
(* Properties. *)

\* After a mount every logical block has what the caller left in it, whenever
\* the power failed, and whether a block was being replaced or not.
MappingSurvives ==
  (pc = "idle" /\ ~early) => \A l \in LogBlock : flash[map[l]] = data[l]

\* No block has two roles, and no block is lost but the bad ones.
OneRoleEach(m, area_, index_, free_) ==
  /\ \A l, k \in LogBlock : m[l] = m[k] => l = k
  /\ area_ # index_
  /\ \A l \in LogBlock : m[l] \notin {area_, index_} \cup free_
  /\ {area_, index_} \cap free_ = {}
  /\ PhyBlock \ bad \subseteq {m[l] : l \in LogBlock} \cup {area_, index_} \cup free_

BlocksAccounted == (pc = "idle" /\ ~early) => OneRoleEach(map, area, index_block, free)

\* A mount finds its tables.
MountSucceeds == (fails = 0 /\ ~exhausted /\ ~early) => pc \notin {"failed", "confused"}

\* The new area block is only valid after writing index table, so no PLR issue
\* between writing these two blocks.
AreaTableFound == ~exhausted => pc # "confused"

=============================================================================
