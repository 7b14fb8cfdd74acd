------------------------------ MODULE UbiWrite ------------------------------
(***************************************************************************)
(* Page writes and bad block recovery of the UBI layer, core/ubi/ubi_api.c *)
(* with INDEX_FreeBlock_Get and _Put of core/ubi/ubi_index.c, over one die *)
(* (TOTAL_DIE_COUNT is 1 in the shipped configuration).                    *)
(*                                                                         *)
(* An asynchronous write returns while the die is still programming.  Its  *)
(* page stays in dice_hold until the next call on the die has asked for    *)
(* the status; if the program has failed, the block is copied to a free    *)
(* one and the held page is programmed there.                              *)
(*                                                                         *)
(* The NAND status register is a part of the model: it keeps the failure   *)
(* of a program only until the next command.  The tables that make the     *)
(* mapping survive a power loss are written in one step here (UbiIndex).   *)
(***************************************************************************)
EXTENDS Integers, Sequences, FiniteSets

CONSTANTS
  LogBlock,   \* logical blocks, 0 .. n - 1
  NFree,      \* free blocks at the start
  PPB,        \* PAGE_PER_PHY_BLOCK
  STATIC_WL_THRESHOLD,  \* erase counts added to a block that failed
  MaxFail,    \* bound: programs and erases that fail
  MaxErase    \* bound: calls of UBI_Erase

NLog == Cardinality(LogBlock)
PhyBlock == 0 .. NLog + NFree - 1
Page == 0 .. PPB - 1
NoBlock == -1                            \* INVALID_BLOCK
NoPage == -1                             \* INVALID_PAGE

ASSUME LogAssumption == NLog \in Nat \ {0} /\ LogBlock = 0 .. NLog - 1
ASSUME SizeAssumption == NFree \in Nat /\ PPB \in Nat \ {0}
ASSUME BoundAssumption ==
  MaxFail \in Nat /\ MaxErase \in Nat /\ STATIC_WL_THRESHOLD \in Nat

\* A page: which write it is (block, page and the erases before it), and
\* spare[2], the location of a retained version. Every page carries one: a page
\* without it is the easier case.
Old == {"invalid", "location"}
Cell == [data : LogBlock \X Page \X (0 .. MaxErase), old : Old]
Erased == [data |-> <<"erased">>, old |-> "invalid"]
Torn == [data |-> <<"torn">>, old |-> "invalid"]     \* its program has failed
NoHold == [phy |-> NoBlock, log |-> 0]

VARIABLES
  nand,      \* contents of the physical blocks
  failed,    \* NAND status register: the last command was a program and failed
  fails,     \* programs and erases that have failed
  map, ecs,  \* area table: physical block and erase count of a logical block
  free,      \* free_block_table: [blk, ec], lowest erase count first
  dice_hold, \* the page whose program has not been checked
  pc,        \* where UBI_Write is
  req,       \* its parameters and phy_block, phy_block_ec
  erasing,   \* the logical block of the UBI_Erase it is called from
  erases,
  \* History variables.
  written,   \* pages the caller has written since the last erase of a block
  buffers,   \* page buffers handed over and not released
  \* What has happened that the code does not cope with.
  swallowed, \* a read has overwritten the status of a failed program
  misplaced, \* a page was programmed into the block that had just been replaced
  stripped,  \* a recovered page has lost spare[2]
  twice,     \* a recovery began again from a block that was already released
  exhausted, \* no free block was left
  refused    \* DATA_Write has met the status of a failed program itself

table == <<map, ecs, free>>
risks == <<swallowed, misplaced, stripped, twice, exhausted, refused>>
vars == <<nand, failed, fails, table, dice_hold, pc, req, erasing, erases,
          written, buffers, risks>>

NoReq == [log |-> 0, phy |-> NoBlock, ec |-> 0, page |-> NoPage,
          cell |-> Erased, async |-> TRUE]

Init ==
  /\ nand = [b \in PhyBlock |-> [p \in Page |-> Erased]]
  /\ failed = FALSE /\ fails = 0
  /\ map = [l \in LogBlock |-> l] /\ ecs = [l \in LogBlock |-> 0]
  /\ free = [i \in 1 .. NFree |-> [blk |-> NLog + i - 1, ec |-> 0]]
  /\ dice_hold = NoHold /\ pc = "idle" /\ req = NoReq
  /\ erasing = NoBlock /\ erases = 0
  /\ written = [l \in LogBlock |-> <<>>] /\ buffers = 0
  /\ swallowed = FALSE /\ misplaced = FALSE /\ stripped = FALSE
  /\ twice = FALSE /\ exhausted = FALSE /\ refused = FALSE

-----------------------------------------------------------------------------
(* The NAND and the free block table. *)

\* Outcomes of a program or an erase, as far as the bound allows failures.
Outcome == {ok \in BOOLEAN : ok \/ fails < MaxFail}
Failures(ok) == IF ok THEN 0 ELSE 1

\* MTD_Program of one page, with its spare area.
Programmed(block, page, cell, ok) ==
  [nand EXCEPT ![block][page] = IF ok THEN cell ELSE Torn]

\* INDEX_FreeBlock_Put: behind every entry with no higher erase count.
FreeBlock_Put(table_, blk, ec) ==
  LET n == Cardinality({i \in DOMAIN table_ : table_[i].ec <= ec})
  IN  [i \in 1 .. Len(table_) + 1 |->
         IF i <= n THEN table_[i]
         ELSE IF i = n + 1 THEN [blk |-> blk, ec |-> ec] ELSE table_[i - 1]]

\* INDEX_FreeBlock_Get discards every block it cannot erase: skipped of them,
\* then the next one is erased and taken.
Skips == {n \in 0 .. Len(free) : n <= MaxFail - fails}
Taken(skipped) == free[skipped + 1].blk
TakenEc(skipped) == free[skipped + 1].ec + 1

\* Mutant: the block taken stays in the table.
MutRestKeepsTaken(skipped) == SubSeq(free, skipped + 1, Len(free))

Rest(skipped) == SubSeq(free, skipped + 2, Len(free))

-----------------------------------------------------------------------------
(* UBI_Write, up to the status of the program before it. *)

\* The caller writes the pages of a block in order: a journal page without
\* waiting, every other page waiting. Before a journal page DATA_Write asks for
\* the status of the die itself and asserts that it is not a failure.
DATA_Write_Asserts ==
  /\ pc = "idle" /\ failed
  /\ pc' = "hung" /\ refused' = TRUE
  /\ UNCHANGED <<nand, failed, fails, table, dice_hold, req, erasing, erases, written,
                 buffers, swallowed, misplaced, stripped, twice, exhausted>>

NextCell(l) == [data |-> <<l, Len(written[l]), erases>>, old |-> "location"]

UBI_Write(l, async) ==
  /\ pc = "idle" /\ Len(written[l]) < PPB
  /\ ~(async /\ failed)
  /\ req' = [log |-> l, phy |-> map[l], ec |-> ecs[l], page |-> Len(written[l]),
             cell |-> NextCell(l), async |-> async]
  /\ pc' = "check"
  /\ buffers' = buffers + 1
  /\ written' = [written EXCEPT ![l] = Append(@, NextCell(l))]
  /\ UNCHANGED <<nand, failed, fails, table, dice_hold, erasing, erases, risks>>

\* UBI_Flush, and the flush of UBI_Erase: a write of no page to the block of
\* dice_hold.
Flush(log) == [NoReq EXCEPT !.log = log, !.phy = map[log], !.ec = ecs[log]]

UBI_Flush ==
  /\ pc = "idle"
  /\ req' = Flush(dice_hold.log) /\ pc' = "check"
  /\ UNCHANGED <<nand, failed, fails, table, dice_hold, erasing, erases, written,
                 buffers, risks>>

\* Mutant: the status is not looked at.
MutIgnoreStatus == pc' = "release"

\* MTD_WaitReady of the die: the status of the last program.
CheckStatus == pc' = IF failed THEN "recover" ELSE "release"

Check ==
  /\ pc = "check"
  /\ CheckStatus
  /\ UNCHANGED <<nand, failed, fails, table, dice_hold, req, erasing, erases,
                 written, buffers, risks>>

-----------------------------------------------------------------------------
(* ubi_reclaim_badblock(log, phy, ec, bad_page) and the retry of the page. *)

\* Mutant: the spare areas are not copied.
MutCopyDropsSpare(phy, new, bad_page) ==
  [nand EXCEPT ![new] = [p \in Page |-> IF p < bad_page
                                        THEN [nand[phy][p] EXCEPT !.old = "invalid"]
                                        ELSE Erased]]

\* The pages before the bad one, copied to a block just erased.
CopiedTo(phy, new, bad_page) ==
  [nand EXCEPT ![new] = [p \in Page |-> IF p < bad_page THEN nand[phy][p] ELSE Erased]]

\* No free block can be erased: the write fails, the held page stays held.
NoFreeBlock(next) ==
  /\ Len(free) \in Skips
  /\ fails' = fails + Len(free) /\ free' = <<>>
  /\ failed' = (failed \/ free # <<>>)
  /\ pc' = next /\ exhausted' = TRUE
  /\ UNCHANGED <<nand, map, ecs, dice_hold, swallowed, misplaced,
                 stripped, twice, refused>>

\* The block a recovery starts from is in the free table already.
Released(phy) == \E i \in 1 .. Len(free) : free[i].blk = phy

\* A copied page fails in the new block, which is in no table any more; the
\* caller tries again with the next one.
CopyFails(phy, bad_page, skipped) ==
  /\ bad_page > 0 /\ fails + skipped < MaxFail
  /\ fails' = fails + skipped + 1
  /\ nand' = CopiedTo(phy, Taken(skipped), bad_page - 1)
  /\ free' = Rest(skipped)
  /\ failed' = TRUE
  /\ twice' = (twice \/ Released(phy))
  /\ UNCHANGED <<map, ecs, dice_hold, pc, swallowed, misplaced, stripped,
                 exhausted, refused>>

\* The block is copied, the tables are updated; then the page is programmed.
Replace(log, phy, ec, bad_page, cell, skipped, ok) ==
  LET new == Taken(skipped)
      copied == CopiedTo(phy, new, bad_page)
  IN  /\ nand' = [copied EXCEPT ![new][bad_page] = IF ok THEN cell ELSE Torn]
      /\ fails' = fails + skipped + Failures(ok) /\ fails' <= MaxFail
      /\ failed' = ~ok
      /\ free' = FreeBlock_Put(Rest(skipped), phy, ec + STATIC_WL_THRESHOLD)
      /\ twice' = (twice \/ Released(phy))
      /\ map' = [map EXCEPT ![log] = new]
      /\ ecs' = [ecs EXCEPT ![log] = TakenEc(skipped)]

\* The held page goes to the new block; dice_hold keeps two spare words.
HeldCell == [dice_hold.cell EXCEPT !.old = "invalid"]

RecoverHeld ==
  /\ pc = "recover" /\ dice_hold # NoHold
  /\ LET phy == dice_hold.phy
         page == dice_hold.page
     IN  \/ NoFreeBlock("error")
         \/ \E n \in Skips : n < Len(free) /\ CopyFails(phy, page, n)
         \/ \E n \in Skips, ok \in BOOLEAN :
              /\ n < Len(free)
              /\ Replace(dice_hold.log, phy, dice_hold.ec, page, HeldCell, n, ok)
              /\ dice_hold' = [dice_hold EXCEPT !.phy = Taken(n), !.ec = TakenEc(n)]
              /\ pc' = IF ok THEN "release" ELSE "recover"
              /\ stripped' = (stripped \/ dice_hold.cell # HeldCell)
              /\ UNCHANGED <<swallowed, misplaced, exhausted, refused>>
  /\ UNCHANGED <<req, erasing, erases, written, buffers>>

\* ubi_find_die_buffer: ASSERT(i != TOTAL_DIE_COUNT).
RecoverAssert ==
  /\ pc = "recover" /\ dice_hold = NoHold
  /\ pc' = "hung"
  /\ UNCHANGED <<nand, failed, fails, table, dice_hold, req, erasing, erases,
                 written, buffers, risks>>

-----------------------------------------------------------------------------
(* The buffer of the page before is released, then the page is programmed. *)

\* Mutant: the buffer is never released.
MutKeepHeldBuffer == UNCHANGED buffers

BUF_Free == buffers' = buffers - (IF dice_hold = NoHold THEN 0 ELSE 1)

\* Mutant: an asynchronous page is not held.
MutNotHeld == NoHold

\* What dice_hold is after the program of a request.
Held == IF req.async
        THEN [log |-> req.log, phy |-> req.phy, ec |-> req.ec, page |-> req.page,
              cell |-> req.cell]
        ELSE NoHold

ReleaseAndProgram ==
  /\ pc = "release" /\ req.page # NoPage
  /\ BUF_Free
  /\ IF nand[req.phy][req.page] # Erased
     THEN /\ pc' = "hung" /\ dice_hold' = NoHold
          /\ UNCHANGED <<nand, failed, fails, misplaced>>
     ELSE \E ok \in Outcome :
            /\ nand' = Programmed(req.phy, req.page, req.cell, ok)
            /\ failed' = ~ok /\ fails' = fails + Failures(ok)
            /\ misplaced' = (misplaced \/ map[req.log] # req.phy)
            /\ dice_hold' = Held
            /\ pc' = IF req.async THEN "idle" ELSE "sync"
  /\ req' = IF pc' = "idle" THEN NoReq ELSE req
  /\ UNCHANGED <<table, erasing, erases, written, swallowed, stripped,
                 twice, exhausted, refused>>

ReleaseOnly ==
  /\ pc = "release" /\ req.page = NoPage
  /\ BUF_Free /\ dice_hold' = NoHold
  /\ pc' = IF erasing = NoBlock THEN "idle" ELSE "erase"
  /\ req' = NoReq
  /\ UNCHANGED <<nand, failed, fails, table, erasing, erases, written, risks>>

\* A synchronous write waits for its own program.
SyncDone ==
  /\ pc = "sync" /\ ~failed
  /\ pc' = "idle" /\ buffers' = buffers - 1 /\ req' = NoReq
  /\ UNCHANGED <<nand, failed, fails, table, dice_hold, erasing, erases,
                 written, risks>>

\* The recovery always starts from the block of the first attempt; without a
\* free block ASSERT(ret == STATUS_SUCCESS) fails.
RecoverSync ==
  /\ pc = "sync" /\ failed
  /\ \/ NoFreeBlock("hung")
     \/ \E n \in Skips : n < Len(free) /\ CopyFails(req.phy, req.page, n)
     \/ \E n \in Skips, ok \in BOOLEAN :
          /\ n < Len(free)
          /\ Replace(req.log, req.phy, req.ec, req.page, req.cell, n, ok)
          /\ UNCHANGED <<dice_hold, pc, swallowed, misplaced, stripped, exhausted,
                         refused>>
  /\ UNCHANGED <<req, erasing, erases, written, buffers>>

\* The error is returned: neither buffer is released.
ReturnError ==
  /\ pc = "error"
  /\ pc' = "idle" /\ erasing' = NoBlock /\ req' = NoReq
  /\ UNCHANGED <<nand, failed, fails, table, dice_hold, erases, written,
                 buffers, risks>>

-----------------------------------------------------------------------------
(* UBI_Erase and UBI_Read. *)

UBI_Erase(l) ==
  /\ pc = "idle" /\ erases < MaxErase
  /\ erasing' = l /\ erases' = erases + 1
  /\ req' = Flush(dice_hold.log) /\ pc' = "check"
  /\ UNCHANGED <<nand, failed, fails, table, dice_hold, written, buffers, risks>>

\* The block of l becomes free; the new one was erased when it was taken.
EraseRemap ==
  /\ pc = "erase"
  /\ \/ NoFreeBlock("error") /\ UNCHANGED <<erasing, written>>
     \/ \E n \in Skips :
          /\ n < Len(free)
          /\ fails' = fails + n
          /\ nand' = [nand EXCEPT ![Taken(n)] = [p \in Page |-> Erased]]
          /\ failed' = FALSE
          /\ map' = [map EXCEPT ![erasing] = Taken(n)]
          /\ ecs' = [ecs EXCEPT ![erasing] = TakenEc(n)]
          /\ free' = FreeBlock_Put(Rest(n), map[erasing], ecs[erasing])
          /\ written' = [written EXCEPT ![erasing] = <<>>]
          /\ erasing' = NoBlock /\ pc' = "idle"
          /\ UNCHANGED <<dice_hold, risks>>
  /\ UNCHANGED <<req, erases, buffers>>

\* MTD_Read waits for the die, drops its status and sends the next command.
UBI_Read ==
  /\ pc = "idle"
  /\ failed' = FALSE
  /\ swallowed' = (swallowed \/ failed)
  /\ UNCHANGED <<nand, fails, table, dice_hold, pc, req, erasing, erases, written,
                 buffers, misplaced, stripped, twice, exhausted, refused>>

-----------------------------------------------------------------------------
Step == \/ Check \/ RecoverHeld \/ RecoverAssert \/ ReleaseAndProgram \/ ReleaseOnly
        \/ SyncDone \/ RecoverSync \/ ReturnError \/ EraseRemap

Next ==
  \/ \E l \in LogBlock, async \in BOOLEAN : UBI_Write(l, async)
  \/ DATA_Write_Asserts
  \/ UBI_Flush
  \/ \E l \in LogBlock : UBI_Erase(l)
  \/ UBI_Read
  \/ Step

\* A call that has begun runs on; the caller owes none.
Spec == Init /\ [][Next]_vars /\ WF_vars(Step)

-----------------------------------------------------------------------------
(* Properties. *)

FreeEntry == [blk : PhyBlock, ec : Nat]
HeldPage == [log : LogBlock, phy : PhyBlock, ec : Nat, page : Page, cell : Cell]
Request == [log : LogBlock, phy : PhyBlock \cup {NoBlock}, ec : Nat,
            page : Page \cup {NoPage}, cell : Cell \cup {Erased}, async : BOOLEAN]
PcValues == {"idle", "check", "recover", "release", "sync", "erase", "error", "hung"}

TypeOK ==
  /\ nand \in [PhyBlock -> [Page -> Cell \cup {Erased, Torn}]]
  /\ failed \in BOOLEAN /\ fails \in 0 .. MaxFail
  /\ map \in [LogBlock -> PhyBlock] /\ ecs \in [LogBlock -> Nat]
  /\ free \in Seq(FreeEntry)
  /\ dice_hold \in HeldPage \cup {NoHold}
  /\ pc \in PcValues /\ req \in Request
  /\ erasing \in LogBlock \cup {NoBlock} /\ erases \in 0 .. MaxErase
  /\ written \in [LogBlock -> Seq(Cell)] /\ buffers \in Int
  /\ \A l \in LogBlock : Len(written[l]) <= PPB
  /\ {swallowed, misplaced, stripped, twice, exhausted, refused} \subseteq BOOLEAN

Pending(l, p) ==
  \/ dice_hold # NoHold /\ dice_hold.log = l /\ dice_hold.page = p
  \/ pc # "idle" /\ req.log = l /\ req.page = p

\* Every page written is in the block its logical block maps to, or is still
\* held to be programmed again: a failed program loses nothing, wherever the
\* block is copied to, and however often that fails.
WrittenOrHeld ==
  (~swallowed /\ ~misplaced /\ ~twice /\ ~exhausted) =>
    \A l \in LogBlock : \A p \in 0 .. Len(written[l]) - 1 :
      Pending(l, p) \/ nand[map[l]][p].data = written[l][p + 1].data

\* With it, the location of the retained version in the spare area.
RetainedLocationKept ==
  (~swallowed /\ ~misplaced /\ ~twice /\ ~exhausted /\ ~stripped) =>
    \A l \in LogBlock : \A p \in 0 .. Len(written[l]) - 1 :
      Pending(l, p) \/ nand[map[l]][p].old = written[l][p + 1].old

\* A physical block has one role: that of one logical block, or a free one.
OneRole ==
  ~twice =>
    /\ \A l, k \in LogBlock : map[l] = map[k] => l = k
    /\ \A i \in 1 .. Len(free) : /\ \A l \in LogBlock : map[l] # free[i].blk
                                 /\ \A j \in 1 .. Len(free) :
                                      free[j].blk = free[i].blk => i = j

\* Every buffer handed over is released exactly once, when its page has been
\* programmed for good.
BuffersReleased ==
  (pc = "idle" /\ ~exhausted) => buffers = IF dice_hold = NoHold THEN 0 ELSE 1

\* Every call returns, whatever fails while it recovers.
CallsReturn == (pc # "idle") ~> (pc = "idle" \/ misplaced \/ twice \/ exhausted \/ refused)

=============================================================================
