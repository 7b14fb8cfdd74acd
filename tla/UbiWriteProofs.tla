--------------------------- MODULE UbiWriteProofs ---------------------------
(***************************************************************************)
(* Proofs about UbiWrite, for any number of logical and free blocks, any   *)
(* block size, and any number of failed programs and erases: no physical   *)
(* block gets two roles, no page buffer and no page is lost, outside the   *)
(* windows the module names.                                               *)
(***************************************************************************)
EXTENDS UbiWrite, FiniteSetTheorems, SequenceTheorems, TLAPS

(***************************************************************************)
(* The invariant.                                                          *)
(***************************************************************************)

\* Where a call is, and what its request holds there.
Busy == {"check", "recover", "release", "sync"}
CallInv ==
  /\ pc \in Busy => req.phy \in PhyBlock
  /\ pc = "sync" => req.page # NoPage
  /\ pc \in {"sync", "erase"} => dice_hold = NoHold
  /\ pc = "erase" => erasing # NoBlock
  /\ pc \in {"idle", "erase"} => req = NoReq
  /\ pc = "release" => ~failed
  /\ req.page # NoPage => req.cell \in Cell

\* A block that a recovery will release, the one of the held page or the one
\* the request began with, belongs to no other logical block.
Roles(m, f) ==
  /\ \A l, k \in LogBlock : m[l] = m[k] => l = k
  /\ \A i \in 1 .. Len(f) : /\ \A l \in LogBlock : m[l] # f[i].blk
                            /\ \A j \in 1 .. Len(f) : f[j].blk = f[i].blk => i = j
Owner(m, phy, log) == \A l \in LogBlock : m[l] = phy => l = log
RoleInv ==
  /\ Roles(map, free)
  /\ dice_hold # NoHold => Owner(map, dice_hold.phy, dice_hold.log)
  /\ pc \in Busy => Owner(map, req.phy, req.log)
  /\ pc \in Busy \ {"sync"} =>
       req.phy = map[req.log] \/ (dice_hold # NoHold /\ req.log = dice_hold.log)

\* One buffer for the held page and one for the page of the request.
HeldBuffers == IF dice_hold = NoHold THEN 0 ELSE 1
RequestBuffers == IF pc \in Busy /\ req.page # NoPage THEN 1 ELSE 0
BufferInv == ~exhausted /\ pc # "hung" => buffers = HeldBuffers + RequestBuffers

\* What a page has kept of a cell once a recovery may have stripped it.
Same(x, y) == x.data = y.data /\ (~stripped => x = y)

\* The pages of a logical block that have been programmed: all that were
\* written, but for one whose turn has not come.
Requested(l) == pc \in Busy \cup {"hung"} /\ req.page # NoPage /\ req.log = l
Due(l) == IF Requested(l) /\ pc # "sync" THEN Len(written[l]) - 1 ELSE Len(written[l])

\* The held page is the last one programmed of its block, in the block it maps
\* to; until a failure shows it is there.
HeldInv ==
  /\ dice_hold # NoHold =>
       /\ dice_hold.phy = map[dice_hold.log]
       /\ Due(dice_hold.log) = dice_hold.page + 1
       /\ written[dice_hold.log][dice_hold.page + 1] = dice_hold.cell
       /\ pc = "release" \/ (pc \in {"idle", "check"} /\ ~failed) =>
            Same(nand[dice_hold.phy][dice_hold.page], dice_hold.cell)
  /\ dice_hold = NoHold => pc # "recover" /\ (pc \in {"idle", "check"} => ~failed)
  /\ pc = "sync" /\ ~failed => nand[map[req.log]][req.page] = req.cell
  /\ pc = "sync" => req.phy = map[req.log] \/ Released(req.phy)
  /\ pc # "error"

\* The page of a request is the last one written of its block.
RequestInv ==
  \A l \in LogBlock : Requested(l) =>
    /\ Len(written[l]) = req.page + 1
    /\ written[l][req.page + 1] = req.cell

PageHeld(l, p) == dice_hold # NoHold /\ dice_hold.log = l /\ dice_hold.page = p
PageAwaited(l, p) == pc = "sync" /\ req.log = l /\ req.page = p
PageInv ==
  \A l \in LogBlock : \A p \in 0 .. Due(l) - 1 :
    PageHeld(l, p) \/ PageAwaited(l, p) \/ Same(nand[map[l]][p], written[l][p + 1])

Risky == swallowed \/ misplaced \/ twice \/ exhausted
DataInv == (pc # "hung" => HeldInv) /\ RequestInv /\ PageInv

IInv ==
  /\ TypeOK /\ CallInv /\ (~twice => RoleInv) /\ BufferInv
  /\ ~Risky => DataInv

-----------------------------------------------------------------------------
(***************************************************************************)
(* The free block table.                                                   *)
(***************************************************************************)

\* What the proofs use of INDEX_FreeBlock_Put: one entry is put in somewhere.
PutAt(t, n, entry) ==
  [i \in 1 .. Len(t) + 1 |->
     IF i <= n THEN t[i] ELSE IF i = n + 1 THEN entry ELSE t[i - 1]]

\* INDEX_FreeBlock_Put inserts one entry and moves the ones behind it.
LEMMA PutInserts ==
  ASSUME NEW S, NEW t \in Seq(S), NEW blk, NEW ec
  PROVE  \E n \in 0 .. Len(t) :
           FreeBlock_Put(t, blk, ec) = PutAt(t, n, [blk |-> blk, ec |-> ec])
<1> DEFINE low == {i \in DOMAIN t : t[i].ec <= ec}
<1>1. IsFiniteSet(1 .. Len(t)) /\ Cardinality(1 .. Len(t)) = Len(t)
  <2>1. Len(t) \in Nat
    BY LenProperties
  <2>2. /\ IsFiniteSet(1 .. Len(t))
        /\ Cardinality(1 .. Len(t)) = IF 1 > Len(t) THEN 0 ELSE Len(t) - 1 + 1
    BY <2>1, FS_Interval, SMTT(30)
  <2> HIDE DEF low
  <2> QED
    BY <2>1, <2>2
<1>2. low \subseteq 1 .. Len(t)
  BY LenProperties
<1>3. Cardinality(low) \in 0 .. Len(t)
  BY <1>1, <1>2, FS_Subset, FS_CardinalityType, LenProperties
<1> QED
  BY <1>3 DEF FreeBlock_Put, PutAt

\* The table stays a table of free blocks.
LEMMA PutType ==
  ASSUME NEW t \in Seq(FreeEntry), NEW blk \in PhyBlock, NEW ec \in Nat
  PROVE  FreeBlock_Put(t, blk, ec) \in Seq(FreeEntry)
<1> DEFINE entry == [blk |-> blk, ec |-> ec]
<1>1. entry \in FreeEntry
  BY DEF FreeEntry
<1>2. PICK n \in 0 .. Len(t) : FreeBlock_Put(t, blk, ec) = PutAt(t, n, entry)
  BY PutInserts
<1>3. Len(t) + 1 \in Nat
  BY LenProperties
<1>4. ASSUME NEW i \in 1 .. Len(t) + 1 PROVE PutAt(t, n, entry)[i] \in FreeEntry
  <2> HIDE DEF entry
  <2>1. i <= n => t[i] \in FreeEntry
    BY ElementOfSeq, LenProperties
  <2>2. ~(i <= n) /\ i # n + 1 => t[i - 1] \in FreeEntry
    BY ElementOfSeq, LenProperties
  <2> QED
    BY <1>1, <2>1, <2>2 DEF PutAt
<1> QED
  BY <1>2, <1>3, <1>4, SeqDef DEF PutAt

\* What is left behind the block that is taken.
LEMMA RestProperties ==
  ASSUME NEW S, NEW f \in Seq(S), NEW n \in Nat, n < Len(f)
  PROVE  /\ SubSeq(f, n + 2, Len(f)) \in Seq(S)
         /\ Len(SubSeq(f, n + 2, Len(f))) = Len(f) - n - 1
         /\ \A i \in 1 .. Len(f) - n - 1 : SubSeq(f, n + 2, Len(f))[i] = f[i + n + 1]
         /\ f[n + 1] \in S
  BY SubSeqProperties, LenProperties, ElementOfSeq

\* A block is taken for a logical block and the one it had is given back: if
\* no other logical block and no free entry has that one, every block still has
\* one role.
LEMMA RolesKept ==
  ASSUME NEW m \in [LogBlock -> PhyBlock], NEW f \in Seq(FreeEntry),
         NEW n \in Nat, n < Len(f), NEW log \in LogBlock,
         NEW phy \in PhyBlock, NEW ec \in Nat,
         Roles(m, f), Owner(m, phy, log),
         \A i \in 1 .. Len(f) : f[i].blk # phy
  PROVE  Roles([m EXCEPT ![log] = f[n + 1].blk],
               FreeBlock_Put(SubSeq(f, n + 2, Len(f)), phy, ec))
<1> DEFINE r == SubSeq(f, n + 2, Len(f))
           entry == [blk |-> phy, ec |-> ec]
           m1 == [m EXCEPT ![log] = f[n + 1].blk]
<1>1. /\ r \in Seq(FreeEntry) /\ Len(r) = Len(f) - n - 1
      /\ \A i \in 1 .. Len(f) - n - 1 : r[i] = f[i + n + 1]
  BY RestProperties
<1>2. PICK k \in 0 .. Len(r) : FreeBlock_Put(r, phy, ec) = PutAt(r, k, entry)
  BY <1>1, PutInserts
<1> DEFINE u == PutAt(r, k, entry)
           At(i) == IF i <= k THEN i + n + 1 ELSE i + n
<1>3. Len(f) \in Nat
  BY LenProperties
<1>4. Len(r) + 1 \in Nat /\ Len(u) = Len(f) - n
  BY <1>1, <1>3 DEF PutAt
<1>5. \A i \in 1 .. Len(f) - n : u[i] = IF i = k + 1 THEN entry ELSE f[At(i)]
  <2> SUFFICES ASSUME NEW i \in 1 .. Len(f) - n
               PROVE  u[i] = IF i = k + 1 THEN entry ELSE f[At(i)]
    OBVIOUS
  <2> HIDE DEF entry, r
  <2>1. u[i] = IF i <= k THEN r[i] ELSE IF i = k + 1 THEN entry ELSE r[i - 1]
    BY <1>1, <1>3 DEF PutAt
  <2>2. CASE i <= k
    BY <1>1, <1>3, <2>1, <2>2
  <2>3. CASE i = k + 1
    BY <1>3, <1>1, <2>1, <2>3
  <2>4. CASE i > k + 1
    BY <1>1, <1>3, <2>1, <2>4
  <2> QED
    BY <1>1, <1>3, <2>2, <2>3, <2>4
<1>6. \A i \in 1 .. Len(f) - n : i # k + 1 => At(i) \in n + 2 .. Len(f)
  BY <1>1, <1>3
<1>7. \A i, j \in 1 .. Len(f) - n : i # k + 1 /\ j # k + 1 /\ At(i) = At(j) => i = j
  BY <1>1, <1>3
<1>8. /\ \A l \in LogBlock : m1[l] = IF l = log THEN f[n + 1].blk ELSE m[l]
      /\ entry.blk = phy /\ n + 1 \in 1 .. Len(f)
  BY <1>3
<1> HIDE DEF u, m1, entry, r, At
<1>9. \A l, j \in LogBlock : m1[l] = m1[j] => l = j
  BY <1>8 DEF Roles
<1>10. \A i \in 1 .. Len(u) : \A l \in LogBlock : m1[l] # u[i].blk
  <2> SUFFICES ASSUME NEW i \in 1 .. Len(f) - n, NEW l \in LogBlock
               PROVE  m1[l] # u[i].blk
    BY <1>4
  <2>1. CASE i = k + 1
    BY <1>5, <1>8, <2>1 DEF Owner
  <2>2. CASE i # k + 1
    <3>1. u[i] = f[At(i)] /\ At(i) \in 1 .. Len(f) /\ At(i) # n + 1
      BY <1>3, <1>5, <1>6, <2>2, SMTT(30)
    <3> QED
      BY <1>8, <3>1 DEF Roles
  <2> QED
    BY <2>1, <2>2
<1>11. \A i, j \in 1 .. Len(u) : u[j].blk = u[i].blk => i = j
  <2> SUFFICES ASSUME NEW i \in 1 .. Len(f) - n, NEW j \in 1 .. Len(f) - n,
                      u[j].blk = u[i].blk
               PROVE  i = j
    BY <1>4
  <2>1. ASSUME NEW x \in 1 .. Len(f) - n, x # k + 1
        PROVE  u[x] = f[At(x)] /\ At(x) \in 1 .. Len(f)
    <3>1. At(x) \in n + 2 .. Len(f)
      BY <1>6, <2>1
    <3> QED
      BY <1>3, <1>5, <2>1, <3>1
  <2>2. \A x \in 1 .. Len(f) - n : x = k + 1 => u[x].blk = phy
    BY <1>5, <1>8
  <2>3. CASE i = k + 1 \/ j = k + 1
    BY <2>1, <2>2, <2>3
  <2>4. CASE i # k + 1 /\ j # k + 1
    <3>1. At(i) = At(j)
      BY <2>1, <2>4 DEF Roles
    <3> QED
      BY <1>7, <2>4, <3>1
  <2> QED
    BY <2>3, <2>4
<1>12. Roles(m1, u)
  BY <1>9, <1>10, <1>11 DEF Roles
<1> QED
  BY <1>2, <1>12 DEF u, m1, entry, r

-----------------------------------------------------------------------------
(***************************************************************************)
(* Types, and where a call is.                                             *)
(***************************************************************************)

\* Blocks and pages are numbers, as are the bounds.
LEMMA Ranges ==
  /\ NLog \in Nat \ {0} /\ 0 \in LogBlock /\ LogBlock \subseteq PhyBlock
  /\ NoPage \notin Page /\ NoBlock \notin PhyBlock /\ NoBlock \notin LogBlock
  /\ Page \subseteq Nat /\ PhyBlock \subseteq Nat /\ 0 \in Page
  BY LogAssumption, SizeAssumption DEF PhyBlock, Page, NoPage, NoBlock

\* The block taken out of the free table, and what is left of the table.
LEMMA TakenType ==
  ASSUME TypeOK, NEW n \in Skips, n < Len(free)
  PROVE  /\ n \in Nat /\ n <= MaxFail - fails
         /\ Taken(n) \in PhyBlock /\ TakenEc(n) \in Nat
         /\ Rest(n) \in Seq(FreeEntry)
<1>1. free \in Seq(FreeEntry) /\ n \in Nat /\ n <= MaxFail - fails
  BY DEF TypeOK, Skips
<1>2. free[n + 1] \in FreeEntry /\ Rest(n) \in Seq(FreeEntry)
  BY <1>1, RestProperties DEF Rest
<1>3. free[n + 1].blk \in PhyBlock /\ free[n + 1].ec \in Nat
  BY <1>2 DEF FreeEntry
<1> QED
  BY <1>1, <1>2, <1>3 DEF Taken, TakenEc

\* A copy leaves every other block alone.
LEMMA CopyType ==
  ASSUME nand \in [PhyBlock -> [Page -> Cell \cup {Erased, Torn}]],
         NEW phy \in PhyBlock, NEW new \in PhyBlock, NEW bad
  PROVE  /\ CopiedTo(phy, new, bad) \in [PhyBlock -> [Page -> Cell \cup {Erased, Torn}]]
         /\ \A b \in PhyBlock \ {new} : CopiedTo(phy, new, bad)[b] = nand[b]
         /\ \A p \in Page : CopiedTo(phy, new, bad)[new][p] =
                              IF p < bad THEN nand[phy][p] ELSE Erased
  BY DEF CopiedTo

\* The types, when a recovery has no free block, when it fails and starts again,
\* and when it succeeds.
LEMMA NoFreeType ==
  ASSUME TypeOK, NEW next \in PcValues, NoFreeBlock(next)
  PROVE  /\ fails' \in 0 .. MaxFail /\ free' \in Seq(FreeEntry)
         /\ failed' \in BOOLEAN /\ pc' = next /\ exhausted' = TRUE
<1>1. Len(free) \in Nat /\ fails \in 0 .. MaxFail /\ Len(free) <= MaxFail - fails
  BY LenProperties DEF TypeOK, NoFreeBlock, Skips
<1>2. fails' \in 0 .. MaxFail
  BY <1>1, BoundAssumption DEF NoFreeBlock
<1> QED
  BY <1>2, EmptySeq DEF TypeOK, NoFreeBlock

LEMMA CopyFailsType ==
  ASSUME TypeOK, NEW phy \in PhyBlock, NEW bad, NEW n \in Skips, n < Len(free),
         CopyFails(phy, bad, n)
  PROVE  /\ nand' \in [PhyBlock -> [Page -> Cell \cup {Erased, Torn}]]
         /\ fails' \in 0 .. MaxFail /\ free' \in Seq(FreeEntry) /\ failed' = TRUE
         /\ twice' \in BOOLEAN
<1>1. n \in Nat /\ Taken(n) \in PhyBlock /\ Rest(n) \in Seq(FreeEntry)
  BY TakenType
<1>2. fails' \in 0 .. MaxFail
  BY <1>1, BoundAssumption DEF CopyFails, TypeOK
<1>3. nand' \in [PhyBlock -> [Page -> Cell \cup {Erased, Torn}]]
  BY <1>1, CopyType DEF CopyFails, TypeOK
<1> QED
  BY <1>1, <1>2, <1>3 DEF CopyFails, TypeOK

LEMMA ReplaceType ==
  ASSUME TypeOK, NEW log \in LogBlock, NEW phy \in PhyBlock, NEW ec \in Nat,
         NEW bad \in Page, NEW cell \in Cell, NEW n \in Skips, n < Len(free),
         NEW ok \in BOOLEAN, Replace(log, phy, ec, bad, cell, n, ok)
  PROVE  /\ nand' \in [PhyBlock -> [Page -> Cell \cup {Erased, Torn}]]
         /\ fails' \in 0 .. MaxFail /\ failed' = ~ok
         /\ free' \in Seq(FreeEntry)
         /\ map' \in [LogBlock -> PhyBlock] /\ ecs' \in [LogBlock -> Nat]
         /\ twice' \in BOOLEAN
<1>1. n \in Nat /\ Taken(n) \in PhyBlock /\ TakenEc(n) \in Nat
        /\ Rest(n) \in Seq(FreeEntry)
  BY TakenType
<1>2. fails' \in 0 .. MaxFail
  BY <1>1, BoundAssumption, SMTT(30) DEF Replace, Failures, TypeOK
<1>3. nand' \in [PhyBlock -> [Page -> Cell \cup {Erased, Torn}]]
  BY <1>1, CopyType, SMTT(30) DEF Replace, TypeOK
<1>4. free' \in Seq(FreeEntry)
  <2>1. ec + STATIC_WL_THRESHOLD \in Nat
    BY BoundAssumption
  <2>2. free' = FreeBlock_Put(Rest(n), phy, ec + STATIC_WL_THRESHOLD)
    BY DEF Replace
  <2> QED
    BY <1>1, <2>1, <2>2, PutType
<1>5. map' \in [LogBlock -> PhyBlock] /\ ecs' \in [LogBlock -> Nat]
  BY <1>1 DEF Replace, TypeOK
<1> QED
  BY <1>2, <1>3, <1>4, <1>5 DEF Replace, TypeOK

-----------------------------------------------------------------------------

\* Every step keeps the types, and what a call holds at each of its places.
LEMMA TypeStep ==
  ASSUME TypeOK, CallInv, [Next]_vars
  PROVE  TypeOK' /\ CallInv'
<1> USE DEF PcValues, Busy
<1>1. CASE UNCHANGED vars
  BY <1>1 DEF vars, table, risks, TypeOK, CallInv
<1>2. ASSUME NEW l \in LogBlock, NEW async \in BOOLEAN, UBI_Write(l, async)
      PROVE  TypeOK' /\ CallInv'
  <2>1. Len(written[l]) \in Page /\ written[l] \in Seq(Cell)
    <3>1. written[l] \in Seq(Cell) /\ Len(written[l]) < PPB
      BY <1>2 DEF UBI_Write, TypeOK
    <3> QED
      BY <3>1, LenProperties, SizeAssumption DEF Page
  <2>2. NextCell(l) \in Cell
    BY <2>1 DEF NextCell, Cell, Old, TypeOK
  <2>3. Append(written[l], NextCell(l)) \in Seq(Cell)
        /\ Len(Append(written[l], NextCell(l))) = Len(written[l]) + 1
    BY <2>1, <2>2, AppendProperties
  <2>4. written' \in [LogBlock -> Seq(Cell)]
        /\ \A k \in LogBlock : Len(written'[k]) <= PPB
    <3>1. written' = [written EXCEPT ![l] = Append(written[l], NextCell(l))]
      BY <1>2 DEF UBI_Write
    <3>2. Len(written[l]) + 1 <= PPB
      BY <2>1, SizeAssumption DEF Page
    <3> HIDE DEF NextCell
    <3> QED
      BY <2>3, <3>1, <3>2 DEF TypeOK
  <2>5. req' \in Request /\ req'.phy \in PhyBlock /\ req'.cell \in Cell
    BY <1>2, <2>1, <2>2 DEF UBI_Write, Request, TypeOK
  <2> QED
    BY <1>2, <2>4, <2>5 DEF UBI_Write, TypeOK, CallInv, table, risks
<1>3. CASE DATA_Write_Asserts
  BY <1>3 DEF DATA_Write_Asserts, TypeOK, CallInv, table
<1>4. ASSUME dice_hold.log \in LogBlock PROVE Flush(dice_hold.log) \in Request
        /\ Flush(dice_hold.log).phy \in PhyBlock
        /\ Flush(dice_hold.log).page = NoPage
  BY <1>4, Ranges DEF Flush, NoReq, Request, TypeOK
<1>5. dice_hold.log \in LogBlock
  BY Ranges DEF TypeOK, HeldPage, NoHold
<1>6. CASE UBI_Flush
  BY <1>4, <1>5, <1>6 DEF UBI_Flush, TypeOK, CallInv, table, risks
<1>7. ASSUME NEW l \in LogBlock, UBI_Erase(l) PROVE TypeOK' /\ CallInv'
  <2>1. erases' \in 0 .. MaxErase
    BY <1>7, BoundAssumption DEF UBI_Erase, TypeOK
  <2> QED
    BY <1>4, <1>5, <1>7, <2>1 DEF UBI_Erase, TypeOK, CallInv, table, risks
<1>8. CASE UBI_Read
  BY <1>8 DEF UBI_Read, TypeOK, CallInv, table
<1>9. CASE Check
  BY <1>9 DEF Check, CheckStatus, TypeOK, CallInv, table, risks
<1>10. CASE RecoverHeld
  <2>1. dice_hold \in HeldPage
    BY <1>10 DEF RecoverHeld, TypeOK
  <2>2. /\ dice_hold.phy \in PhyBlock /\ dice_hold.log \in LogBlock
        /\ dice_hold.page \in Page /\ dice_hold.ec \in Nat /\ dice_hold.cell \in Cell
        /\ HeldCell \in Cell
    BY <2>1 DEF HeldPage, HeldCell, Cell, Old
  <2>3. UNCHANGED <<req, erasing, erases, written, buffers>> /\ pc = "recover"
    BY <1>10 DEF RecoverHeld
  <2>4. CASE NoFreeBlock("error")
    <3>1. /\ fails' \in 0 .. MaxFail /\ free' \in Seq(FreeEntry)
          /\ failed' \in BOOLEAN /\ pc' = "error" /\ exhausted' = TRUE
      BY <2>4, NoFreeType
    <3> QED
      BY <2>3, <2>4, <3>1 DEF NoFreeBlock, TypeOK, CallInv
  <2>5. ASSUME NEW n \in Skips, n < Len(free),
               CopyFails(dice_hold.phy, dice_hold.page, n)
        PROVE  TypeOK' /\ CallInv'
    <3>1. /\ nand' \in [PhyBlock -> [Page -> Cell \cup {Erased, Torn}]]
          /\ fails' \in 0 .. MaxFail /\ free' \in Seq(FreeEntry) /\ failed' = TRUE
          /\ twice' \in BOOLEAN
      BY <2>2, <2>5, CopyFailsType
    <3> QED
      BY <2>3, <2>5, <3>1 DEF CopyFails, TypeOK, CallInv
  <2>6. ASSUME NEW n \in Skips, NEW ok \in BOOLEAN, n < Len(free),
               Replace(dice_hold.log, dice_hold.phy, dice_hold.ec, dice_hold.page,
                       HeldCell, n, ok),
               dice_hold' = [dice_hold EXCEPT !.phy = Taken(n), !.ec = TakenEc(n)],
               pc' = (IF ok THEN "release" ELSE "recover"),
               stripped' = (stripped \/ dice_hold.cell # HeldCell),
               UNCHANGED <<swallowed, misplaced, exhausted, refused>>
        PROVE  TypeOK' /\ CallInv'
    <3>1. /\ nand' \in [PhyBlock -> [Page -> Cell \cup {Erased, Torn}]]
          /\ fails' \in 0 .. MaxFail /\ failed' = ~ok
          /\ free' \in Seq(FreeEntry)
          /\ map' \in [LogBlock -> PhyBlock] /\ ecs' \in [LogBlock -> Nat]
          /\ twice' \in BOOLEAN
      BY <2>2, <2>6, ReplaceType
    <3>2. dice_hold' \in HeldPage
      BY <2>1, <2>6, TakenType DEF HeldPage
    <3>3. stripped' \in BOOLEAN
      BY <2>6 DEF TypeOK
    <3> QED
      BY <2>3, <2>6, <3>1, <3>2, <3>3 DEF TypeOK, CallInv
  <2> QED
    BY <1>10, <2>4, <2>5, <2>6 DEF RecoverHeld
<1>11. CASE RecoverAssert
  BY <1>11 DEF RecoverAssert, TypeOK, CallInv, table, risks
<1>12. CASE ReleaseAndProgram
  <2>1. /\ req.page \in Page /\ req.phy \in PhyBlock /\ req.cell \in Cell
        /\ req.log \in LogBlock /\ req.ec \in Nat /\ req \in Request
    BY <1>12 DEF ReleaseAndProgram, TypeOK, CallInv, Request
  <2>2. buffers' \in Int
    BY <1>12 DEF ReleaseAndProgram, BUF_Free, TypeOK
  <2>3. NoReq \in Request
    BY Ranges DEF NoReq, Request
  <2>4. req' \in Request /\ (pc' = "idle" => req' = NoReq) /\ (pc' # "idle" => req' = req)
    BY <1>12, <2>1, <2>3 DEF ReleaseAndProgram
  <2>5. CASE pc' = "hung" /\ dice_hold' = NoHold /\ UNCHANGED <<nand, failed, fails, misplaced>>
    BY <1>12, <2>1, <2>2, <2>4, <2>5 DEF ReleaseAndProgram, TypeOK, CallInv, table
  <2>6. ASSUME NEW ok \in Outcome,
               nand' = Programmed(req.phy, req.page, req.cell, ok),
               failed' = ~ok, fails' = fails + Failures(ok),
               misplaced' = (misplaced \/ map[req.log] # req.phy),
               dice_hold' = Held, pc' = (IF req.async THEN "idle" ELSE "sync")
        PROVE  TypeOK' /\ CallInv'
    <3>1. nand' \in [PhyBlock -> [Page -> Cell \cup {Erased, Torn}]]
      BY <2>1, <2>6 DEF Programmed, TypeOK
    <3>2. fails' \in 0 .. MaxFail /\ failed' \in BOOLEAN /\ misplaced' \in BOOLEAN
      BY <2>6, BoundAssumption DEF Outcome, Failures, TypeOK
    <3>3. dice_hold' \in HeldPage \cup {NoHold} /\ (~req.async => dice_hold' = NoHold)
      BY <2>1, <2>6 DEF Held, HeldPage
    <3>4. pc' \in {"idle", "sync"} /\ (pc' = "sync" => ~req.async)
      BY <2>6
    <3> QED
      BY <1>12, <2>1, <2>2, <2>4, <3>1, <3>2, <3>3, <3>4
      DEF ReleaseAndProgram, TypeOK, CallInv, table, NoReq
  <2> QED
    BY <1>12, <2>5, <2>6 DEF ReleaseAndProgram
<1>13. CASE ReleaseOnly
  <2>1. NoReq \in Request /\ buffers' \in Int
    BY <1>13, Ranges DEF NoReq, Request, ReleaseOnly, BUF_Free, TypeOK
  <2> QED
    BY <1>13, <2>1 DEF ReleaseOnly, TypeOK, CallInv, table, risks, NoReq
<1>14. CASE SyncDone
  <2>1. NoReq \in Request /\ buffers' \in Int
    BY <1>14, Ranges DEF NoReq, Request, SyncDone, TypeOK
  <2> QED
    BY <1>14, <2>1 DEF SyncDone, TypeOK, CallInv, table, risks, NoReq
<1>15. CASE RecoverSync
  <2>1. /\ req.page \in Page /\ req.phy \in PhyBlock /\ req.cell \in Cell
        /\ req.log \in LogBlock /\ req.ec \in Nat
    BY <1>15 DEF RecoverSync, TypeOK, CallInv, Request
  <2>2. UNCHANGED <<req, erasing, erases, written, buffers>> /\ pc = "sync"
    BY <1>15 DEF RecoverSync
  <2>3. CASE NoFreeBlock("hung")
    <3>1. /\ fails' \in 0 .. MaxFail /\ free' \in Seq(FreeEntry)
          /\ failed' \in BOOLEAN /\ pc' = "hung" /\ exhausted' = TRUE
      BY <2>3, NoFreeType
    <3> QED
      BY <2>2, <2>3, <3>1 DEF NoFreeBlock, TypeOK, CallInv
  <2>4. ASSUME NEW n \in Skips, n < Len(free), CopyFails(req.phy, req.page, n)
        PROVE  TypeOK' /\ CallInv'
    <3>1. /\ nand' \in [PhyBlock -> [Page -> Cell \cup {Erased, Torn}]]
          /\ fails' \in 0 .. MaxFail /\ free' \in Seq(FreeEntry) /\ failed' = TRUE
          /\ twice' \in BOOLEAN
      BY <2>1, <2>4, CopyFailsType
    <3> QED
      BY <2>2, <2>4, <3>1 DEF CopyFails, TypeOK, CallInv
  <2>5. ASSUME NEW n \in Skips, NEW ok \in BOOLEAN, n < Len(free),
               Replace(req.log, req.phy, req.ec, req.page, req.cell, n, ok),
               UNCHANGED <<dice_hold, pc, swallowed, misplaced, stripped, exhausted,
                           refused>>
        PROVE  TypeOK' /\ CallInv'
    <3>1. /\ nand' \in [PhyBlock -> [Page -> Cell \cup {Erased, Torn}]]
          /\ fails' \in 0 .. MaxFail /\ failed' = ~ok
          /\ free' \in Seq(FreeEntry)
          /\ map' \in [LogBlock -> PhyBlock] /\ ecs' \in [LogBlock -> Nat]
          /\ twice' \in BOOLEAN
      BY <2>1, <2>5, ReplaceType
    <3> QED
      BY <2>2, <2>5, <3>1 DEF TypeOK, CallInv
  <2> QED
    BY <1>15, <2>3, <2>4, <2>5 DEF RecoverSync
<1>16. CASE ReturnError
  <2>1. NoReq \in Request
    BY Ranges DEF NoReq, Request
  <2> QED
    BY <1>16, <2>1 DEF ReturnError, TypeOK, CallInv, table, risks, NoReq
<1>17. CASE EraseRemap
  <2>1. erasing \in LogBlock /\ UNCHANGED <<req, erases, buffers>> /\ pc = "erase"
    BY <1>17 DEF EraseRemap, TypeOK, CallInv
  <2>2. CASE NoFreeBlock("error") /\ UNCHANGED <<erasing, written>>
    <3>1. /\ fails' \in 0 .. MaxFail /\ free' \in Seq(FreeEntry)
          /\ failed' \in BOOLEAN /\ pc' = "error" /\ exhausted' = TRUE
      BY <2>2, NoFreeType
    <3> QED
      BY <2>1, <2>2, <3>1 DEF NoFreeBlock, TypeOK, CallInv
  <2>3. ASSUME NEW n \in Skips, n < Len(free),
               fails' = fails + n,
               nand' = [nand EXCEPT ![Taken(n)] = [p \in Page |-> Erased]],
               failed' = FALSE,
               map' = [map EXCEPT ![erasing] = Taken(n)],
               ecs' = [ecs EXCEPT ![erasing] = TakenEc(n)],
               free' = FreeBlock_Put(Rest(n), map[erasing], ecs[erasing]),
               written' = [written EXCEPT ![erasing] = <<>>],
               erasing' = NoBlock, pc' = "idle",
               UNCHANGED <<dice_hold, risks>>
        PROVE  TypeOK' /\ CallInv'
    <3>1. n \in Nat /\ n <= MaxFail - fails /\ Taken(n) \in PhyBlock /\ TakenEc(n) \in Nat
            /\ Rest(n) \in Seq(FreeEntry)
      BY <2>3, TakenType
    <3>2. fails' \in 0 .. MaxFail
      BY <2>3, <3>1, BoundAssumption DEF TypeOK
    <3>3. free' \in Seq(FreeEntry)
      <4>1. map[erasing] \in PhyBlock /\ ecs[erasing] \in Nat
        BY <2>1 DEF TypeOK
      <4> QED
        BY <2>3, <3>1, <4>1, PutType
    <3>4. nand' \in [PhyBlock -> [Page -> Cell \cup {Erased, Torn}]]
      BY <2>3, <3>1 DEF TypeOK
    <3>5. map' \in [LogBlock -> PhyBlock] /\ ecs' \in [LogBlock -> Nat]
      BY <2>3, <3>1 DEF TypeOK
    <3>6. written' \in [LogBlock -> Seq(Cell)]
          /\ \A l \in LogBlock : Len(written'[l]) <= PPB
      <4>1. <<>> \in Seq(Cell) /\ Len(<<>>) = 0 /\ PPB > 0
        BY EmptySeq, SizeAssumption
      <4>2. written' \in [LogBlock -> Seq(Cell)]
        BY <2>3, <4>1 DEF TypeOK
      <4>3. ASSUME NEW l \in LogBlock PROVE Len(written'[l]) <= PPB
        <5>1. CASE l = erasing
          <6>1. written'[l] = <<>>
            BY <2>3, <5>1 DEF TypeOK
          <6> QED
            BY <4>1, <6>1, SizeAssumption
        <5>2. CASE l # erasing
          <6>1. written'[l] = written[l]
            BY <2>3, <5>2 DEF TypeOK
          <6> QED
            BY <6>1 DEF TypeOK
        <5> QED
          BY <5>1, <5>2
      <4> QED
        BY <4>2, <4>3
    <3> QED
      BY <2>1, <2>3, <3>2, <3>3, <3>4, <3>5, <3>6 DEF TypeOK, CallInv, risks
  <2> QED
    BY <1>17, <2>2, <2>3 DEF EraseRemap
<1> QED
  BY <1>1, <1>2, <1>3, <1>6, <1>7, <1>8, <1>9, <1>10, <1>11, <1>12, <1>13, <1>14,
     <1>15, <1>16, <1>17 DEF Next, Step

-----------------------------------------------------------------------------
(***************************************************************************)
(* The role of a block.                                                    *)
(***************************************************************************)

\* A page that is held is not the mark of none.
LEMMA HeldIsHold ==
  \A h \in HeldPage : h # NoHold
  BY DEF HeldPage, NoHold

\* A shorter free table leaves every block its role.
LEMMA RolesOfRest ==
  ASSUME NEW m \in [LogBlock -> PhyBlock], NEW f \in Seq(FreeEntry),
         NEW n \in Nat, n < Len(f), Roles(m, f)
  PROVE  Roles(m, SubSeq(f, n + 2, Len(f)))
<1> DEFINE r == SubSeq(f, n + 2, Len(f))
<1>1. /\ Len(r) = Len(f) - n - 1
      /\ \A i \in 1 .. Len(f) - n - 1 : r[i] = f[i + n + 1]
  BY RestProperties
<1>2. Len(f) \in Nat
  BY LenProperties
<1>3. \A i \in 1 .. Len(r) : r[i] = f[i + n + 1] /\ i + n + 1 \in 1 .. Len(f)
  BY <1>1, <1>2
<1>4. \A i, j \in 1 .. Len(r) : i + n + 1 = j + n + 1 => i = j
  BY <1>1, <1>2
<1> HIDE DEF r
<1>5. \A i \in 1 .. Len(r) : \A l \in LogBlock : m[l] # r[i].blk
  BY <1>3 DEF Roles
<1>6. \A i, j \in 1 .. Len(r) : r[j].blk = r[i].blk => i = j
  <2> SUFFICES ASSUME NEW i \in 1 .. Len(r), NEW j \in 1 .. Len(r),
                      r[j].blk = r[i].blk
               PROVE  i = j
    OBVIOUS
  <2>1. f[j + n + 1].blk = f[i + n + 1].blk
    BY <1>3
  <2>2. i + n + 1 = j + n + 1
    BY <1>3, <2>1 DEF Roles
  <2> QED
    BY <1>4, <2>2
<1>7. Roles(m, r)
  BY <1>5, <1>6 DEF Roles
<1> QED
  BY <1>7 DEF r

\* The block of log is replaced; every owner but that of the block taken stays.
LEMMA ReplaceRoles ==
  ASSUME TypeOK, NEW log \in LogBlock, NEW phy \in PhyBlock, NEW ec \in Nat,
         NEW bad, NEW cell, NEW n \in Skips, n < Len(free), NEW ok,
         Replace(log, phy, ec, bad, cell, n, ok), ~twice',
         Roles(map, free), Owner(map, phy, log)
  PROVE  /\ Roles(map', free')
         /\ map' = [map EXCEPT ![log] = Taken(n)]
         /\ \A l \in LogBlock : map[l] # Taken(n)
         /\ Taken(n) # phy
<1>1. /\ n \in Nat /\ n + 1 \in 1 .. Len(free)
      /\ free \in Seq(FreeEntry) /\ map \in [LogBlock -> PhyBlock]
  <2>1. free \in Seq(FreeEntry) /\ map \in [LogBlock -> PhyBlock] /\ n \in Nat
    BY DEF TypeOK, Skips
  <2> QED
    BY <2>1, LenProperties
<1>2. \A i \in 1 .. Len(free) : free[i].blk # phy
  BY DEF Replace, Released
<1>3. ec + STATIC_WL_THRESHOLD \in Nat
  BY BoundAssumption
<1>4. Roles([map EXCEPT ![log] = free[n + 1].blk],
            FreeBlock_Put(SubSeq(free, n + 2, Len(free)), phy, ec + STATIC_WL_THRESHOLD))
  BY <1>1, <1>2, <1>3, RolesKept
<1>5. /\ map' = [map EXCEPT ![log] = free[n + 1].blk]
      /\ free' = FreeBlock_Put(SubSeq(free, n + 2, Len(free)), phy,
                               ec + STATIC_WL_THRESHOLD)
  BY DEF Replace, Taken, Rest
<1> QED
  BY <1>1, <1>2, <1>4, <1>5 DEF Roles, Taken

\* Every step keeps the roles, unless it puts a block into the free table again.
LEMMA RoleStep ==
  ASSUME TypeOK, CallInv, ~twice => RoleInv, [Next]_vars
  PROVE  (~twice => RoleInv)'
<1> SUFFICES ASSUME ~twice' PROVE RoleInv'
  OBVIOUS
<1> USE DEF Busy
<1>0. ASSUME ~twice PROVE /\ Roles(map, free) /\ RoleInv
                          /\ \A l \in LogBlock : Owner(map, map[l], l)
  BY <1>0 DEF RoleInv, Roles, Owner
<1>a. dice_hold.log \in LogBlock
  BY Ranges DEF TypeOK, HeldPage, NoHold
<1>1. CASE UNCHANGED vars
  BY <1>0, <1>1 DEF vars, table, risks, RoleInv
<1>2. ASSUME NEW l \in LogBlock, NEW async \in BOOLEAN, UBI_Write(l, async)
      PROVE  RoleInv'
  BY <1>0, <1>2 DEF UBI_Write, table, risks, RoleInv
<1>3. CASE DATA_Write_Asserts
  BY <1>0, <1>3 DEF DATA_Write_Asserts, table, RoleInv
<1>4. CASE UBI_Flush
  BY <1>0, <1>4, <1>a DEF UBI_Flush, Flush, NoReq, table, risks, RoleInv
<1>5. ASSUME NEW l \in LogBlock, UBI_Erase(l) PROVE RoleInv'
  BY <1>0, <1>5, <1>a DEF UBI_Erase, Flush, NoReq, table, risks, RoleInv
<1>6. CASE UBI_Read
  BY <1>0, <1>6 DEF UBI_Read, table, RoleInv
<1>7. CASE Check
  BY <1>0, <1>7 DEF Check, CheckStatus, table, risks, RoleInv
<1>8. ASSUME NEW next, NoFreeBlock(next), next \in {"error", "hung"}
      PROVE  RoleInv'
  <2>1. UNCHANGED <<map, dice_hold, twice>> /\ free' = <<>> /\ pc' \notin Busy
    BY <1>8 DEF NoFreeBlock
  <2>2. Roles(map, free') /\ RoleInv
    BY <1>0, <2>1 DEF Roles
  <2> QED
    BY <2>1, <2>2 DEF RoleInv
<1>9. ASSUME NEW phy, NEW bad, NEW n \in Skips, n < Len(free),
             CopyFails(phy, bad, n), UNCHANGED req
      PROVE  RoleInv'
  <2>1. /\ UNCHANGED <<map, dice_hold, pc, req>> /\ ~twice
        /\ free' = SubSeq(free, n + 2, Len(free))
    BY <1>9 DEF CopyFails, Rest
  <2>2. Roles(map, free') /\ RoleInv
    <3>1. map \in [LogBlock -> PhyBlock] /\ free \in Seq(FreeEntry) /\ n \in Nat
      BY DEF TypeOK, Skips
    <3> QED
      BY <1>0, <1>9, <2>1, <3>1, RolesOfRest
  <2> QED
    BY <2>1, <2>2 DEF RoleInv
<1>10. CASE RecoverHeld
  <2>1. /\ dice_hold \in HeldPage /\ dice_hold # NoHold /\ pc = "recover"
        /\ UNCHANGED req /\ req.log \in LogBlock
    BY <1>10 DEF RecoverHeld, TypeOK, Request
  <2>2. /\ dice_hold.phy \in PhyBlock /\ dice_hold.log \in LogBlock
        /\ dice_hold.ec \in Nat
    BY <2>1 DEF HeldPage
  <2>3. ASSUME NEW n \in Skips, NEW ok \in BOOLEAN, n < Len(free),
               Replace(dice_hold.log, dice_hold.phy, dice_hold.ec, dice_hold.page,
                       HeldCell, n, ok),
               dice_hold' = [dice_hold EXCEPT !.phy = Taken(n), !.ec = TakenEc(n)],
               pc' = (IF ok THEN "release" ELSE "recover")
        PROVE  RoleInv'
    <3>1. ~twice
      BY <2>3 DEF Replace
    <3>2. /\ Roles(map, free) /\ Owner(map, dice_hold.phy, dice_hold.log)
          /\ Owner(map, req.phy, req.log)
          /\ req.phy = map[req.log] \/ req.log = dice_hold.log
      BY <1>0, <2>1, <3>1 DEF RoleInv
    <3>3. /\ Roles(map', free')
          /\ map' = [map EXCEPT ![dice_hold.log] = Taken(n)]
          /\ \A l \in LogBlock : map[l] # Taken(n)
      BY <2>2, <2>3, <3>2, ReplaceRoles
    <3>4. dice_hold'.phy = Taken(n) /\ dice_hold'.log = dice_hold.log
          /\ dice_hold' # NoHold
      <4>1. dice_hold' \in HeldPage
        BY <2>1, <2>3, TakenType DEF HeldPage
      <4> QED
        BY <2>1, <2>3, <4>1, HeldIsHold DEF HeldPage
    <3>5. \A l \in LogBlock : map'[l] = IF l = dice_hold.log THEN Taken(n) ELSE map[l]
      BY <3>3 DEF TypeOK
    <3>6. Owner(map', dice_hold'.phy, dice_hold'.log)
      BY <3>3, <3>4, <3>5 DEF Owner
    <3>7. Owner(map', req.phy, req.log)
      BY <2>1, <3>2, <3>3, <3>5 DEF Owner
    <3>8. req.phy = map'[req.log] \/ req.log = dice_hold'.log
      BY <2>1, <3>2, <3>4, <3>5
    <3> QED
      BY <2>1, <3>3, <3>4, <3>6, <3>7, <3>8 DEF RoleInv
  <2> QED
    BY <1>8, <1>9, <1>10, <2>1, <2>3 DEF RecoverHeld
<1>11. CASE RecoverAssert
  BY <1>0, <1>11 DEF RecoverAssert, table, risks, RoleInv
<1>12. CASE ReleaseAndProgram
  <2>1. /\ UNCHANGED <<map, free, twice>> /\ pc = "release"
        /\ \/ pc' = "hung" /\ dice_hold' = NoHold
           \/ dice_hold' = Held /\ pc' = (IF req.async THEN "idle" ELSE "sync")
        /\ pc' # "idle" => req' = req
    BY <1>12 DEF ReleaseAndProgram, table
  <2>2. Held # NoHold => Held.phy = req.phy /\ Held.log = req.log
    BY DEF Held
  <2> QED
    BY <1>0, <2>1, <2>2 DEF RoleInv
<1>13. CASE ReleaseOnly
  BY <1>0, <1>13 DEF ReleaseOnly, table, risks, RoleInv
<1>14. CASE SyncDone
  BY <1>0, <1>14 DEF SyncDone, table, risks, RoleInv
<1>15. CASE RecoverSync
  <2>1. /\ pc = "sync" /\ UNCHANGED req /\ req.log \in LogBlock
        /\ req.phy \in PhyBlock /\ req.ec \in Nat /\ dice_hold = NoHold
    BY <1>15 DEF RecoverSync, TypeOK, Request, CallInv
  <2>2. ASSUME NEW n \in Skips, NEW ok \in BOOLEAN, n < Len(free),
               Replace(req.log, req.phy, req.ec, req.page, req.cell, n, ok),
               UNCHANGED <<dice_hold, pc>>
        PROVE  RoleInv'
    <3>1. ~twice
      BY <2>2 DEF Replace
    <3>2. Roles(map, free) /\ Owner(map, req.phy, req.log)
      BY <1>0, <2>1, <3>1 DEF RoleInv
    <3>3. /\ Roles(map', free')
          /\ map' = [map EXCEPT ![req.log] = Taken(n)]
      BY <2>1, <2>2, <3>2, ReplaceRoles
    <3>4. Owner(map', req.phy, req.log)
      BY <3>2, <3>3 DEF Owner, TypeOK
    <3> QED
      BY <2>1, <2>2, <3>3, <3>4 DEF RoleInv
  <2> QED
    BY <1>8, <1>9, <1>15, <2>1, <2>2 DEF RecoverSync
<1>16. CASE ReturnError
  BY <1>0, <1>16 DEF ReturnError, table, risks, RoleInv
<1>17. CASE EraseRemap
  <2>1. erasing \in LogBlock /\ UNCHANGED req /\ pc = "erase" /\ dice_hold = NoHold
    BY <1>17 DEF EraseRemap, TypeOK, CallInv
  <2>2. ASSUME NEW n \in Skips, n < Len(free),
               map' = [map EXCEPT ![erasing] = Taken(n)],
               free' = FreeBlock_Put(Rest(n), map[erasing], ecs[erasing]),
               pc' = "idle", UNCHANGED <<dice_hold, risks>>
        PROVE  RoleInv'
    <3>1. /\ map \in [LogBlock -> PhyBlock] /\ free \in Seq(FreeEntry) /\ n \in Nat
          /\ map[erasing] \in PhyBlock /\ ecs[erasing] \in Nat
      BY <2>1 DEF TypeOK, Skips
    <3>2. /\ Roles(map, free) /\ Owner(map, map[erasing], erasing)
      BY <1>0, <2>1, <2>2 DEF risks
    <3>3. \A i \in 1 .. Len(free) : free[i].blk # map[erasing]
      BY <2>1, <3>2 DEF Roles
    <3>4. Roles([map EXCEPT ![erasing] = free[n + 1].blk],
                FreeBlock_Put(SubSeq(free, n + 2, Len(free)), map[erasing], ecs[erasing]))
      BY <2>1, <2>2, <3>1, <3>2, <3>3, RolesKept
    <3>5. Roles(map', free')
      BY <2>2, <3>4 DEF Taken, Rest
    <3> QED
      BY <2>1, <2>2, <3>5 DEF RoleInv
  <2> QED
    BY <1>8, <1>17, <2>1, <2>2 DEF EraseRemap
<1> QED
  BY <1>1, <1>2, <1>3, <1>4, <1>5, <1>6, <1>7, <1>10, <1>11, <1>12, <1>13, <1>14,
     <1>15, <1>16, <1>17 DEF Next, Step

-----------------------------------------------------------------------------
(***************************************************************************)
(* The page buffers.                                                       *)
(***************************************************************************)

\* Every step keeps the count of the page buffers.
LEMMA BufferStep ==
  ASSUME TypeOK, CallInv, BufferInv, [Next]_vars
  PROVE  BufferInv'
<1> USE DEF Busy, HeldBuffers, RequestBuffers, BufferInv
<1>1. CASE UNCHANGED vars
  BY <1>1 DEF vars, table, risks
<1>2. ASSUME NEW l \in LogBlock, NEW async \in BOOLEAN, UBI_Write(l, async)
      PROVE  BufferInv'
  <2>1. Len(written[l]) # NoPage
    BY LenProperties DEF TypeOK, NoPage
  <2>2. buffers \in Int
    BY DEF TypeOK
  <2> QED
    BY <1>2, <2>1, <2>2 DEF UBI_Write, risks
<1>3. CASE DATA_Write_Asserts
  BY <1>3 DEF DATA_Write_Asserts
<1>4. CASE UBI_Flush
  BY <1>4 DEF UBI_Flush, Flush, NoReq, risks
<1>5. ASSUME NEW l \in LogBlock, UBI_Erase(l) PROVE BufferInv'
  BY <1>5 DEF UBI_Erase, Flush, NoReq, risks
<1>6. CASE UBI_Read
  BY <1>6 DEF UBI_Read
<1>7. CASE Check
  BY <1>7 DEF Check, CheckStatus, risks
<1>8. CASE RecoverHeld
  <2>1. dice_hold \in HeldPage /\ dice_hold # NoHold /\ UNCHANGED <<req, buffers>>
          /\ pc = "recover"
    BY <1>8 DEF RecoverHeld, TypeOK
  <2>2. CASE NoFreeBlock("error")
    BY <2>2 DEF NoFreeBlock
  <2>3. ASSUME NEW n, CopyFails(dice_hold.phy, dice_hold.page, n)
        PROVE  BufferInv'
    BY <2>1, <2>3 DEF CopyFails
  <2>4. ASSUME NEW n \in Skips, NEW ok \in BOOLEAN, n < Len(free),
               dice_hold' = [dice_hold EXCEPT !.phy = Taken(n), !.ec = TakenEc(n)],
               pc' = (IF ok THEN "release" ELSE "recover"), UNCHANGED exhausted
        PROVE  BufferInv'
    <3>1. dice_hold' # NoHold
      <4>1. dice_hold' \in HeldPage
        BY <2>1, <2>4, TakenType DEF HeldPage
      <4> QED
        BY <4>1, HeldIsHold
    <3> QED
      BY <2>1, <2>4, <3>1
  <2> QED
    BY <1>8, <2>2, <2>3, <2>4 DEF RecoverHeld
<1>9. CASE RecoverAssert
  BY <1>9 DEF RecoverAssert
<1>10. CASE ReleaseAndProgram
  <2>1. /\ pc = "release" /\ req.page # NoPage /\ BUF_Free /\ UNCHANGED exhausted
        /\ \/ pc' = "hung"
           \/ dice_hold' = Held /\ pc' = (IF req.async THEN "idle" ELSE "sync")
        /\ pc' # "idle" => req' = req
    BY <1>10 DEF ReleaseAndProgram
  <2>2. buffers \in Int /\ req.async \in BOOLEAN
    BY DEF TypeOK, Request
  <2>3. req.async => Held # NoHold
    BY DEF Held, NoHold
  <2>4. ~req.async => Held = NoHold
    BY DEF Held
  <2> QED
    BY <2>1, <2>2, <2>3, <2>4 DEF BUF_Free
<1>11. CASE ReleaseOnly
  BY <1>11 DEF ReleaseOnly, BUF_Free, risks, TypeOK
<1>12. CASE SyncDone
  BY <1>12 DEF SyncDone, risks, CallInv, TypeOK
<1>13. CASE RecoverSync
  BY <1>13 DEF RecoverSync, NoFreeBlock, CopyFails, Replace
<1>14. CASE ReturnError
  BY <1>14 DEF ReturnError, NoReq, risks
<1>15. CASE EraseRemap
  BY <1>15 DEF EraseRemap, NoFreeBlock, risks
<1> QED
  BY <1>1, <1>2, <1>3, <1>4, <1>5, <1>6, <1>7, <1>8, <1>9, <1>10, <1>11, <1>12, <1>13,
     <1>14, <1>15 DEF Next, Step

-----------------------------------------------------------------------------
(***************************************************************************)
(* The pages of a logical block.                                           *)
(***************************************************************************)

\* Once the program of the held page is known to be good, every page that is
\* due is in its block.
LEMMA AllProgrammed ==
  ASSUME TypeOK, DataInv, pc = "release",
         NEW l \in LogBlock, NEW p \in 0 .. Due(l) - 1
  PROVE  Same(nand[map[l]][p], written[l][p + 1])
<1>1. PageHeld(l, p) \/ Same(nand[map[l]][p], written[l][p + 1])
  BY DEF DataInv, PageInv, PageAwaited
<1>2. ASSUME PageHeld(l, p) PROVE Same(nand[map[l]][p], written[l][p + 1])
  <2>1. /\ dice_hold # NoHold /\ dice_hold.log = l /\ dice_hold.page = p
    BY <1>2 DEF PageHeld
  <2>2. /\ dice_hold.phy = map[dice_hold.log]
        /\ written[dice_hold.log][dice_hold.page + 1] = dice_hold.cell
        /\ Same(nand[dice_hold.phy][dice_hold.page], dice_hold.cell)
    BY <2>1 DEF DataInv, HeldInv
  <2> QED
    BY <2>1, <2>2
<1> QED
  BY <1>1, <1>2

\* A recovery takes a block no logical block maps to, and copies to it the pages
\* before the bad one of the block that is replaced.
LEMMA ReplaceData ==
  ASSUME TypeOK, NEW log \in LogBlock, NEW phy \in PhyBlock, NEW ec \in Nat,
         NEW bad \in Page, NEW cell \in Cell, NEW n \in Skips, n < Len(free),
         NEW ok \in BOOLEAN, Replace(log, phy, ec, bad, cell, n, ok), ~twice',
         Roles(map, free), phy = map[log]
  PROVE  /\ \A l \in LogBlock \ {log} : map'[l] = map[l] /\ nand'[map[l]] = nand[map[l]]
         /\ map'[log] = Taken(n)
         /\ \A p \in 0 .. bad - 1 : nand'[map'[log]][p] = nand[map[log]][p]
         /\ ok => nand'[map'[log]][bad] = cell
<1>1. Owner(map, phy, log)
  BY DEF Roles, Owner
<1>2. /\ map' = [map EXCEPT ![log] = Taken(n)]
      /\ \A l \in LogBlock : map[l] # Taken(n)
  BY <1>1, ReplaceRoles
<1>3. Taken(n) \in PhyBlock /\ nand \in [PhyBlock -> [Page -> Cell \cup {Erased, Torn}]]
        /\ map \in [LogBlock -> PhyBlock]
  BY TakenType DEF TypeOK
<1> DEFINE copied == CopiedTo(phy, Taken(n), bad)
<1>4. /\ copied \in [PhyBlock -> [Page -> Cell \cup {Erased, Torn}]]
      /\ \A b \in PhyBlock \ {Taken(n)} : copied[b] = nand[b]
      /\ \A p \in Page : copied[Taken(n)][p] = IF p < bad THEN nand[phy][p] ELSE Erased
  BY <1>3, CopyType
<1>5. nand' = [copied EXCEPT ![Taken(n)][bad] = IF ok THEN cell ELSE Torn]
  BY DEF Replace
<1> HIDE DEF copied
<1>6. \A b \in PhyBlock \ {Taken(n)} : nand'[b] = nand[b]
  BY <1>4, <1>5
<1>7. \A p \in Page : nand'[Taken(n)][p] =
        IF p = bad THEN (IF ok THEN cell ELSE Torn) ELSE copied[Taken(n)][p]
  BY <1>3, <1>4, <1>5
<1>8. \A p \in 0 .. bad - 1 : p \in Page /\ p < bad /\ p # bad
  BY SizeAssumption DEF Page
<1>9. \A p \in 0 .. bad - 1 : nand'[Taken(n)][p] = nand[phy][p]
  BY <1>4, <1>7, <1>8
<1> QED
  BY <1>2, <1>3, <1>6, <1>7, <1>9

\* A copy that fails changes no block a logical block maps to.
LEMMA CopyFailsData ==
  ASSUME TypeOK, NEW phy \in PhyBlock, NEW bad, NEW n \in Skips, n < Len(free),
         CopyFails(phy, bad, n), Roles(map, free)
  PROVE  \A l \in LogBlock : nand'[map[l]] = nand[map[l]]
<1>1. Taken(n) \in PhyBlock /\ n \in Nat /\ Len(free) \in Nat
  BY TakenType, LenProperties DEF TypeOK
<1>2. nand' = CopiedTo(phy, Taken(n), bad - 1)
  BY DEF CopyFails
<1>3. \A l \in LogBlock : map[l] \in PhyBlock /\ map[l] # Taken(n)
  <2>1. n + 1 \in 1 .. Len(free)
    BY <1>1
  <2> QED
    BY <2>1 DEF Roles, Taken, TypeOK
<1> QED
  BY <1>1, <1>2, <1>3, CopyType DEF TypeOK

\* A step that moves no data and asks for no other page.
LEMMA QuietPages ==
  ASSUME RequestInv, PageInv, UNCHANGED <<nand, map, written, dice_hold, stripped>>,
         pc = "sync" <=> pc' = "sync",
         \/ req' = req /\ (pc \in Busy \cup {"hung"} <=> pc' \in Busy \cup {"hung"})
         \/ req.page = NoPage /\ req'.page = NoPage /\ pc # "sync"
  PROVE  /\ RequestInv' /\ PageInv'
         /\ \A l \in LogBlock : Due(l)' = Due(l)
<1>1. \A l \in LogBlock : /\ Requested(l)' <=> Requested(l)
                          /\ Requested(l) => req' = req
                          /\ pc = "sync" => req' = req
  BY DEF Requested
<1>2. \A l \in LogBlock : Due(l)' = Due(l)
  BY <1>1 DEF Due
<1>3. RequestInv'
  BY <1>1 DEF RequestInv
<1>4. PageInv'
  BY <1>1, <1>2 DEF PageInv, PageHeld, PageAwaited, Same
<1> QED
  BY <1>2, <1>3, <1>4

\* Every step keeps the pages where the invariant says they are.
LEMMA DataStep ==
  ASSUME TypeOK, CallInv, ~twice => RoleInv, ~Risky => DataInv, [Next]_vars
  PROVE  (~Risky => DataInv)'
<1> SUFFICES ASSUME ~Risky' PROVE DataInv'
  OBVIOUS
<1> USE DEF Busy
<1>0. ASSUME ~Risky PROVE DataInv /\ RequestInv /\ PageInv /\ ~twice /\ RoleInv
                            /\ Roles(map, free)
  BY <1>0 DEF DataInv, Risky, RoleInv
<1>1. CASE UNCHANGED vars
  <2>1. ~Risky /\ UNCHANGED <<nand, map, written, dice_hold, stripped, failed, free, pc, req>>
    BY <1>1 DEF vars, table, risks, Risky
  <2>2. RequestInv' /\ PageInv' /\ \A l \in LogBlock : Due(l)' = Due(l)
    BY <1>0, <2>1, QuietPages
  <2>3. dice_hold.log \in LogBlock
    BY Ranges DEF TypeOK, HeldPage, NoHold
  <2> QED
    BY <1>0, <2>1, <2>2, <2>3 DEF DataInv, HeldInv, Same, Released
<1>a. dice_hold.log \in LogBlock /\ (dice_hold # NoHold => dice_hold \in HeldPage)
  BY Ranges DEF TypeOK, HeldPage, NoHold
<1>b. \A l \in LogBlock : written[l] \in Seq(Cell) /\ Len(written[l]) \in Nat
  BY LenProperties DEF TypeOK
<1>2. ASSUME NEW l \in LogBlock, NEW async \in BOOLEAN, UBI_Write(l, async)
      PROVE  DataInv'
  <2>1. /\ ~Risky /\ pc = "idle" /\ pc' = "check"
        /\ UNCHANGED <<nand, map, dice_hold, stripped, failed>>
        /\ req'.log = l /\ req'.page = Len(written[l]) /\ req'.cell = NextCell(l)
        /\ written' = [written EXCEPT ![l] = Append(written[l], NextCell(l))]
    BY <1>2 DEF UBI_Write, table, risks, Risky
  <2> DEFINE cell == NextCell(l)
  <2> HIDE DEF cell
  <2>2. /\ \A k \in LogBlock \ {l} : written'[k] = written[k]
        /\ written'[l] = Append(written[l], cell)
    BY <2>1 DEF TypeOK, cell
  <2>3. /\ Len(written'[l]) = Len(written[l]) + 1
        /\ written'[l][Len(written[l]) + 1] = cell
        /\ \A i \in 1 .. Len(written[l]) : written'[l][i] = written[l][i]
    <3>1. written'[l] = Append(written[l], cell) /\ written[l] \in Seq(Cell \cup {cell})
      BY <1>b, <2>2 DEF TypeOK
    <3> QED
      BY <1>b, <3>1, AppendProperties
  <2>4. Len(written[l]) # NoPage
    BY <1>b DEF NoPage
  <2>5. \A k \in LogBlock : (Requested(k)' <=> k = l) /\ Due(k) = Len(written[k])
    BY <2>1, <2>4 DEF Requested, Due
  <2>6. \A k \in LogBlock : Due(k)' = Due(k)
    BY <1>b, <2>1, <2>2, <2>3, <2>5 DEF Due
  <2>7. RequestInv'
    BY <2>1, <2>3, <2>5 DEF RequestInv, cell
  <2>8. \A k \in LogBlock : \A i \in 1 .. Due(k) : written'[k][i] = written[k][i]
    BY <2>2, <2>3, <2>5
  <2>9. PageInv'
    <3> SUFFICES ASSUME NEW k \in LogBlock, NEW p \in 0 .. Due(k) - 1
                 PROVE  PageHeld(k, p)' \/ Same(nand[map[k]][p], written[k][p + 1])'
      BY <2>6 DEF PageInv
    <3>1. p + 1 \in 1 .. Due(k)
      BY <1>b, <2>5
    <3>2. PageHeld(k, p) \/ Same(nand[map[k]][p], written[k][p + 1])
      BY <1>0, <2>1 DEF PageInv, PageAwaited
    <3> QED
      BY <2>1, <2>8, <3>1, <3>2 DEF PageHeld, Same
  <2>10. HeldInv'
    <3>1. dice_hold # NoHold =>
            dice_hold.page + 1 \in 1 .. Due(dice_hold.log)
      BY <1>0, <1>a, <2>1, SizeAssumption DEF DataInv, HeldInv, HeldPage, Page
    <3>2. dice_hold # NoHold =>
            written'[dice_hold.log][dice_hold.page + 1] = dice_hold.cell
      BY <1>0, <1>a, <2>1, <2>8, <3>1 DEF DataInv, HeldInv
    <3> QED
      BY <1>0, <1>a, <2>1, <2>6, <3>2 DEF DataInv, HeldInv, Same
  <2> QED
    BY <2>7, <2>9, <2>10 DEF DataInv
<1>3. ASSUME UNCHANGED <<nand, map, written, dice_hold, stripped>>, ~Risky,
             pc = "sync" <=> pc' = "sync",
             \/ req' = req /\ (pc \in Busy \cup {"hung"} <=> pc' \in Busy \cup {"hung"})
             \/ req.page = NoPage /\ req'.page = NoPage /\ pc # "sync",
             pc' # "hung" => HeldInv'
      PROVE  DataInv'
  BY <1>0, <1>3, QuietPages DEF DataInv
<1>4. CASE DATA_Write_Asserts
  <2>1. ~Risky /\ req.page = NoPage /\ pc = "idle"
    BY <1>4 DEF DATA_Write_Asserts, Risky, CallInv, NoReq
  <2> QED
    BY <1>3, <1>4, <2>1 DEF DATA_Write_Asserts, table
<1>5. ASSUME UBI_Flush \/ \E l \in LogBlock : UBI_Erase(l) PROVE DataInv'
  <2>1. /\ ~Risky /\ pc = "idle" /\ pc' = "check" /\ req.page = NoPage
        /\ req'.page = NoPage
        /\ UNCHANGED <<nand, map, written, dice_hold, stripped, failed>>
    <3>1. pc = "idle" => req.page = NoPage
      BY DEF CallInv, NoReq
    <3>2. Flush(dice_hold.log).page = NoPage
      BY DEF Flush, NoReq
    <3>3. CASE UBI_Flush
      BY <3>1, <3>2, <3>3 DEF UBI_Flush, Risky, risks, table
    <3>4. ASSUME NEW l \in LogBlock, UBI_Erase(l)
          PROVE  /\ ~Risky /\ pc = "idle" /\ pc' = "check"
                 /\ req' = Flush(dice_hold.log)
                 /\ UNCHANGED <<nand, map, written, dice_hold, stripped, failed>>
      BY <3>4 DEF UBI_Erase, Risky, risks, table
    <3> QED
      BY <1>5, <3>1, <3>2, <3>3, <3>4
  <2>2. \A l \in LogBlock : Due(l)' = Due(l)
    BY <1>0, <2>1, QuietPages
  <2>3. HeldInv'
    BY <1>0, <1>a, <2>1, <2>2 DEF DataInv, HeldInv, Same
  <2> QED
    BY <1>3, <2>1, <2>3
<1>6. CASE UBI_Read
  <2>1. /\ ~Risky /\ ~failed /\ ~failed' /\ pc = "idle"
        /\ UNCHANGED <<nand, map, written, dice_hold, stripped, pc, req>>
    BY <1>6 DEF UBI_Read, Risky, table
  <2>2. \A l \in LogBlock : Due(l)' = Due(l)
    BY <1>0, <2>1, QuietPages
  <2>3. HeldInv'
    BY <1>0, <1>a, <2>1, <2>2 DEF DataInv, HeldInv, Same
  <2> QED
    BY <1>3, <2>1, <2>3
<1>7. CASE Check
  <2>1. /\ ~Risky /\ pc = "check" /\ pc' = (IF failed THEN "recover" ELSE "release")
        /\ UNCHANGED <<nand, map, written, dice_hold, stripped, failed, req>>
    BY <1>7 DEF Check, CheckStatus, Risky, risks, table
  <2>2. \A l \in LogBlock : Due(l)' = Due(l)
    BY <1>0, <2>1, QuietPages
  <2>3. HeldInv'
    BY <1>0, <1>a, <2>1, <2>2 DEF DataInv, HeldInv, Same
  <2> QED
    BY <1>3, <2>1, <2>3
<1>8. ASSUME NEW next, NoFreeBlock(next) PROVE FALSE
  BY <1>8 DEF NoFreeBlock, Risky
<1>9. CASE RecoverHeld
  <2>1. /\ pc = "recover" /\ dice_hold # NoHold /\ dice_hold \in HeldPage
        /\ UNCHANGED <<req, written>>
    BY <1>9, <1>a DEF RecoverHeld
  <2>2. /\ dice_hold.phy \in PhyBlock /\ dice_hold.log \in LogBlock
        /\ dice_hold.page \in Page /\ dice_hold.ec \in Nat /\ dice_hold.cell \in Cell
        /\ HeldCell \in Cell /\ HeldCell.data = dice_hold.cell.data
    BY <2>1 DEF HeldPage, HeldCell, Cell, Old
  <2>3. ASSUME NEW n \in Skips, n < Len(free),
               CopyFails(dice_hold.phy, dice_hold.page, n)
        PROVE  DataInv'
    <3>1. /\ ~Risky /\ failed' /\ UNCHANGED <<map, dice_hold, pc, stripped>>
      BY <2>3 DEF CopyFails, Risky
    <3>2. \A l \in LogBlock : nand'[map[l]] = nand[map[l]]
      BY <1>0, <2>2, <2>3, <3>1, CopyFailsData
    <3>3. \A l \in LogBlock : (Requested(l)' <=> Requested(l)) /\ Due(l)' = Due(l)
      BY <2>1, <3>1 DEF Requested, Due
    <3>4. RequestInv'
      BY <1>0, <2>1, <3>1, <3>3 DEF RequestInv
    <3>5. PageInv'
      BY <1>0, <2>1, <3>1, <3>2, <3>3 DEF PageInv, PageHeld, PageAwaited, Same
    <3>6. HeldInv'
      BY <1>0, <2>1, <2>2, <3>1, <3>3 DEF DataInv, HeldInv
    <3> QED
      BY <3>4, <3>5, <3>6 DEF DataInv
  <2>4. ASSUME NEW n \in Skips, NEW ok \in BOOLEAN, n < Len(free),
               Replace(dice_hold.log, dice_hold.phy, dice_hold.ec, dice_hold.page,
                       HeldCell, n, ok),
               dice_hold' = [dice_hold EXCEPT !.phy = Taken(n), !.ec = TakenEc(n)],
               pc' = (IF ok THEN "release" ELSE "recover"),
               stripped' = (stripped \/ dice_hold.cell # HeldCell),
               UNCHANGED <<swallowed, misplaced, exhausted, refused>>
        PROVE  DataInv'
    <3> DEFINE log == dice_hold.log
               page == dice_hold.page
    <3>1. ~Risky /\ ~twice'
      BY <2>4 DEF Replace, Risky
    <3>2. /\ dice_hold.phy = map[log] /\ Due(log) = page + 1
          /\ written[log][page + 1] = dice_hold.cell
      BY <1>0, <2>1, <3>1 DEF DataInv, HeldInv
    <3>3. /\ \A l \in LogBlock \ {log} : map'[l] = map[l] /\ nand'[map[l]] = nand[map[l]]
          /\ map'[log] = Taken(n)
          /\ \A p \in 0 .. page - 1 : nand'[map'[log]][p] = nand[map[log]][p]
          /\ ok => nand'[map'[log]][page] = HeldCell
      BY <1>0, <2>2, <2>4, <3>1, <3>2, ReplaceData
    <3>4. /\ dice_hold'.phy = Taken(n) /\ dice_hold'.log = log
          /\ dice_hold'.page = page /\ dice_hold'.cell = dice_hold.cell
          /\ dice_hold' # NoHold
      <4>1. dice_hold' \in HeldPage
        BY <2>1, <2>4, TakenType DEF HeldPage
      <4> QED
        BY <2>1, <2>4, <4>1, HeldIsHold DEF HeldPage
    <3>5. \A l \in LogBlock : (Requested(l)' <=> Requested(l)) /\ Due(l)' = Due(l)
      BY <2>1, <2>4 DEF Requested, Due
    <3>6. RequestInv'
      BY <1>0, <2>1, <3>1, <3>5 DEF RequestInv
    <3>7. /\ stripped => stripped'
          /\ ~stripped' => HeldCell = dice_hold.cell
      BY <2>4
    <3> HIDE DEF log, page
    <3>8. PageInv'
      <4> SUFFICES ASSUME NEW l \in LogBlock, NEW p \in 0 .. Due(l) - 1
                   PROVE  PageHeld(l, p)' \/ Same(nand[map[l]][p], written[l][p + 1])'
        BY <3>5 DEF PageInv
      <4>1. PageHeld(l, p) \/ Same(nand[map[l]][p], written[l][p + 1])
        BY <1>0, <2>1, <3>1 DEF PageInv, PageAwaited
      <4>2. CASE PageHeld(l, p)
        BY <3>4, <4>2 DEF PageHeld, log, page
      <4>3. CASE ~PageHeld(l, p)
        <5>1. Same(nand[map[l]][p], written[l][p + 1])
          BY <4>1, <4>3
        <5>2. nand'[map'[l]][p] = nand[map[l]][p]
          <6>1. CASE l # log
            BY <3>3, <6>1
          <6>2. CASE l = log
            <7>1. p # page
              BY <2>1, <4>3, <6>2 DEF PageHeld, log, page
            <7>2. p \in 0 .. page - 1
              BY <2>2, <3>2, <6>2, <7>1, SizeAssumption DEF Page, page
            <7> QED
              BY <3>3, <6>2, <7>2
          <6> QED
            BY <6>1, <6>2
        <5> QED
          BY <2>1, <3>7, <5>1, <5>2 DEF Same
      <4> QED
        BY <4>2, <4>3
    <3>9. HeldInv'
      <4>0. Due(dice_hold.log)' = Due(log)
        BY <2>1, <2>4, <3>4 DEF Due, Requested
      <4>1. /\ dice_hold'.phy = map'[dice_hold'.log]
            /\ Due(dice_hold.log)' = dice_hold'.page + 1
            /\ written'[dice_hold'.log][dice_hold'.page + 1] = dice_hold'.cell
        BY <2>1, <2>2, <3>2, <3>3, <3>4, <4>0 DEF log
      <4>2. ok => Same(nand[dice_hold.phy][dice_hold.page], dice_hold.cell)'
        BY <2>2, <3>3, <3>4, <3>7 DEF Same
      <4> QED
        BY <2>4, <3>4, <4>1, <4>2 DEF HeldInv
    <3> QED
      BY <3>6, <3>8, <3>9 DEF DataInv
  <2> QED
    BY <1>8, <1>9, <2>3, <2>4 DEF RecoverHeld
<1>10. CASE RecoverAssert
  <2>1. ~Risky /\ pc = "recover" /\ dice_hold = NoHold
    BY <1>10 DEF RecoverAssert, Risky, risks
  <2> QED
    BY <1>0, <2>1 DEF DataInv, HeldInv
<1>11. CASE ReleaseAndProgram
  <2>1. /\ ~Risky /\ pc = "release" /\ req.page \in Page /\ req.phy \in PhyBlock
        /\ req.log \in LogBlock /\ UNCHANGED <<map, written, stripped>>
        /\ req.page # NoPage
    BY <1>11 DEF ReleaseAndProgram, Risky, table, TypeOK, CallInv, Request
  <2>2. \A l \in LogBlock : Requested(l) <=> l = req.log
    BY <2>1 DEF Requested
  <2>3. /\ Len(written[req.log]) = req.page + 1
        /\ written[req.log][req.page + 1] = req.cell
    BY <1>0, <2>1, <2>2 DEF RequestInv
  <2>4. /\ Due(req.log) = req.page
        /\ \A l \in LogBlock \ {req.log} : Due(l) = Len(written[l])
    BY <2>1, <2>2, <2>3, SizeAssumption DEF Due, Page
  <2>5. \A l \in LogBlock : \A p \in 0 .. Due(l) - 1 :
          Same(nand[map[l]][p], written[l][p + 1])
    BY <1>0, <2>1, AllProgrammed
  <2>6. CASE pc' = "hung" /\ req' = req /\ UNCHANGED nand
    <3>1. \A l \in LogBlock : (Requested(l)' <=> Requested(l)) /\ Due(l)' = Due(l)
      BY <2>1, <2>6 DEF Requested, Due
    <3>2. RequestInv'
      BY <1>0, <2>1, <2>6, <3>1 DEF RequestInv
    <3>3. PageInv'
      BY <2>1, <2>5, <2>6, <3>1 DEF PageInv, Same
    <3> QED
      BY <2>6, <3>2, <3>3 DEF DataInv
  <2>7. ASSUME NEW ok \in Outcome,
               nand' = Programmed(req.phy, req.page, req.cell, ok),
               failed' = ~ok, misplaced' = (misplaced \/ map[req.log] # req.phy),
               dice_hold' = Held, pc' = (IF req.async THEN "idle" ELSE "sync"),
               pc' # "idle" => req' = req
        PROVE  DataInv'
    <3>1. map[req.log] = req.phy
      BY <2>7 DEF Risky
    <3>2. /\ \A l \in LogBlock \ {req.log} : nand'[map[l]] = nand[map[l]]
          /\ \A p \in Page \ {req.page} : nand'[req.phy][p] = nand[req.phy][p]
          /\ ok => nand'[req.phy][req.page] = req.cell
      <4>1. \A l \in LogBlock \ {req.log} : map[l] # req.phy /\ map[l] \in PhyBlock
        BY <1>0, <2>1, <3>1 DEF Roles, TypeOK
      <4>2. nand \in [PhyBlock -> [Page -> Cell \cup {Erased, Torn}]]
        BY DEF TypeOK
      <4> QED
        BY <2>1, <2>7, <4>1, <4>2 DEF Programmed
    <3>3. \A l \in LogBlock : Due(l)' = Len(written[l])
      BY <2>1, <2>7 DEF Requested, Due
    <3>4. /\ req.async => /\ dice_hold'.log = req.log /\ dice_hold'.page = req.page
                          /\ dice_hold'.phy = req.phy /\ dice_hold'.cell = req.cell
                          /\ dice_hold' # NoHold /\ pc' = "idle"
          /\ ~req.async => dice_hold' = NoHold /\ pc' = "sync" /\ req' = req
      BY <2>7 DEF Held, NoHold
    <3>5. RequestInv'
      <4>1. \A l \in LogBlock : Requested(l)' => l = req.log /\ req' = req
        BY <2>7, <3>4 DEF Requested
      <4> QED
        BY <2>1, <2>3, <4>1 DEF RequestInv
    <3>6. PageInv'
      <4> SUFFICES ASSUME NEW l \in LogBlock, NEW p \in 0 .. Len(written[l]) - 1
                   PROVE  PageHeld(l, p)' \/ PageAwaited(l, p)'
                            \/ Same(nand[map[l]][p], written[l][p + 1])'
        BY <3>3 DEF PageInv
      <4>1. CASE l = req.log /\ p = req.page
        <5>1. CASE req.async
          BY <3>4, <4>1, <5>1 DEF PageHeld
        <5>2. CASE ~req.async
          BY <3>4, <4>1, <5>2 DEF PageAwaited
        <5> QED
          BY <5>1, <5>2
      <4>2. CASE l = req.log /\ p # req.page
        <5>1. p \in 0 .. Due(l) - 1 /\ p \in Page
          BY <2>1, <2>3, <2>4, <4>2, SizeAssumption DEF Page
        <5> QED
          BY <2>1, <2>5, <3>1, <3>2, <4>2, <5>1 DEF Same
      <4>3. CASE l # req.log
        BY <2>1, <2>4, <2>5, <3>2, <4>3 DEF Same
      <4> QED
        BY <4>1, <4>2, <4>3
    <3>7. HeldInv'
      <4>1. CASE req.async
        <5>1. Due(dice_hold.log)' = Len(written[req.log])
          BY <2>1, <3>4, <4>1 DEF Requested, Due
        <5>2. /\ dice_hold'.phy = map'[dice_hold'.log]
              /\ Due(dice_hold.log)' = dice_hold'.page + 1
              /\ written'[dice_hold'.log][dice_hold'.page + 1] = dice_hold'.cell
          BY <2>1, <2>3, <3>1, <3>4, <4>1, <5>1
        <5>3. ok => Same(nand[dice_hold.phy][dice_hold.page], dice_hold.cell)'
          BY <3>2, <3>4, <4>1 DEF Same
        <5> QED
          BY <2>7, <3>4, <4>1, <5>2, <5>3 DEF HeldInv
      <4>2. CASE ~req.async
        BY <2>1, <2>7, <3>1, <3>2, <3>4, <4>2 DEF HeldInv
      <4> QED
        BY <4>1, <4>2
    <3> QED
      BY <3>5, <3>6, <3>7 DEF DataInv
  <2> QED
    BY <1>11, <2>6, <2>7 DEF ReleaseAndProgram
<1>12. CASE ReleaseOnly
  <2>1. /\ ~Risky /\ pc = "release" /\ pc' \in {"idle", "erase"} /\ dice_hold' = NoHold
        /\ UNCHANGED <<nand, failed, map, written, stripped>> /\ ~failed
        /\ req.page = NoPage
    BY <1>12 DEF ReleaseOnly, Risky, risks, table, CallInv
  <2>2. \A l \in LogBlock : ~Requested(l)' /\ ~Requested(l) /\ Due(l)' = Due(l)
    BY <2>1 DEF Requested, Due
  <2>3. RequestInv'
    BY <2>2 DEF RequestInv
  <2>4. PageInv'
    BY <1>0, <2>1, <2>2, AllProgrammed DEF PageInv, Same
  <2> QED
    BY <2>1, <2>3, <2>4 DEF DataInv, HeldInv
<1>13. CASE SyncDone
  <2>1. /\ ~Risky /\ pc = "sync" /\ pc' = "idle" /\ ~failed /\ dice_hold = NoHold
        /\ UNCHANGED <<nand, failed, map, written, stripped, dice_hold>>
        /\ req.page # NoPage /\ req.log \in LogBlock
    BY <1>13 DEF SyncDone, Risky, risks, table, CallInv, TypeOK, Request
  <2>2. \A l \in LogBlock : ~Requested(l)' /\ Due(l)' = Due(l)
    BY <2>1 DEF Requested, Due
  <2>3. RequestInv'
    BY <2>2 DEF RequestInv
  <2>4. /\ nand[map[req.log]][req.page] = req.cell
        /\ written[req.log][req.page + 1] = req.cell
    BY <1>0, <2>1 DEF DataInv, HeldInv, RequestInv, Requested
  <2>5. PageInv'
    BY <1>0, <2>1, <2>2, <2>4 DEF PageInv, PageHeld, PageAwaited, Same
  <2> QED
    BY <2>1, <2>3, <2>5 DEF DataInv, HeldInv
<1>14. CASE RecoverSync
  <2>1. /\ pc = "sync" /\ dice_hold = NoHold /\ req.page \in Page /\ req.phy \in PhyBlock
        /\ req.log \in LogBlock /\ req.ec \in Nat /\ req.cell \in Cell
        /\ UNCHANGED <<req, written>> /\ req.page # NoPage
    BY <1>14 DEF RecoverSync, TypeOK, CallInv, Request
  <2>2. ASSUME NEW n \in Skips, n < Len(free), CopyFails(req.phy, req.page, n)
        PROVE  DataInv'
    <3>1. /\ ~Risky /\ failed' /\ UNCHANGED <<map, dice_hold, pc, stripped>>
          /\ ~Released(req.phy)
      BY <2>2 DEF CopyFails, Risky
    <3>2. \A l \in LogBlock : nand'[map[l]] = nand[map[l]]
      BY <1>0, <2>1, <2>2, <3>1, CopyFailsData
    <3>3. \A l \in LogBlock : (Requested(l)' <=> Requested(l)) /\ Due(l)' = Due(l)
      BY <2>1, <3>1 DEF Requested, Due
    <3>4. RequestInv'
      BY <1>0, <2>1, <3>1, <3>3 DEF RequestInv
    <3>5. PageInv'
      BY <1>0, <2>1, <3>1, <3>2, <3>3 DEF PageInv, PageHeld, PageAwaited, Same
    <3>6. HeldInv'
      BY <1>0, <2>1, <3>1 DEF DataInv, HeldInv
    <3> QED
      BY <3>4, <3>5, <3>6 DEF DataInv
  <2>3. ASSUME NEW n \in Skips, NEW ok \in BOOLEAN, n < Len(free),
               Replace(req.log, req.phy, req.ec, req.page, req.cell, n, ok),
               UNCHANGED <<dice_hold, pc, swallowed, misplaced, stripped, exhausted,
                           refused>>
        PROVE  DataInv'
    <3>1. /\ ~Risky /\ ~twice' /\ ~Released(req.phy) /\ failed' = ~ok
      BY <2>3 DEF Replace, Risky
    <3>2. req.phy = map[req.log]
      BY <1>0, <2>1, <3>1 DEF DataInv, HeldInv
    <3>3. /\ \A l \in LogBlock \ {req.log} :
               map'[l] = map[l] /\ nand'[map[l]] = nand[map[l]]
          /\ \A p \in 0 .. req.page - 1 :
               nand'[map'[req.log]][p] = nand[map[req.log]][p]
          /\ ok => nand'[map'[req.log]][req.page] = req.cell
      BY <1>0, <2>1, <2>3, <3>1, <3>2, ReplaceData
    <3>4. \A l \in LogBlock : (Requested(l)' <=> Requested(l)) /\ Due(l)' = Due(l)
      BY <2>1, <2>3 DEF Requested, Due
    <3>5. RequestInv'
      BY <1>0, <2>1, <3>1, <3>4 DEF RequestInv
    <3>6. Due(req.log) = req.page + 1
      <4>1. Requested(req.log)
        BY <2>1 DEF Requested
      <4> QED
        BY <1>0, <2>1, <3>1, <4>1 DEF Due, RequestInv
    <3>7. PageInv'
      <4> SUFFICES ASSUME NEW l \in LogBlock, NEW p \in 0 .. Due(l) - 1
                   PROVE  PageAwaited(l, p)' \/ Same(nand[map[l]][p], written[l][p + 1])'
        BY <3>4 DEF PageInv
      <4>1. PageAwaited(l, p) \/ Same(nand[map[l]][p], written[l][p + 1])
        BY <1>0, <2>1, <3>1 DEF PageInv, PageHeld
      <4>2. CASE l = req.log /\ p = req.page
        BY <2>1, <2>3, <4>2 DEF PageAwaited
      <4>3. CASE l = req.log /\ p # req.page
        <5>1. p \in 0 .. req.page - 1
          BY <2>1, <3>6, <4>3, SizeAssumption DEF Page
        <5> QED
          BY <2>1, <2>3, <3>3, <4>1, <4>3, <5>1 DEF PageAwaited, Same
      <4>4. CASE l # req.log
        BY <2>1, <2>3, <3>3, <4>1, <4>4 DEF PageAwaited, Same
      <4> QED
        BY <4>2, <4>3, <4>4
    <3>8. Released(req.phy)'
      <4> DEFINE rest == SubSeq(free, n + 2, Len(free))
                 ec == req.ec + STATIC_WL_THRESHOLD
                 entry == [blk |-> req.phy, ec |-> ec]
      <4>1. /\ free' = FreeBlock_Put(rest, req.phy, ec)
            /\ free \in Seq(FreeEntry) /\ n \in Nat
        BY <2>3 DEF Replace, Rest, TypeOK, Skips
      <4>2. rest \in Seq(FreeEntry)
        BY <2>3, <4>1, RestProperties
      <4> HIDE DEF rest, ec
      <4>3. PICK k \in 0 .. Len(rest) : free' = PutAt(rest, k, entry)
        BY <4>1, <4>2, PutInserts
      <4>4. Len(rest) \in Nat
        BY <4>2, LenProperties
      <4>5. Len(free') = Len(rest) + 1 /\ free'[k + 1] = entry /\ k + 1 \in 1 .. Len(rest) + 1
        <5> HIDE DEF entry
        <5> QED
          BY <4>3, <4>4 DEF PutAt
      <4> QED
        BY <2>1, <4>5 DEF Released
    <3>9. HeldInv'
      <4>1. pc' = "sync" /\ dice_hold' = NoHold
        BY <2>1, <2>3
      <4> QED
        BY <2>1, <3>1, <3>3, <3>8, <4>1 DEF HeldInv
    <3> QED
      BY <3>5, <3>7, <3>9 DEF DataInv
  <2> QED
    BY <1>8, <1>14, <2>2, <2>3 DEF RecoverSync
<1>15. CASE ReturnError
  <2>1. ~Risky /\ pc = "error"
    BY <1>15 DEF ReturnError, Risky, risks
  <2> QED
    BY <1>0, <2>1 DEF DataInv, HeldInv
<1>16. CASE EraseRemap
  <2>1. erasing \in LogBlock /\ UNCHANGED req /\ pc = "erase" /\ dice_hold = NoHold
    BY <1>16 DEF EraseRemap, TypeOK, CallInv
  <2>2. ASSUME NEW n \in Skips, n < Len(free),
               nand' = [nand EXCEPT ![Taken(n)] = [p \in Page |-> Erased]],
               failed' = FALSE,
               map' = [map EXCEPT ![erasing] = Taken(n)],
               written' = [written EXCEPT ![erasing] = <<>>],
               pc' = "idle", UNCHANGED <<dice_hold, risks>>
        PROVE  DataInv'
    <3>1. ~Risky /\ UNCHANGED stripped
      BY <2>2 DEF Risky, risks
    <3>2. Taken(n) \in PhyBlock /\ \A l \in LogBlock : map[l] # Taken(n)
      <4>1. n + 1 \in 1 .. Len(free)
        BY <2>2, LenProperties DEF Skips, TypeOK
      <4> QED
        BY <1>0, <2>2, <3>1, <4>1, TakenType DEF Roles, Taken
    <3>3. /\ \A l \in LogBlock \ {erasing} :
               map'[l] = map[l] /\ nand'[map[l]] = nand[map[l]] /\ written'[l] = written[l]
          /\ written'[erasing] = <<>>
      BY <2>1, <2>2, <3>2 DEF TypeOK
    <3>4. \A l \in LogBlock : /\ ~Requested(l)' /\ Due(l)' = Len(written'[l])
                              /\ Due(l) = Len(written[l])
      BY <2>1, <2>2 DEF Requested, Due
    <3>5. RequestInv'
      BY <3>4 DEF RequestInv
    <3>6. PageInv'
      <4> SUFFICES ASSUME NEW l \in LogBlock, NEW p \in 0 .. Len(written'[l]) - 1
                   PROVE  Same(nand[map[l]][p], written[l][p + 1])'
        BY <3>4 DEF PageInv
      <4>1. l # erasing
        <5>1. Len(<<>>) = 0
          BY EmptySeq
        <5> QED
          BY <3>3, <5>1
      <4>2. p \in 0 .. Due(l) - 1
        BY <3>3, <3>4, <4>1
      <4>3. Same(nand[map[l]][p], written[l][p + 1])
        BY <1>0, <2>1, <3>1, <4>2 DEF PageInv, PageHeld, PageAwaited
      <4>4. nand'[map'[l]] = nand[map[l]] /\ written'[l] = written[l]
        BY <3>3, <4>1
      <4> HIDE DEF Due
      <4> QED
        BY <3>1, <4>3, <4>4 DEF Same
    <3>7. HeldInv'
      BY <2>1, <2>2 DEF HeldInv
    <3> QED
      BY <3>5, <3>6, <3>7 DEF DataInv
  <2> QED
    BY <1>8, <1>16, <2>1, <2>2 DEF EraseRemap
<1> QED
  BY <1>1, <1>2, <1>4, <1>5, <1>6, <1>7, <1>9, <1>10, <1>11, <1>12, <1>13, <1>14,
     <1>15, <1>16 DEF Next, Step

-----------------------------------------------------------------------------
(***************************************************************************)
(* The theorems.                                                           *)
(***************************************************************************)

\* The initial state: nothing written, nothing held, every block one role.
LEMMA InitInv == Init => IInv
<1> SUFFICES ASSUME Init PROVE IInv
  OBVIOUS
<1>1. TypeOK
  <2>1. free \in Seq(FreeEntry)
    <3>1. \A i \in 1 .. NFree : NLog + i - 1 \in PhyBlock
      BY LogAssumption, SizeAssumption DEF PhyBlock
    <3>2. \A i \in 1 .. NFree : [blk |-> NLog + i - 1, ec |-> 0] \in FreeEntry
      BY <3>1 DEF FreeEntry
    <3> QED
      BY <3>2, SizeAssumption, SeqDef DEF Init
  <2>2. written \in [LogBlock -> Seq(Cell)] /\ \A l \in LogBlock : Len(written[l]) <= PPB
    BY EmptySeq, SizeAssumption DEF Init
  <2>3. NoReq \in Request
    BY Ranges DEF NoReq, Request
  <2>4. map \in [LogBlock -> PhyBlock] /\ ecs \in [LogBlock -> Nat]
    BY Ranges DEF Init
  <2>5. nand \in [PhyBlock -> [Page -> Cell \cup {Erased, Torn}]]
    BY DEF Init
  <2>6. fails \in 0 .. MaxFail /\ erases \in 0 .. MaxErase /\ buffers \in Int
    BY BoundAssumption DEF Init
  <2>7. dice_hold \in HeldPage \cup {NoHold} /\ erasing \in LogBlock \cup {NoBlock}
    BY DEF Init
  <2>8. {swallowed, misplaced, stripped, twice, exhausted, refused} \subseteq BOOLEAN
    BY DEF Init
  <2>9. failed \in BOOLEAN /\ pc \in PcValues /\ req \in Request
    BY <2>3 DEF Init, PcValues
  <2> QED
    BY <2>1, <2>2, <2>4, <2>5, <2>6, <2>7, <2>8, <2>9 DEF TypeOK
<1>2. CallInv /\ BufferInv
  BY DEF Init, CallInv, BufferInv, HeldBuffers, RequestBuffers, Busy, NoReq
<1>3. RoleInv
  <2>1. \A i \in 1 .. NFree : free[i].blk = NLog + i - 1
    BY DEF Init
  <2>2. Len(free) = NFree
    BY SizeAssumption, LenProperties, <1>1 DEF Init, TypeOK
  <2>3. Roles(map, free)
    BY <2>1, <2>2, LogAssumption, SizeAssumption DEF Roles, Init
  <2> QED
    BY <2>3 DEF RoleInv, Init, Busy
<1>4. DataInv
  <2>1. \A l \in LogBlock : ~Requested(l) /\ Due(l) = 0
    BY EmptySeq DEF Init, Requested, Due, Busy
  <2>2. RequestInv
    BY <2>1 DEF RequestInv
  <2>3. PageInv
    BY <2>1 DEF PageInv
  <2>4. HeldInv
    BY DEF HeldInv, Init
  <2> QED
    BY <2>2, <2>3, <2>4 DEF DataInv
<1> QED
  BY <1>1, <1>2, <1>3, <1>4 DEF IInv

\* Every step keeps the invariant.
LEMMA NextInv == IInv /\ [Next]_vars => IInv'
  BY TypeStep, RoleStep, BufferStep, DataStep DEF IInv

\* The invariant holds of every behaviour.
THEOREM Invariant == Spec => []IInv
  BY InitInv, NextInv, PTL DEF Spec

\* Types: tables, held page and request of core/ubi/ubi_api.c stay in range.
THEOREM TypeCorrect == Spec => []TypeOK
<1>1. IInv => TypeOK
  BY DEF IInv
<1> QED
  BY <1>1, Invariant, PTL

\* INDEX_FreeBlock_Get, _Put and ubi_reclaim_badblock never let two logical
\* blocks share a physical one, and never keep a block free that is in use.
THEOREM BlocksHaveOneRole == Spec => []OneRole
<1>1. IInv => OneRole
  BY DEF IInv, RoleInv, Roles, OneRole
<1> QED
  BY <1>1, Invariant, PTL

\* UBI_Write and UBI_Flush release each page buffer once, whatever fails.
THEOREM BuffersAreReleased == Spec => []BuffersReleased
<1>1. IInv => BuffersReleased
  BY DEF IInv, BufferInv, BuffersReleased, HeldBuffers, RequestBuffers, Busy
<1> QED
  BY <1>1, Invariant, PTL

\* What the invariant says of a page that was written.
LEMMA WrittenPage ==
  ASSUME IInv, ~Risky, NEW l \in LogBlock, NEW p \in 0 .. Len(written[l]) - 1
  PROVE  Pending(l, p) \/ Same(nand[map[l]][p], written[l][p + 1])
<1>1. Len(written[l]) \in Nat
  BY LenProperties DEF IInv, TypeOK
<1>2. CASE p \in 0 .. Due(l) - 1
  BY <1>2 DEF IInv, DataInv, PageInv, PageHeld, PageAwaited, Pending
<1>3. CASE p \notin 0 .. Due(l) - 1
  <2>1. Requested(l) /\ p = Len(written[l]) - 1
    BY <1>1, <1>3 DEF Due
  <2>2. Len(written[l]) = req.page + 1 /\ req.page \in Int
    BY <2>1, SizeAssumption
    DEF IInv, DataInv, RequestInv, TypeOK, Request, Page, NoPage
  <2> QED
    BY <2>1, <2>2 DEF Requested, Pending, Busy
<1> QED
  BY <1>2, <1>3

\* ubi_reclaim_badblock and the retry of the held page lose no page that was
\* written, wherever its block goes and however often that fails.
THEOREM NoPageLost == Spec => []WrittenOrHeld
<1>1. IInv => WrittenOrHeld
  BY WrittenPage DEF WrittenOrHeld, Risky, Same
<1> QED
  BY <1>1, Invariant, PTL

\* Nor the location of a retained version in its spare area, outside the window
\* in which ubi_hold_buffer has kept two spare words only.
THEOREM NoLocationLost == Spec => []RetainedLocationKept
<1>1. IInv => RetainedLocationKept
  BY WrittenPage DEF RetainedLocationKept, Risky, Same
<1> QED
  BY <1>1, Invariant, PTL

=============================================================================
