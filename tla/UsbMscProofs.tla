---------------------------- MODULE UsbMscProofs ----------------------------
(***************************************************************************)
(* Proofs about the USB front end, for any number of buffers, pages and    *)
(* sectors a page, and any commands.                                       *)
(*                                                                         *)
(* First, that no page buffer has two uses: for any number of resets, and  *)
(* whether or not the interrupt handlers keep up with the host.  Then, for *)
(* a host that waits for the handlers and does not reset (Undisturbed),    *)
(* that it reads what it wrote last, every page is tagged for its data,    *)
(* and no buffer is lost.                                                  *)
(***************************************************************************)
EXTENDS UsbMsc, FiniteSetTheorems, SequenceTheorems, WellFoundedInduction, TLAPS

(***************************************************************************)
(* The invariant.                                                          *)
(***************************************************************************)

\* Types of what decides about buffers; offsets and lengths may be any number.
Entry == [type : {"READ", "WRITE", "MERGE"}, offset : Int, length : Int,
          buffer : Buffer \cup {NoBuffer}, tag : Tags]
Block == [op : Ops, off : Int, len : Int, tag : Tags, dTag : Int]
Isr == [at : {"off", "complete", "nak", "hung"}, val : SUBSET {"out", "in"}, naki : BOOLEAN,
        clear : BOOLEAN]
CbwOnly == {Nothing, [what |-> "cbw"]}
ToReceive == CbwOnly \cup [what : {"data"}, buf : Buffer, at : Int, n : Int]
Received == CbwOnly \cup [what : {"data"}, n : Int]
ToSend == {Nothing} \cup [what : {"csw", "info"}, dTag : Int] \cup [what : {"data"}, n : Int]

Types ==
  /\ phase \in Phases /\ hcmd \in Block /\ CBW \in Block /\ moved \in Int
  /\ Offset \in Int /\ Length \in Int /\ merge_count \in Int
  /\ BulkBuf \in Buffer \cup {NoBuffer} /\ dice_hold \in Buffer \cup {NoBuffer}
  /\ merge_stage \in {"NONE", "START", "FINISH"}
  /\ isr \in Isr /\ out_nak \in BOOLEAN /\ in_nak \in BOOLEAN
  /\ ep_out \in ToReceive /\ out_done \in Received
  /\ ep_in \in ToSend
  /\ ut_list \in Seq(Entry) /\ pb_pool_used \subseteq Buffer /\ Read_BulkLen \in Int
  /\ task \in {"next", "READ", "READY", "WRITE", "MERGE", "pop"}

\* A NAK of the OUT endpoint stays true until its handler has primed the
\* endpoint, and no transfer that is not handled is left then.
NakOut == isr.at = "nak" /\ "out" \in isr.val
NakInv ==
  /\ out_nak \/ NakOut => ep_out = Nothing
  /\ phase \in {"in", "csw", "confused"} => ep_out = Nothing /\ ~out_nak /\ ~NakOut
  /\ in_nak /\ ~(isr.at = "nak" /\ "in" \in isr.val) => ep_out = Nothing /\ ~NakOut
  /\ isr.at = "complete" /\ isr.naki =>
       ep_out = Nothing /\ (out_done # Nothing => "out" \in isr.val)
  /\ NakOut \/ ep_out # Nothing => out_done = Nothing

\* The main loop is at the entry that heads the list; a page it merges is waited
\* for.
TaskInv ==
  /\ task # "next" => ut_list # <<>>
  /\ task = "WRITE" => Head(ut_list).type = "WRITE"
  /\ task = "MERGE" => merge_stage = "START" /\ Head(ut_list).type = "MERGE"
  /\ task \in {"READ", "READY"} => Head(ut_list).type = "READ"

\* The bulk-out transfer has a buffer of its own from its allocation until its
\* page is queued, also while that page is merged.
Transferring(ep) == ep.what = "data"
Active == merge_stage # "NONE" \/ Transferring(ep_out) \/ Transferring(out_done)
BufferInv ==
  /\ \A i \in Waiting("WRITE") : /\ ut_list[i].buffer \in pb_pool_used
                                 /\ ut_list[i].buffer # dice_hold
                                 /\ Active => ut_list[i].buffer # BulkBuf
  /\ \A i, j \in Waiting("WRITE") : ut_list[i].buffer = ut_list[j].buffer => i = j
  /\ dice_hold # NoBuffer => dice_hold \in pb_pool_used
  /\ Active => BulkBuf \in pb_pool_used /\ BulkBuf # dice_hold
  /\ Transferring(ep_out) => ep_out.buf = BulkBuf
  /\ Transferring(ep_out) \/ Transferring(out_done) => merge_stage = "NONE"

Invariants == Types /\ NakInv /\ TaskInv /\ BufferInv

-----------------------------------------------------------------------------
(***************************************************************************)
(* Facts about numbers, buffers and the list.                              *)
(***************************************************************************)

\* Offsets and lengths stay numbers.
LEMMA NumberTypes ==
  ASSUME NEW s \in Int, NEW len \in Int
  PROVE  /\ WithinPage(s, len) \in Int /\ Smaller(s, len) \in Int
         /\ PageStart(PageOf(s)) \in Int /\ s % SECTOR_PER_MPP \in Int
<1>1. SECTOR_PER_MPP \in Nat /\ SECTOR_PER_MPP > 0
  BY GeometryAssumption
<1>2. s % SECTOR_PER_MPP \in Int /\ PageOf(s) \in Int
  BY <1>1 DEF PageOf
<1>3. PageStart(PageOf(s)) \in Int
  BY <1>1, <1>2 DEF PageStart
<1>4. WithinPage(s, len) \in Int /\ Smaller(s, len) \in Int
  BY <1>1, <1>2 DEF WithinPage, Smaller
<1> QED
  BY <1>2, <1>3, <1>4

\* BUF_Allocate returns a buffer that is not in use, or none.
LEMMA AllocateFacts ==
  /\ BUF_Allocate # NoBuffer => BUF_Allocate \in Buffer \ pb_pool_used
  /\ NoBuffer \notin Buffer /\ Buffer \subseteq Nat
<1>1. NoBuffer \notin Buffer /\ Buffer \subseteq Nat
  BY BufferAssumption DEF NoBuffer, Buffer
<1>2. ASSUME Buffer \ pb_pool_used # {}
      PROVE  \E b \in Buffer \ pb_pool_used : \A c \in Buffer \ pb_pool_used : b <= c
  <2> DEFINE free == Buffer \ pb_pool_used
  <2>1. free \subseteq Nat /\ free # {}
    BY <1>1, <1>2
  <2>2. \E b \in free : \A c \in free : ~(<<c, b>> \in OpToRel(<, Nat))
    <3> HIDE DEF free
    <3> QED
      BY <2>1, NatLessThanWellFounded, WFMin
  <2>3. PICK b \in free : \A c \in free : ~(<<c, b>> \in OpToRel(<, Nat))
    BY <2>2
  <2>4. ASSUME NEW c \in free PROVE b <= c
    <3>1. b \in Nat /\ c \in Nat
      BY <2>1
    <3>2. c < b => <<c, b>> \in OpToRel(<, Nat)
      BY <3>1 DEF OpToRel
    <3> HIDE DEF free
    <3>3. ~(<<c, b>> \in OpToRel(<, Nat))
      BY <2>3, Zenon
    <3>4. ~(c < b)
      BY <3>2, <3>3, Zenon
    <3> QED
      BY <3>1, <3>4
  <2> QED
    BY <2>4
<1> QED
  BY <1>1, <1>2 DEF BUF_Allocate

\* An entry is logged: the entries that wait stay, and it waits too.
LEMMA WaitingAppend ==
  ASSUME ut_list \in Seq(Entry), NEW e \in Entry, ut_list' = Append(ut_list, e),
         task' = task, task # "next" => ut_list # <<>>, NEW type
  PROVE  /\ ut_list' \in Seq(Entry) /\ ut_list' # <<>> /\ Len(ut_list') = Len(ut_list) + 1
         /\ ut_list # <<>> => Head(ut_list') = Head(ut_list)
         /\ Waiting(type)' = IF e.type = type THEN Waiting(type) \cup {Len(ut_list) + 1}
                                              ELSE Waiting(type)
         /\ \A i \in Waiting(type) : ut_list'[i] = ut_list[i]
         /\ \A i \in Waiting(type) : i \in Nat /\ i <= Len(ut_list)
         /\ Len(ut_list) + 1 \notin Waiting(type) /\ Len(ut_list) \in Nat
         /\ ut_list'[Len(ut_list) + 1] = e
<1>1. /\ ut_list' \in Seq(Entry) /\ ut_list' # <<>> /\ Len(ut_list') = Len(ut_list) + 1
      /\ \A i \in 1 .. Len(ut_list) : ut_list'[i] = ut_list[i]
      /\ ut_list'[Len(ut_list) + 1] = e
  BY AppendProperties
<1>2. /\ DOMAIN ut_list = 1 .. Len(ut_list) /\ Len(ut_list) \in Nat
      /\ DOMAIN ut_list' = 1 .. Len(ut_list) + 1
  BY <1>1, LenProperties
<1>3. ut_list # <<>> => Len(ut_list) + 1 # 1
  BY <1>2, EmptySeq, LenProperties
<1>4. /\ \A i \in 1 .. Len(ut_list) + 1 : i \in 1 .. Len(ut_list) \/ i = Len(ut_list) + 1
      /\ 1 .. Len(ut_list) \subseteq 1 .. Len(ut_list) + 1
      /\ Len(ut_list) + 1 \in 1 .. Len(ut_list) + 1
      /\ Len(ut_list) + 1 \notin 1 .. Len(ut_list)
      /\ \A i \in 1 .. Len(ut_list) : i \in Nat /\ i <= Len(ut_list)
  BY <1>2
<1>5. Queued(type)' = IF e.type = type THEN Queued(type) \cup {Len(ut_list) + 1}
                                       ELSE Queued(type)
  <2> DEFINE new == Len(ut_list) + 1
  <2> HIDE DEF new
  <2>1. /\ DOMAIN ut_list' = DOMAIN ut_list \cup {new} /\ new \notin DOMAIN ut_list
        /\ \A i \in DOMAIN ut_list : ut_list'[i] = ut_list[i]
        /\ ut_list'[new] = e
    BY <1>1, <1>2, <1>4 DEF new
  <2>2. Queued(type)' = IF e.type = type THEN Queued(type) \cup {new}
                                         ELSE Queued(type)
    BY <2>1 DEF Queued
  <2> QED
    BY <2>2 DEF new
<1>6. task = "pop" => Len(ut_list) + 1 # 1
  BY <1>3
<1>7. ut_list # <<>> => Head(ut_list') = Head(ut_list)
  BY HeadTailAppend
<1> QED
  BY <1>1, <1>2, <1>4, <1>5, <1>6, <1>7 DEF Waiting, Queued

\* The entry that has been executed is removed: the others keep their order.
LEMMA WaitingPop ==
  ASSUME ut_list \in Seq(Entry), ut_list # <<>>, ut_list' = Tail(ut_list),
         task = "pop", task' = "next", NEW type
  PROVE  /\ ut_list' \in Seq(Entry) /\ Len(ut_list') = Len(ut_list) - 1
         /\ \A i \in Waiting(type)' : /\ i \in Nat /\ i + 1 \in Waiting(type)
                                      /\ ut_list'[i] = ut_list[i + 1]
         /\ \A j \in Waiting(type) : /\ j \in Nat /\ j - 1 \in Waiting(type)'
                                     /\ ut_list'[j - 1] = ut_list[j]
<1>1. /\ ut_list' \in Seq(Entry) /\ Len(ut_list') = Len(ut_list) - 1
      /\ \A i \in 1 .. Len(ut_list') : ut_list'[i] = ut_list[i + 1]
  BY HeadTailProperties
<1>2. /\ DOMAIN ut_list = 1 .. Len(ut_list) /\ Len(ut_list) \in Nat
      /\ DOMAIN ut_list' = 1 .. Len(ut_list) - 1
  BY <1>1, LenProperties
<1>3. \A i \in 1 .. Len(ut_list) - 1 : i \in Nat /\ i + 1 \in 1 .. Len(ut_list) /\ i + 1 # 1
  BY <1>2
<1>4. \A j \in 1 .. Len(ut_list) :
        /\ j \in Nat
        /\ j # 1 => j - 1 \in 1 .. Len(ut_list) - 1 /\ (j - 1) + 1 = j
  BY <1>2
<1>5. \A i \in Waiting(type)' : /\ i \in Nat /\ i + 1 \in Waiting(type)
                                /\ ut_list'[i] = ut_list[i + 1]
  BY <1>1, <1>2, <1>3 DEF Waiting, Queued
<1>6. ASSUME NEW j \in Waiting(type)
      PROVE  j \in Nat /\ j - 1 \in Waiting(type)' /\ ut_list'[j - 1] = ut_list[j]
  <2>1. j \in 1 .. Len(ut_list) /\ j # 1 /\ ut_list[j].type = type
    BY <1>2, <1>6 DEF Waiting, Queued
  <2>2. /\ j \in Nat /\ j - 1 \in DOMAIN ut_list' /\ ut_list'[j - 1] = ut_list[j]
    BY <1>1, <1>2, <1>4, <2>1
  <2> QED
    BY <2>1, <2>2 DEF Waiting, Queued
<1> QED
  BY <1>1, <1>5, <1>6

-----------------------------------------------------------------------------
(***************************************************************************)
(* Types.                                                                  *)
(***************************************************************************)

\* Logging an entry keeps the list a list, and at most hangs the handler.
LEMMA PushType ==
  ASSUME Types, NEW e \in Entry, NEW handled \in Isr, Push(e, handled)
  PROVE  /\ ut_list' \in Seq(Entry) /\ isr' \in Isr
         /\ ut_list' = Append(ut_list, e)
         /\ isr' = handled \/ isr' = [handled EXCEPT !.at = "hung"]
<1>1. ut_list' \in Seq(Entry)
  BY AppendProperties DEF Types, Push
<1> QED
  BY <1>1 DEF Push, Isr

\* The entries that are logged, and what a handler leaves to do, have the types
\* of the list and of the handler.
LEMMA EntryTypes ==
  ASSUME Types, NEW off \in Int
  PROVE  /\ \A n \in Int : ReadEntry(off, n) \in Entry /\ ReadEntry(off, n).type = "READ"
         /\ \A b \in Buffer \cup {NoBuffer} : /\ PageEntry("WRITE", off, b) \in Entry
                                             /\ PageEntry("MERGE", off, b) \in Entry
         /\ \A type, b : /\ PageEntry(type, off, b).type = type
                         /\ PageEntry(type, off, b).buffer = b
         /\ \A e : /\ Handled(e) \in Isr /\ Handled(e).val = isr.val \ {e}
                   /\ Handled(e).at = isr.at /\ Handled(e).naki = isr.naki
<1>1. CBW.tag \in Tags /\ "none" \in Tags
  BY DEF Types, Block, Tags
<1>2. PageStart(PageOf(off)) \in Int /\ SECTOR_PER_MPP \in Int
  BY NumberTypes, GeometryAssumption
<1>3. isr \in Isr
  BY DEF Types
<1>4. \A e : /\ Handled(e) \in Isr /\ Handled(e).val = isr.val \ {e}
             /\ Handled(e).at = isr.at /\ Handled(e).naki = isr.naki
  BY <1>3 DEF Handled, Isr
<1> QED
  BY <1>1, <1>2, <1>4 DEF ReadEntry, PageEntry, Entry

\* A read that is queued.
LEMMA MemoryReadType ==
  ASSUME Types, NEW off \in Int, NEW len \in Int, NEW e, MSC_MemoryRead(off, len, e)
  PROVE  /\ ut_list' \in Seq(Entry) /\ isr' \in Isr /\ Offset' \in Int /\ Length' \in Int
         /\ Read_BulkLen' = 0
         /\ \E entry \in Entry : entry.type = "READ" /\ ut_list' = Append(ut_list, entry)
         /\ isr' = Handled(e) \/ isr' = [Handled(e) EXCEPT !.at = "hung"]
<1> DEFINE n == WithinPage(off, len)
<1>1. n \in Int
  BY NumberTypes
<1>2. ReadEntry(off, n) \in Entry /\ ReadEntry(off, n).type = "READ" /\ Handled(e) \in Isr
  BY <1>1, EntryTypes
<1>3. /\ Push(ReadEntry(off, n), Handled(e)) /\ Offset' = off + n /\ Length' = len - n
      /\ Read_BulkLen' = 0
  BY DEF MSC_MemoryRead
<1> HIDE DEF n
<1> QED
  BY <1>1, <1>2, <1>3, PushType

\* A transfer into a buffer.
LEMMA TransferType ==
  ASSUME Types, NEW b \in Buffer, TransferTo(b)
  PROVE  /\ pb_pool_used' = pb_pool_used \cup {b}
         /\ \/ /\ \E e \in Entry : e.type = "MERGE" /\ ut_list' = Append(ut_list, e)
               /\ ut_list' \in Seq(Entry) /\ isr' \in Isr
               /\ isr' = Handled("out") \/ isr' = [Handled("out") EXCEPT !.at = "hung"]
               /\ merge_stage' = "START" /\ merge_count' \in Int /\ ep_out' = ep_out
            \/ /\ ep_out' \in [what : {"data"}, buf : {b}, at : Int, n : Int]
               /\ isr' = Handled("out") /\ isr' \in Isr
               /\ UNCHANGED <<merge_stage, merge_count, ut_list>>
<1> DEFINE n == WithinPage(Offset, Length)
<1>1. n \in Int /\ Offset \in Int /\ SECTOR_PER_MPP \in Int
  BY NumberTypes, GeometryAssumption DEF Types
<1>2. PageEntry("MERGE", Offset, b) \in Entry /\ PageEntry("MERGE", Offset, b).type = "MERGE"
        /\ Handled("out") \in Isr
  <2>1. b \in Buffer \cup {NoBuffer}
    OBVIOUS
  <2> HIDE DEF n
  <2> QED
    BY <1>1, <2>1, EntryTypes
<1>3. CASE n # SECTOR_PER_MPP
  <2>1. /\ Push(PageEntry("MERGE", Offset, b), Handled("out"))
        /\ merge_stage' = "START" /\ merge_count' = n
        /\ UNCHANGED ep_out /\ pb_pool_used' = pb_pool_used \cup {b}
    BY <1>3 DEF TransferTo
  <2> HIDE DEF n
  <2> QED
    BY <1>1, <1>2, <2>1, PushType
<1>4. CASE n = SECTOR_PER_MPP
  <2>1. /\ PrimeOut(b, 0, SECTOR_PER_MPP) /\ isr' = Handled("out")
        /\ UNCHANGED <<merge_stage, merge_count, ut_list>>
        /\ pb_pool_used' = pb_pool_used \cup {b}
    BY <1>4 DEF TransferTo
  <2> QED
    BY <1>1, <1>2, <2>1 DEF PrimeOut
<1> QED
  BY <1>3, <1>4

\* Every step keeps the types.
LEMMA TypeStep == Types /\ TaskInv /\ BufferInv /\ [Next]_vars => Types'
<1> SUFFICES ASSUME Types, TaskInv, BufferInv, [Next]_vars PROVE Types'
  OBVIOUS
<1> USE DEF vars, host, endpoints, transport, shared, store
<1>1. CASE USB_ISR
  <2>1. isr' \in Isr /\ out_nak' \in BOOLEAN /\ in_nak' \in BOOLEAN
    BY <1>1 DEF USB_ISR, Types, Isr
  <2> QED
    BY <1>1, <2>1 DEF USB_ISR, Types
<1>2. CASE ISR_NextPart
  <2>1. isr' \in Isr
    BY <1>2 DEF ISR_NextPart, Types, Isr
  <2> QED
    BY <1>2, <2>1 DEF ISR_NextPart, Types
<1>3. CASE MSC_BulkOut
  <2>1. CBW.op \in Ops /\ CBW.off \in Int /\ CBW.len \in Int /\ Offset \in Int /\ Length \in Int
    BY DEF Types, Block
  <2>2. Handled("out") \in Isr
    BY EntryTypes, <2>1
  <2>3. /\ isr' \in Isr /\ Offset' \in Int /\ Length' \in Int /\ ut_list' \in Seq(Entry)
    <3>1. CASE BulkStage = "CBW" /\ MSC_GetCBW
      <4>1. CASE MSC_MemoryRead(CBW.off, CBW.len, "out")
        BY <2>1, <4>1, MemoryReadType
      <4> QED
        BY <2>1, <2>2, <3>1, <4>1 DEF MSC_GetCBW, Types
    <3>2. CASE out_done.what = "data" /\ MSC_MemoryWrite(out_done.n)
      <4>1. out_done.n \in Int
        BY <3>2 DEF Types, Received, CbwOnly, Nothing
      <4>2. BulkBuf \in Buffer \cup {NoBuffer}
        BY DEF Types
      <4> QED
        BY <2>1, <2>2, <3>2, <4>1, <4>2, EntryTypes, PushType DEF MSC_MemoryWrite
    <3>3. CASE MSC_MemoryVerify
      BY <2>1, <2>2, <3>3 DEF MSC_MemoryVerify, Types
    <3>4. CASE IgnoreOut
      BY <2>1, <2>2, <3>4 DEF IgnoreOut, Types
    <3>5. CASE MSC_SetCSW /\ isr' = Handled("out") /\ UNCHANGED <<Offset, Length, ut_list>>
      BY <2>1, <2>2, <3>5 DEF Types
    <3> QED
      BY <1>3, <3>1, <3>2, <3>3, <3>4, <3>5 DEF MSC_BulkOut
  <2>4. Read_BulkLen' \in Int
    BY <1>3 DEF MSC_BulkOut, MSC_GetCBW, MSC_MemoryRead, Types
  <2>5. out_done' \in Received
    BY <1>3 DEF MSC_BulkOut, CbwOnly, Received
  <2>6. ep_in' \in ToSend /\ CBW' \in Block
    <3>1. CBW.dTag \in Int
      BY DEF Types, Block
    <3>2. ep_in' = ep_in \/ ep_in' \in [what : {"csw", "info"}, dTag : Int]
      BY <1>3, <3>1 DEF MSC_BulkOut, MSC_GetCBW, MSC_SetCSW, MSC_MemoryWrite, MSC_MemoryVerify,
                        IgnoreOut
    <3>3. CBW' = CBW
      BY <1>3 DEF MSC_BulkOut
    <3> QED
      BY <3>2, <3>3 DEF ToSend, Types
  <2> QED
    BY <1>3, <2>3, <2>4, <2>5, <2>6 DEF MSC_BulkOut, Types
<1>4. CASE MSC_BulkIn
  <2>1. Offset \in Int /\ Length \in Int
    BY DEF Types
  <2>2. Handled("in") \in Isr
    BY EntryTypes, <2>1
  <2>3. /\ isr' \in Isr /\ Offset' \in Int /\ Length' \in Int /\ ut_list' \in Seq(Entry)
        /\ Read_BulkLen' \in Int
    <3>1. CASE MSC_MemoryRead(Offset, Length, "in")
      BY <2>1, <3>1, MemoryReadType
    <3> QED
      BY <1>4, <2>1, <2>2, <3>1 DEF MSC_BulkIn, Types
  <2>4. ep_in' \in ToSend
    <3>1. CBW.dTag \in Int
      BY DEF Types, Block
    <3>2. ep_in' = ep_in \/ ep_in' \in [what : {"csw", "info"}, dTag : Int]
      BY <1>4, <3>1 DEF MSC_BulkIn, MSC_SetCSW
    <3> QED
      BY <3>2 DEF ToSend, Types
  <2> QED
    BY <1>4, <2>3, <2>4 DEF MSC_BulkIn, Types
<1>5. CASE MSC_BulkOutNak
  <2>1. Offset \in Int /\ Length \in Int /\ merge_count \in Int
    BY DEF Types
  <2>2. Handled("out") \in Isr
    BY EntryTypes, <2>1
  <2>6. Offset % SECTOR_PER_MPP \in Int
    BY NumberTypes, <2>1
  <2>3. CASE AllocateOut
    <3>1. CASE BUF_Allocate # NoBuffer /\ TransferTo(BUF_Allocate)
      <4>1. BUF_Allocate \in Buffer
        BY <3>1, AllocateFacts
      <4>2. /\ pb_pool_used' = pb_pool_used \cup {BUF_Allocate}
            /\ isr' \in Isr /\ ut_list' \in Seq(Entry)
            /\ merge_stage' \in {"NONE", "START", "FINISH"} /\ merge_count' \in Int
            /\ \/ ep_out' = ep_out
               \/ ep_out' \in [what : {"data"}, buf : {BUF_Allocate}, at : Int, n : Int]
        BY <3>1, <4>1, TransferType DEF Types
      <4>3. ep_out' \in ToReceive
        BY <4>1, <4>2 DEF Types, ToReceive
      <4>4. pb_pool_used' \subseteq Buffer /\ BulkBuf' \in Buffer
        BY <4>1, <4>2, <2>3 DEF AllocateOut, Types
      <4>5. out_nak' = FALSE
        BY <1>5 DEF MSC_BulkOutNak
      <4> QED
        BY <1>5, <4>2, <4>3, <4>4, <4>5 DEF MSC_BulkOutNak, Types
    <3>2. CASE ~(BUF_Allocate # NoBuffer /\ TransferTo(BUF_Allocate))
      <4>1. /\ BulkBuf' = NoBuffer /\ isr' = Handled("out") /\ out_nak' = FALSE
            /\ UNCHANGED <<ep_out, merge_stage, merge_count, ut_list, pb_pool_used>>
        BY <1>5, <2>3, <3>2 DEF AllocateOut, MSC_BulkOutNak
      <4> QED
        BY <1>5, <2>2, <4>1 DEF MSC_BulkOutNak, Types
    <3> QED
      BY <3>1, <3>2
  <2>4. CASE PrimeMerged
    <3>1. ep_out' = [what |-> "data", buf |-> BulkBuf, at |-> Offset % SECTOR_PER_MPP,
                     n |-> merge_count]
      BY <2>4 DEF PrimeMerged, PrimeOut
    <3>0. /\ merge_stage' = "NONE" /\ merge_count' = 0 /\ isr' = Handled("out")
          /\ BulkBuf' = BulkBuf /\ ut_list' = ut_list /\ pb_pool_used' = pb_pool_used
          /\ out_nak' = FALSE
      BY <1>5, <2>4 DEF PrimeMerged, MSC_BulkOutNak
    <3>2. BulkBuf \in Buffer
      BY <2>4 DEF PrimeMerged, BufferInv, Active, Types
    <3>3. ep_out' \in ToReceive
      BY <2>1, <2>6, <3>1, <3>2 DEF ToReceive
    <3> QED
      <4>1. /\ isr' \in Isr /\ merge_count' \in Int /\ out_nak' = FALSE
            /\ merge_stage' \in {"NONE", "START", "FINISH"}
            /\ BulkBuf' = BulkBuf /\ ut_list' = ut_list /\ pb_pool_used' = pb_pool_used
        BY <2>2, <3>0
      <4> QED
        BY <1>5, <3>3, <4>1 DEF MSC_BulkOutNak, Types
  <2>5. CASE ~AllocateOut /\ ~PrimeMerged
    <3>1. /\ ep_out' = ep_out \/ ep_out' = [what |-> "cbw"]
          /\ isr' = Handled("out") /\ out_nak' = FALSE
          /\ UNCHANGED <<BulkBuf, merge_stage, merge_count, ut_list, pb_pool_used>>
      BY <1>5, <2>5 DEF MSC_BulkOutNak
    <3> QED
      BY <1>5, <2>2, <3>1 DEF MSC_BulkOutNak, Types, ToReceive, CbwOnly
  <2> QED
    BY <2>3, <2>4, <2>5
<1>6. CASE MSC_BulkInNak
  <2>1. Handled("in") \in Isr
    BY EntryTypes DEF Types
  <2>2. ep_in' \in ToSend
    BY <1>6 DEF MSC_BulkInNak, Types, ToSend
  <2> QED
    BY <1>6, <2>1, <2>2 DEF MSC_BulkInNak, Types
<1>7. CASE TaskStart
  <2>1. task' \in {"pop", "READ", "WRITE", "MERGE"}
    <3>1. Head(ut_list) \in Entry
      BY <1>7, HeadTailProperties DEF TaskStart, Types
    <3> QED
      BY <1>7, <3>1 DEF TaskStart, Task, Entry
  <2> QED
    BY <1>7, <2>1 DEF TaskStart, Types
<1>8. CASE TaskRead
  BY <1>8 DEF TaskRead, Types
<1>9. CASE TaskReady
  <2>1. ut_list \in Seq(Entry) /\ ut_list # <<>>
    BY <1>9 DEF TaskReady, Running, TaskInv, Types
  <2>2. Head(ut_list) \in Entry
    BY <2>1, HeadTailProperties
  <2>3. Task.length \in Int
    BY <2>2 DEF Task, Entry
  <2> QED
    BY <1>9, <2>3 DEF TaskReady, Types
<1>10. CASE TaskWrite
  <2>1. PICK held \in {Task.buffer, NoBuffer} :
          dice_hold' = held /\ pb_pool_used' = UsedAfter(held)
    BY <1>10 DEF TaskWrite
  <2>2. Task.buffer \in Buffer \cup {NoBuffer}
    <3>1. ut_list \in Seq(Entry) /\ ut_list # <<>>
      BY <1>10 DEF TaskWrite, Running, TaskInv, Types
    <3>2. Head(ut_list) \in Entry
      BY <3>1, HeadTailProperties
    <3> QED
      BY <3>2 DEF Task, Entry
  <2>3. pb_pool_used' \subseteq Buffer
    BY <2>1 DEF UsedAfter, BUF_Free, Types
  <2> QED
    BY <1>10, <2>1, <2>2, <2>3 DEF TaskWrite, Types
<1>11. CASE TaskMerge
  BY <1>11 DEF TaskMerge, Types
<1>12. CASE TaskPop
  <2>1. ut_list' \in Seq(Entry)
    <3>1. ut_list \in Seq(Entry) /\ ut_list # <<>> /\ ut_list' = Tail(ut_list)
      BY <1>12 DEF TaskPop, Running, TaskInv, Types
    <3> QED
      BY <3>1, HeadTailProperties
  <2> QED
    BY <1>12, <2>1 DEF TaskPop, Types
<1>13. CASE OutNaked
  BY <1>13 DEF OutNaked, Types
<1>14. CASE OutCommand
  <2>1. phase' \in Phases
    BY <1>14 DEF OutCommand, Types, Block, Ops, Phases
  <2>2. CBW' \in Block /\ ep_out' \in ToReceive /\ out_done' \in Received
    BY <1>14 DEF OutCommand, Types, ToReceive, Received, CbwOnly
  <2> QED
    BY <1>14, <2>1, <2>2 DEF OutCommand, Types
<1>15. CASE OutData
  <2>1. ep_out.n \in Int /\ hcmd.len \in Int /\ moved \in Int
    BY <1>15 DEF OutData, Types, Block, ToReceive, CbwOnly, Nothing
  <2>2. Smaller(ep_out.n, hcmd.len - moved) \in Int
    BY <2>1 DEF Smaller
  <2>3. out_done' \in Received /\ moved' \in Int /\ phase' \in Phases
    BY <1>15, <2>1, <2>2 DEF OutData, Phases, Received
  <2>4. ep_out' \in ToReceive
    BY <1>15 DEF OutData, ToReceive, CbwOnly
  <2> QED
    BY <1>15, <2>3, <2>4 DEF OutData, Types
<1>16. CASE InNaked
  BY <1>16 DEF InNaked, Types
<1>17. CASE InTransfer
  <2>1. phase' \in Phases
    BY <1>17 DEF InTransfer, Phases
  <2>2. moved' \in Int
    <3>1. CASE ep_in.what = "data" /\ moved' = moved + Smaller(ep_in.n, hcmd.len - moved)
      <4>1. ep_in.n \in Int /\ moved \in Int /\ hcmd.len \in Int
        BY <3>1 DEF Types, Block, ToSend, Nothing
      <4> QED
        BY <3>1, <4>1 DEF Smaller
    <3> QED
      BY <1>17, <3>1 DEF InTransfer, Types
  <2>3. ep_in' \in ToSend
    BY <1>17 DEF InTransfer, ToSend
  <2>4. hcmd' \in Block
    BY <1>17 DEF InTransfer, Types
  <2> QED
    BY <1>17, <2>1, <2>2, <2>3, <2>4 DEF InTransfer, Types
<1>18. ASSUME NEW c \in Commands, HostCommand(c) PROVE Types'
  <2>1. hcmd' \in Block
    BY <1>18, CommandsAssumption DEF HostCommand, Block, Command, Types, Sector
  <2> QED
    BY <1>18, <2>1 DEF HostCommand, Types, Phases
<1>19. CASE MSC_Reset
  BY <1>19 DEF MSC_Reset, HostMayReset, Types, Phases
<1>20. CASE USB_Reset
  BY <1>20 DEF USB_Reset, HostMayReset, Types, Phases, ToReceive, ToSend, Received, CbwOnly
<1>21. CASE UNCHANGED vars
  BY <1>21 DEF Types
<1> QED
  BY <1>1, <1>2, <1>3, <1>4, <1>5, <1>6, <1>7, <1>8, <1>9, <1>10, <1>11, <1>12, <1>13,
     <1>14, <1>15, <1>16, <1>17, <1>18, <1>19, <1>20, <1>21
  DEF Next, Interrupts, Handlers, MainLoop, Tokens

-----------------------------------------------------------------------------
(***************************************************************************)
(* What the handlers do to the list and to the transfer.                   *)
(***************************************************************************)

\* A handler is done with its endpoint, or hangs.
HandlerDone(e) == isr' = Handled(e) \/ isr' = [Handled(e) EXCEPT !.at = "hung"]

\* MSC_BulkOut queues a read, or the page of the transfer that has completed.
LEMMA BulkOutEffect ==
  ASSUME Types, MSC_BulkOut
  PROVE  /\ HandlerDone("out") /\ isr.at = "complete" /\ "out" \in isr.val
         /\ out_done' = Nothing
         /\ UNCHANGED <<phase, ep_out, out_nak, in_nak, BulkBuf, merge_stage, pb_pool_used,
                        task, dice_hold>>
         /\ \/ ut_list' = ut_list
            \/ \E e \in Entry : e.type = "READ" /\ ut_list' = Append(ut_list, e)
            \/ /\ out_done.what = "data"
               /\ \E e \in Entry : /\ e.type = "WRITE" /\ e.buffer = BulkBuf
                                   /\ ut_list' = Append(ut_list, e)
<1> USE DEF HandlerDone
<1>1. /\ CBW.off \in Int /\ CBW.len \in Int /\ Offset \in Int
      /\ BulkBuf \in Buffer \cup {NoBuffer}
  BY DEF Types, Block
<1>2. CASE BulkStage = "CBW" /\ MSC_GetCBW
  <2>1. CASE MSC_MemoryRead(CBW.off, CBW.len, "out")
    <3>1. /\ \E e \in Entry : e.type = "READ" /\ ut_list' = Append(ut_list, e)
          /\ isr' = Handled("out") \/ isr' = [Handled("out") EXCEPT !.at = "hung"]
      BY <1>1, <2>1, MemoryReadType
    <3> QED
      BY <3>1 DEF MSC_BulkOut, Handling, host, store
  <2> QED
    BY <1>2, <2>1 DEF MSC_BulkOut, MSC_GetCBW, Handling, host, store
<1>3. CASE out_done.what = "data" /\ MSC_MemoryWrite(out_done.n)
  <2>1. PageEntry("WRITE", Offset, BulkBuf) \in Entry
        /\ PageEntry("WRITE", Offset, BulkBuf).type = "WRITE"
        /\ PageEntry("WRITE", Offset, BulkBuf).buffer = BulkBuf
        /\ Handled("out") \in Isr
    BY <1>1, EntryTypes
  <2>2. Push(PageEntry("WRITE", Offset, BulkBuf), Handled("out"))
    BY <1>3 DEF MSC_MemoryWrite
  <2>3. /\ ut_list' = Append(ut_list, PageEntry("WRITE", Offset, BulkBuf))
        /\ isr' = Handled("out") \/ isr' = [Handled("out") EXCEPT !.at = "hung"]
    BY <2>1, <2>2, PushType
  <2> QED
    BY <1>3, <2>1, <2>3 DEF MSC_BulkOut, Handling, host, store
<1>4. CASE isr' = Handled("out") /\ UNCHANGED ut_list
  BY <1>4 DEF MSC_BulkOut, Handling, host, store
<1> QED
  BY <1>2, <1>3, <1>4 DEF MSC_BulkOut, MSC_MemoryVerify, IgnoreOut

\* MSC_BulkIn at most queues a read.
LEMMA BulkInEffect ==
  ASSUME Types, MSC_BulkIn
  PROVE  /\ HandlerDone("in") /\ isr.at = "complete"
         /\ UNCHANGED <<phase, ep_out, out_done, out_nak, in_nak, BulkBuf, merge_stage,
                        pb_pool_used, task, dice_hold>>
         /\ \/ ut_list' = ut_list
            \/ \E e \in Entry : e.type = "READ" /\ ut_list' = Append(ut_list, e)
<1> USE DEF HandlerDone
<1>1. Offset \in Int /\ Length \in Int
  BY DEF Types
<1>2. CASE MSC_MemoryRead(Offset, Length, "in")
  <2>1. /\ \E e \in Entry : e.type = "READ" /\ ut_list' = Append(ut_list, e)
        /\ isr' = Handled("in") \/ isr' = [Handled("in") EXCEPT !.at = "hung"]
    BY <1>1, <1>2, MemoryReadType
  <2> QED
    BY <2>1 DEF MSC_BulkIn, Handling, host, store
<1> QED
  BY <1>2 DEF MSC_BulkIn, Handling, host, store

\* MSC_BulkOutNak waits, or takes a free buffer to receive into or to merge into
\* first, or receives into the merged page.
LEMMA BulkOutNakEffect ==
  ASSUME Types, MSC_BulkOutNak
  PROVE  /\ HandlerDone("out") /\ NakOut /\ out_nak' = FALSE
         /\ isr'.at = "hung" => ep_out' = ep_out
         /\ UNCHANGED <<phase, out_done, in_nak, task, dice_hold>>
         /\ \/ /\ ep_out' \in {ep_out, [what |-> "cbw"]}
               /\ BulkBuf' = BulkBuf \/ merge_stage = "NONE"
               /\ UNCHANGED <<merge_stage, ut_list, pb_pool_used>>
            \/ /\ merge_stage = "NONE" /\ BulkBuf' \in Buffer \ pb_pool_used
               /\ pb_pool_used' = pb_pool_used \cup {BulkBuf'}
               /\ \/ /\ \E e \in Entry : e.type = "MERGE" /\ ut_list' = Append(ut_list, e)
                     /\ merge_stage' = "START" /\ ep_out' = ep_out
                  \/ /\ ep_out'.what = "data" /\ ep_out'.buf = BulkBuf'
                     /\ UNCHANGED <<merge_stage, ut_list>>
            \/ /\ merge_stage = "FINISH" /\ merge_stage' = "NONE"
               /\ ep_out'.what = "data" /\ ep_out'.buf = BulkBuf
               /\ UNCHANGED <<BulkBuf, ut_list, pb_pool_used>>
<1> USE DEF HandlerDone
<1>1. /\ NakOut /\ out_nak' = FALSE
      /\ UNCHANGED <<phase, out_done, in_nak, task, dice_hold>>
  BY DEF MSC_BulkOutNak, Handling, NakOut, host, store
<1>2. Handled("out").at = "nak"
  BY <1>1, EntryTypes, 0 \in Int DEF NakOut
<1>3. CASE AllocateOut
  <2>1. CASE BUF_Allocate # NoBuffer /\ TransferTo(BUF_Allocate)
    <3>1. BUF_Allocate \in Buffer \ pb_pool_used /\ BulkBuf' = BUF_Allocate /\ merge_stage = "NONE"
      BY <1>3, <2>1, AllocateFacts DEF AllocateOut
    <3>2. /\ pb_pool_used' = pb_pool_used \cup {BUF_Allocate}
          /\ \/ /\ \E e \in Entry : e.type = "MERGE" /\ ut_list' = Append(ut_list, e)
                /\ isr' = Handled("out") \/ isr' = [Handled("out") EXCEPT !.at = "hung"]
                /\ merge_stage' = "START" /\ ep_out' = ep_out
             \/ /\ ep_out' \in [what : {"data"}, buf : {BUF_Allocate}, at : Int, n : Int]
                /\ isr' = Handled("out")
                /\ UNCHANGED <<merge_stage, merge_count, ut_list>>
      BY <2>1, <3>1, TransferType
    <3> QED
      BY <1>1, <1>2, <3>1, <3>2
  <2>2. CASE /\ BUF_Allocate = NoBuffer /\ isr' = Handled("out")
             /\ UNCHANGED <<ep_out, merge_stage, merge_count, ut_list, pb_pool_used>>
    BY <1>1, <1>2, <1>3, <2>2 DEF AllocateOut
  <2> QED
    BY <1>3, <2>1, <2>2 DEF AllocateOut
<1>4. CASE PrimeMerged
  BY <1>1, <1>2, <1>4 DEF PrimeMerged, PrimeOut
<1>5. CASE /\ ep_out' \in {ep_out, [what |-> "cbw"]} /\ isr' = Handled("out")
           /\ UNCHANGED <<BulkBuf, merge_stage, merge_count, ut_list, pb_pool_used>>
  BY <1>1, <1>2, <1>5
<1> QED
  BY <1>3, <1>4, <1>5 DEF MSC_BulkOutNak

-----------------------------------------------------------------------------
(***************************************************************************)
(* The endpoint handshake.                                                 *)
(***************************************************************************)

\* Every step keeps the handshake of the OUT endpoint: between the NAK and the
\* handler that answers it nothing is primed and nothing is left unhandled.
LEMMA NakStep == Types /\ NakInv /\ [Next]_vars => NakInv'
<1> SUFFICES ASSUME Types, NakInv, [Next]_vars PROVE NakInv'
  OBVIOUS
<1> USE DEF vars, host, endpoints, transport, shared, store
<1>0. /\ isr \in Isr
      /\ \A e : /\ Handled(e) \in Isr /\ Handled(e).val = isr.val \ {e}
                /\ Handled(e).at = isr.at /\ Handled(e).naki = isr.naki
  BY EntryTypes, 0 \in Int DEF Types
<1>1. CASE USB_ISR
  BY <1>0, <1>1 DEF USB_ISR, NakInv, NakOut
<1>2. CASE ISR_NextPart
  BY <1>0, <1>2 DEF ISR_NextPart, NakInv, NakOut
<1>3. CASE MSC_BulkOut
  <2>1. /\ HandlerDone("out") /\ isr.at = "complete" /\ out_done' = Nothing
        /\ UNCHANGED <<phase, ep_out, out_nak, in_nak>>
    BY <1>3, BulkOutEffect
  <2>2. isr'.at # "nak" /\ (isr'.at = "complete" => isr'.naki = isr.naki)
    BY <1>0, <2>1 DEF HandlerDone, Isr
  <2> QED
    BY <2>1, <2>2 DEF NakInv, NakOut
<1>4. CASE MSC_BulkIn
  <2>1. /\ HandlerDone("in") /\ isr.at = "complete"
        /\ UNCHANGED <<phase, ep_out, out_done, out_nak, in_nak>>
    BY <1>4, BulkInEffect
  <2>2. /\ isr'.at # "nak" /\ (isr'.at = "complete" => isr'.naki = isr.naki)
        /\ "out" \in isr'.val <=> "out" \in isr.val
    BY <1>0, <2>1 DEF HandlerDone, Isr
  <2> QED
    BY <2>1, <2>2 DEF NakInv, NakOut
<1>5. CASE MSC_BulkOutNak
  <2>1. /\ HandlerDone("out") /\ NakOut /\ out_nak' = FALSE
        /\ isr'.at = "hung" => ep_out' = ep_out
        /\ UNCHANGED <<phase, out_done, in_nak>>
    BY <1>5, BulkOutNakEffect
  <2>2. /\ isr'.val = isr.val \ {"out"} /\ isr'.at \in {"nak", "hung"}
    BY <1>0, <2>1 DEF HandlerDone, Isr, NakOut
  <2> QED
    BY <2>1, <2>2 DEF NakInv, NakOut
<1>6. CASE MSC_BulkInNak
  <2>1. isr.at = "nak" /\ isr' = Handled("in") /\ in_nak' = FALSE
        /\ UNCHANGED <<phase, ep_out, out_done, out_nak>>
    BY <1>6 DEF MSC_BulkInNak, Handling
  <2>2. isr'.at = "nak" /\ ("out" \in isr'.val <=> "out" \in isr.val)
    BY <1>0, <2>1
  <2> QED
    BY <2>1, <2>2 DEF NakInv, NakOut
<1>7. CASE MainLoop \/ UNCHANGED vars
  <2>1. UNCHANGED <<phase, ep_out, out_done, out_nak, in_nak, isr>>
    BY <1>7 DEF MainLoop, TaskStart, TaskRead, TaskReady, TaskWrite, TaskMerge, TaskPop
  <2> QED
    BY <2>1 DEF NakInv, NakOut
<1>8. CASE OutNaked
  BY <1>8 DEF OutNaked, NakInv, NakOut
<1>9. CASE OutCommand
  BY <1>9 DEF OutCommand, NakInv, NakOut
<1>10. CASE OutData
  BY <1>10 DEF OutData, NakInv, NakOut, Nothing
<1>11. CASE InNaked
  BY <1>11 DEF InNaked, NakInv, NakOut
<1>12. CASE InTransfer
  <2>1. /\ UNCHANGED <<ep_out, out_done, out_nak, in_nak, isr>>
        /\ phase \in {"in", "csw"}
    BY <1>12 DEF InTransfer
  <2> QED
    BY <2>1 DEF NakInv, NakOut
<1>13. ASSUME NEW c \in Commands, HostCommand(c) PROVE NakInv'
  BY <1>13 DEF HostCommand, NakInv, NakOut
<1>14. CASE MSC_Reset
  BY <1>14 DEF MSC_Reset, HostMayReset, NakInv, NakOut
<1>15. CASE USB_Reset
  BY <1>15 DEF USB_Reset, HostMayReset, NakInv, NakOut
<1> QED
  BY <1>1, <1>2, <1>3, <1>4, <1>5, <1>6, <1>7, <1>8, <1>9, <1>10, <1>11, <1>12, <1>13,
     <1>14, <1>15
  DEF Next, Interrupts, Handlers, Tokens

-----------------------------------------------------------------------------
(***************************************************************************)
(* The main loop and the list.                                             *)
(***************************************************************************)

\* Handlers and the host leave the entry alone that the main loop is at.
LEMMA TaskKept ==
  ASSUME Types, TaskInv, task' = task,
         ut_list' = ut_list \/ \E e \in Entry : ut_list' = Append(ut_list, e),
         merge_stage = "START" => merge_stage' = "START"
  PROVE  TaskInv'
<1>1. CASE ut_list' = ut_list
  BY <1>1 DEF TaskInv
<1>2. ASSUME NEW e \in Entry, ut_list' = Append(ut_list, e) PROVE TaskInv'
  <2>1. ut_list \in Seq(Entry) /\ (task # "next" => ut_list # <<>>)
    BY DEF Types, TaskInv
  <2>2. ut_list' # <<>> /\ (ut_list # <<>> => Head(ut_list') = Head(ut_list))
    BY <1>2, <2>1, WaitingAppend
  <2> QED
    BY <2>2 DEF TaskInv
<1> QED
  BY <1>1, <1>2

\* Every step keeps the main loop at the head of the list.
LEMMA TaskStep == Types /\ TaskInv /\ [Next]_vars => TaskInv'
<1> SUFFICES ASSUME Types, TaskInv, [Next]_vars PROVE TaskInv'
  OBVIOUS
<1> USE DEF vars, host, endpoints, transport, shared, store
<1>1. CASE MSC_BulkOut
  <2>1. /\ UNCHANGED <<merge_stage, task>>
        /\ ut_list' = ut_list \/ \E e \in Entry : ut_list' = Append(ut_list, e)
    BY <1>1, BulkOutEffect
  <2> QED
    BY <2>1, TaskKept
<1>2. CASE MSC_BulkIn
  <2>1. /\ UNCHANGED <<merge_stage, task>>
        /\ ut_list' = ut_list \/ \E e \in Entry : ut_list' = Append(ut_list, e)
    BY <1>2, BulkInEffect
  <2> QED
    BY <2>1, TaskKept
<1>3. CASE MSC_BulkOutNak
  <2>1. /\ task' = task /\ (merge_stage = "START" => merge_stage' = "START")
        /\ ut_list' = ut_list \/ \E e \in Entry : ut_list' = Append(ut_list, e)
    BY <1>3, BulkOutNakEffect
  <2> QED
    BY <2>1, TaskKept
<1>4. CASE TaskStart
  <2>1. Head(ut_list).type \in {"READ", "WRITE", "MERGE"}
    <3>1. ut_list \in Seq(Entry) /\ ut_list # <<>>
      BY <1>4 DEF TaskStart, Types
    <3>2. Head(ut_list) \in Entry
      BY <3>1, HeadTailProperties
    <3> QED
      BY <3>2 DEF Entry
  <2> QED
    BY <1>4, <2>1 DEF TaskStart, Dropped, Task, TaskInv
<1>5. CASE TaskRead \/ TaskReady \/ TaskWrite \/ TaskMerge \/ TaskPop
  BY <1>5 DEF TaskRead, TaskReady, TaskWrite, TaskMerge, TaskPop, Running, TaskInv
<1>6. CASE UNCHANGED <<ut_list, task, merge_stage>>
  BY <1>6 DEF TaskInv
<1> QED
  BY <1>1, <1>2, <1>3, <1>4, <1>5, <1>6
  DEF Next, Interrupts, Handlers, MainLoop, Tokens, USB_ISR, ISR_NextPart, MSC_BulkInNak,
      OutNaked, OutCommand, OutData, InNaked, InTransfer, HostCommand, MSC_Reset, USB_Reset

-----------------------------------------------------------------------------
(***************************************************************************)
(* The buffers.                                                            *)
(***************************************************************************)

\* A step that queues no write and starts no transfer takes no buffer.
LEMMA BuffersKept ==
  ASSUME BufferInv,
         \A i \in Waiting("WRITE")' : i \in Waiting("WRITE") /\ ut_list'[i] = ut_list[i],
         UNCHANGED <<pb_pool_used, dice_hold>>,
         Active' => Active /\ BulkBuf' = BulkBuf,
         Transferring(ep_out)' => ep_out' = ep_out,
         Transferring(ep_out)' \/ Transferring(out_done)' => merge_stage' = "NONE"
  PROVE  BufferInv'
<1>1. \A i \in Waiting("WRITE")' : /\ ut_list'[i].buffer \in pb_pool_used'
                                   /\ ut_list'[i].buffer # dice_hold'
                                   /\ Active' => ut_list'[i].buffer # BulkBuf'
  BY DEF BufferInv
<1>2. \A i, j \in Waiting("WRITE")' : ut_list'[i].buffer = ut_list'[j].buffer => i = j
  BY DEF BufferInv
<1>3. Active' => BulkBuf' \in pb_pool_used' /\ BulkBuf' # dice_hold'
  BY DEF BufferInv
<1>4. Transferring(ep_out)' => ep_out'.buf = BulkBuf'
  BY DEF BufferInv, Active, Transferring
<1> QED
  BY <1>1, <1>2, <1>3, <1>4 DEF BufferInv

\* An entry of another type does not wait as one of this type.
LEMMA NotQueued ==
  ASSUME Types, TaskInv, task' = task, NEW type,
         \/ ut_list' = ut_list
         \/ \E e \in Entry : e.type # type /\ ut_list' = Append(ut_list, e)
  PROVE  /\ Waiting(type)' = Waiting(type)
         /\ \A i \in Waiting(type) : ut_list'[i] = ut_list[i]
<1>1. CASE ut_list' = ut_list
  BY <1>1 DEF Waiting, Queued
<1>2. ASSUME NEW e \in Entry, e.type # type, ut_list' = Append(ut_list, e)
      PROVE  /\ Waiting(type)' = Waiting(type)
             /\ \A i \in Waiting(type) : ut_list'[i] = ut_list[i]
  <2>1. ut_list \in Seq(Entry) /\ (task # "next" => ut_list # <<>>)
    BY DEF Types, TaskInv
  <2> QED
    BY <1>2, <2>1, WaitingAppend
<1> QED
  BY <1>1, <1>2

\* MSC_BulkOut hands the buffer of a received page over to the list.
LEMMA BulkOutBuffers ==
  ASSUME Types, NakInv, TaskInv, BufferInv, MSC_BulkOut
  PROVE  BufferInv'
<1>1. /\ out_done' = Nothing
      /\ UNCHANGED <<ep_out, BulkBuf, merge_stage, pb_pool_used, task, dice_hold>>
      /\ \/ ut_list' = ut_list
         \/ \E e \in Entry : e.type = "READ" /\ ut_list' = Append(ut_list, e)
         \/ /\ out_done.what = "data"
            /\ \E e \in Entry : /\ e.type = "WRITE" /\ e.buffer = BulkBuf
                                /\ ut_list' = Append(ut_list, e)
  BY BulkOutEffect
<1>2. CASE ut_list' = ut_list \/ \E e \in Entry : e.type # "WRITE" /\ ut_list' = Append(ut_list, e)
  <2>1. /\ Waiting("WRITE")' = Waiting("WRITE")
        /\ \A i \in Waiting("WRITE") : ut_list'[i] = ut_list[i]
    BY <1>1, <1>2, NotQueued
  <2>2. Active' => Active
    BY <1>1 DEF Active, Transferring, Nothing
  <2>3. Transferring(ep_out)' \/ Transferring(out_done)' => merge_stage' = "NONE"
    BY <1>1 DEF BufferInv, Transferring, Nothing
  <2> QED
    BY <1>1, <2>1, <2>2, <2>3, BuffersKept
<1>3. ASSUME out_done.what = "data", NEW e \in Entry, e.type = "WRITE", e.buffer = BulkBuf,
             ut_list' = Append(ut_list, e)
      PROVE  BufferInv'
  <2> DEFINE new == Len(ut_list) + 1
  <2>1. ut_list \in Seq(Entry) /\ (task # "next" => ut_list # <<>>) /\ task' = task
    BY <1>1 DEF Types, TaskInv
  <2>2. /\ Waiting("WRITE")' = Waiting("WRITE") \cup {new} /\ new \notin Waiting("WRITE")
        /\ \A i \in Waiting("WRITE") : ut_list'[i] = ut_list[i]
        /\ ut_list'[new] = e
    BY <1>3, <2>1, WaitingAppend
  <2> HIDE DEF new
  <2>3. /\ merge_stage = "NONE" /\ BulkBuf \in pb_pool_used /\ BulkBuf # dice_hold
        /\ \A i \in Waiting("WRITE") : ut_list[i].buffer # BulkBuf
    BY <1>3 DEF BufferInv, Active, Transferring
  <2>4. ~Active'
    <3>1. ep_out = Nothing
      BY <1>3 DEF NakInv, Nothing
    <3> QED
      BY <1>1, <2>3, <3>1 DEF Active, Transferring, Nothing
  <2>5. \A i \in Waiting("WRITE")' : /\ ut_list'[i].buffer \in pb_pool_used'
                                     /\ ut_list'[i].buffer # dice_hold'
    BY <1>1, <1>3, <2>2, <2>3 DEF BufferInv
  <2>6. \A i, j \in Waiting("WRITE")' : ut_list'[i].buffer = ut_list'[j].buffer => i = j
    <3>1. \A i, j \in Waiting("WRITE") : ut_list[i].buffer = ut_list[j].buffer => i = j
      BY DEF BufferInv
    <3>2. ut_list'[new].buffer = BulkBuf
      BY <1>3, <2>2
    <3>3. SUFFICES ASSUME NEW i \in Waiting("WRITE") \cup {new},
                          NEW j \in Waiting("WRITE") \cup {new},
                          ut_list'[i].buffer = ut_list'[j].buffer
                   PROVE  i = j
      BY <2>2
    <3>4. CASE i \in Waiting("WRITE") /\ j \in Waiting("WRITE")
      BY <2>2, <3>1, <3>3, <3>4
    <3>5. CASE i = new \/ j = new
      BY <2>2, <2>3, <3>2, <3>3, <3>5
    <3> QED
      BY <3>4, <3>5
  <2> QED
    BY <1>1, <2>4, <2>5, <2>6 DEF BufferInv, Active
<1> QED
  BY <1>1, <1>2, <1>3

\* MSC_BulkOutNak takes a buffer nobody has, when its transfer has none.
LEMMA BulkOutNakBuffers ==
  ASSUME Types, NakInv, TaskInv, BufferInv, MSC_BulkOutNak
  PROVE  BufferInv'
<1>1. /\ NakOut /\ UNCHANGED <<out_done, task, dice_hold>>
      /\ \/ /\ ep_out' \in {ep_out, [what |-> "cbw"]}
            /\ BulkBuf' = BulkBuf \/ merge_stage = "NONE"
            /\ UNCHANGED <<merge_stage, ut_list, pb_pool_used>>
         \/ /\ merge_stage = "NONE" /\ BulkBuf' \in Buffer \ pb_pool_used
            /\ pb_pool_used' = pb_pool_used \cup {BulkBuf'}
            /\ \/ /\ \E e \in Entry : e.type = "MERGE" /\ ut_list' = Append(ut_list, e)
                  /\ merge_stage' = "START" /\ ep_out' = ep_out
               \/ /\ ep_out'.what = "data" /\ ep_out'.buf = BulkBuf'
                  /\ UNCHANGED <<merge_stage, ut_list>>
         \/ /\ merge_stage = "FINISH" /\ merge_stage' = "NONE"
            /\ ep_out'.what = "data" /\ ep_out'.buf = BulkBuf
            /\ UNCHANGED <<BulkBuf, ut_list, pb_pool_used>>
  BY BulkOutNakEffect
<1>2. ~Transferring(ep_out) /\ ~Transferring(out_done)' /\ (Active <=> merge_stage # "NONE")
  BY <1>1 DEF NakInv, Active, Transferring, Nothing
<1>3. /\ Waiting("WRITE")' = Waiting("WRITE")
      /\ \A i \in Waiting("WRITE") : ut_list'[i] = ut_list[i]
  <2>1. ut_list' = ut_list \/ \E e \in Entry : e.type # "WRITE" /\ ut_list' = Append(ut_list, e)
    BY <1>1
  <2> QED
    BY <1>1, <2>1, NotQueued
<1>4. CASE /\ ep_out' \in {ep_out, [what |-> "cbw"]}
           /\ BulkBuf' = BulkBuf \/ merge_stage = "NONE"
           /\ UNCHANGED <<merge_stage, ut_list, pb_pool_used>>
  <2>1. ~Transferring(ep_out)'
    BY <1>2, <1>4 DEF Transferring
  <2>2. Active' => Active /\ BulkBuf' = BulkBuf
    BY <1>2, <1>4, <2>1 DEF Active
  <2> QED
    BY <1>1, <1>2, <1>3, <1>4, <2>1, <2>2, BuffersKept
<1>5. CASE /\ merge_stage = "NONE" /\ BulkBuf' \in Buffer \ pb_pool_used
           /\ pb_pool_used' = pb_pool_used \cup {BulkBuf'}
  <2>1. /\ Transferring(ep_out)' => ep_out'.buf = BulkBuf'
        /\ Transferring(ep_out)' => merge_stage' = "NONE"
    BY <1>1, <1>2, <1>5 DEF Transferring
  <2>2. NoBuffer \notin Buffer
    BY AllocateFacts
  <2>3. BulkBuf' # dice_hold' /\ (dice_hold' # NoBuffer => dice_hold' \in pb_pool_used')
    BY <1>1, <1>5, <2>2 DEF BufferInv
  <2>4. \A i \in Waiting("WRITE")' : /\ ut_list'[i].buffer \in pb_pool_used'
                                     /\ ut_list'[i].buffer # dice_hold'
                                     /\ ut_list'[i].buffer # BulkBuf'
    BY <1>1, <1>3, <1>5 DEF BufferInv
  <2>5. \A i, j \in Waiting("WRITE")' : ut_list'[i].buffer = ut_list'[j].buffer => i = j
    BY <1>3 DEF BufferInv
  <2> QED
    BY <1>2, <1>5, <2>1, <2>3, <2>4, <2>5 DEF BufferInv
<1>6. CASE /\ merge_stage = "FINISH" /\ merge_stage' = "NONE"
           /\ ep_out'.what = "data" /\ ep_out'.buf = BulkBuf
           /\ UNCHANGED <<BulkBuf, ut_list, pb_pool_used>>
  <2>1. Active
    BY <1>6 DEF Active
  <2>2. \A i \in Waiting("WRITE")' : /\ ut_list'[i].buffer \in pb_pool_used'
                                     /\ ut_list'[i].buffer # dice_hold'
                                     /\ ut_list'[i].buffer # BulkBuf'
    BY <1>1, <1>3, <1>6, <2>1 DEF BufferInv
  <2>3. \A i, j \in Waiting("WRITE")' : ut_list'[i].buffer = ut_list'[j].buffer => i = j
    BY <1>3 DEF BufferInv
  <2>4. BulkBuf' \in pb_pool_used' /\ BulkBuf' # dice_hold'
        /\ (dice_hold' # NoBuffer => dice_hold' \in pb_pool_used')
    BY <1>1, <1>6, <2>1 DEF BufferInv
  <2> QED
    BY <1>6, <2>2, <2>3, <2>4 DEF BufferInv
<1> QED
  BY <1>1, <1>4, <1>5, <1>6

\* A write that is executed keeps its buffer until the next is, or gives it back.
LEMMA TaskWriteBuffers ==
  ASSUME Types, TaskInv, BufferInv, TaskWrite
  PROVE  BufferInv'
<1>1. /\ task = "WRITE" /\ task' = "pop" /\ ut_list \in Seq(Entry) /\ ut_list # <<>>
      /\ Head(ut_list).type = "WRITE"
      /\ UNCHANGED <<ep_out, out_done, BulkBuf, merge_stage, ut_list>>
  BY DEF TaskWrite, Running, TaskInv, Types, endpoints, transport
<1>2. 1 \in DOMAIN ut_list /\ Head(ut_list) = ut_list[1]
  BY <1>1, HeadTailProperties, LenProperties, EmptySeq
<1>3. 1 \in Waiting("WRITE") /\ Waiting("WRITE")' = Waiting("WRITE") \ {1}
  BY <1>1, <1>2 DEF Waiting, Queued
<1> DEFINE b == ut_list[1].buffer
<1>4. /\ b \in pb_pool_used /\ b # dice_hold /\ (Active => b # BulkBuf)
      /\ \A i \in Waiting("WRITE")' : ut_list[i].buffer # b
  BY <1>3 DEF BufferInv
<1>5. PICK held \in {b, NoBuffer} :
        /\ dice_hold' = held
        /\ pb_pool_used' = (pb_pool_used \ {dice_hold}) \ (IF held = NoBuffer THEN {b} ELSE {})
  BY <1>2 DEF TaskWrite, UsedAfter, BUF_Free, Task
<1>6. NoBuffer \notin pb_pool_used
  BY AllocateFacts DEF Types
<1> HIDE DEF b
<1>7. /\ b \notin {dice_hold, NoBuffer}
      /\ \A x \in pb_pool_used : x # dice_hold /\ x # b => x \in pb_pool_used' /\ x # dice_hold'
      /\ dice_hold' # NoBuffer => dice_hold' \in pb_pool_used'
  BY <1>4, <1>5, <1>6
<1>8. Active' = Active
  BY <1>1 DEF Active, Transferring
<1>9. \A i \in Waiting("WRITE")' : /\ ut_list'[i].buffer \in pb_pool_used'
                                   /\ ut_list'[i].buffer # dice_hold'
                                   /\ Active' => ut_list'[i].buffer # BulkBuf'
  BY <1>1, <1>3, <1>4, <1>7, <1>8 DEF BufferInv
<1>10. \A i, j \in Waiting("WRITE")' : ut_list'[i].buffer = ut_list'[j].buffer => i = j
  BY <1>1, <1>3 DEF BufferInv
<1>11. Active' => BulkBuf' \in pb_pool_used' /\ BulkBuf' # dice_hold'
  BY <1>1, <1>4, <1>7, <1>8 DEF BufferInv
<1>12. /\ Transferring(ep_out)' => ep_out'.buf = BulkBuf'
       /\ Transferring(ep_out)' \/ Transferring(out_done)' => merge_stage' = "NONE"
  BY <1>1 DEF BufferInv, Transferring
<1> QED
  BY <1>7, <1>9, <1>10, <1>11, <1>12 DEF BufferInv

\* Every step leaves every page buffer with one use at most.
LEMMA BufferStep == Types /\ NakInv /\ TaskInv /\ BufferInv /\ [Next]_vars => BufferInv'
<1> SUFFICES ASSUME Types, NakInv, TaskInv, BufferInv, [Next]_vars PROVE BufferInv'
  OBVIOUS
<1> USE DEF vars, host, endpoints, transport, shared, store
<1>1. CASE MSC_BulkOut
  BY <1>1, BulkOutBuffers
<1>2. CASE MSC_BulkIn
  <2>1. /\ UNCHANGED <<ep_out, out_done, BulkBuf, merge_stage, pb_pool_used, task, dice_hold>>
        /\ ut_list' = ut_list \/ \E e \in Entry : e.type # "WRITE" /\ ut_list' = Append(ut_list, e)
    BY <1>2, BulkInEffect
  <2>2. /\ Waiting("WRITE")' = Waiting("WRITE")
        /\ \A i \in Waiting("WRITE") : ut_list'[i] = ut_list[i]
    BY <2>1, NotQueued
  <2>3. Active' = Active /\ Transferring(ep_out)' = Transferring(ep_out)
        /\ Transferring(out_done)' = Transferring(out_done)
    BY <2>1 DEF Active, Transferring
  <2> QED
    BY <2>1, <2>2, <2>3, BuffersKept DEF BufferInv
<1>3. CASE MSC_BulkOutNak
  BY <1>3, BulkOutNakBuffers
<1>4. CASE TaskWrite
  BY <1>4, TaskWriteBuffers
<1>5. CASE TaskPop
  <2>1. /\ task = "pop" /\ task' = "next" /\ ut_list' = Tail(ut_list)
        /\ ut_list \in Seq(Entry) /\ ut_list # <<>>
        /\ UNCHANGED <<ep_out, out_done, BulkBuf, merge_stage, pb_pool_used, dice_hold>>
    BY <1>5 DEF TaskPop, Running, TaskInv, Types
  <2>2. \A i \in Waiting("WRITE")' : /\ i \in Nat /\ i + 1 \in Waiting("WRITE")
                                     /\ ut_list'[i] = ut_list[i + 1]
    BY <2>1, WaitingPop
  <2>3. Active' = Active
    BY <2>1 DEF Active, Transferring
  <2>4. \A i \in Waiting("WRITE")' : /\ ut_list'[i].buffer \in pb_pool_used'
                                     /\ ut_list'[i].buffer # dice_hold'
                                     /\ Active' => ut_list'[i].buffer # BulkBuf'
    BY <2>1, <2>2, <2>3 DEF BufferInv
  <2>5. \A i, j \in Waiting("WRITE")' : ut_list'[i].buffer = ut_list'[j].buffer => i = j
    <3> SUFFICES ASSUME NEW i \in Waiting("WRITE")', NEW j \in Waiting("WRITE")',
                        ut_list'[i].buffer = ut_list'[j].buffer
                 PROVE  i = j
      OBVIOUS
    <3>1. i + 1 = j + 1
      BY <2>2 DEF BufferInv
    <3>2. i \in Nat /\ j \in Nat
      BY <2>2
    <3> QED
      BY <3>1, <3>2
  <2>6. /\ dice_hold' # NoBuffer => dice_hold' \in pb_pool_used'
        /\ Active' => BulkBuf' \in pb_pool_used' /\ BulkBuf' # dice_hold'
    BY <2>1, <2>3 DEF BufferInv
  <2>7. /\ Transferring(ep_out)' => ep_out'.buf = BulkBuf'
        /\ Transferring(ep_out)' \/ Transferring(out_done)' => merge_stage' = "NONE"
    BY <2>1 DEF BufferInv, Transferring
  <2> QED
    BY <2>4, <2>5, <2>6, <2>7 DEF BufferInv
<1>6. CASE TaskStart \/ TaskRead \/ TaskReady
  <2>1. /\ task' = "pop" \/ task # "pop"
        /\ UNCHANGED <<ep_out, out_done, BulkBuf, merge_stage, ut_list, pb_pool_used, dice_hold>>
    BY <1>6 DEF TaskStart, TaskRead, TaskReady, Running
  <2>2. \A i \in Waiting("WRITE")' : i \in Waiting("WRITE") /\ ut_list'[i] = ut_list[i]
    BY <2>1 DEF Waiting, Queued
  <2>3. Active' = Active /\ Transferring(ep_out)' = Transferring(ep_out)
        /\ Transferring(out_done)' = Transferring(out_done)
    BY <2>1 DEF Active, Transferring
  <2> QED
    BY <2>1, <2>2, <2>3, BuffersKept DEF BufferInv
<1>7. CASE TaskMerge
  <2>1. /\ task' = "pop" /\ merge_stage = "START" /\ merge_stage' = "FINISH"
        /\ UNCHANGED <<ep_out, out_done, BulkBuf, ut_list, pb_pool_used, dice_hold>>
    BY <1>7 DEF TaskMerge, Running, TaskInv
  <2>2. \A i \in Waiting("WRITE")' : i \in Waiting("WRITE") /\ ut_list'[i] = ut_list[i]
    BY <2>1 DEF Waiting, Queued
  <2>3. /\ Active /\ Transferring(ep_out)' = Transferring(ep_out)
        /\ Transferring(out_done)' = Transferring(out_done)
    BY <2>1 DEF Active, Transferring
  <2>4. ~Transferring(ep_out) /\ ~Transferring(out_done)
    BY <2>1 DEF BufferInv
  <2> QED
    BY <2>1, <2>2, <2>3, <2>4, BuffersKept
<1>8. CASE OutCommand \/ OutData \/ USB_Reset
  <2>1. /\ UNCHANGED <<BulkBuf, merge_stage, ut_list, pb_pool_used, dice_hold, task>>
        /\ ep_out' = Nothing
        /\ out_done' # Nothing /\ out_done'.what = "data" => ep_out.what = "data"
    BY <1>8 DEF OutCommand, OutData, USB_Reset
  <2>2. \A i \in Waiting("WRITE")' : i \in Waiting("WRITE") /\ ut_list'[i] = ut_list[i]
    BY <2>1 DEF Waiting, Queued
  <2>3. /\ ~Transferring(ep_out)' /\ (Transferring(out_done)' => Transferring(ep_out))
    BY <2>1 DEF Transferring, Nothing
  <2>4. Active' => Active
    BY <2>1, <2>3 DEF Active
  <2> QED
    BY <2>1, <2>2, <2>3, <2>4, BuffersKept DEF BufferInv
<1>9. CASE UNCHANGED <<ep_out, out_done, BulkBuf, merge_stage, ut_list, pb_pool_used, task,
                       dice_hold>>
  <2>1. \A i \in Waiting("WRITE")' : i \in Waiting("WRITE") /\ ut_list'[i] = ut_list[i]
    BY <1>9 DEF Waiting, Queued
  <2>2. Active' = Active /\ Transferring(ep_out)' = Transferring(ep_out)
        /\ Transferring(out_done)' = Transferring(out_done)
    BY <1>9 DEF Active, Transferring
  <2> QED
    BY <1>9, <2>1, <2>2, BuffersKept DEF BufferInv
<1> QED
  BY <1>1, <1>2, <1>3, <1>4, <1>5, <1>6, <1>7, <1>8, <1>9
  DEF Next, Interrupts, Handlers, MainLoop, Tokens, USB_ISR, ISR_NextPart, MSC_BulkInNak,
      OutNaked, InNaked, InTransfer, HostCommand, MSC_Reset, HostMayReset

-----------------------------------------------------------------------------
(***************************************************************************)
(* The theorem.                                                            *)
(***************************************************************************)

\* The front end starts with the invariant.
LEMMA InitInvariants == Init => Invariants
<1> SUFFICES ASSUME Init PROVE Invariants
  OBVIOUS
<1>1. hcmd \in Block /\ CBW \in Block
  BY DEF Init, NoCommand, Block, Ops, Tags
<1>2. isr \in Isr
  BY DEF Init, Isr
<1>3. /\ ep_out \in ToReceive /\ out_done \in Received /\ ep_in \in ToSend
      /\ pb_pool_used \subseteq Buffer /\ phase \in Phases /\ ut_list \in Seq(Entry)
  BY BufferAssumption DEF Init, ToReceive, Received, ToSend, CbwOnly, Buffer, Phases
<1>4. out_nak \in BOOLEAN /\ in_nak \in BOOLEAN
  BY Zenon DEF Init
<1>5. BulkBuf \in Buffer \cup {NoBuffer} /\ dice_hold \in Buffer \cup {NoBuffer}
  BY DEF Init
<1>6. /\ moved \in Int /\ Offset \in Int /\ Length \in Int /\ merge_count \in Int
       /\ Read_BulkLen \in Int /\ merge_stage \in {"NONE", "START", "FINISH"}
       /\ task \in {"next", "READ", "READY", "WRITE", "MERGE", "pop"}
  BY DEF Init
<1>7. Types
  BY <1>1, <1>2, <1>3, <1>4, <1>5, <1>6 DEF Types
<1>8. NakInv /\ TaskInv
  BY DEF Init, NakInv, NakOut, TaskInv
<1>9. Waiting("WRITE") = {} /\ ~Active
  BY DEF Init, Waiting, Queued, Active, Transferring, Nothing
<1>10. BufferInv
  BY <1>9 DEF Init, BufferInv, Active
<1> QED
  BY <1>7, <1>8, <1>10 DEF Invariants

\* The invariant holds in every state.
LEMMA Invariant == Spec => []Invariants
<1>1. Invariants /\ [Next]_vars => Invariants'
  BY TypeStep, NakStep, TaskStep, BufferStep DEF Invariants
<1> QED
  BY InitInvariants, <1>1, PTL DEF Spec

\* The invariant leaves no page buffer with two uses.
LEMMA OneUse == Invariants => NoBufferUsedTwice
<1> SUFFICES ASSUME Types, BufferInv PROVE NoBufferUsedTwice
  BY DEF Invariants
<1> DEFINE waiting == Waiting("WRITE")
           queued == {ut_list[i].buffer : i \in waiting}
           Buf(i) == ut_list[i].buffer
           buffers == [i \in waiting |-> Buf(i)]
<1>1. Cardinality(queued) = Cardinality(waiting)
  <2>1. IsFiniteSet(waiting)
    <3>1. ut_list \in Seq(Entry)
      BY DEF Types
    <3>2. DOMAIN ut_list = 1 .. Len(ut_list) /\ Len(ut_list) \in Nat
      BY <3>1, LenProperties
    <3>3. IsFiniteSet(1 .. Len(ut_list))
      BY <3>2, FS_Interval
    <3>4. waiting \subseteq 1 .. Len(ut_list)
      BY <3>2 DEF Waiting, Queued
    <3> QED
      BY <3>3, <3>4, FS_Subset
  <2>2. \A i, j \in waiting : Buf(i) = Buf(j) => i = j
    BY DEF BufferInv
  <2>3. queued = {Buf(i) : i \in waiting}
    OBVIOUS
  <2>4. buffers \in Surjection(waiting, queued) /\ buffers \in Injection(waiting, queued)
    <3> HIDE DEF waiting, Buf
    <3> QED
      BY <2>2, <2>3 DEF Injection, Surjection, IsInjective
  <2> HIDE DEF waiting, queued, buffers
  <2> QED
    BY <2>1, <2>4, FS_Surjection
<1>2. queued \cup ({dice_hold} \ {NoBuffer}) \subseteq pb_pool_used /\ dice_hold \notin queued
  BY DEF BufferInv
<1>3. ASSUME ep_out # Nothing, ep_out.what = "data"
      PROVE  ep_out.buf \in pb_pool_used \ (queued \cup {dice_hold})
  <2>1. ep_out.buf = BulkBuf /\ Active
    BY <1>3 DEF BufferInv, Active, Transferring
  <2> QED
    BY <2>1 DEF BufferInv
<1> QED
  BY <1>1, <1>2, <1>3 DEF NoBufferUsedTwice

\* No page buffer of the front end has two uses (BUF_Allocate of MSC_BulkOutNak,
\* the queue of MSC_MemoryWrite and UBI_Write of the main loop), for any number of
\* buffers, commands and resets, however late the interrupts are taken.
THEOREM NoBufferIsUsedTwice == Spec => []NoBufferUsedTwice
  BY Invariant, OneUse, PTL

-----------------------------------------------------------------------------
(*****************************************************************************)
(* The host that waits.  In the conditions of Undisturbed every invariant of *)
(* UsbMsc holds.  The invariant says which stage host and device are in, what *)
(* the list holds for it, and where the latest data of each sector are.      *)
(*****************************************************************************)

\* The conditions under which the host and the handlers are in step: interrupts
\* are taken before the host's next token, there are no resets, and the host does
\* not compare data on the device (MSC_MemoryVerify keeps its buffer).
Undisturbed == PromptISR /\ MaxResets = 0 /\ \A c \in Commands : c.op # "verify"

\* The commands the host sends then.
Message == [op : Ops \ {"verify"}, off : Sector, len : Nat, tag : Tags, dTag : Nat]

\* The commands: those with data lie inside the device; each has its tag logged.
CommandInv ==
  /\ hcmd \in Message /\ CBW \in Message /\ resets = 0
  /\ hcmd.op \in {"read", "write"} =>
       hcmd.len > 0 /\ hcmd.off + hcmd.len <= NPage * SECTOR_PER_MPP
  /\ tags \in Seq(Tags) /\ Len(tags) = hcmd.dTag
  /\ hcmd.dTag > 0 => tags[hcmd.dTag] = hcmd.tag

\* What is handled is pending still.
IsrInv ==
  /\ isr.at = "off" => isr.val = {}
  /\ isr.at = "complete" => /\ "out" \in isr.val => out_done # Nothing
                            /\ "in" \in isr.val => in_done
  /\ isr.at = "nak" => /\ "out" \in isr.val => out_nak
                       /\ "in" \in isr.val => in_nak

\* The stages of a command, as the host and the device see them together.  At
\* most one transfer or NAK is pending in each.

\* Between commands; the completion of the last status may be pending still.
Idle ==
  /\ phase = "idle" /\ ep_out = Nothing /\ ep_in = Nothing
  /\ out_done = Nothing /\ ~out_nak /\ ~in_nak
  /\ BulkStage = IF in_done THEN "CSW" ELSE "CBW"

\* The host sends its command block.
Asking ==
  /\ phase = "cbw" /\ BulkStage = "CBW" /\ moved = 0
  /\ ep_out \in CbwOnly /\ ep_in = Nothing
  /\ out_done = Nothing /\ ~in_done /\ ~in_nak

\* The block has been received, and MSC_GetCBW has not run.
Asked ==
  /\ CBW = hcmd /\ BulkStage = "CBW" /\ moved = 0
  /\ phase = IF hcmd.op = "write" THEN "out"
             ELSE IF hcmd.op = "status" THEN "csw" ELSE "in"
  /\ ep_out = Nothing /\ ep_in = Nothing
  /\ out_done = [what |-> "cbw"] /\ ~in_done /\ ~out_nak /\ ~in_nak

\* Sectors received of a write, and not queued yet.
InHand == IF Transferring(out_done) THEN out_done.n ELSE 0

\* The pages of a write are received; the device is InHand behind the host.
Receiving ==
  /\ hcmd.op = "write" /\ CBW = hcmd /\ BulkStage = "DATA_OUT"
  /\ phase = IF moved = hcmd.len THEN "csw" ELSE "out"
  /\ ep_in = Nothing /\ ~in_done /\ ~in_nak
  /\ out_done # Nothing => /\ ep_out = Nothing /\ ~out_nak
                           /\ out_done = [what |-> "data", n |-> WithinPage(Offset, Length)]
  /\ ep_out # Nothing =>
       /\ ~out_nak
       /\ ep_out = [what |-> "data", buf |-> BulkBuf, at |-> Offset % SECTOR_PER_MPP,
                    n |-> WithinPage(Offset, Length)]
  /\ hcmd.off <= Offset /\ Length > 0
  /\ Offset + InHand = hcmd.off + moved
  /\ Length - InHand = hcmd.len - moved

\* A page of a read is fetched and sent: hcmd.off + moved up to Offset.
Reading ==
  /\ hcmd.op = "read" /\ CBW = hcmd /\ phase = "in"
  /\ BulkStage = IF ep_in # Nothing /\ Length = 0 THEN "DATA_IN_LAST" ELSE "DATA_IN"
  /\ ep_out = Nothing /\ out_done = Nothing /\ ~out_nak /\ ~in_done
  /\ hcmd.off + moved < Offset /\ Offset + Length = hcmd.off + hcmd.len
  /\ ep_in # Nothing => /\ ~in_nak /\ Read_BulkLen # 0
                        /\ ep_in = [what |-> "data", n |-> Read_BulkLen]

\* The page has been sent, and MSC_BulkIn has not run.
ReadSent ==
  /\ hcmd.op = "read" /\ CBW = hcmd
  /\ phase = IF Length = 0 THEN "csw" ELSE "in"
  /\ BulkStage = IF Length = 0 THEN "DATA_IN_LAST" ELSE "DATA_IN"
  /\ ep_out = Nothing /\ ep_in = Nothing
  /\ out_done = Nothing /\ in_done /\ ~out_nak /\ ~in_nak
  /\ Offset = hcmd.off + moved /\ Offset + Length = hcmd.off + hcmd.len

\* The data of a command that has some of its own.
Informing ==
  /\ hcmd.op = "info" /\ CBW = hcmd /\ BulkStage = "DATA_IN_LAST"
  /\ ep_out = Nothing /\ out_done = Nothing /\ ~out_nak /\ ~in_nak
  /\ \/ phase = "in" /\ ep_in = [what |-> "info", dTag |-> hcmd.dTag] /\ ~in_done
     \/ phase = "csw" /\ ep_in = Nothing /\ in_done

\* The status is primed.
Ending ==
  /\ CBW = hcmd /\ BulkStage = "CSW" /\ phase = "csw"
  /\ ep_out = Nothing /\ ep_in = [what |-> "csw", dTag |-> hcmd.dTag]
  /\ out_done = Nothing /\ ~in_done /\ ~out_nak /\ ~in_nak
  /\ hcmd.op = "write" => Offset = hcmd.off + hcmd.len

\* Host and device are in one of the stages; a page is merged only for a write.
StageInv ==
  /\ moved \in Nat /\ Offset \in Nat /\ Length \in Nat
  /\ \/ Idle \/ Asking \/ Asked \/ Receiving \/ Reading \/ ReadSent
     \/ Informing \/ Ending
  /\ merge_stage # "NONE" => /\ Receiving /\ out_done = Nothing /\ ep_out = Nothing
                             /\ merge_count = WithinPage(Offset, Length)

\* Every buffer in use has a use, and write_buffer none of these: the page that is
\* programmed, the writes in the list, the transfer.
Held == IF dice_hold = NoBuffer THEN {} ELSE {dice_hold}
InList == {ut_list[i].buffer : i \in Waiting("WRITE")}
InFlight == IF Active THEN {BulkBuf} ELSE {}
UseInv ==
  /\ 0 \in pb_pool_used
  /\ pb_pool_used \subseteq {0} \cup Held \cup InList \cup InFlight
  /\ 0 \notin Held \cup InList \cup InFlight

\* The read buffer holds what the host is about to be sent.
Filled ==
  /\ Read_BulkBuf \in Seq(Nat) /\ Len(Read_BulkBuf) = Offset - (hcmd.off + moved)
  /\ \A i \in 1 .. Len(Read_BulkBuf) : Read_BulkBuf[i] = disk[hcmd.off + moved + i - 1]

\* First sector of the page of the transfer.
Base == PageStart(PageOf(Offset))

\* What waits in the list: at most one read, at its end, the one under way; at most
\* one merge, at its end, for the transfer under way; writes of whole pages.
ReadList ==
  \A i \in Waiting("READ") : /\ i = Len(ut_list) /\ Reading /\ Read_BulkLen = 0
                             /\ ut_list[i].offset = hcmd.off + moved
                             /\ ut_list[i].length = Offset - (hcmd.off + moved)
MergeList ==
  \A i \in Waiting("MERGE") : /\ i = Len(ut_list) /\ merge_stage = "START"
                              /\ ut_list[i].offset = Base /\ ut_list[i].buffer = BulkBuf
WriteList ==
  \A i \in Waiting("WRITE") : /\ ut_list[i].length = SECTOR_PER_MPP
                              /\ ut_list[i].buffer \in Buffer
                              /\ \E p \in 0 .. NPage - 1 : ut_list[i].offset = PageStart(p)

\* The read buffer is filled when its length is set, and stays so until it is sent.
ReadBuffer ==
  /\ task = "READY" => Filled
  /\ Reading /\ Read_BulkLen # 0 => Filled /\ Read_BulkLen = Offset - (hcmd.off + moved)

ListInv == ReadList /\ MergeList /\ WriteList /\ ReadBuffer

\* Data: numbers of commands.
Numbers == 0 .. hcmd.dTag

\* A page with the tag of the latest command it has data of, by the log of tags.
Tagged(page, tag, log) ==
  \E d \in 0 .. Len(log) : /\ \A i \in InPage : page[i] <= d
                           /\ \E i \in InPage : page[i] = d
                           /\ d # 0 => tag = log[d]

\* What the host knows to be written, and has sent and queued of the write under way.
Writing == /\ hcmd.op = "write" /\ phase \in {"out", "csw"}
           /\ BulkStage \in {"DATA_OUT", "CSW"}
Current(s) == IF Writing /\ s \in hcmd.off .. Offset - 1 THEN hcmd.dTag ELSE disk[s]

\* The sectors of an entry, and a page of the flash.
Covers(e, s) == s \in e.offset .. e.offset + e.length - 1
PageOfFlash(p) == [i \in InPage |-> flash[PageStart(p) + i]]

\* No read has gone wrong, and the pages in flash and in the list have their tags.
DataInv ==
  /\ disk \in [Sector -> Numbers] /\ flash \in [Sector -> Numbers]
  /\ misread = FALSE
  /\ pb_pool \in [Buffer -> [InPage -> Numbers]]
  /\ flash_tag \in [0 .. NPage - 1 -> Tags]
  /\ \A p \in 0 .. NPage - 1 : Tagged(PageOfFlash(p), flash_tag[p], tags)
  /\ \A i \in Waiting("WRITE") : Tagged(pb_pool[ut_list[i].buffer], ut_list[i].tag, tags)

\* The flash has the current data of a sector unless a write waits for it, and then
\* the last such write has.
Pending(s) ==
  /\ (\A i \in Waiting("WRITE") : ~Covers(ut_list[i], s)) => flash[s] = Current(s)
  /\ \A i \in Waiting("WRITE") :
       /\ Covers(ut_list[i], s)
       /\ \A j \in Waiting("WRITE") : j > i => ~Covers(ut_list[j], s)
       => pb_pool[ut_list[i].buffer][s - ut_list[i].offset] = Current(s)
PendingInv == \A s \in Sector : Pending(s)

\* The buffer of the transfer has the rest of its page once that is merged, and the
\* whole page once the host has sent its part.
Window(n) == LET at == Offset % SECTOR_PER_MPP IN at .. at + n - 1
TransferInv ==
  /\ merge_stage = "FINISH" =>
       \A k \in InPage : pb_pool[BulkBuf][k] = Current(Base + k)
  /\ Transferring(ep_out) =>
       \A k \in InPage \ Window(ep_out.n) : pb_pool[BulkBuf][k] = Current(Base + k)
  /\ Transferring(out_done) =>
       \A k \in InPage : pb_pool[BulkBuf][k] = IF k \in Window(out_done.n) THEN hcmd.dTag
                                               ELSE Current(Base + k)

-----------------------------------------------------------------------------
(*****************************************************************************)
(* Facts about sectors and pages.                                            *)
(*****************************************************************************)

\* Products of sums.
LEMMA Distribute ==
  ASSUME NEW a \in Nat, NEW b \in Nat, NEW c \in Nat
  PROVE  /\ (a + b) * c = a * c + b * c
         /\ a * c \in Nat /\ b * c \in Nat
OBVIOUS

\* A sector is at one place of one page.
LEMMA PageFacts ==
  ASSUME NEW s \in Nat
  PROVE  /\ PageOf(s) \in Nat /\ s % SECTOR_PER_MPP \in InPage
         /\ s = PageStart(PageOf(s)) + (s % SECTOR_PER_MPP)
         /\ PageStart(PageOf(s)) \in Nat
<1>1. SECTOR_PER_MPP \in Nat /\ SECTOR_PER_MPP > 0
  BY GeometryAssumption
<1>2. PageOf(s) \in Nat /\ s % SECTOR_PER_MPP \in InPage
  BY <1>1 DEF PageOf, InPage
<1>3. s = (s \div SECTOR_PER_MPP) * SECTOR_PER_MPP + (s % SECTOR_PER_MPP)
  BY <1>1
<1>4. PageStart(PageOf(s)) \in Nat
  BY <1>1, <1>2 DEF PageStart
<1> QED
  BY <1>2, <1>3, <1>4 DEF PageOf, PageStart

\* Two pages have no sector in common.
LEMMA PagesDisjoint ==
  ASSUME NEW p \in Nat, NEW q \in Nat, NEW i \in InPage, NEW j \in InPage,
         PageStart(p) + i = PageStart(q) + j
  PROVE  p = q /\ i = j
<1>1. SECTOR_PER_MPP \in Nat /\ SECTOR_PER_MPP > 0
  BY GeometryAssumption
<1>2. ASSUME NEW a \in Nat, NEW b \in Nat, NEW k \in InPage, NEW m \in InPage, a < b
      PROVE  PageStart(a) + k # PageStart(b) + m
  <2>1. PICK d \in Nat : b = a + 1 + d
    <3>1. b - a - 1 \in Nat /\ b = a + 1 + (b - a - 1)
      BY <1>2
    <3> QED
      BY <3>1
  <2>2. /\ b * SECTOR_PER_MPP = a * SECTOR_PER_MPP + SECTOR_PER_MPP + d * SECTOR_PER_MPP
        /\ d * SECTOR_PER_MPP \in Nat /\ a * SECTOR_PER_MPP \in Nat
    BY <1>1, <2>1
  <2> QED
    BY <1>1, <2>2 DEF PageStart, InPage
<1>3. ~(p < q) /\ ~(q < p)
  BY <1>2
<1>4. p = q
  BY <1>3
<1>5. PageStart(p) \in Nat
  BY <1>1 DEF PageStart
<1> QED
  BY <1>1, <1>4, <1>5 DEF InPage

\* The sectors of the pages are the sectors of the device.
LEMMA SectorFacts ==
  /\ \A s \in Sector : s \in Nat /\ PageOf(s) \in 0 .. NPage - 1
  /\ \A p \in 0 .. NPage - 1, k \in InPage :
       /\ PageStart(p) \in Nat /\ PageStart(p) + k \in Sector
       /\ PageOf(PageStart(p) + k) = p /\ (PageStart(p) + k) % SECTOR_PER_MPP = k
  /\ NPage \in Nat /\ NPage * SECTOR_PER_MPP \in Nat
<1>1. SECTOR_PER_MPP \in Nat /\ SECTOR_PER_MPP > 0 /\ NPage \in Nat
  BY GeometryAssumption
<1>2. ASSUME NEW s \in Sector PROVE s \in Nat /\ PageOf(s) \in 0 .. NPage - 1
  <2>1. s \in Nat /\ s < NPage * SECTOR_PER_MPP
    BY <1>1 DEF Sector
  <2>2. /\ PageOf(s) \in Nat /\ s = PageStart(PageOf(s)) + (s % SECTOR_PER_MPP)
        /\ s % SECTOR_PER_MPP \in Nat
    BY <2>1, PageFacts DEF InPage
  <2>3. ASSUME PageOf(s) >= NPage PROVE FALSE
    <3>1. PICK d \in Nat : PageOf(s) = NPage + d
      <4>1. PageOf(s) - NPage \in Nat /\ PageOf(s) = NPage + (PageOf(s) - NPage)
        BY <1>1, <2>2, <2>3
      <4> QED
        BY <4>1
    <3>2. PageStart(PageOf(s)) = (NPage + d) * SECTOR_PER_MPP
      BY <3>1 DEF PageStart
    <3>3. /\ (NPage + d) * SECTOR_PER_MPP = NPage * SECTOR_PER_MPP + d * SECTOR_PER_MPP
          /\ d * SECTOR_PER_MPP \in Nat /\ NPage * SECTOR_PER_MPP \in Nat
      BY <1>1, Distribute
    <3> DEFINE x == NPage * SECTOR_PER_MPP
               y == d * SECTOR_PER_MPP
               r == s % SECTOR_PER_MPP
    <3>4. /\ x \in Nat /\ y \in Nat /\ s < x /\ s \in Nat
          /\ s = x + y + r /\ r \in Nat
      BY <2>1, <2>2, <3>2, <3>3
    <3> HIDE DEF x, y, r
    <3> QED
      BY <3>4
  <2> QED
    BY <1>1, <2>1, <2>2, <2>3
<1>3. ASSUME NEW p \in 0 .. NPage - 1, NEW k \in InPage
      PROVE  /\ PageStart(p) \in Nat /\ PageStart(p) + k \in Sector
             /\ PageOf(PageStart(p) + k) = p /\ (PageStart(p) + k) % SECTOR_PER_MPP = k
  <2>1. PICK d \in Nat : NPage = p + 1 + d
    <3>1. NPage - p - 1 \in Nat /\ NPage = p + 1 + (NPage - p - 1)
      BY <1>1
    <3> QED
      BY <3>1
  <2>2. /\ (p + 1 + d) * SECTOR_PER_MPP = p * SECTOR_PER_MPP + SECTOR_PER_MPP + d * SECTOR_PER_MPP
        /\ d * SECTOR_PER_MPP \in Nat /\ p * SECTOR_PER_MPP \in Nat
    <3>1. /\ (p + 1 + d) * SECTOR_PER_MPP = (p + 1) * SECTOR_PER_MPP + d * SECTOR_PER_MPP
          /\ d * SECTOR_PER_MPP \in Nat
      BY <1>1, Distribute
    <3>2. /\ (p + 1) * SECTOR_PER_MPP = p * SECTOR_PER_MPP + 1 * SECTOR_PER_MPP
          /\ p * SECTOR_PER_MPP \in Nat
      BY <1>1, Distribute
    <3> QED
      BY <1>1, <3>1, <3>2
  <2>3. PageStart(p) \in Nat /\ PageStart(p) + k \in Sector /\ PageStart(p) + k \in Nat
    <3> DEFINE x == p * SECTOR_PER_MPP
               y == d * SECTOR_PER_MPP
               z == NPage * SECTOR_PER_MPP
    <3>1. z = x + SECTOR_PER_MPP + y /\ x \in Nat /\ y \in Nat
      BY <2>1, <2>2
    <3>2. k \in Nat /\ k <= SECTOR_PER_MPP - 1
      BY <1>1 DEF InPage
    <3> HIDE DEF x, y, z
    <3>3. x + k \in Nat /\ x + k \in 0 .. z - 1
      BY <1>1, <3>1, <3>2
    <3> QED
      BY <3>1, <3>3 DEF PageStart, Sector, x, z
  <2> DEFINE s == PageStart(p) + k
  <2>4. /\ PageOf(s) \in Nat /\ s % SECTOR_PER_MPP \in InPage
        /\ s = PageStart(PageOf(s)) + (s % SECTOR_PER_MPP)
    BY <2>3, PageFacts
  <2>5. p \in Nat /\ s = PageStart(p) + k
    OBVIOUS
  <2> HIDE DEF s
  <2>6. PageOf(s) = p /\ s % SECTOR_PER_MPP = k
    <3> DEFINE q == PageOf(s)
               r == s % SECTOR_PER_MPP
    <3>1. /\ q \in Nat /\ r \in InPage /\ p \in Nat
          /\ PageStart(q) + r = PageStart(p) + k
      BY <2>4, <2>5
    <3> HIDE DEF q, r
    <3>2. q = p /\ r = k
      BY <3>1, PagesDisjoint
    <3> QED
      BY <3>2 DEF q, r
  <2> QED
    BY <2>3, <2>6 DEF s
<1>4. NPage * SECTOR_PER_MPP \in Nat
  BY <1>1
<1> QED
  BY <1>1, <1>2, <1>3, <1>4

\* A transfer stays in its page and in its command.
LEMMA WithinPageFacts ==
  ASSUME NEW s \in Nat, NEW len \in Nat, len > 0
  PROVE  /\ WithinPage(s, len) \in Nat /\ WithinPage(s, len) > 0
         /\ WithinPage(s, len) <= len
         /\ s % SECTOR_PER_MPP \in Nat
         /\ (s % SECTOR_PER_MPP) + WithinPage(s, len) <= SECTOR_PER_MPP
         /\ SECTOR_PER_MPP \in Nat /\ SECTOR_PER_MPP > 0
<1>1. SECTOR_PER_MPP \in Nat /\ SECTOR_PER_MPP > 0
  BY GeometryAssumption
<1>2. s % SECTOR_PER_MPP \in 0 .. SECTOR_PER_MPP - 1
  BY PageFacts DEF InPage
<1> DEFINE r == s % SECTOR_PER_MPP
<1> HIDE DEF r
<1>3. r \in 0 .. SECTOR_PER_MPP - 1
  BY <1>2 DEF r
<1>4. WithinPage(s, len) = IF SECTOR_PER_MPP - r < len THEN SECTOR_PER_MPP - r ELSE len
  BY DEF WithinPage, Smaller, r
<1>5. /\ WithinPage(s, len) \in Nat /\ WithinPage(s, len) > 0
      /\ WithinPage(s, len) <= len /\ r \in Nat
      /\ r + WithinPage(s, len) <= SECTOR_PER_MPP
  BY <1>1, <1>3, <1>4
<1> QED
  BY <1>1, <1>5 DEF r

-----------------------------------------------------------------------------
(*****************************************************************************)
(* Commands and interrupts.                                                  *)
(*****************************************************************************)

\* The host acts when nothing is pending, and does not reset.
LEMMA Prompt ==
  ASSUME Undisturbed
  PROVE  /\ HostMayAct => /\ isr.at = "off" /\ out_done = Nothing
                          /\ ~in_done /\ ~out_nak /\ ~in_nak
         /\ resets = 0 => ~HostMayReset
BY DEF Undisturbed, HostMayAct, HostMayReset

\* Every step keeps the commands.
LEMMA CommandStep == Undisturbed /\ CommandInv /\ [Next]_vars => CommandInv'
<1> SUFFICES ASSUME Undisturbed, CommandInv, [Next]_vars PROVE CommandInv'
  OBVIOUS
<1>1. ASSUME NEW c \in Commands, HostCommand(c) PROVE CommandInv'
  <2>1. /\ hcmd' = [op |-> c.op, off |-> c.off, len |-> c.len, tag |-> c.tag,
                    dTag |-> hcmd.dTag + 1]
        /\ tags' = Append(tags, c.tag) /\ CBW' = CBW /\ resets' = resets
    BY <1>1 DEF HostCommand, transport
  <2>2. /\ c \in Command /\ c.op # "verify"
        /\ c.op \in {"read", "write"} => c.len > 0 /\ c.off + c.len <= NPage * SECTOR_PER_MPP
    BY CommandsAssumption DEF Undisturbed
  <2>3. /\ c.op \in Ops \ {"verify"} /\ c.off \in Sector /\ c.tag \in Tags /\ c.len \in Nat
    BY <2>2, SectorFacts DEF Command
  <2>4. hcmd.dTag \in Nat /\ tags \in Seq(Tags) /\ Len(tags) = hcmd.dTag
    BY DEF CommandInv, Message
  <2>5. /\ tags' \in Seq(Tags) /\ Len(tags') = hcmd.dTag + 1 /\ tags'[hcmd.dTag + 1] = c.tag
    BY <2>1, <2>3, <2>4, AppendProperties
  <2>6. hcmd' \in Message
    BY <2>1, <2>3, <2>4 DEF Message
  <2> QED
    BY <2>1, <2>2, <2>4, <2>5, <2>6 DEF CommandInv
<1>2. CASE OutCommand
  BY <1>2 DEF OutCommand, CommandInv
<1>3. CASE MSC_Reset \/ USB_Reset
  BY <1>3, Prompt DEF MSC_Reset, USB_Reset, CommandInv
<1>4. CASE UNCHANGED <<hcmd, CBW, resets, tags>>
  BY <1>4 DEF CommandInv
<1> QED
  BY <1>1, <1>2, <1>3, <1>4
  DEF Next, Interrupts, Handlers, MainLoop, Tokens, USB_ISR, ISR_NextPart, MSC_BulkOut,
      MSC_BulkIn, MSC_BulkOutNak, MSC_BulkInNak, TaskStart, TaskRead, TaskReady, TaskWrite,
      TaskMerge, TaskPop, OutNaked, OutData, InNaked, InTransfer, vars, host, endpoints,
      transport, shared, store

\* Every step leaves what is being handled pending.
LEMMA IsrStep == Undisturbed /\ Types /\ CommandInv /\ IsrInv /\ [Next]_vars => IsrInv'
<1> SUFFICES ASSUME Undisturbed, Types, CommandInv, IsrInv, [Next]_vars PROVE IsrInv'
  OBVIOUS
<1>0. /\ isr \in Isr
      /\ \A e : /\ Handled(e) \in Isr /\ Handled(e).val = isr.val \ {e}
                /\ Handled(e).at = isr.at /\ Handled(e).naki = isr.naki
  BY EntryTypes, 0 \in Int DEF Types
<1>1. CASE USB_ISR
  BY <1>0, <1>1 DEF USB_ISR, IsrInv
<1>2. CASE ISR_NextPart
  BY <1>0, <1>2 DEF ISR_NextPart, IsrInv, endpoints
<1>3. CASE MSC_BulkOut
  <2>1. /\ HandlerDone("out") /\ isr.at = "complete" /\ in_done' = in_done
    BY <1>3, BulkOutEffect DEF MSC_BulkOut
  <2>2. isr'.at \in {"complete", "hung"} /\ "out" \notin isr'.val /\ isr'.val \subseteq isr.val
    BY <1>0, <2>1 DEF HandlerDone, Isr
  <2> QED
    BY <2>1, <2>2 DEF IsrInv
<1>4. CASE MSC_BulkIn
  <2>1. /\ HandlerDone("in") /\ isr.at = "complete" /\ out_done' = out_done
    BY <1>4, BulkInEffect
  <2>2. isr'.at \in {"complete", "hung"} /\ "in" \notin isr'.val /\ isr'.val \subseteq isr.val
    BY <1>0, <2>1 DEF HandlerDone, Isr
  <2> QED
    BY <2>1, <2>2 DEF IsrInv
<1>5. CASE MSC_BulkOutNak
  <2>1. /\ HandlerDone("out") /\ NakOut /\ in_nak' = in_nak
    BY <1>5, BulkOutNakEffect
  <2>2. isr'.at \in {"nak", "hung"} /\ "out" \notin isr'.val /\ isr'.val \subseteq isr.val
    BY <1>0, <2>1 DEF HandlerDone, Isr, NakOut
  <2> QED
    BY <2>1, <2>2 DEF IsrInv, NakOut
<1>6. CASE MSC_BulkInNak
  <2>1. isr.at = "nak" /\ isr' = Handled("in") /\ out_nak' = out_nak
    BY <1>6 DEF MSC_BulkInNak, Handling
  <2> QED
    BY <1>0, <2>1 DEF IsrInv
<1>7. CASE UNCHANGED <<isr, out_done, in_done, out_nak, in_nak>>
  BY <1>7 DEF IsrInv
<1>8. CASE Tokens
  <2>1. isr.at = "off" /\ isr' = isr
    BY <1>8, Prompt DEF Tokens, OutNaked, OutCommand, OutData, InNaked, InTransfer
  <2> QED
    BY <2>1 DEF IsrInv
<1>9. CASE MSC_Reset \/ USB_Reset
  BY <1>9, Prompt DEF MSC_Reset, USB_Reset, CommandInv
<1> QED
  BY <1>1, <1>2, <1>3, <1>4, <1>5, <1>6, <1>7, <1>8, <1>9
  DEF Next, Interrupts, Handlers, MainLoop, TaskStart, TaskRead, TaskReady, TaskWrite,
      TaskMerge, TaskPop, HostCommand, vars, host, endpoints, transport, shared, store

\* What is pending tells the stage.
LEMMA StageOf ==
  ASSUME StageInv
  PROVE  /\ out_done # Nothing => Asked \/ Receiving
         /\ in_done => Idle \/ ReadSent \/ Informing
         /\ out_nak => Asking \/ Receiving
         /\ in_nak => Reading
         /\ merge_stage # "NONE" => Receiving
         /\ phase = "idle" => Idle
         /\ phase = "cbw" => Asking
         /\ phase = "out" => Asked \/ Receiving
         /\ phase # "confused"
         /\ ep_in # Nothing => Reading \/ Informing \/ Ending
         /\ ep_out # Nothing => Asking \/ Receiving
BY DEF StageInv, Idle, Asking, Asked, Receiving, Reading, ReadSent, Informing, Ending

-----------------------------------------------------------------------------
(*****************************************************************************)
(* Stages.  What each handler and each token does to the stage, and to the   *)
(* list.                                                                     *)
(*****************************************************************************)

\* The numbers of a command.
LEMMA CommandNumbers ==
  ASSUME CommandInv
  PROVE  /\ hcmd.off \in Nat /\ hcmd.len \in Nat /\ hcmd.dTag \in Nat /\ CBW.dTag \in Nat
         /\ hcmd.op \in {"read", "write", "info", "status"}
BY SectorFacts DEF CommandInv, Message, Ops

\* MSC_BulkOut begins the command of the block received, or queues the page.
LEMMA BulkOutDoes ==
  ASSUME Types, CommandInv, IsrInv, StageInv, MSC_BulkOut
  PROVE  /\ StageInv' /\ merge_stage = "NONE" /\ ~Reading
         /\ \/ /\ Asked /\ Reading' /\ Read_BulkLen' = 0
               /\ \E e \in Entry : /\ e.type = "READ" /\ e.offset = hcmd.off + moved
                                   /\ e.length = Offset' - (hcmd.off + moved)
                                   /\ ut_list' = Append(ut_list, e)
            \/ /\ Asked /\ ut_list' = ut_list /\ ~Reading'
               /\ \/ hcmd.op = "write" /\ Receiving' /\ Offset' = hcmd.off
                  \/ hcmd.op # "write"
            \/ /\ Receiving /\ Transferring(out_done) /\ out_done.n \in Nat /\ out_done.n > 0
               /\ PageEntry("WRITE", Offset, BulkBuf) \in Entry
               /\ ut_list' = Append(ut_list, PageEntry("WRITE", Offset, BulkBuf))
               /\ Offset' = Offset + out_done.n /\ (Receiving' \/ Ending') /\ ~Reading'
<1>0. /\ hcmd.off \in Nat /\ hcmd.len \in Nat /\ hcmd.dTag \in Nat
      /\ hcmd.op \in {"read", "write", "info", "status"}
      /\ hcmd.op \in {"read", "write"} => hcmd.len > 0
      /\ moved \in Nat /\ Offset \in Nat /\ Length \in Nat
  BY CommandNumbers DEF CommandInv, StageInv
<1>1. /\ out_done # Nothing /\ out_done' = Nothing
      /\ UNCHANGED <<phase, hcmd, moved, ep_out, in_done, out_nak, in_nak, CBW, merge_stage>>
  BY DEF MSC_BulkOut, Handling, IsrInv, host
<1>2. Asked \/ Receiving
  BY <1>1, StageOf
<1>3. ~Transferring(out_done)' /\ InHand' = 0
  BY <1>1 DEF Transferring, InHand, Nothing
<1>4. CASE Asked
  <2>1. /\ BulkStage = "CBW" /\ MSC_GetCBW /\ ~Receiving /\ ~Reading /\ CBW = hcmd /\ moved = 0
        /\ ep_out = Nothing /\ ep_in = Nothing /\ ~in_done /\ ~out_nak /\ ~in_nak
        /\ out_done = [what |-> "cbw"]
        /\ phase = IF hcmd.op = "write" THEN "out"
                   ELSE IF hcmd.op = "status" THEN "csw" ELSE "in"
    BY <1>4 DEF Asked, Receiving, Reading, MSC_BulkOut
  <2>2. merge_stage = "NONE"
    BY <2>1 DEF StageInv
  <2>3. CASE hcmd.op = "read"
    <3> DEFINE n == WithinPage(hcmd.off, hcmd.len)
    <3>1. /\ BulkStage' = "DATA_IN" /\ MSC_MemoryRead(hcmd.off, hcmd.len, "out") /\ ep_in' = ep_in
      BY <2>1, <2>3 DEF MSC_GetCBW
    <3>2. n \in Nat /\ n > 0 /\ n <= hcmd.len
      BY <1>0, <2>3, WithinPageFacts
    <3>3. ReadEntry(hcmd.off, n) \in Entry /\ ReadEntry(hcmd.off, n).type = "READ"
      BY <1>0, <3>2, EntryTypes
    <3>4. /\ ut_list' = Append(ut_list, ReadEntry(hcmd.off, n)) /\ Read_BulkLen' = 0
          /\ Offset' = hcmd.off + n /\ Length' = hcmd.len - n
      BY <3>1 DEF MSC_MemoryRead, Push
    <3>5. ReadEntry(hcmd.off, n).offset = hcmd.off /\ ReadEntry(hcmd.off, n).length = n
      BY DEF ReadEntry
    <3> HIDE DEF n
    <3>6. /\ Offset' \in Nat /\ Length' \in Nat /\ hcmd.off + moved < Offset'
          /\ Offset' + Length' = hcmd.off + hcmd.len /\ n = Offset' - (hcmd.off + moved)
          /\ hcmd.off = hcmd.off + moved
      <4>1. /\ moved = 0 /\ hcmd.off \in Nat /\ hcmd.len \in Nat
            /\ n \in Nat /\ n > 0 /\ n <= hcmd.len
            /\ Offset' = hcmd.off + n /\ Length' = hcmd.len - n
        BY <1>0, <2>1, <3>2, <3>4
      <4> QED
        BY <4>1
    <3>7. Reading'
      BY <1>1, <2>1, <2>3, <3>1, <3>6 DEF Reading
    <3>8. StageInv'
      BY <1>0, <1>1, <2>2, <3>6, <3>7 DEF StageInv
    <3> QED
      BY <1>4, <2>1, <2>2, <3>3, <3>4, <3>5, <3>6, <3>7, <3>8
  <2>4. CASE hcmd.op = "write"
    <3>1. /\ BulkStage' = "DATA_OUT" /\ Offset' = hcmd.off /\ Length' = hcmd.len
          /\ UNCHANGED <<ep_in, ut_list>>
      BY <2>1, <2>4 DEF MSC_GetCBW
    <3>2. Receiving'
      BY <1>0, <1>1, <1>3, <2>1, <2>4, <3>1 DEF Receiving
    <3>3. StageInv' /\ ~Reading'
      BY <1>0, <1>1, <2>2, <3>1, <3>2 DEF StageInv, Receiving, Reading
    <3> QED
      BY <1>4, <2>1, <2>2, <2>4, <3>1, <3>2, <3>3
  <2>5. CASE hcmd.op = "info"
    <3>1. /\ BulkStage' = "DATA_IN_LAST" /\ ep_in' = [what |-> "info", dTag |-> hcmd.dTag]
          /\ UNCHANGED <<Offset, Length, ut_list>>
      BY <2>1, <2>5 DEF MSC_GetCBW
    <3>2. Informing'
      BY <1>1, <2>1, <2>5, <3>1 DEF Informing
    <3>3. StageInv' /\ ~Reading'
      BY <1>0, <1>1, <2>2, <2>5, <3>1, <3>2 DEF StageInv, Reading
    <3> QED
      BY <1>4, <2>1, <2>2, <2>5, <3>1, <3>3
  <2>6. CASE hcmd.op = "status"
    <3>1. /\ BulkStage' = "CSW" /\ ep_in' = [what |-> "csw", dTag |-> hcmd.dTag]
          /\ UNCHANGED <<Offset, Length, ut_list>>
      BY <2>1, <2>6 DEF MSC_GetCBW, MSC_SetCSW
    <3>2. Ending'
      BY <1>1, <2>1, <2>6, <3>1 DEF Ending
    <3>3. StageInv' /\ ~Reading'
      BY <1>0, <1>1, <2>2, <2>6, <3>1, <3>2 DEF StageInv, Reading
    <3> QED
      BY <1>4, <2>1, <2>2, <2>6, <3>1, <3>3
  <2> QED
    BY <1>0, <2>3, <2>4, <2>5, <2>6
<1>5. CASE Receiving
  <2> DEFINE n == out_done.n
  <2>1. /\ BulkStage = "DATA_OUT" /\ CBW = hcmd /\ hcmd.op = "write" /\ ~Reading
        /\ out_done = [what |-> "data", n |-> WithinPage(Offset, Length)]
        /\ ep_out = Nothing /\ ~out_nak /\ ep_in = Nothing /\ ~in_done /\ ~in_nak
        /\ phase = IF moved = hcmd.len THEN "csw" ELSE "out"
        /\ Length > 0 /\ hcmd.off <= Offset
        /\ Offset + InHand = hcmd.off + moved /\ Length - InHand = hcmd.len - moved
    BY <1>1, <1>5 DEF Receiving, Reading
  <2>2. Transferring(out_done) /\ InHand = n /\ n = WithinPage(Offset, Length)
    BY <2>1 DEF Transferring, InHand
  <2>3. n \in Nat /\ n > 0 /\ n <= Length
    BY <1>0, <2>1, <2>2, WithinPageFacts
  <2>4. merge_stage = "NONE"
    BY <1>1 DEF StageInv
  <2>5. MSC_MemoryWrite(n)
    BY <2>1, <2>2 DEF MSC_BulkOut, MSC_MemoryVerify, Transferring
  <2>6. /\ ut_list' = Append(ut_list, PageEntry("WRITE", Offset, BulkBuf))
        /\ Offset' = Offset + n /\ Length' = Length - n
        /\ Length = n => /\ BulkStage' = "CSW"
                         /\ ep_in' = [what |-> "csw", dTag |-> CBW.dTag]
        /\ Length # n => UNCHANGED <<ep_in, BulkStage>>
    BY <2>5 DEF MSC_MemoryWrite, Push, MSC_SetCSW
  <2>7. PageEntry("WRITE", Offset, BulkBuf) \in Entry
    BY <1>0, EntryTypes DEF Types
  <2> HIDE DEF n
  <2>8. /\ Offset' \in Nat /\ Length' \in Nat /\ hcmd.off <= Offset'
        /\ Offset' = hcmd.off + moved /\ Length' = hcmd.len - moved
    <3>1. /\ n \in Nat /\ n <= Length /\ Offset \in Nat /\ Length \in Nat /\ moved \in Nat
          /\ hcmd.off \in Nat /\ hcmd.len \in Nat /\ hcmd.off <= Offset
          /\ Offset + n = hcmd.off + moved /\ Length - n = hcmd.len - moved
          /\ Offset' = Offset + n /\ Length' = Length - n
      BY <1>0, <2>1, <2>2, <2>3, <2>6
    <3> QED
      BY <3>1
  <2>9. CASE Length = n
    <3>1. moved = hcmd.len
      BY <1>0, <2>1, <2>2, <2>9
    <3>2. Ending'
      BY <1>1, <2>1, <2>6, <2>8, <2>9, <3>1 DEF Ending
    <3>3. StageInv' /\ ~Reading'
      BY <1>0, <1>1, <2>1, <2>4, <2>8, <3>2 DEF StageInv, Reading
    <3> QED
      BY <1>5, <2>1, <2>2, <2>3, <2>4, <2>6, <2>7, <3>2, <3>3 DEF n
  <2>10. CASE Length # n
    <3>1. moved # hcmd.len /\ Length' > 0
      <4>1. Length' # 0
        BY <1>0, <2>3, <2>6, <2>10
      <4>2. Length' \in Nat /\ Length' = hcmd.len - moved /\ hcmd.len \in Nat /\ moved \in Nat
        BY <1>0, <2>8
      <4> QED
        BY <4>1, <4>2
    <3>2. Receiving'
      BY <1>0, <1>1, <1>3, <2>1, <2>6, <2>8, <2>10, <3>1 DEF Receiving
    <3>3. StageInv' /\ ~Reading'
      BY <1>0, <1>1, <2>1, <2>4, <2>8, <3>2 DEF StageInv, Reading
    <3> QED
      BY <1>5, <2>1, <2>2, <2>3, <2>4, <2>6, <2>7, <3>2, <3>3 DEF n
  <2> QED
    BY <2>9, <2>10
<1> QED
  BY <1>2, <1>4, <1>5

\* MSC_BulkIn asks for the next sectors of a read, or ends the command.
LEMMA BulkInDoes ==
  ASSUME Types, CommandInv, IsrInv, StageInv, MSC_BulkIn
  PROVE  /\ StageInv' /\ merge_stage = "NONE" /\ ~Reading
         /\ \/ /\ ReadSent /\ Reading' /\ Read_BulkLen' = 0
               /\ \E e \in Entry : /\ e.type = "READ" /\ e.offset = hcmd.off + moved
                                   /\ e.length = Offset' - (hcmd.off + moved)
                                   /\ ut_list' = Append(ut_list, e)
            \/ /\ Idle /\ Idle' /\ ut_list' = ut_list
            \/ /\ hcmd.op # "write" /\ Ending' /\ ut_list' = ut_list /\ ~Reading'
<1>0. /\ hcmd.off \in Nat /\ hcmd.len \in Nat /\ hcmd.dTag \in Nat
      /\ moved \in Nat /\ Offset \in Nat /\ Length \in Nat
  BY CommandNumbers DEF StageInv
<1>1. /\ in_done /\ ~in_done'
      /\ UNCHANGED <<phase, hcmd, moved, ep_out, out_done, out_nak, in_nak, CBW, merge_stage>>
  BY DEF MSC_BulkIn, Handling, IsrInv, host
<1>2. Idle \/ ReadSent \/ Informing
  BY <1>1, StageOf
<1>3. merge_stage = "NONE"
  BY <1>1 DEF StageInv, Receiving
<1>4. CASE Idle
  <2>1. BulkStage = "CSW" /\ ~Reading
    BY <1>1, <1>4 DEF Idle, Reading
  <2>2. /\ BulkStage' = "CBW" /\ ep_in' = ep_in
        /\ UNCHANGED <<Offset, Length, ut_list>>
    BY <2>1 DEF MSC_BulkIn
  <2>3. Idle'
    BY <1>1, <1>4, <2>2 DEF Idle
  <2>4. StageInv'
    BY <1>0, <1>1, <1>3, <2>2, <2>3 DEF StageInv
  <2> QED
    BY <1>3, <1>4, <2>1, <2>2, <2>3, <2>4
<1>5. CASE ReadSent /\ Length # 0
  <2> DEFINE n == WithinPage(Offset, Length)
  <2>1. /\ BulkStage = "DATA_IN" /\ CBW = hcmd /\ hcmd.op = "read" /\ phase = "in" /\ ~Reading
        /\ ep_out = Nothing /\ ep_in = Nothing /\ out_done = Nothing /\ ~out_nak /\ ~in_nak
        /\ Offset = hcmd.off + moved /\ Offset + Length = hcmd.off + hcmd.len
    BY <1>1, <1>5 DEF ReadSent, Reading
  <2>2. MSC_MemoryRead(Offset, Length, "in") /\ UNCHANGED <<ep_in, BulkStage>>
    BY <2>1 DEF MSC_BulkIn
  <2>3. n \in Nat /\ n > 0 /\ n <= Length
    <3>1. Length > 0
      BY <1>0, <1>5
    <3> QED
      BY <1>0, <3>1, WithinPageFacts
  <2>4. ReadEntry(Offset, n) \in Entry /\ ReadEntry(Offset, n).type = "READ"
    BY <1>0, <2>3, EntryTypes
  <2>5. /\ ut_list' = Append(ut_list, ReadEntry(Offset, n)) /\ Read_BulkLen' = 0
        /\ Offset' = Offset + n /\ Length' = Length - n
    BY <2>2 DEF MSC_MemoryRead, Push
  <2>6. ReadEntry(Offset, n).offset = Offset /\ ReadEntry(Offset, n).length = n
    BY DEF ReadEntry
  <2> HIDE DEF n
  <2>7. /\ Offset' \in Nat /\ Length' \in Nat /\ hcmd.off + moved < Offset'
        /\ Offset' + Length' = hcmd.off + hcmd.len /\ n = Offset' - (hcmd.off + moved)
    <3>1. /\ Offset = hcmd.off + moved /\ hcmd.off \in Nat /\ hcmd.len \in Nat /\ moved \in Nat
          /\ n \in Nat /\ n > 0 /\ n <= Length /\ Length \in Nat
          /\ Offset + Length = hcmd.off + hcmd.len
          /\ Offset' = Offset + n /\ Length' = Length - n
      BY <1>0, <2>1, <2>3, <2>5
    <3> QED
      BY <3>1
  <2>8. Reading'
    BY <1>1, <2>1, <2>2, <2>7 DEF Reading
  <2>9. StageInv'
    BY <1>0, <1>1, <1>3, <2>7, <2>8 DEF StageInv
  <2> QED
    BY <1>3, <1>5, <2>1, <2>4, <2>5, <2>6, <2>7, <2>8, <2>9
<1>6. CASE (ReadSent /\ Length = 0) \/ Informing
  <2>1. /\ BulkStage = "DATA_IN_LAST" /\ CBW = hcmd /\ hcmd.op \in {"read", "info"}
        /\ phase = "csw" /\ ~Reading
        /\ ep_out = Nothing /\ ep_in = Nothing /\ out_done = Nothing /\ ~out_nak /\ ~in_nak
    BY <1>1, <1>6 DEF ReadSent, Informing, Reading
  <2>2. /\ BulkStage' = "CSW" /\ ep_in' = [what |-> "csw", dTag |-> hcmd.dTag]
        /\ UNCHANGED <<Offset, Length, ut_list>>
    BY <2>1 DEF MSC_BulkIn, MSC_SetCSW
  <2>3. Ending'
    BY <1>1, <2>1, <2>2 DEF Ending
  <2>4. StageInv' /\ ~Reading'
    BY <1>0, <1>1, <1>3, <2>1, <2>2, <2>3 DEF StageInv, Reading
  <2> QED
    BY <1>3, <2>1, <2>2, <2>3, <2>4
<1> QED
  BY <1>2, <1>4, <1>5, <1>6

\* MSC_BulkOutNak primes the OUT endpoint for the command, or for its data.
LEMMA BulkOutNakDoes ==
  ASSUME Types, NakInv, CommandInv, IsrInv, StageInv, MSC_BulkOutNak
  PROVE  /\ StageInv' /\ ~Reading /\ ~Reading' /\ ep_out = Nothing /\ out_done = Nothing
         /\ UNCHANGED <<Offset, Length>>
         /\ \/ /\ Asking /\ Asking' /\ merge_stage = "NONE"
               /\ UNCHANGED <<BulkBuf, merge_stage, ut_list, pb_pool_used>>
            \/ /\ Receiving /\ Receiving'
               /\ \/ ut_list' = ut_list
                  \/ /\ ut_list' = Append(ut_list, PageEntry("MERGE", Offset, BulkBuf'))
                     /\ merge_stage = "NONE" /\ merge_stage' = "START"
<1>0. /\ hcmd.off \in Nat /\ hcmd.len \in Nat /\ hcmd.dTag \in Nat
      /\ moved \in Nat /\ Offset \in Nat /\ Length \in Nat
  BY CommandNumbers DEF StageInv
<1>1. /\ out_nak /\ ~out_nak'
      /\ UNCHANGED <<phase, hcmd, moved, ep_in, out_done, in_done, in_nak, CBW, BulkStage,
                     Offset, Length>>
  BY DEF MSC_BulkOutNak, Handling, IsrInv, host
<1>2. Asking \/ Receiving
  BY <1>1, StageOf
<1>3. CASE Asking
  <2>1. /\ BulkStage = "CBW" /\ ep_out = Nothing /\ ~Receiving /\ ~Reading
        /\ out_done = Nothing /\ phase = "cbw" /\ moved = 0 /\ ep_in = Nothing
        /\ ~in_done /\ ~in_nak
    BY <1>1, <1>3 DEF Asking, Receiving, Reading, NakInv
  <2>2. merge_stage = "NONE"
    BY <2>1 DEF StageInv
  <2>3. /\ ep_out' = [what |-> "cbw"]
        /\ UNCHANGED <<BulkBuf, merge_stage, ut_list, pb_pool_used>>
    BY <2>1 DEF MSC_BulkOutNak
  <2>4. Asking'
    BY <1>1, <1>3, <2>3 DEF Asking, CbwOnly
  <2>5. StageInv' /\ ~Reading'
    BY <1>0, <1>1, <2>1, <2>2, <2>3, <2>4 DEF StageInv, Reading
  <2> QED
    BY <1>1, <1>3, <2>1, <2>2, <2>3, <2>4, <2>5
<1>4. CASE Receiving
  <2>1. /\ BulkStage = "DATA_OUT" /\ CBW = hcmd /\ hcmd.op = "write" /\ ~Reading
        /\ out_done = Nothing /\ ep_out = Nothing /\ ep_in = Nothing /\ ~in_done /\ ~in_nak
        /\ phase = IF moved = hcmd.len THEN "csw" ELSE "out"
        /\ Length > 0 /\ hcmd.off <= Offset
        /\ Offset + InHand = hcmd.off + moved /\ Length - InHand = hcmd.len - moved
    BY <1>1, <1>4 DEF Receiving, Reading
  <2>2. InHand' = InHand /\ WithinPage(Offset, Length)' = WithinPage(Offset, Length)
    BY <1>1 DEF InHand, Transferring, WithinPage, Smaller
  <2>3. ~Reading'
    BY <1>1, <2>1 DEF Reading
  <2>4. ASSUME \/ ep_out' = Nothing
               \/ ep_out' = [what |-> "data", buf |-> BulkBuf', at |-> Offset % SECTOR_PER_MPP,
                             n |-> WithinPage(Offset, Length)],
               merge_stage' # "NONE" => /\ ep_out' = Nothing
                                        /\ merge_count' = WithinPage(Offset, Length)
        PROVE  Receiving' /\ StageInv'
    <3>1. Receiving'
      BY <1>1, <2>1, <2>2, <2>4 DEF Receiving
    <3> QED
      BY <1>0, <1>1, <2>1, <2>2, <2>4, <3>1 DEF StageInv
  <2>5. merge_stage # "NONE" => merge_count = WithinPage(Offset, Length)
    BY DEF StageInv
  <2>6. CASE AllocateOut
    <3>1. merge_stage = "NONE" /\ BulkBuf' = BUF_Allocate
      BY <2>6 DEF AllocateOut
    <3>2. CASE TransferTo(BUF_Allocate) /\ WithinPage(Offset, Length) # SECTOR_PER_MPP
      <4>1. /\ ut_list' = Append(ut_list, PageEntry("MERGE", Offset, BulkBuf'))
            /\ merge_stage' = "START" /\ merge_count' = WithinPage(Offset, Length)
            /\ ep_out' = ep_out
        BY <3>1, <3>2 DEF TransferTo, Push
      <4>2. Receiving' /\ StageInv'
        BY <2>1, <2>4, <4>1
      <4> QED
        BY <1>1, <1>4, <2>1, <2>3, <3>1, <4>1, <4>2
    <3>3. CASE TransferTo(BUF_Allocate) /\ WithinPage(Offset, Length) = SECTOR_PER_MPP
      <4>1. /\ ep_out' = [what |-> "data", buf |-> BulkBuf', at |-> 0, n |-> SECTOR_PER_MPP]
            /\ UNCHANGED <<merge_stage, merge_count, ut_list>>
        BY <3>1, <3>3 DEF TransferTo, PrimeOut
      <4>2. Offset % SECTOR_PER_MPP = 0
        <5> DEFINE r == Offset % SECTOR_PER_MPP
        <5>1. r \in Nat /\ r + SECTOR_PER_MPP <= SECTOR_PER_MPP /\ SECTOR_PER_MPP \in Nat
          BY <1>0, <2>1, <3>3, WithinPageFacts
        <5> HIDE DEF r
        <5>2. r = 0
          BY <5>1
        <5> QED
          BY <5>2 DEF r
      <4>3. Receiving' /\ StageInv'
        BY <2>4, <3>1, <3>3, <4>1, <4>2
      <4> QED
        BY <1>1, <1>4, <2>1, <2>3, <4>1, <4>3
    <3>4. CASE UNCHANGED <<ep_out, merge_stage, merge_count, ut_list, pb_pool_used>>
      <4>1. Receiving' /\ StageInv'
        BY <2>1, <2>4, <3>1, <3>4
      <4> QED
        BY <1>1, <1>4, <2>1, <2>3, <3>4, <4>1
    <3> QED
      BY <2>6, <3>2, <3>3, <3>4 DEF AllocateOut
  <2>7. CASE PrimeMerged
    <3>1. /\ ep_out' = [what |-> "data", buf |-> BulkBuf', at |-> Offset % SECTOR_PER_MPP,
                        n |-> WithinPage(Offset, Length)]
          /\ merge_stage' = "NONE" /\ ut_list' = ut_list
      BY <2>5, <2>7 DEF PrimeMerged, PrimeOut
    <3>2. Receiving' /\ StageInv'
      BY <2>4, <3>1
    <3> QED
      BY <1>1, <1>4, <2>1, <2>3, <3>1, <3>2
  <2>8. CASE ~AllocateOut /\ ~PrimeMerged
    <3>1. /\ ep_out' = ep_out
          /\ UNCHANGED <<BulkBuf, merge_stage, merge_count, ut_list, pb_pool_used>>
      BY <2>1, <2>8 DEF MSC_BulkOutNak
    <3>2. Receiving' /\ StageInv'
      BY <2>1, <2>4, <2>5, <3>1
    <3> QED
      BY <1>1, <1>4, <2>1, <2>3, <3>1, <3>2
  <2> QED
    BY <2>6, <2>7, <2>8
<1> QED
  BY <1>2, <1>3, <1>4

\* MSC_BulkInNak primes the IN endpoint for a read that is ready.
LEMMA BulkInNakDoes ==
  ASSUME Types, CommandInv, IsrInv, StageInv, MSC_BulkInNak
  PROVE  StageInv' /\ Reading /\ Reading' /\ merge_stage = "NONE"
<1>1. /\ in_nak /\ ~in_nak'
      /\ UNCHANGED <<phase, hcmd, moved, ep_out, out_done, in_done, out_nak, CBW, Offset, Length,
                     merge_stage, Read_BulkLen>>
  BY DEF MSC_BulkInNak, Handling, IsrInv, host, shared
<1>2. Reading
  BY <1>1, StageOf
<1>3. merge_stage = "NONE" /\ moved \in Nat /\ Offset \in Nat /\ Length \in Nat
  BY <1>2 DEF StageInv, Reading, Receiving
<1>4. \/ /\ Read_BulkLen # 0 /\ ep_in' = [what |-> "data", n |-> Read_BulkLen]
         /\ BulkStage' = IF Length = 0 THEN "DATA_IN_LAST" ELSE BulkStage
      \/ UNCHANGED <<ep_in, BulkStage>>
  BY DEF MSC_BulkInNak
<1>5. ep_in = Nothing
  BY <1>1, <1>2 DEF Reading
<1>6. Reading'
  <2>1. CASE Read_BulkLen # 0 /\ ep_in' = [what |-> "data", n |-> Read_BulkLen]
             /\ BulkStage' = IF Length = 0 THEN "DATA_IN_LAST" ELSE BulkStage
    <3>1. ep_in' # Nothing
      BY <2>1 DEF Nothing
    <3> QED
      BY <1>1, <1>2, <1>5, <2>1, <3>1 DEF Reading
  <2>2. CASE UNCHANGED <<ep_in, BulkStage>>
    BY <1>1, <1>2, <1>5, <2>2 DEF Reading
  <2> QED
    BY <1>4, <2>1, <2>2
<1> QED
  BY <1>1, <1>2, <1>3, <1>6 DEF StageInv

\* The entry the main loop is at waits until it is done.
LEMMA TaskWaits ==
  ASSUME Types, TaskInv, task \in {"READ", "READY", "WRITE", "MERGE"}
  PROVE  /\ ut_list \in Seq(Entry) /\ ut_list # <<>> /\ Task = ut_list[1] /\ Task \in Entry
         /\ 1 \in Waiting(IF task = "READY" THEN "READ" ELSE task)
<1>1. /\ ut_list \in Seq(Entry) /\ ut_list # <<>>
      /\ Head(ut_list).type = IF task = "READY" THEN "READ" ELSE task
  BY DEF Types, TaskInv
<1>2. 1 \in DOMAIN ut_list /\ Head(ut_list) = ut_list[1] /\ Head(ut_list) \in Entry
  BY <1>1, HeadTailProperties, LenProperties, EmptySeq
<1> QED
  BY <1>1, <1>2 DEF Waiting, Queued, Task

\* A command block, or what is primed for the data of a write, is taken.
LEMMA OutTokens ==
  ASSUME Undisturbed, Types, CommandInv, StageInv, OutNaked \/ OutCommand \/ OutData
  PROVE  /\ StageInv' /\ ~Reading /\ ~Reading'
         /\ OutNaked => (Asking /\ Asking') \/ (Receiving /\ Receiving')
         /\ OutCommand => Asking /\ Asked' /\ merge_stage = "NONE" /\ ~Transferring(ep_out)
         /\ OutData => /\ Receiving /\ Receiving' /\ merge_stage = "NONE"
                       /\ Transferring(ep_out) /\ ep_out.buf = BulkBuf
                       /\ ep_out.at = Offset % SECTOR_PER_MPP
                       /\ ep_out.n = WithinPage(Offset, Length) /\ ep_out.n > 0
                       /\ ep_out.n = Smaller(ep_out.n, hcmd.len - moved)
                       /\ ep_out.at + ep_out.n <= SECTOR_PER_MPP
                       /\ out_done' = [what |-> "data", n |-> ep_out.n]
<1>0. /\ hcmd.off \in Nat /\ hcmd.len \in Nat /\ hcmd.dTag \in Nat
      /\ hcmd.op \in {"read", "write", "info", "status"}
      /\ moved \in Nat /\ Offset \in Nat /\ Length \in Nat
  BY CommandNumbers DEF StageInv
<1>1. out_done = Nothing /\ ~in_done /\ ~out_nak /\ ~in_nak
  BY Prompt DEF OutNaked, OutCommand, OutData
<1>2. CASE OutNaked
  <2>1. /\ ep_out = Nothing /\ out_nak' /\ (Asking \/ Receiving)
        /\ UNCHANGED <<phase, hcmd, moved, ep_out, ep_in, out_done, in_done, in_nak, CBW,
                       BulkStage, Offset, Length, BulkBuf, merge_stage, merge_count>>
    <3>1. ~Asked
      BY <1>1 DEF Asked, Nothing
    <3> QED
      BY <1>2, <3>1, StageOf DEF OutNaked, host, transport
  <2>2. InHand' = InHand /\ WithinPage(Offset, Length)' = WithinPage(Offset, Length)
    BY <2>1 DEF InHand, Transferring, WithinPage, Smaller
  <2>3. Asking => Asking'
    BY <2>1 DEF Asking
  <2>4. Receiving => Receiving'
    BY <1>1, <2>1, <2>2 DEF Receiving
  <2>5. ~Reading /\ ~Reading'
    BY <2>1 DEF Asking, Receiving, Reading
  <2>6. StageInv'
    BY <1>0, <2>1, <2>2, <2>3, <2>4 DEF StageInv
  <2>7. ~OutCommand /\ ~OutData
    BY <2>1 DEF OutCommand, OutData, Nothing
  <2> QED
    BY <2>1, <2>3, <2>4, <2>5, <2>6, <2>7
<1>3. CASE OutCommand
  <2>1. Asking /\ phase = "cbw" /\ ep_out # Nothing
    BY <1>3, StageOf DEF OutCommand
  <2>2. /\ ep_out = [what |-> "cbw"] /\ BulkStage = "CBW" /\ moved = 0 /\ ep_in = Nothing
    BY <2>1 DEF Asking, CbwOnly
  <2>3. /\ CBW' = hcmd /\ ep_out' = Nothing /\ out_done' = [what |-> "cbw"]
        /\ UNCHANGED <<hcmd, moved, ep_in, in_done, out_nak, in_nak, BulkStage, Offset, Length,
                       merge_stage>>
    BY <1>3, <2>2 DEF OutCommand
  <2>4. phase' = IF hcmd.op = "write" THEN "out" ELSE IF hcmd.op = "status" THEN "csw" ELSE "in"
    BY <1>0, <1>3 DEF OutCommand
  <2>5. Asked'
    BY <1>1, <2>2, <2>3, <2>4 DEF Asked
  <2>6. ~Receiving /\ ~Reading /\ ~Reading' /\ ~Transferring(ep_out)
    BY <2>1, <2>2, <2>3 DEF Receiving, Reading, Transferring, Nothing
  <2>7. merge_stage = "NONE"
    BY <2>6 DEF StageInv
  <2>8. StageInv'
    BY <1>0, <2>3, <2>5, <2>7 DEF StageInv
  <2>9. ~OutNaked /\ ~OutData
    BY <2>1, <2>2 DEF OutNaked, OutData
  <2> QED
    BY <2>1, <2>5, <2>6, <2>7, <2>8, <2>9
<1>4. CASE OutData
  <2>0. phase = "out" /\ ep_out.what = "data"
    BY <1>4 DEF OutData
  <2>1. Receiving /\ ep_out # Nothing
    <3>1. ~Asked
      BY <1>1 DEF Asked, Nothing
    <3> QED
      BY <2>0, <3>1, StageOf DEF Nothing
  <2>2. /\ ep_out = [what |-> "data", buf |-> BulkBuf, at |-> Offset % SECTOR_PER_MPP,
                     n |-> WithinPage(Offset, Length)]
        /\ hcmd.op = "write" /\ CBW = hcmd /\ BulkStage = "DATA_OUT" /\ ep_in = Nothing
        /\ hcmd.off <= Offset /\ Length > 0
        /\ Offset + InHand = hcmd.off + moved /\ Length - InHand = hcmd.len - moved
        /\ ~Reading
    BY <2>1 DEF Receiving, Reading
  <2>3. InHand = 0
    BY <1>1 DEF InHand, Transferring, Nothing
  <2> DEFINE n == WithinPage(Offset, Length)
  <2>4. /\ n \in Nat /\ n > 0 /\ n <= Length
        /\ (Offset % SECTOR_PER_MPP) + n <= SECTOR_PER_MPP
    BY <1>0, <2>2, WithinPageFacts
  <2>5. /\ ep_out.n = n /\ ep_out.at = Offset % SECTOR_PER_MPP /\ ep_out.buf = BulkBuf
        /\ Transferring(ep_out)
    BY <2>2 DEF Transferring
  <2>6. merge_stage = "NONE"
    BY <2>1 DEF StageInv
  <2> HIDE DEF n
  <2>7. Smaller(n, hcmd.len - moved) = n
    <3>1. n \in Nat /\ n <= hcmd.len - moved
      BY <1>0, <2>2, <2>3, <2>4
    <3> QED
      BY <1>0, <3>1 DEF Smaller
  <2>8. /\ out_done' = [what |-> "data", n |-> n] /\ moved' = moved + n /\ ep_out' = Nothing
        /\ phase' = IF moved + n = hcmd.len THEN "csw" ELSE "out"
        /\ UNCHANGED <<hcmd, ep_in, in_done, out_nak, in_nak, CBW, BulkStage, Offset, Length,
                       BulkBuf, merge_stage, merge_count>>
    BY <1>4, <2>5, <2>7 DEF OutData, transport
  <2>9. InHand' = n /\ WithinPage(Offset, Length)' = n
    BY <2>8 DEF InHand, Transferring, WithinPage, Smaller, n
  <2>10. /\ Offset + n = hcmd.off + (moved + n) /\ Length - n = hcmd.len - (moved + n)
         /\ moved + n \in Nat
    BY <1>0, <2>2, <2>3, <2>4
  <2>11. Receiving'
    BY <1>1, <2>2, <2>8, <2>9, <2>10 DEF Receiving
  <2>12. StageInv' /\ ~Reading'
    BY <1>0, <2>2, <2>6, <2>8, <2>10, <2>11 DEF StageInv, Reading
  <2>13. ~OutNaked /\ ~OutCommand
    BY <2>0, <2>1 DEF OutNaked, OutCommand
  <2> QED
    BY <2>1, <2>2, <2>4, <2>5, <2>6, <2>7, <2>8, <2>11, <2>12, <2>13 DEF n
<1> QED
  BY <1>2, <1>3, <1>4

\* The host takes what the IN endpoint sends, and it is what its stage calls for.
LEMMA InTokens ==
  ASSUME Undisturbed, Types, CommandInv, StageInv, ListInv, InNaked \/ InTransfer
  PROVE  /\ StageInv' /\ merge_stage = "NONE"
         /\ InNaked => Reading /\ Reading'
         /\ InTransfer => \/ /\ Reading /\ ReadSent' /\ Read_BulkLen # 0
                             /\ Filled /\ Read_BulkLen = Len(Read_BulkBuf)
                             /\ Smaller(ep_in.n, hcmd.len - moved) = Read_BulkLen
                             /\ phase = "in" /\ ep_in.what = "data"
                          \/ Informing /\ Informing' /\ phase = "in"
                          \/ Ending /\ Idle' /\ phase = "csw" /\ phase' = "idle"
<1>0. /\ hcmd.off \in Nat /\ hcmd.len \in Nat /\ hcmd.dTag \in Nat
      /\ moved \in Nat /\ Offset \in Nat /\ Length \in Nat
  BY CommandNumbers DEF StageInv
<1>1. out_done = Nothing /\ ~in_done /\ ~out_nak /\ ~in_nak
  BY Prompt DEF InNaked, InTransfer
<1>2. CASE InNaked
  <2>1. /\ phase \in {"in", "csw"} /\ ep_in = Nothing
        /\ UNCHANGED <<phase, hcmd, moved, ep_out, ep_in, out_done, in_done, out_nak, CBW,
                       BulkStage, Offset, Length, merge_stage, Read_BulkLen>>
    BY <1>2 DEF InNaked, host, transport, shared
  <2>2. Reading
    <3>1. /\ ~Idle /\ ~Asking /\ ~Asked /\ ~ReadSent /\ ~Informing /\ ~Ending
      BY <1>1, <2>1 DEF Idle, Asking, Asked, ReadSent, Informing, Ending, Nothing
    <3>2. ~Receiving
      <4> SUFFICES ASSUME Receiving PROVE FALSE
        OBVIOUS
      <4>1. InHand = 0
        BY <1>1 DEF InHand, Transferring, Nothing
      <4>2. moved = hcmd.len /\ Length > 0 /\ Length - InHand = hcmd.len - moved
        BY <2>1 DEF Receiving
      <4> QED
        BY <1>0, <4>1, <4>2
    <3> QED
      BY <3>1, <3>2 DEF StageInv
  <2>3. Reading' /\ merge_stage = "NONE"
    BY <2>1, <2>2 DEF Reading, StageInv, Receiving
  <2>4. StageInv' /\ ~InTransfer
    BY <1>0, <2>1, <2>3 DEF StageInv, InTransfer
  <2> QED
    BY <2>2, <2>3, <2>4
<1>3. CASE InTransfer
  <2>0. ~Clearing
    BY <1>3, Prompt DEF InTransfer, Clearing
  <2>1. /\ phase \in {"in", "csw"} /\ ep_in # Nothing /\ ep_in' = Nothing /\ in_done'
        /\ UNCHANGED <<hcmd, ep_out, out_done, out_nak, in_nak, CBW,
                       BulkStage, Offset, Length, merge_stage, Read_BulkLen>>
    BY <1>3, <2>0 DEF InTransfer, transport, shared
  <2>2. Reading \/ Informing \/ Ending
    BY <2>1, StageOf
  <2>3. merge_stage = "NONE" /\ ~InNaked
    BY <2>1, <2>2 DEF StageInv, Receiving, Reading, Informing, Ending, InNaked
  <2>4. CASE Reading
    <3>1. /\ hcmd.op = "read" /\ CBW = hcmd /\ phase = "in"
          /\ BulkStage = IF Length = 0 THEN "DATA_IN_LAST" ELSE "DATA_IN"
          /\ ep_out = Nothing /\ Read_BulkLen # 0
          /\ ep_in = [what |-> "data", n |-> Read_BulkLen]
          /\ hcmd.off + moved < Offset /\ Offset + Length = hcmd.off + hcmd.len
      BY <2>1, <2>4 DEF Reading
    <3>2. /\ Filled /\ Read_BulkLen = Offset - (hcmd.off + moved)
      BY <2>4, <3>1 DEF ListInv, ReadBuffer
    <3>3. Read_BulkLen = Len(Read_BulkBuf)
      BY <3>2 DEF Filled
    <3>4. /\ Read_BulkLen \in Nat /\ Read_BulkLen <= hcmd.len - moved
          /\ moved + Read_BulkLen \in Nat
          /\ Offset = hcmd.off + (moved + Read_BulkLen)
          /\ moved + Read_BulkLen = hcmd.len <=> Length = 0
      BY <1>0, <3>1, <3>2
    <3>5. Smaller(ep_in.n, hcmd.len - moved) = Read_BulkLen /\ ep_in.what = "data"
      <4>1. ep_in.n = Read_BulkLen /\ ep_in.what = "data"
        BY <3>1
      <4> QED
        BY <1>0, <3>4, <4>1 DEF Smaller
    <3>6. /\ moved' = moved + Read_BulkLen
          /\ phase' = IF moved + Read_BulkLen = hcmd.len THEN "csw" ELSE "in"
      BY <1>3, <3>1, <3>5 DEF InTransfer
    <3>7. ReadSent'
      BY <1>1, <2>1, <3>1, <3>4, <3>6 DEF ReadSent
    <3>8. StageInv'
      BY <1>0, <2>1, <2>3, <3>4, <3>6, <3>7 DEF StageInv
    <3> QED
      BY <2>3, <2>4, <3>1, <3>2, <3>3, <3>5, <3>7, <3>8
  <2>5. CASE Informing
    <3>1. /\ phase = "in" /\ hcmd.op = "info" /\ ep_in.what = "info"
      BY <2>1, <2>5 DEF Informing
    <3>2. phase' = "csw" /\ moved' = moved
      BY <1>3, <3>1 DEF InTransfer
    <3>3. Informing'
      BY <1>1, <2>1, <2>5, <3>2 DEF Informing
    <3>4. StageInv'
      BY <1>0, <2>1, <2>3, <3>2, <3>3 DEF StageInv
    <3> QED
      BY <2>3, <2>5, <3>1, <3>3, <3>4
  <2>6. CASE Ending
    <3>1. /\ phase = "csw" /\ ep_in = [what |-> "csw", dTag |-> hcmd.dTag] /\ BulkStage = "CSW"
          /\ ep_out = Nothing
      BY <2>6 DEF Ending
    <3>2. phase' = "idle" /\ moved' = moved
      BY <1>3, <3>1 DEF InTransfer
    <3>3. Idle'
      BY <1>1, <2>1, <3>1, <3>2 DEF Idle
    <3>4. StageInv'
      BY <1>0, <2>1, <2>3, <3>2, <3>3 DEF StageInv
    <3> QED
      BY <2>3, <2>6, <3>1, <3>2, <3>3, <3>4
  <2> QED
    BY <2>2, <2>4, <2>5, <2>6
<1> QED
  BY <1>2, <1>3

\* A step of the main loop, or of the interrupt before its handlers, leaves the
\* stage alone.
LEMMA StageKept ==
  ASSUME StageInv,
         UNCHANGED <<phase, hcmd, moved, ep_out, ep_in, out_done, in_done, out_nak, in_nak,
                     CBW, BulkStage, Offset, Length, BulkBuf, merge_count>>,
         merge_stage' # "NONE" => merge_stage # "NONE",
         Read_BulkLen' = Read_BulkLen \/ ep_in = Nothing
  PROVE  /\ StageInv' /\ Reading' = Reading /\ Writing' = Writing
<1>1. /\ InHand' = InHand /\ WithinPage(Offset, Length)' = WithinPage(Offset, Length)
  BY DEF InHand, Transferring, WithinPage, Smaller
<1>2. /\ Idle' = Idle /\ Asking' = Asking /\ Asked' = Asked /\ ReadSent' = ReadSent
      /\ Informing' = Informing /\ Ending' = Ending /\ Writing' = Writing
  BY DEF Idle, Asking, Asked, ReadSent, Informing, Ending, Writing
<1>3. Receiving' = Receiving
  BY <1>1 DEF Receiving
<1>4. Reading' = Reading
  BY DEF Reading
<1> QED
  BY <1>1, <1>2, <1>3, <1>4 DEF StageInv

\* The NAKs latched before a handler runs stay latched.
LEMMA IsrStage ==
  ASSUME Types, StageInv, USB_ISR \/ ISR_NextPart
  PROVE  UNCHANGED <<out_done, in_done, out_nak, in_nak, ep_out, ep_in>>
<1>1. CASE USB_ISR
  <2>1. out_nak => out_done = Nothing
    BY DEF StageInv, Idle, Asking, Asked, Receiving, Reading, ReadSent, Informing, Ending
  <2>2. in_nak => ~in_done
    BY DEF StageInv, Idle, Asking, Asked, Receiving, Reading, ReadSent, Informing, Ending
  <2>3. /\ UNCHANGED <<out_done, in_done, ep_out, ep_in>>
        /\ out_nak' = (out_nak /\ ~(out_done # Nothing))
        /\ in_nak' = (in_nak /\ ~in_done)
    BY <1>1 DEF USB_ISR
  <2>4. out_nak \in BOOLEAN /\ in_nak \in BOOLEAN
    BY DEF Types
  <2>5. out_nak' = out_nak /\ in_nak' = in_nak
    BY <2>1, <2>2, <2>3, <2>4
  <2> QED
    BY <2>3, <2>5
<1> QED
  BY <1>1 DEF ISR_NextPart, endpoints

\* Every step keeps the stages.
LEMMA StageStep ==
  ASSUME Undisturbed, Types, NakInv, TaskInv, CommandInv, IsrInv, StageInv, ListInv, [Next]_vars
  PROVE  StageInv'
<1> USE DEF vars, host, endpoints, transport, shared, store
<1>1. CASE MSC_BulkOut
  BY <1>1, BulkOutDoes
<1>2. CASE MSC_BulkIn
  BY <1>2, BulkInDoes
<1>3. CASE MSC_BulkOutNak
  BY <1>3, BulkOutNakDoes
<1>4. CASE MSC_BulkInNak
  BY <1>4, BulkInNakDoes
<1>5. CASE OutNaked \/ OutCommand \/ OutData
  BY <1>5, OutTokens
<1>6. CASE InNaked \/ InTransfer
  BY <1>6, InTokens
<1>7. CASE USB_ISR \/ ISR_NextPart
  <2>1. UNCHANGED <<out_done, in_done, out_nak, in_nak, ep_out, ep_in>>
    BY <1>7, IsrStage
  <2> QED
    BY <1>7, <2>1, StageKept DEF USB_ISR, ISR_NextPart
<1>8. CASE TaskReady
  <2>1. 1 \in Waiting("READ")
    BY <1>8, TaskWaits DEF TaskReady, Running
  <2>2. ep_in = Nothing
    BY <2>1 DEF ListInv, ReadList, Reading
  <2> QED
    BY <1>8, <2>2, StageKept DEF TaskReady
<1>9. CASE TaskMerge
  <2>1. merge_stage # "NONE"
    BY <1>9 DEF TaskMerge, Running, TaskInv
  <2> QED
    BY <1>9, <2>1, StageKept DEF TaskMerge
<1>10. CASE TaskStart \/ TaskRead \/ TaskWrite \/ TaskPop \/ UNCHANGED vars
  BY <1>10, StageKept DEF TaskStart, TaskRead, TaskWrite, TaskPop
<1>11. ASSUME NEW c \in Commands, HostCommand(c) PROVE StageInv'
  <2>1. Idle /\ ~in_done
    BY <1>11, StageOf, Prompt DEF HostCommand
  <2>2. /\ phase' = "cbw" /\ moved' = 0
        /\ UNCHANGED <<ep_out, ep_in, out_done, in_done, out_nak, in_nak, BulkStage, Offset,
                       Length, merge_stage>>
    BY <1>11 DEF HostCommand
  <2>3. Asking'
    BY <2>1, <2>2 DEF Idle, Asking, CbwOnly
  <2>4. merge_stage = "NONE" /\ Offset \in Nat /\ Length \in Nat
    BY <2>1 DEF StageInv, Idle, Receiving
  <2> QED
    BY <2>2, <2>3, <2>4 DEF StageInv
<1>12. CASE MSC_Reset \/ USB_Reset
  BY <1>12, Prompt DEF MSC_Reset, USB_Reset, CommandInv
<1> QED
  BY <1>1, <1>2, <1>3, <1>4, <1>5, <1>6, <1>7, <1>8, <1>9, <1>10, <1>11, <1>12
  DEF Next, Interrupts, Handlers, MainLoop, Tokens

-----------------------------------------------------------------------------
(*****************************************************************************)
(* The list and the read buffer.                                             *)
(*****************************************************************************)

\* The main loop leaves the entries that wait alone, but for the one it is done with.
LEMMA LoopWaits ==
  ASSUME Types, TaskInv, TaskStart \/ TaskRead \/ TaskReady \/ TaskWrite \/ TaskMerge, NEW type
  PROVE  /\ ut_list' = ut_list
         /\ Waiting(type)' = IF task' = "pop" THEN Waiting(type) \ {1} ELSE Waiting(type)
<1>1. ut_list' = ut_list /\ task # "pop"
  BY DEF TaskStart, TaskRead, TaskReady, TaskWrite, TaskMerge, Running, shared
<1> QED
  BY <1>1 DEF Waiting, Queued

\* A merge is in the list only while the page is waited for.
LEMMA ListFacts ==
  ASSUME Types, ListInv
  PROVE  /\ ~Reading \/ Read_BulkLen # 0 => Waiting("READ") = {}
         /\ merge_stage # "START" => Waiting("MERGE") = {}
         /\ \A type : \A i \in Waiting(type) : /\ i \in Nat /\ 1 <= i /\ i <= Len(ut_list)
                                               /\ ut_list[i] \in Entry /\ ut_list[i].type = type
         /\ Len(ut_list) \in Nat
<1>1. ut_list \in Seq(Entry) /\ Len(ut_list) \in Nat /\ DOMAIN ut_list = 1 .. Len(ut_list)
  BY LenProperties DEF Types
<1>2. \A i \in 1 .. Len(ut_list) : i \in Nat /\ 1 <= i /\ i <= Len(ut_list) /\ ut_list[i] \in Entry
  BY <1>1, ElementOfSeq
<1>3. \A type : \A i \in Waiting(type) : i \in 1 .. Len(ut_list) /\ ut_list[i].type = type
  BY <1>1 DEF Waiting, Queued
<1>4. ~Reading \/ Read_BulkLen # 0 => Waiting("READ") = {}
  BY DEF ListInv, ReadList
<1>5. merge_stage # "START" => Waiting("MERGE") = {}
  BY DEF ListInv, MergeList
<1> QED
  BY <1>1, <1>2, <1>3, <1>4, <1>5

\* Every step leaves at most one read in the list: the one asked for last, at its
\* end.
LEMMA ReadListStep ==
  ASSUME Undisturbed, Types, NakInv, TaskInv, CommandInv, IsrInv, StageInv, ListInv, [Next]_vars
  PROVE  ReadList'
<1> USE DEF vars, host, endpoints, transport, shared, store
<1>0. ASSUME Waiting("READ")' = {} PROVE ReadList'
  BY <1>0 DEF ReadList
<1>01. ASSUME Waiting("READ") = {}, task' = task,
              \/ ut_list' = ut_list
              \/ \E e \in Entry : e.type # "READ" /\ ut_list' = Append(ut_list, e)
       PROVE  ReadList'
  BY <1>0, <1>01, NotQueued
<1>02. ASSUME NEW e \in Entry, e.type = "READ", e.offset = hcmd.off + moved,
              e.length = Offset' - (hcmd.off + moved), ut_list' = Append(ut_list, e),
              task' = task, Waiting("READ") = {}, Reading', Read_BulkLen' = 0,
              UNCHANGED <<hcmd, moved>>
       PROVE  ReadList'
  <2>1. /\ Waiting("READ")' = Waiting("READ") \cup {Len(ut_list) + 1}
        /\ Len(ut_list') = Len(ut_list) + 1 /\ ut_list'[Len(ut_list) + 1] = e
    <3>1. ut_list \in Seq(Entry) /\ (task # "next" => ut_list # <<>>)
      BY DEF Types, TaskInv
    <3> QED
      BY <1>02, <3>1, WaitingAppend
  <2> QED
    BY <1>02, <2>1 DEF ReadList
<1>03. ASSUME UNCHANGED <<hcmd, moved, Offset, Read_BulkLen>>, Reading => Reading',
              Len(ut_list') = Len(ut_list),
              \A i \in Waiting("READ")' : i \in Waiting("READ") /\ ut_list'[i] = ut_list[i]
       PROVE  ReadList'
  BY <1>03 DEF ListInv, ReadList
<1>1. CASE MSC_BulkOut
  <2>1. ~Reading /\ task' = task /\ UNCHANGED <<hcmd, moved>>
    BY <1>1, BulkOutDoes DEF MSC_BulkOut
  <2>2. Waiting("READ") = {}
    BY <2>1, ListFacts
  <2>3. CASE \E e \in Entry : /\ e.type = "READ" /\ e.offset = hcmd.off + moved
                              /\ e.length = Offset' - (hcmd.off + moved)
                              /\ ut_list' = Append(ut_list, e)
             /\ Reading' /\ Read_BulkLen' = 0
    BY <1>02, <2>1, <2>2, <2>3
  <2>4. CASE \/ ut_list' = ut_list
             \/ \E e \in Entry : e.type # "READ" /\ ut_list' = Append(ut_list, e)
    BY <1>01, <2>1, <2>2, <2>4
  <2>5. PageEntry("WRITE", Offset, BulkBuf).type = "WRITE"
    BY DEF PageEntry
  <2> QED
    BY <1>1, <2>3, <2>4, <2>5, BulkOutDoes
<1>2. CASE MSC_BulkIn
  <2>1. ~Reading /\ task' = task /\ UNCHANGED <<hcmd, moved>>
    BY <1>2, BulkInDoes DEF MSC_BulkIn
  <2>2. Waiting("READ") = {}
    BY <2>1, ListFacts
  <2>3. CASE ut_list' = ut_list
    BY <1>01, <2>1, <2>2, <2>3
  <2> QED
    BY <1>2, <1>02, <2>1, <2>2, <2>3, BulkInDoes
<1>3. CASE MSC_BulkOutNak
  <2>1. ~Reading /\ task' = task
    BY <1>3, BulkOutNakDoes DEF MSC_BulkOutNak
  <2>2. Waiting("READ") = {}
    BY <2>1, ListFacts
  <2>3. \/ ut_list' = ut_list
        \/ \E e \in Entry : e.type # "READ" /\ ut_list' = Append(ut_list, e)
    BY <1>3, BulkOutNakEffect
  <2> QED
    BY <1>01, <2>1, <2>2, <2>3
<1>4. CASE MSC_BulkInNak
  <2>1. Reading'
    BY <1>4, BulkInNakDoes
  <2>2. UNCHANGED <<hcmd, moved, Offset, Read_BulkLen, ut_list, task>>
    BY <1>4 DEF MSC_BulkInNak
  <2> QED
    BY <1>03, <2>1, <2>2 DEF Waiting, Queued
<1>5. CASE OutNaked \/ OutCommand \/ OutData
  <2>1. ~Reading /\ task' = task /\ ut_list' = ut_list
    BY <1>5, OutTokens DEF OutNaked, OutCommand, OutData
  <2>2. Waiting("READ") = {}
    BY <2>1, ListFacts
  <2> QED
    BY <1>01, <2>1, <2>2
<1>6. CASE InNaked
  <2>1. Reading'
    BY <1>6, InTokens
  <2>2. UNCHANGED <<hcmd, moved, Offset, Read_BulkLen, ut_list, task>>
    BY <1>6 DEF InNaked
  <2> QED
    BY <1>03, <2>1, <2>2 DEF Waiting, Queued
<1>7. CASE InTransfer
  <2>1. (Reading /\ Read_BulkLen # 0) \/ Informing \/ Ending
    BY <1>7, InTokens
  <2>2. Waiting("READ") = {}
    BY <2>1, ListFacts DEF Reading, Informing, Ending
  <2>3. UNCHANGED <<ut_list, task>>
    BY <1>7 DEF InTransfer
  <2> QED
    BY <1>01, <2>2, <2>3
<1>8. ASSUME NEW c \in Commands, HostCommand(c) PROVE ReadList'
  <2>1. ~Reading
    BY <1>8 DEF HostCommand, Reading
  <2>2. Waiting("READ") = {}
    BY <2>1, ListFacts
  <2>3. UNCHANGED <<ut_list, task>>
    BY <1>8 DEF HostCommand
  <2> QED
    BY <1>01, <2>2, <2>3
<1>9. CASE USB_ISR \/ ISR_NextPart \/ UNCHANGED vars
  <2>1. UNCHANGED <<out_done, in_done, out_nak, in_nak, ep_out, ep_in>>
    BY <1>9, IsrStage
  <2>2. UNCHANGED <<phase, CBW, BulkStage, Length, hcmd, moved, Offset, Read_BulkLen,
                    ut_list, task>>
    BY <1>9 DEF USB_ISR, ISR_NextPart
  <2>3. Reading => Reading'
    BY <2>1, <2>2 DEF Reading
  <2> QED
    BY <1>03, <2>2, <2>3 DEF Waiting, Queued
<1>10. CASE TaskStart \/ TaskRead \/ TaskWrite \/ TaskMerge
  <2>1. UNCHANGED <<phase, CBW, BulkStage, Length, hcmd, moved, Offset, Read_BulkLen,
                    out_done, in_done, out_nak, in_nak, ep_out, ep_in>>
    BY <1>10 DEF TaskStart, TaskRead, TaskWrite, TaskMerge
  <2>2. Reading => Reading'
    BY <2>1 DEF Reading
  <2>3. /\ ut_list' = ut_list
        /\ \A i \in Waiting("READ")' : i \in Waiting("READ")
    BY <1>10, LoopWaits
  <2> QED
    BY <1>03, <2>1, <2>2, <2>3
<1>11. CASE TaskReady
  <2>1. 1 \in Waiting("READ")
    BY <1>11, TaskWaits DEF TaskReady, Running
  <2>2. Waiting("READ") = {1}
    BY <2>1 DEF ListInv, ReadList
  <2>3. Waiting("READ")' = Waiting("READ") \ {1}
    BY <1>11, LoopWaits DEF TaskReady
  <2> QED
    BY <1>0, <2>2, <2>3
<1>12. CASE TaskPop
  <2>1. /\ UNCHANGED <<phase, CBW, BulkStage, Length, hcmd, moved, Offset, Read_BulkLen,
                       out_done, in_done, out_nak, in_nak, ep_out, ep_in>>
        /\ ut_list \in Seq(Entry) /\ ut_list # <<>> /\ ut_list' = Tail(ut_list)
        /\ task = "pop" /\ task' = "next"
    BY <1>12 DEF TaskPop, Running, Types, TaskInv
  <2>2. Reading => Reading'
    BY <2>1 DEF Reading
  <2>3. /\ Len(ut_list') = Len(ut_list) - 1
        /\ \A i \in Waiting("READ")' : /\ i \in Nat /\ i + 1 \in Waiting("READ")
                                       /\ ut_list'[i] = ut_list[i + 1]
    BY <2>1, WaitingPop
  <2>4. ASSUME NEW i \in Waiting("READ")'
        PROVE  /\ i = Len(ut_list') /\ Reading' /\ Read_BulkLen' = 0
               /\ ut_list'[i].offset = hcmd'.off + moved'
               /\ ut_list'[i].length = Offset' - (hcmd'.off + moved')
    <3>1. i + 1 = Len(ut_list) /\ i \in Nat
      BY <2>3 DEF ListInv, ReadList
    <3>2. i = Len(ut_list')
      BY <2>3, <3>1
    <3> QED
      BY <2>1, <2>2, <2>3, <3>2 DEF ListInv, ReadList
  <2> QED
    BY <2>4 DEF ReadList
<1>13. CASE MSC_Reset \/ USB_Reset
  BY <1>13, Prompt DEF MSC_Reset, USB_Reset, CommandInv
<1> QED
  BY <1>1, <1>2, <1>3, <1>4, <1>5, <1>6, <1>7, <1>8, <1>9, <1>10, <1>11, <1>12, <1>13
  DEF Next, Interrupts, Handlers, MainLoop, Tokens

\* Transfers and reads stay inside the device.
LEMMA InDevice ==
  ASSUME CommandInv, StageInv
  PROVE  /\ Receiving => Offset \in Sector /\ Length > 0
         /\ Reading => \A i \in 1 .. Offset - (hcmd.off + moved) :
                         hcmd.off + moved + i - 1 \in Sector
         /\ Offset \in Nat /\ Length \in Nat /\ moved \in Nat /\ hcmd.off \in Nat
<1>0. /\ hcmd.off \in Nat /\ hcmd.len \in Nat
      /\ moved \in Nat /\ Offset \in Nat /\ Length \in Nat
  BY CommandNumbers DEF StageInv
<1>1. NPage * SECTOR_PER_MPP \in Nat
  BY SectorFacts
<1> DEFINE size == NPage * SECTOR_PER_MPP
<1>2. hcmd.op \in {"read", "write"} => hcmd.off + hcmd.len <= size
  BY DEF CommandInv
<1>3. size \in Nat /\ \A s : s \in Sector <=> s \in 0 .. size - 1
  BY <1>1 DEF Sector
<1> HIDE DEF size
<1>4. ASSUME Receiving PROVE Offset \in Sector /\ Length > 0
  <2>1. /\ Length > 0 /\ Offset + InHand = hcmd.off + moved /\ Length - InHand = hcmd.len - moved
        /\ hcmd.off + hcmd.len <= size
    BY <1>2, <1>4 DEF Receiving
  <2>2. InHand \in Int
    <3>1. CASE out_done = Nothing
      BY <3>1 DEF InHand, Transferring, Nothing
    <3>2. CASE out_done # Nothing
      <4>1. out_done = [what |-> "data", n |-> WithinPage(Offset, Length)]
        BY <1>4, <3>2 DEF Receiving
      <4>2. InHand = WithinPage(Offset, Length)
        BY <4>1 DEF InHand, Transferring
      <4> QED
        BY <1>0, <2>1, <4>2, WithinPageFacts
    <3> QED
      BY <3>1, <3>2
  <2>3. Offset + Length <= size
    BY <1>0, <1>3, <2>1, <2>2
  <2> QED
    BY <1>0, <1>3, <2>1, <2>3
<1>5. ASSUME Reading, NEW i \in 1 .. Offset - (hcmd.off + moved)
      PROVE  hcmd.off + moved + i - 1 \in Sector
  <2>1. Offset + Length = hcmd.off + hcmd.len /\ hcmd.off + hcmd.len <= size
    BY <1>2, <1>5 DEF Reading
  <2>2. hcmd.off + moved + i - 1 \in 0 .. size - 1
    BY <1>0, <1>3, <2>1
  <2> QED
    BY <1>3, <2>2
<1> QED
  BY <1>0, <1>4, <1>5

\* Every step leaves at most one merge in the list: of the page the transfer is
\* for, at its end.
LEMMA MergeListStep ==
  ASSUME Undisturbed, Types, NakInv, TaskInv, CommandInv, IsrInv, StageInv, ListInv, [Next]_vars
  PROVE  MergeList'
<1> USE DEF vars, host, endpoints, transport, shared, store
<1>01. ASSUME Waiting("MERGE") = {}, task' = task,
              \/ ut_list' = ut_list
              \/ \E e \in Entry : e.type # "MERGE" /\ ut_list' = Append(ut_list, e)
       PROVE  MergeList'
  <2>1. Waiting("MERGE")' = {}
    BY <1>01, NotQueued
  <2> QED
    BY <2>1 DEF MergeList
<1>02. ASSUME UNCHANGED <<Offset, merge_stage, BulkBuf>>, Len(ut_list') = Len(ut_list),
              \A i \in Waiting("MERGE")' : i \in Waiting("MERGE") /\ ut_list'[i] = ut_list[i]
       PROVE  MergeList'
  <2>1. Base' = Base
    BY <1>02 DEF Base
  <2> QED
    BY <1>02, <2>1 DEF ListInv, MergeList
<1>1. CASE MSC_BulkOut
  <2>1. Waiting("MERGE") = {}
    <3>1. merge_stage = "NONE"
      BY <1>1, BulkOutDoes
    <3> QED
      BY <3>1, ListFacts
  <2>2. /\ task' = task
        /\ \/ ut_list' = ut_list
           \/ \E e \in Entry : e.type # "MERGE" /\ ut_list' = Append(ut_list, e)
    BY <1>1, BulkOutEffect
  <2> QED
    BY <1>01, <2>1, <2>2
<1>2. CASE MSC_BulkIn
  <2>1. Waiting("MERGE") = {}
    <3>1. merge_stage = "NONE"
      BY <1>2, BulkInDoes
    <3> QED
      BY <3>1, ListFacts
  <2>2. /\ task' = task
        /\ \/ ut_list' = ut_list
           \/ \E e \in Entry : e.type # "MERGE" /\ ut_list' = Append(ut_list, e)
    BY <1>2, BulkInEffect
  <2> QED
    BY <1>01, <2>1, <2>2
<1>3. CASE MSC_BulkOutNak
  <2>0. task' = task /\ UNCHANGED <<Offset, Length>>
    BY <1>3, BulkOutNakDoes DEF MSC_BulkOutNak
  <2>1. CASE merge_stage # "START" /\ ut_list' = ut_list
    <3>1. Waiting("MERGE") = {}
      BY <2>1, ListFacts
    <3> QED
      BY <1>01, <2>0, <2>1, <3>1
  <2>2. CASE merge_stage = "START" /\ ut_list' = ut_list
    <3>1. BulkBuf' = BulkBuf /\ merge_stage' = merge_stage
      BY <1>3, <2>2, BulkOutNakEffect
    <3> QED
      BY <1>02, <2>0, <2>2, <3>1 DEF Waiting, Queued
  <2>3. CASE /\ ut_list' = Append(ut_list, PageEntry("MERGE", Offset, BulkBuf'))
             /\ merge_stage = "NONE" /\ merge_stage' = "START"
    <3> DEFINE e == PageEntry("MERGE", Offset, BulkBuf')
    <3>1. /\ ut_list \in Seq(Entry) /\ (task # "next" => ut_list # <<>>)
          /\ Waiting("MERGE") = {}
      BY <2>3, ListFacts DEF Types, TaskInv
    <3>2. e \in Entry
      <4>1. BulkBuf' \in Buffer
        <5>1. ut_list' # ut_list
          <6>1. Len(Append(ut_list, e)) = Len(ut_list) + 1 /\ Len(ut_list) \in Nat
            BY <3>1, ListFacts
          <6> QED
            BY <2>3, <6>1
        <5> QED
          BY <1>3, <2>3, <5>1, BulkOutNakEffect
      <4>2. Offset \in Int
        BY DEF Types
      <4> QED
        BY <4>1, <4>2, EntryTypes
    <3>3. e.type = "MERGE" /\ e.buffer = BulkBuf' /\ e.offset = Base'
      BY <2>0 DEF PageEntry, Base
    <3> HIDE DEF e
    <3>4. /\ Waiting("MERGE")' = {Len(ut_list) + 1} /\ Len(ut_list') = Len(ut_list) + 1
          /\ ut_list'[Len(ut_list) + 1] = e
      <4>1. ut_list' = Append(ut_list, e)
        BY <2>3 DEF e
      <4> QED
        BY <2>0, <3>1, <3>2, <3>3, <4>1, WaitingAppend
    <3> QED
      BY <2>3, <3>3, <3>4 DEF MergeList
  <2> QED
    BY <1>3, <2>1, <2>2, <2>3, BulkOutNakDoes
<1>4. CASE MSC_BulkInNak \/ InNaked \/ InTransfer \/ OutCommand \/ OutData
  <2>1. UNCHANGED <<ut_list, task>>
    BY <1>4 DEF MSC_BulkInNak, InNaked, InTransfer, OutCommand, OutData
  <2>2. merge_stage = "NONE"
    BY <1>4, BulkInNakDoes, InTokens, OutTokens
  <2>3. Waiting("MERGE") = {}
    BY <2>2, ListFacts
  <2> QED
    BY <1>01, <2>1, <2>3
<1>5. CASE OutNaked \/ USB_ISR \/ ISR_NextPart \/ (\E c \in Commands : HostCommand(c))
           \/ UNCHANGED vars
  <2>1. UNCHANGED <<ut_list, task, Offset, merge_stage, BulkBuf>>
    BY <1>5 DEF OutNaked, USB_ISR, ISR_NextPart, HostCommand
  <2> QED
    BY <1>02, <2>1 DEF Waiting, Queued
<1>6. CASE TaskStart \/ TaskRead \/ TaskReady \/ TaskWrite
  <2>1. UNCHANGED <<Offset, merge_stage, BulkBuf, ut_list>>
    BY <1>6 DEF TaskStart, TaskRead, TaskReady, TaskWrite
  <2>2. \A i \in Waiting("MERGE")' : i \in Waiting("MERGE")
    BY <1>6, LoopWaits
  <2> QED
    BY <1>02, <2>1, <2>2
<1>7. CASE TaskMerge
  <2>1. 1 \in Waiting("MERGE") /\ task' = "pop"
    BY <1>7, TaskWaits DEF TaskMerge, Running
  <2>2. Waiting("MERGE") = {1}
    BY <2>1 DEF ListInv, MergeList
  <2>3. Waiting("MERGE")' = {}
    BY <1>7, <2>1, <2>2, LoopWaits
  <2> QED
    BY <2>3 DEF MergeList
<1>8. CASE TaskPop
  <2>1. /\ UNCHANGED <<Offset, merge_stage, BulkBuf>>
        /\ ut_list \in Seq(Entry) /\ ut_list # <<>> /\ ut_list' = Tail(ut_list)
        /\ task = "pop" /\ task' = "next"
    BY <1>8 DEF TaskPop, Running, Types, TaskInv
  <2>2. /\ Len(ut_list') = Len(ut_list) - 1
        /\ \A i \in Waiting("MERGE")' : /\ i \in Nat /\ i + 1 \in Waiting("MERGE")
                                        /\ ut_list'[i] = ut_list[i + 1]
    BY <2>1, WaitingPop
  <2>3. Base' = Base
    BY <2>1 DEF Base
  <2>4. ASSUME NEW i \in Waiting("MERGE")'
        PROVE  /\ i = Len(ut_list') /\ merge_stage' = "START"
               /\ ut_list'[i].offset = Base' /\ ut_list'[i].buffer = BulkBuf'
    <3>1. i + 1 = Len(ut_list) /\ i \in Nat
      BY <2>2 DEF ListInv, MergeList
    <3>2. i = Len(ut_list')
      BY <2>2, <3>1
    <3> QED
      BY <2>1, <2>2, <2>3, <3>2 DEF ListInv, MergeList
  <2> QED
    BY <2>4 DEF MergeList
<1>9. CASE MSC_Reset \/ USB_Reset
  BY <1>9, Prompt DEF MSC_Reset, USB_Reset, CommandInv
<1> QED
  BY <1>1, <1>2, <1>3, <1>4, <1>5, <1>6, <1>7, <1>8, <1>9
  DEF Next, Interrupts, Handlers, MainLoop, Tokens

\* Every step leaves the writes in the list with a page each.
LEMMA WriteListStep ==
  ASSUME Undisturbed, Types, NakInv, TaskInv, BufferInv, CommandInv, IsrInv, StageInv, ListInv,
         [Next]_vars
  PROVE  WriteList'
<1> USE DEF vars, host, endpoints, transport, shared, store
<1>01. ASSUME \A i \in Waiting("WRITE")' : i \in Waiting("WRITE") /\ ut_list'[i] = ut_list[i]
       PROVE  WriteList'
  BY <1>01 DEF ListInv, WriteList
<1>02. ASSUME task' = task,
              \/ ut_list' = ut_list
              \/ \E e \in Entry : e.type # "WRITE" /\ ut_list' = Append(ut_list, e)
       PROVE  WriteList'
  BY <1>01, <1>02, NotQueued
<1>1. CASE MSC_BulkOut
  <2>0. task' = task
    BY <1>1 DEF MSC_BulkOut
  <2>1. CASE \/ ut_list' = ut_list
             \/ \E e \in Entry : e.type # "WRITE" /\ ut_list' = Append(ut_list, e)
    BY <1>02, <2>0, <2>1
  <2>2. CASE /\ Receiving /\ Transferring(out_done)
             /\ PageEntry("WRITE", Offset, BulkBuf) \in Entry
             /\ ut_list' = Append(ut_list, PageEntry("WRITE", Offset, BulkBuf))
    <3> DEFINE e == PageEntry("WRITE", Offset, BulkBuf)
    <3>1. /\ e.length = SECTOR_PER_MPP /\ e.offset = PageStart(PageOf(Offset))
          /\ e.type = "WRITE" /\ e.buffer = BulkBuf
      BY DEF PageEntry
    <3>2. PageOf(Offset) \in 0 .. NPage - 1
      BY <2>2, InDevice, SectorFacts
    <3>3. BulkBuf \in Buffer
      BY <2>2 DEF BufferInv, Active, Types
    <3>4. /\ Waiting("WRITE")' = Waiting("WRITE") \cup {Len(ut_list) + 1}
          /\ \A i \in Waiting("WRITE") : ut_list'[i] = ut_list[i]
          /\ ut_list'[Len(ut_list) + 1] = e
      <4>1. ut_list \in Seq(Entry) /\ (task # "next" => ut_list # <<>>)
        BY DEF Types, TaskInv
      <4>2. ut_list' = Append(ut_list, e) /\ e \in Entry
        BY <2>2
      <4> HIDE DEF e
      <4> QED
        BY <2>0, <3>1, <4>1, <4>2, WaitingAppend
    <3> HIDE DEF e
    <3> QED
      BY <3>1, <3>2, <3>3, <3>4 DEF ListInv, WriteList
  <2> QED
    BY <1>1, <2>1, <2>2, BulkOutDoes
<1>2. CASE MSC_BulkIn
  BY <1>2, <1>02, BulkInEffect
<1>3. CASE MSC_BulkOutNak
  BY <1>3, <1>02, BulkOutNakEffect
<1>4. CASE TaskStart \/ TaskRead \/ TaskReady \/ TaskWrite \/ TaskMerge
  BY <1>4, <1>01, LoopWaits
<1>5. CASE TaskPop
  <2>1. /\ ut_list \in Seq(Entry) /\ ut_list # <<>> /\ ut_list' = Tail(ut_list)
        /\ task = "pop" /\ task' = "next"
    BY <1>5 DEF TaskPop, Running, Types, TaskInv
  <2>2. \A i \in Waiting("WRITE")' : /\ i \in Nat /\ i + 1 \in Waiting("WRITE")
                                     /\ ut_list'[i] = ut_list[i + 1]
    BY <2>1, WaitingPop
  <2> QED
    BY <2>2 DEF ListInv, WriteList
<1>6. CASE UNCHANGED <<ut_list, task>>
  BY <1>6, <1>01 DEF Waiting, Queued
<1> QED
  BY <1>1, <1>2, <1>3, <1>4, <1>5, <1>6
  DEF Next, Interrupts, Handlers, MainLoop, Tokens, USB_ISR, ISR_NextPart, MSC_BulkInNak,
      OutNaked, OutCommand, OutData, InNaked, InTransfer, HostCommand, MSC_Reset, USB_Reset

\* When the main loop reads a page for the host, no write waits, and the flash holds
\* what the host knows to be written.
LEMMA ReadIsCurrent ==
  ASSUME Types, TaskInv, CommandInv, StageInv, ListInv, DataInv, PendingInv,
         task \in {"READ", "READY"}
  PROVE  /\ Reading /\ Read_BulkLen = 0
         /\ Task.offset = hcmd.off + moved /\ Task.length = Offset - (hcmd.off + moved)
         /\ Task.length \in Nat
         /\ \A i \in 1 .. Task.length :
              /\ flash[Task.offset + i - 1] = disk[hcmd.off + moved + i - 1]
              /\ flash[Task.offset + i - 1] \in Nat
<1>1. 1 \in Waiting("READ") /\ Task = ut_list[1]
  BY TaskWaits
<1>2. /\ 1 = Len(ut_list) /\ Reading /\ Read_BulkLen = 0
      /\ Task.offset = hcmd.off + moved /\ Task.length = Offset - (hcmd.off + moved)
  BY <1>1 DEF ListInv, ReadList
<1>3. Waiting("WRITE") = {}
  <2> SUFFICES ASSUME NEW i \in Waiting("WRITE") PROVE FALSE
    OBVIOUS
  <2>1. i \in Nat /\ 1 <= i /\ i <= 1 /\ ut_list[i].type = "WRITE" /\ ut_list[1].type = "READ"
    BY <1>1, <1>2, ListFacts
  <2>2. i = 1
    BY <2>1
  <2> QED
    BY <2>1, <2>2
<1>4. ~Writing
  BY <1>2 DEF Reading, Writing
<1>5. \A s \in Sector : flash[s] = disk[s] /\ flash[s] \in Nat
  <2>1. hcmd.dTag \in Nat
    BY CommandNumbers
  <2>2. \A s \in Sector : flash[s] \in Numbers
    BY DEF DataInv
  <2>3. \A s \in Sector : flash[s] = disk[s]
    BY <1>3, <1>4 DEF PendingInv, Pending, Current
  <2> QED
    BY <2>1, <2>2, <2>3 DEF Numbers
<1>6. \A i \in 1 .. Task.length : hcmd.off + moved + i - 1 \in Sector
  BY <1>2, InDevice
<1>7. Task.length \in Nat
  <2>1. /\ hcmd.off \in Nat /\ moved \in Nat /\ Offset \in Nat /\ hcmd.off + moved < Offset
    BY <1>2, InDevice DEF Reading
  <2> QED
    BY <1>2, <2>1
<1> QED
  BY <1>2, <1>5, <1>6, <1>7

\* Every step leaves a read buffer with the sectors it was filled for.
LEMMA ReadBufferStep ==
  ASSUME Undisturbed, Types, NakInv, TaskInv, CommandInv, IsrInv, StageInv, ListInv,
         DataInv, PendingInv, [Next]_vars
  PROVE  ReadBuffer'
<1> USE DEF vars, host, endpoints, transport, shared, store
<1>01. ASSUME UNCHANGED <<hcmd, moved, Offset, disk, Read_BulkBuf, Read_BulkLen>>,
              task' = "READY" => task = "READY", Reading' => Reading
       PROVE  ReadBuffer'
  <2>1. Filled' = Filled
    BY <1>01 DEF Filled
  <2> QED
    BY <1>01, <2>1 DEF ListInv, ReadBuffer
<1>02. task = "READY" => Reading /\ Read_BulkLen = 0
  BY ReadIsCurrent
<1>03. ASSUME task' # "READY", Reading' => Read_BulkLen' = 0 PROVE ReadBuffer'
  BY <1>03 DEF ReadBuffer
<1>1. CASE MSC_BulkOut
  <2>1. task' = task /\ ~Reading /\ (Reading' => Read_BulkLen' = 0)
    BY <1>1, BulkOutDoes DEF MSC_BulkOut
  <2> QED
    BY <1>02, <1>03, <2>1
<1>2. CASE MSC_BulkIn
  <2>1. task' = task /\ ~Reading
    BY <1>2, BulkInDoes DEF MSC_BulkIn
  <2>2. Reading' => Read_BulkLen' = 0
    BY <1>2, BulkInDoes DEF Idle, Reading
  <2> QED
    BY <1>02, <1>03, <2>1, <2>2
<1>3. CASE MSC_BulkOutNak
  <2>1. task' = task /\ ~Reading /\ ~Reading'
    BY <1>3, BulkOutNakDoes DEF MSC_BulkOutNak
  <2> QED
    BY <1>02, <1>03, <2>1
<1>4. CASE MSC_BulkInNak \/ InNaked
  <2>1. Reading
    BY <1>4, BulkInNakDoes, InTokens
  <2>2. UNCHANGED <<hcmd, moved, Offset, disk, Read_BulkBuf, Read_BulkLen, task>>
    BY <1>4 DEF MSC_BulkInNak, InNaked
  <2> QED
    BY <1>01, <2>1, <2>2
<1>5. CASE OutNaked \/ OutCommand \/ OutData
  <2>1. ~Reading /\ ~Reading' /\ task' = task
    BY <1>5, OutTokens DEF OutNaked, OutCommand, OutData
  <2> QED
    BY <1>02, <1>03, <2>1
<1>6. CASE InTransfer
  <2>0. ~Clearing
    BY <1>6, Prompt DEF InTransfer, Clearing
  <2>1. task' = task /\ in_done'
    BY <1>6, <2>0 DEF InTransfer
  <2>2. task # "READY" /\ ~Reading'
    BY <1>6, <1>02, <2>1, InTokens DEF Reading, Informing, Ending
  <2> QED
    BY <1>03, <2>1, <2>2
<1>7. ASSUME NEW c \in Commands, HostCommand(c) PROVE ReadBuffer'
  <2>1. ~Reading /\ ~Reading' /\ task' = task
    BY <1>7 DEF HostCommand, Reading
  <2> QED
    BY <1>02, <1>03, <2>1
<1>8. CASE USB_ISR \/ ISR_NextPart \/ UNCHANGED vars
  <2>1. UNCHANGED <<out_done, in_done, out_nak, in_nak, ep_out, ep_in>>
    BY <1>8, IsrStage
  <2>2. UNCHANGED <<phase, CBW, BulkStage, Length, hcmd, moved, Offset, Read_BulkLen,
                    disk, Read_BulkBuf, task>>
    BY <1>8 DEF USB_ISR, ISR_NextPart
  <2>3. Reading' => Reading
    BY <2>1, <2>2 DEF Reading
  <2> QED
    BY <1>01, <2>2, <2>3
<1>9. CASE TaskStart \/ TaskWrite \/ TaskMerge \/ TaskPop
  <2>1. UNCHANGED <<phase, CBW, BulkStage, Length, hcmd, moved, Offset, Read_BulkLen,
                    disk, Read_BulkBuf, out_done, in_done, out_nak, in_nak, ep_out, ep_in>>
    BY <1>9 DEF TaskStart, TaskWrite, TaskMerge, TaskPop
  <2>2. Reading' => Reading
    BY <2>1 DEF Reading
  <2>3. task' # "READY"
    <3>1. Head(ut_list).type \in {"READ", "WRITE", "MERGE"} \/ ~TaskStart
      <4>1. ut_list \in Seq(Entry)
        BY DEF Types
      <4>2. TaskStart => Head(ut_list) \in Entry
        BY <4>1, HeadTailProperties DEF TaskStart
      <4> QED
        BY <4>2 DEF Entry
    <3> QED
      BY <1>9, <3>1 DEF TaskStart, TaskWrite, TaskMerge, TaskPop, Task
  <2> QED
    BY <1>01, <2>1, <2>2, <2>3
<1>10. CASE TaskRead
  <2>1. /\ task = "READ" /\ task' = "READY"
        /\ Read_BulkBuf' = [i \in 1 .. Task.length |-> flash[Task.offset + i - 1]]
        /\ UNCHANGED <<hcmd, moved, Offset, disk, Read_BulkLen>>
    BY <1>10 DEF TaskRead, Running
  <2>2. /\ Reading /\ Read_BulkLen = 0
        /\ Task.offset = hcmd.off + moved /\ Task.length = Offset - (hcmd.off + moved)
        /\ Task.length \in Nat
        /\ \A i \in 1 .. Task.length :
              /\ flash[Task.offset + i - 1] = disk[hcmd.off + moved + i - 1]
              /\ flash[Task.offset + i - 1] \in Nat
    BY <2>1, ReadIsCurrent
  <2> DEFINE n == Task.length
             f(i) == flash[Task.offset + i - 1]
  <2>3. n \in Nat /\ Read_BulkBuf' = [i \in 1 .. n |-> f(i)] /\ \A i \in 1 .. n : f(i) \in Nat
    BY <2>1, <2>2
  <2>4. /\ Read_BulkBuf' \in Seq(Nat) /\ Len(Read_BulkBuf') = n
        /\ \A i \in 1 .. n : Read_BulkBuf'[i] = f(i)
    <3> HIDE DEF n, f
    <3> QED
      BY <2>3
  <2>5. Filled'
    BY <2>1, <2>2, <2>4 DEF Filled
  <2> QED
    BY <2>1, <2>2, <2>5 DEF ReadBuffer
<1>11. CASE TaskReady
  <2>1. /\ task = "READY" /\ task' = "pop" /\ Read_BulkLen' = Task.length
        /\ UNCHANGED <<hcmd, moved, Offset, disk, Read_BulkBuf>>
    BY <1>11 DEF TaskReady, Running
  <2>2. Filled' /\ Task.length = Offset - (hcmd.off + moved)
    BY <2>1, ReadIsCurrent DEF Filled, ListInv, ReadBuffer
  <2> QED
    BY <2>1, <2>2 DEF ReadBuffer
<1>12. CASE MSC_Reset \/ USB_Reset
  BY <1>12, Prompt DEF MSC_Reset, USB_Reset, CommandInv
<1> QED
  BY <1>1, <1>2, <1>3, <1>4, <1>5, <1>6, <1>7, <1>8, <1>9, <1>10, <1>11, <1>12
  DEF Next, Interrupts, Handlers, MainLoop, Tokens

-----------------------------------------------------------------------------
(*****************************************************************************)
(* The uses of the buffers.                                                  *)
(*****************************************************************************)

\* Only an entry that is executed as a write stops to wait as one.
LEMMA WritesWait ==
  ASSUME Types, TaskInv, TaskStart \/ TaskRead \/ TaskReady \/ TaskMerge
  PROVE  ut_list' = ut_list /\ Waiting("WRITE")' = Waiting("WRITE")
<1>1. /\ ut_list' = ut_list
      /\ Waiting("WRITE")' = IF task' = "pop" THEN Waiting("WRITE") \ {1} ELSE Waiting("WRITE")
  BY LoopWaits
<1>2. ASSUME task' = "pop" PROVE 1 \notin Waiting("WRITE")
  <2>1. ut_list \in Seq(Entry) /\ ut_list # <<>>
    BY DEF TaskStart, TaskRead, TaskReady, TaskMerge, Running, Types, TaskInv
  <2>2. Head(ut_list) = ut_list[1]
    BY <2>1, HeadTailProperties, EmptySeq, LenProperties
  <2>3. Head(ut_list).type # "WRITE"
    BY <1>2 DEF TaskStart, Dropped, Task, TaskRead, TaskReady, TaskMerge, Running, TaskInv
  <2> QED
    BY <2>2, <2>3 DEF Waiting, Queued
<1> QED
  BY <1>1, <1>2

\* The buffers in the list follow its entries.
LEMMA InListKept ==
  ASSUME Waiting("WRITE")' = Waiting("WRITE"),
         \A i \in Waiting("WRITE") : ut_list'[i] = ut_list[i]
  PROVE  InList' = InList
BY DEF InList

\* A step that neither takes nor gives back a buffer.
LEMMA UseKept ==
  ASSUME UseInv, UNCHANGED <<pb_pool_used, dice_hold>>, InList' = InList,
         Active' = Active, Active => BulkBuf' = BulkBuf
  PROVE  UseInv'
BY DEF UseInv, Held, InFlight

\* Every step leaves every buffer in use with a use.
LEMMA UseStep ==
  ASSUME Undisturbed, Types, NakInv, TaskInv, BufferInv, CommandInv, IsrInv, StageInv, ListInv,
         UseInv, [Next]_vars
  PROVE  UseInv'
<1> USE DEF vars, host, endpoints, transport, shared, store
<1>1. CASE MSC_BulkOut
  <2>1. /\ out_done' = Nothing
        /\ UNCHANGED <<ep_out, BulkBuf, merge_stage, pb_pool_used, task, dice_hold>>
    BY <1>1, BulkOutEffect
  <2>2. CASE /\ ~Transferring(out_done)
             /\ \/ ut_list' = ut_list
                \/ \E e \in Entry : e.type # "WRITE" /\ ut_list' = Append(ut_list, e)
    <3>1. InList' = InList
      BY <2>1, <2>2, NotQueued, InListKept
    <3>2. Active' = Active
      BY <2>1, <2>2 DEF Active, Transferring, Nothing
    <3> QED
      BY <2>1, <3>1, <3>2, UseKept
  <2>3. CASE /\ Receiving /\ Transferring(out_done)
             /\ PageEntry("WRITE", Offset, BulkBuf) \in Entry
             /\ ut_list' = Append(ut_list, PageEntry("WRITE", Offset, BulkBuf))
    <3> DEFINE e == PageEntry("WRITE", Offset, BulkBuf)
    <3>1. e.type = "WRITE" /\ e.buffer = BulkBuf
      BY DEF PageEntry
    <3>2. /\ Waiting("WRITE")' = Waiting("WRITE") \cup {Len(ut_list) + 1}
          /\ \A i \in Waiting("WRITE") : ut_list'[i] = ut_list[i]
          /\ ut_list'[Len(ut_list) + 1] = e
      <4>1. ut_list \in Seq(Entry) /\ (task # "next" => ut_list # <<>>)
        BY DEF Types, TaskInv
      <4>2. ut_list' = Append(ut_list, e) /\ e \in Entry
        BY <2>3
      <4> HIDE DEF e
      <4> QED
        BY <2>1, <3>1, <4>1, <4>2, WaitingAppend
    <3> HIDE DEF e
    <3>3. InList' = InList \cup {BulkBuf}
      BY <3>1, <3>2 DEF InList
    <3>4. Active /\ ~Active'
      <4>1. ep_out = Nothing /\ merge_stage = "NONE"
        BY <2>3 DEF Receiving, Transferring, Nothing, BufferInv
      <4> QED
        BY <2>1, <2>3, <4>1 DEF Active, Transferring, Nothing
    <3> QED
      BY <2>1, <3>3, <3>4 DEF UseInv, Held, InFlight
  <2>4. Asked => ~Transferring(out_done)
    BY DEF Asked, Transferring
  <2> QED
    BY <1>1, <2>2, <2>3, <2>4, BulkOutDoes
<1>2. CASE MSC_BulkIn
  <2>1. /\ UNCHANGED <<ep_out, out_done, BulkBuf, merge_stage, pb_pool_used, task, dice_hold>>
        /\ ut_list' = ut_list \/ \E e \in Entry : e.type # "WRITE" /\ ut_list' = Append(ut_list, e)
    BY <1>2, BulkInEffect
  <2>2. InList' = InList
    BY <2>1, NotQueued, InListKept
  <2>3. Active' = Active
    BY <2>1 DEF Active, Transferring
  <2> QED
    BY <2>1, <2>2, <2>3, UseKept
<1>3. CASE MSC_BulkOutNak
  <2>1. /\ UNCHANGED <<out_done, task, dice_hold>>
        /\ \/ /\ ep_out' \in {ep_out, [what |-> "cbw"]}
              /\ BulkBuf' = BulkBuf \/ merge_stage = "NONE"
              /\ UNCHANGED <<merge_stage, ut_list, pb_pool_used>>
           \/ /\ merge_stage = "NONE" /\ BulkBuf' \in Buffer \ pb_pool_used
              /\ pb_pool_used' = pb_pool_used \cup {BulkBuf'}
              /\ \/ /\ \E e \in Entry : e.type = "MERGE" /\ ut_list' = Append(ut_list, e)
                    /\ merge_stage' = "START" /\ ep_out' = ep_out
                 \/ /\ ep_out'.what = "data" /\ ep_out'.buf = BulkBuf'
                    /\ UNCHANGED <<merge_stage, ut_list>>
           \/ /\ merge_stage = "FINISH" /\ merge_stage' = "NONE"
              /\ ep_out'.what = "data" /\ ep_out'.buf = BulkBuf
              /\ UNCHANGED <<BulkBuf, ut_list, pb_pool_used>>
    BY <1>3, BulkOutNakEffect
  <2>2. ep_out = Nothing /\ out_done = Nothing
    BY <1>3, BulkOutNakDoes
  <2>3. InList' = InList
    <3>1. ut_list' = ut_list \/ \E e \in Entry : e.type # "WRITE" /\ ut_list' = Append(ut_list, e)
      BY <2>1
    <3> QED
      BY <2>1, <3>1, NotQueued, InListKept
  <2>4. Active <=> merge_stage # "NONE"
    BY <2>2 DEF Active, Transferring, Nothing
  <2>5. CASE /\ ep_out' \in {ep_out, [what |-> "cbw"]}
             /\ BulkBuf' = BulkBuf \/ merge_stage = "NONE"
             /\ UNCHANGED <<merge_stage, ut_list, pb_pool_used>>
    <3>1. Active' = Active
      BY <2>1, <2>2, <2>5 DEF Active, Transferring, Nothing
    <3> QED
      BY <2>1, <2>3, <2>4, <2>5, <3>1, UseKept
  <2>6. CASE /\ merge_stage = "NONE" /\ BulkBuf' \in Buffer \ pb_pool_used
             /\ pb_pool_used' = pb_pool_used \cup {BulkBuf'}
             /\ merge_stage' = "START" \/ ep_out'.what = "data"
    <3>1. ~Active /\ Active'
      BY <2>4, <2>6 DEF Active, Transferring
    <3>2. InFlight = {} /\ InFlight' = {BulkBuf'}
      BY <3>1 DEF InFlight
    <3>3. Held' = Held
      BY <2>1 DEF Held
    <3>4. 0 # BulkBuf' /\ 0 \in pb_pool_used'
      BY <2>6 DEF UseInv
    <3>5. pb_pool_used' \subseteq {0} \cup Held' \cup InList' \cup InFlight'
      BY <2>3, <2>6, <3>2, <3>3 DEF UseInv
    <3>6. 0 \notin Held' \cup InList' \cup InFlight'
      BY <2>3, <3>2, <3>3, <3>4 DEF UseInv
    <3> QED
      BY <3>4, <3>5, <3>6 DEF UseInv
  <2>7. CASE /\ merge_stage = "FINISH" /\ ep_out'.what = "data"
             /\ UNCHANGED <<BulkBuf, ut_list, pb_pool_used>>
    <3>1. Active /\ Active'
      BY <2>4, <2>7 DEF Active, Transferring
    <3> QED
      BY <2>1, <2>3, <2>7, <3>1, UseKept
  <2> QED
    BY <2>1, <2>5, <2>6, <2>7
<1>4. CASE OutCommand
  <2>1. /\ merge_stage = "NONE" /\ ~Transferring(ep_out) /\ out_done = Nothing
    BY <1>4, OutTokens, Prompt DEF OutCommand
  <2>2. /\ UNCHANGED <<merge_stage, pb_pool_used, dice_hold, ut_list, task, BulkBuf>>
        /\ ep_out' = Nothing /\ out_done' = [what |-> "cbw"]
    BY <1>4 DEF OutCommand
  <2>3. Active' = Active /\ ~Active
    BY <2>1, <2>2 DEF Active, Transferring, Nothing
  <2>4. InList' = InList
    BY <2>2, InListKept DEF Waiting, Queued
  <2> QED
    BY <2>2, <2>3, <2>4, UseKept
<1>5. CASE OutData
  <2>1. Active
    BY <1>5 DEF OutData, Active, Transferring
  <2>2. /\ UNCHANGED <<merge_stage, pb_pool_used, dice_hold, ut_list, task, BulkBuf>>
        /\ out_done'.what = "data"
    BY <1>5 DEF OutData
  <2>3. Active'
    BY <2>2 DEF Active, Transferring
  <2> QED
    BY <2>1, <2>2, <2>3, UseKept, InListKept DEF Waiting, Queued
<1>6. CASE TaskWrite
  <2>1. /\ task = "WRITE" /\ task' = "pop"
        /\ UNCHANGED <<ep_out, out_done, BulkBuf, merge_stage, ut_list>>
    BY <1>6 DEF TaskWrite, Running
  <2>2. 1 \in Waiting("WRITE") /\ Task = ut_list[1]
    BY <2>1, TaskWaits
  <2>3. Waiting("WRITE")' = Waiting("WRITE") \ {1}
    BY <1>6, <2>1, LoopWaits
  <2> DEFINE b == ut_list[1].buffer
  <2>4. b \in InList /\ InList' = InList \ {b}
    <3>1. \A i \in Waiting("WRITE") : ut_list[i].buffer = b => i = 1
      BY <2>2 DEF BufferInv
    <3> QED
      BY <2>1, <2>2, <2>3, <3>1 DEF InList
  <2>5. PICK held \in {b, NoBuffer} :
          /\ dice_hold' = held
          /\ pb_pool_used' = (pb_pool_used \ {dice_hold}) \ (IF held = NoBuffer THEN {b} ELSE {})
    BY <1>6, <2>2 DEF TaskWrite, UsedAfter, BUF_Free
  <2>6. Active' = Active
    BY <2>1 DEF Active, Transferring
  <2>7. b # NoBuffer
    BY <2>2, AllocateFacts DEF BufferInv, Types
  <2> HIDE DEF b
  <2>8. 0 # dice_hold /\ 0 # b
    <3>1. 0 # NoBuffer
      BY DEF NoBuffer
    <3> QED
      BY <2>4, <3>1 DEF UseInv, Held
  <2>9. Held' = IF held = NoBuffer THEN {} ELSE {b}
    BY <2>5 DEF Held
  <2>10. InFlight' = InFlight
    BY <2>1, <2>6 DEF InFlight
  <2>11. \A x \in pb_pool_used' : x # dice_hold
    BY <2>5
  <2>12. pb_pool_used' \subseteq {0} \cup Held' \cup InList' \cup InFlight'
    BY <2>4, <2>5, <2>7, <2>9, <2>10, <2>11 DEF UseInv, Held
  <2> QED
    BY <2>4, <2>5, <2>8, <2>9, <2>10, <2>12 DEF UseInv
<1>7. CASE TaskPop
  <2>1. /\ UNCHANGED <<ep_out, out_done, BulkBuf, merge_stage, pb_pool_used, dice_hold>>
        /\ ut_list \in Seq(Entry) /\ ut_list # <<>> /\ ut_list' = Tail(ut_list)
        /\ task = "pop" /\ task' = "next"
    BY <1>7 DEF TaskPop, Running, Types, TaskInv
  <2>2. /\ \A i \in Waiting("WRITE")' : /\ i \in Nat /\ i + 1 \in Waiting("WRITE")
                                        /\ ut_list'[i] = ut_list[i + 1]
        /\ \A j \in Waiting("WRITE") : /\ j \in Nat /\ j - 1 \in Waiting("WRITE")'
                                       /\ ut_list'[j - 1] = ut_list[j]
    BY <2>1, WaitingPop
  <2>3. InList' = InList
    BY <2>2 DEF InList
  <2>4. Active' = Active
    BY <2>1 DEF Active, Transferring
  <2> QED
    BY <2>1, <2>3, <2>4, UseKept
<1>8. CASE TaskStart \/ TaskRead \/ TaskReady \/ TaskMerge
  <2>1. InList' = InList
    BY <1>8, WritesWait, InListKept
  <2>2. UNCHANGED <<ep_out, out_done, BulkBuf, pb_pool_used, dice_hold>>
    BY <1>8 DEF TaskStart, TaskRead, TaskReady, TaskMerge
  <2>3. Active' = Active
    <3>1. merge_stage' # "NONE" <=> merge_stage # "NONE"
      BY <1>8 DEF TaskStart, TaskRead, TaskReady, TaskMerge, Running, TaskInv
    <3> QED
      BY <2>2, <3>1 DEF Active, Transferring
  <2> QED
    BY <2>1, <2>2, <2>3, UseKept
<1>9. CASE MSC_Reset \/ USB_Reset
  BY <1>9, Prompt DEF MSC_Reset, USB_Reset, CommandInv
<1>10. CASE UNCHANGED <<ep_out, out_done, BulkBuf, merge_stage, ut_list, pb_pool_used, task,
                        dice_hold>>
  <2>1. InList' = InList
    BY <1>10, InListKept DEF Waiting, Queued
  <2>2. Active' = Active
    BY <1>10 DEF Active, Transferring
  <2> QED
    BY <1>10, <2>1, <2>2, UseKept
<1> QED
  BY <1>1, <1>2, <1>3, <1>4, <1>5, <1>6, <1>7, <1>8, <1>9, <1>10
  DEF Next, Interrupts, Handlers, MainLoop, Tokens, USB_ISR, ISR_NextPart, MSC_BulkInNak,
      OutNaked, InNaked, InTransfer, HostCommand

\* The uses of the buffers are disjoint, so that each is counted once.
LEMMA Accounted ==
  ASSUME Types, BufferInv, UseInv, NoBufferUsedTwice
  PROVE  BuffersAccounted
<1> DEFINE queued == {ut_list[i].buffer : i \in Waiting("WRITE")}
           held == IF dice_hold = NoBuffer THEN {} ELSE {dice_hold}
<1>1. OutBuffer = InFlight /\ held = Held /\ queued = InList
  BY DEF OutBuffer, InFlight, Active, Transferring, Nothing, Held, InList
<1>2. Cardinality(queued) = Cardinality(Waiting("WRITE"))
  BY DEF NoBufferUsedTwice
<1>3. /\ \A x \in InList : x \in pb_pool_used /\ x # dice_hold /\ (Active => x # BulkBuf)
      /\ Active => BulkBuf \in pb_pool_used /\ BulkBuf # dice_hold
      /\ Held \subseteq pb_pool_used
  BY DEF BufferInv, InList, Held
<1>4. pb_pool_used = {0} \cup Held \cup InList \cup InFlight
  BY <1>3 DEF UseInv, InFlight
<1>5. /\ {0} \cap Held = {} /\ ({0} \cup Held) \cap InList = {}
      /\ ({0} \cup Held \cup InList) \cap InFlight = {}
  BY <1>3 DEF UseInv, Held, InFlight
<1>6. IsFiniteSet(pb_pool_used)
  <2>1. IsFiniteSet(Buffer)
    BY BufferAssumption, FS_Interval DEF Buffer
  <2> QED
    BY <2>1, FS_Subset DEF Types
<1>7. IsFiniteSet({0}) /\ IsFiniteSet(Held) /\ IsFiniteSet(InList) /\ IsFiniteSet(InFlight)
  BY <1>4, <1>6, FS_Subset
<1>8. Cardinality({0}) = 1 /\ Cardinality({}) = 0
  BY FS_Singleton, FS_EmptySet
<1>9. /\ IsFiniteSet({0} \cup Held)
      /\ Cardinality({0} \cup Held) = 1 + Cardinality(Held)
  <2>1. /\ IsFiniteSet({0} \cup Held)
        /\ Cardinality({0} \cup Held) =
             Cardinality({0}) + Cardinality(Held) - Cardinality({0} \cap Held)
    BY <1>7, FS_Union
  <2>2. Cardinality(Held) \in Nat /\ Cardinality({0} \cap Held) = 0
    BY <1>5, <1>7, <1>8, FS_CardinalityType
  <2> QED
    BY <1>8, <2>1, <2>2
<1>10. /\ IsFiniteSet({0} \cup Held \cup InList)
       /\ Cardinality({0} \cup Held \cup InList) = 1 + Cardinality(Held) + Cardinality(InList)
  <2>1. Cardinality({0} \cup Held \cup InList) =
          Cardinality({0} \cup Held) + Cardinality(InList)
            - Cardinality(({0} \cup Held) \cap InList)
    BY <1>7, <1>9, FS_Union
  <2>2. IsFiniteSet({0} \cup Held \cup InList)
    BY <1>7, <1>9, FS_Union
  <2>3. Cardinality(Held) \in Nat /\ Cardinality(InList) \in Nat
    BY <1>7, FS_CardinalityType
  <2> QED
    BY <1>5, <1>8, <1>9, <2>1, <2>2, <2>3
<1>11. Cardinality(pb_pool_used) =
         1 + Cardinality(Held) + Cardinality(InList) + Cardinality(InFlight)
  <2> DEFINE rest == {0} \cup Held \cup InList
  <2>1. /\ IsFiniteSet(rest) /\ Cardinality(rest) = 1 + Cardinality(Held) + Cardinality(InList)
        /\ pb_pool_used = rest \cup InFlight /\ rest \cap InFlight = {}
    BY <1>4, <1>5, <1>10
  <2> HIDE DEF rest
  <2>2. Cardinality(rest \cup InFlight) =
          Cardinality(rest) + Cardinality(InFlight) - Cardinality(rest \cap InFlight)
    BY <1>7, <2>1, FS_Union
  <2>3. /\ Cardinality(Held) \in Nat /\ Cardinality(InList) \in Nat
        /\ Cardinality(InFlight) \in Nat
    BY <1>7, FS_CardinalityType
  <2>4. Cardinality(rest \cap InFlight) = 0
    BY <1>8, <2>1
  <2>5. Cardinality(rest \cup InFlight) = Cardinality(rest) + Cardinality(InFlight)
    BY <2>1, <2>2, <2>3, <2>4
  <2> QED
    BY <2>1, <2>5
<1> QED
  BY <1>1, <1>2, <1>4, <1>11 DEF BuffersAccounted

-----------------------------------------------------------------------------
(*****************************************************************************)
(* Data.  A sector that the host has written is in the flash, in the last    *)
(* write that waits for it, or in the buffer of the transfer under way.      *)
(*****************************************************************************)

\* What the host knows to be written, with what it has sent of the write under way.
LEMMA CurrentKept ==
  ASSUME \/ Writing' = Writing /\ UNCHANGED <<hcmd, Offset, disk>>
         \/ ~Writing /\ ~Writing' /\ disk' = disk
  PROVE  \A s : Current(s)' = Current(s)
BY DEF Current

\* Only a page that is queued, and the status of a write, change it.
LEMMA CurrentStep ==
  ASSUME Undisturbed, Types, NakInv, TaskInv, CommandInv, IsrInv, StageInv, ListInv,
         [Next]_vars, ~(MSC_BulkOut /\ Receiving)
  PROVE  \A s \in Sector : Current(s)' = Current(s)
<1> USE DEF vars, host, endpoints, transport, shared, store
<1>1. CASE MSC_BulkOut
  <2>1. Asked /\ disk' = disk
    BY <1>1, BulkOutDoes DEF MSC_BulkOut
  <2>2. ~Writing
    BY <2>1 DEF Asked, Writing
  <2>3. CASE hcmd.op = "write"
    <3>1. Offset' = hcmd.off /\ hcmd' = hcmd /\ hcmd.off \in Nat
      BY <1>1, <2>3, BulkOutDoes, CommandNumbers DEF MSC_BulkOut, Reading
    <3>2. hcmd'.off .. Offset' - 1 = {}
      BY <3>1
    <3> QED
      BY <2>1, <2>2, <3>2 DEF Current
  <2>4. CASE hcmd.op # "write"
    <3>1. ~Writing'
      BY <1>1, <2>4 DEF MSC_BulkOut, Writing
    <3> QED
      BY <2>1, <2>2, <3>1, CurrentKept
  <2> QED
    BY <2>3, <2>4
<1>2. CASE MSC_BulkIn
  <2>1. UNCHANGED <<phase, hcmd, disk>>
    BY <1>2 DEF MSC_BulkIn
  <2>2. phase = "idle" \/ hcmd.op # "write"
    BY <1>2, BulkInDoes DEF Idle, ReadSent
  <2>3. ~Writing /\ ~Writing'
    BY <2>1, <2>2 DEF Writing
  <2> QED
    BY <2>1, <2>3, CurrentKept
<1>3. CASE MSC_BulkInNak
  <2>1. UNCHANGED <<phase, hcmd, disk>> /\ hcmd.op # "write"
    BY <1>3, BulkInNakDoes DEF MSC_BulkInNak, Reading
  <2>2. ~Writing /\ ~Writing'
    BY <2>1 DEF Writing
  <2> QED
    BY <2>1, <2>2, CurrentKept
<1>4. CASE OutCommand
  <2>1. disk' = disk /\ BulkStage' = "CBW" /\ phase = "cbw"
    BY <1>4, StageOf DEF OutCommand, Asking
  <2>2. ~Writing /\ ~Writing'
    BY <2>1 DEF Writing
  <2> QED
    BY <2>1, <2>2, CurrentKept
<1>5. CASE OutData
  <2>1. /\ UNCHANGED <<hcmd, Offset, disk, BulkStage>>
        /\ phase = "out" /\ phase' \in {"out", "csw"}
    BY <1>5 DEF OutData
  <2>2. Writing' = Writing
    BY <2>1 DEF Writing
  <2> QED
    BY <2>1, <2>2, CurrentKept
<1>6. CASE InTransfer
  <2>1. hcmd' = hcmd /\ BulkStage' = BulkStage /\ Offset' = Offset
    BY <1>6 DEF InTransfer
  <2>2. CASE (Reading /\ phase = "in") \/ (Informing /\ phase = "in")
    <3>1. disk' = disk /\ hcmd.op # "write"
      BY <1>6, <2>2 DEF InTransfer, Reading, Informing
    <3>2. ~Writing /\ ~Writing'
      BY <2>1, <3>1 DEF Writing
    <3> QED
      BY <3>1, <3>2, CurrentKept
  <2>3. CASE Ending /\ phase = "csw" /\ phase' = "idle"
    <3>1. /\ hcmd.op = "write" => Offset = hcmd.off + hcmd.len
          /\ BulkStage = "CSW" /\ ep_in = [what |-> "csw", dTag |-> hcmd.dTag]
      BY <2>3 DEF Ending
    <3>2. \A s \in Sector :
            disk'[s] = IF hcmd.op = "write" /\ s \in hcmd.off .. hcmd.off + hcmd.len - 1
                       THEN hcmd.dTag ELSE disk[s]
      BY <1>6, <2>3, <3>1 DEF InTransfer
    <3>3. Writing <=> hcmd.op = "write"
      BY <2>3, <3>1 DEF Writing
    <3>4. ~Writing'
      BY <2>3 DEF Writing
    <3>5. \A s \in Sector : Current(s)' = disk'[s]
      BY <3>4 DEF Current
    <3>6. \A s \in Sector :
            Current(s) = IF hcmd.op = "write" /\ s \in hcmd.off .. hcmd.off + hcmd.len - 1
                         THEN hcmd.dTag ELSE disk[s]
      <4>1. hcmd.op = "write" => hcmd.off .. Offset - 1 = hcmd.off .. hcmd.off + hcmd.len - 1
        BY <3>1, CommandNumbers
      <4> DEFINE done == hcmd.off .. Offset - 1
                 all == hcmd.off .. hcmd.off + hcmd.len - 1
      <4>2. \A s \in Sector : Current(s) = IF Writing /\ s \in done THEN hcmd.dTag ELSE disk[s]
        BY DEF Current
      <4>3. hcmd.op = "write" => done = all
        BY <4>1
      <4> HIDE DEF done, all
      <4>4. \A s \in Sector : Current(s) = IF hcmd.op = "write" /\ s \in all THEN hcmd.dTag
                                          ELSE disk[s]
        BY <3>3, <4>2, <4>3, Zenon
      <4> QED
        BY <4>4 DEF all
    <3> QED
      BY <3>2, <3>5, <3>6
  <2> QED
    BY <1>6, <2>2, <2>3, InTokens
<1>7. ASSUME NEW c \in Commands, HostCommand(c)
      PROVE  \A s \in Sector : Current(s)' = Current(s)
  <2>1. phase = "idle" /\ phase' = "cbw" /\ disk' = disk
    BY <1>7 DEF HostCommand
  <2>2. ~Writing /\ ~Writing'
    BY <2>1 DEF Writing
  <2> QED
    BY <2>1, <2>2, CurrentKept
<1>8. CASE MSC_Reset \/ USB_Reset
  BY <1>8, Prompt DEF MSC_Reset, USB_Reset, CommandInv
<1>9. CASE UNCHANGED <<hcmd, Offset, disk, phase, BulkStage>>
  BY <1>9, CurrentKept DEF Writing
<1> QED
  BY <1>1, <1>2, <1>3, <1>4, <1>5, <1>6, <1>7, <1>8, <1>9
  DEF Next, Interrupts, Handlers, MainLoop, Tokens, USB_ISR, ISR_NextPart, MSC_BulkOutNak,
      OutNaked, InNaked, TaskStart, TaskRead, TaskReady, TaskWrite, TaskMerge, TaskPop

\* The entry of the list that holds the page of the transfer, once it is queued.
LEMMA PageQueued ==
  ASSUME Undisturbed, Types, NakInv, TaskInv, BufferInv, CommandInv, IsrInv, StageInv, ListInv,
         MSC_BulkOut, Receiving
  PROVE  LET new == Len(ut_list) + 1
         IN  /\ new \in Nat /\ Waiting("WRITE")' = Waiting("WRITE") \cup {new}
             /\ \A i \in Waiting("WRITE") : i \in Nat /\ i < new /\ ut_list'[i] = ut_list[i]
             /\ ut_list'[new].offset = Base /\ ut_list'[new].length = SECTOR_PER_MPP
             /\ ut_list'[new].buffer = BulkBuf /\ ut_list'[new].tag = hcmd.tag
             /\ Transferring(out_done) /\ out_done.n = WithinPage(Offset, Length)
             /\ Offset' = Offset + out_done.n
             /\ BulkBuf \in Buffer /\ Writing /\ Writing'
             /\ UNCHANGED <<hcmd, tags, disk, misread, pb_pool, flash, flash_tag, BulkBuf>>
<1> DEFINE new == Len(ut_list) + 1
           e == PageEntry("WRITE", Offset, BulkBuf)
<1>1. /\ out_done' = Nothing
      /\ UNCHANGED <<phase, hcmd, tags, disk, misread, pb_pool, flash, flash_tag, BulkBuf,
                     task, CBW>>
  BY DEF MSC_BulkOut, host, store
<1>2. out_done # Nothing
  BY DEF MSC_BulkOut, Handling, IsrInv
<1>3. /\ CBW = hcmd /\ hcmd.op = "write" /\ BulkStage = "DATA_OUT" /\ ~Asked
      /\ phase \in {"out", "csw"}
      /\ out_done = [what |-> "data", n |-> WithinPage(Offset, Length)]
  BY <1>2 DEF Receiving, Asked
<1>4. /\ e \in Entry /\ ut_list' = Append(ut_list, e)
      /\ Transferring(out_done) /\ Offset' = Offset + out_done.n /\ (Receiving' \/ Ending')
  BY <1>3, BulkOutDoes
<1>5. /\ e.type = "WRITE" /\ e.buffer = BulkBuf /\ e.offset = Base
      /\ e.length = SECTOR_PER_MPP /\ e.tag = hcmd.tag
  BY <1>3 DEF PageEntry, Base
<1>6. BulkBuf \in Buffer
  BY <1>4 DEF BufferInv, Active, Types
<1>7. Writing /\ Writing'
  BY <1>1, <1>3, <1>4 DEF Writing, Receiving, Ending
<1>8. ut_list \in Seq(Entry) /\ (task # "next" => ut_list # <<>>) /\ task' = task
  BY <1>1 DEF Types, TaskInv
<1> HIDE DEF e
<1>9. /\ Waiting("WRITE")' = Waiting("WRITE") \cup {new}
      /\ \A i \in Waiting("WRITE") : ut_list'[i] = ut_list[i]
      /\ \A i \in Waiting("WRITE") : i \in Nat /\ i <= Len(ut_list)
      /\ Len(ut_list) \in Nat /\ ut_list'[new] = e
  BY <1>4, <1>5, <1>8, WaitingAppend
<1>10. new \in Nat /\ \A i \in Waiting("WRITE") : i \in Nat /\ i < new
  BY <1>9
<1> QED
  BY <1>1, <1>3, <1>4, <1>5, <1>6, <1>7, <1>9, <1>10

\* The writes that wait change when a page is queued, programmed or removed.
LEMMA WritesKept ==
  ASSUME Undisturbed, Types, NakInv, TaskInv, CommandInv, IsrInv, StageInv, ListInv,
         [Next]_vars, ~(MSC_BulkOut /\ Receiving), ~TaskWrite, ~TaskPop
  PROVE  /\ Waiting("WRITE")' = Waiting("WRITE")
         /\ \A i \in Waiting("WRITE") : ut_list'[i] = ut_list[i]
<1> USE DEF vars, host, endpoints, transport, shared, store
<1>1. CASE MSC_BulkOut
  <2>1. task' = task
    BY <1>1 DEF MSC_BulkOut
  <2>2. \/ ut_list' = ut_list
        \/ \E e \in Entry : e.type # "WRITE" /\ ut_list' = Append(ut_list, e)
    <3>1. "READ" # "WRITE"
      OBVIOUS
    <3> QED
      BY <1>1, <3>1, BulkOutDoes
  <2> QED
    BY <2>1, <2>2, NotQueued
<1>2. CASE MSC_BulkIn
  BY <1>2, BulkInEffect, NotQueued
<1>3. CASE MSC_BulkOutNak
  <2>1. /\ task' = task
        /\ \/ ut_list' = ut_list
           \/ \E e \in Entry : e.type # "WRITE" /\ ut_list' = Append(ut_list, e)
    BY <1>3, BulkOutNakEffect
  <2> QED
    BY <2>1, NotQueued
<1>4. CASE TaskStart \/ TaskRead \/ TaskReady \/ TaskMerge
  BY <1>4, WritesWait
<1>5. CASE UNCHANGED <<ut_list, task>>
  BY <1>5 DEF Waiting, Queued
<1> QED
  BY <1>1, <1>2, <1>3, <1>4, <1>5
  DEF Next, Interrupts, Handlers, MainLoop, Tokens, USB_ISR, ISR_NextPart, MSC_BulkInNak,
      OutNaked, OutCommand, OutData, InNaked, InTransfer, HostCommand, MSC_Reset, USB_Reset

\* An entry that holds a page covers the sectors of that page.
LEMMA CoversPage ==
  ASSUME NEW p \in 0 .. NPage - 1, NEW s \in Sector, NEW e,
         e.offset = PageStart(p), e.length = SECTOR_PER_MPP
  PROVE  /\ Covers(e, s) <=> PageOf(s) = p
         /\ Covers(e, s) => s - e.offset = s % SECTOR_PER_MPP
         /\ s % SECTOR_PER_MPP \in InPage
<1>1. SECTOR_PER_MPP \in Nat /\ SECTOR_PER_MPP > 0
  BY GeometryAssumption
<1>2. s \in Nat /\ PageStart(p) \in Nat /\ p \in Nat
  <2>1. 0 \in InPage
    BY <1>1 DEF InPage
  <2> QED
    BY <2>1, SectorFacts
<1>3. /\ PageOf(s) \in Nat /\ s % SECTOR_PER_MPP \in InPage
      /\ s = PageStart(PageOf(s)) + (s % SECTOR_PER_MPP) /\ PageStart(PageOf(s)) \in Nat
  BY <1>2, PageFacts
<1> DEFINE r == s % SECTOR_PER_MPP
           x == PageStart(p)
<1>4. ASSUME PageOf(s) = p PROVE Covers(e, s) /\ s - e.offset = s % SECTOR_PER_MPP
  <2>1. s = x + r /\ r \in InPage /\ x \in Nat
    BY <1>2, <1>3, <1>4
  <2> HIDE DEF r, x
  <2>2. s \in x .. x + SECTOR_PER_MPP - 1 /\ s - x = r
    BY <1>1, <2>1 DEF InPage
  <2> QED
    BY <2>2 DEF Covers, r, x
<1>5. ASSUME Covers(e, s) PROVE PageOf(s) = p
  <2>1. s \in x .. x + SECTOR_PER_MPP - 1
    BY <1>5 DEF Covers
  <2> DEFINE k == s - x
  <2>2. x \in Nat /\ s \in Nat
    BY <1>2
  <2> HIDE DEF x
  <2>3. k \in InPage /\ s = x + k
    BY <1>1, <2>1, <2>2 DEF InPage
  <2> HIDE DEF k
  <2> QED
    BY <2>3, SectorFacts DEF x
<1> QED
  BY <1>3, <1>4, <1>5

\* The page that is programmed.
LEMMA TaskWriteDoes ==
  ASSUME Types, TaskInv, ListInv, TaskWrite
  PROVE  /\ 1 \in Waiting("WRITE") /\ ut_list' = ut_list
         /\ Waiting("WRITE")' = Waiting("WRITE") \ {1}
         /\ \A i \in Waiting("WRITE") : i \in Nat /\ 1 <= i
         /\ ut_list[1].buffer \in Buffer
         /\ \E p \in 0 .. NPage - 1 :
              /\ ut_list[1].offset = PageStart(p) /\ ut_list[1].length = SECTOR_PER_MPP
              /\ flash_tag' = [flash_tag EXCEPT ![p] = ut_list[1].tag]
         /\ flash' = [s \in Sector |-> IF Covers(ut_list[1], s)
                                       THEN pb_pool[ut_list[1].buffer][s - ut_list[1].offset]
                                       ELSE flash[s]]
         /\ ut_list[1].tag \in Tags
         /\ UNCHANGED <<disk, misread, pb_pool, hcmd, tags>>
<1>1. /\ task = "WRITE" /\ task' = "pop"
      /\ UNCHANGED <<disk, misread, pb_pool, hcmd, tags>>
      /\ flash' = [s \in Sector |->
                 IF s \in TaskSectors THEN pb_pool[Task.buffer][s - Task.offset]
                                      ELSE flash[s]]
      /\ flash_tag' = [flash_tag EXCEPT ![PageOf(Task.offset)] = Task.tag]
  BY DEF TaskWrite, Running, host, TaskTag
<1>2. 1 \in Waiting("WRITE") /\ Task = ut_list[1]
  BY <1>1, TaskWaits
<1>3. Waiting("WRITE")' = Waiting("WRITE") \ {1} /\ ut_list' = ut_list
  BY <1>1, LoopWaits
<1>4. \A i \in Waiting("WRITE") : i \in Nat /\ 1 <= i /\ ut_list[i] \in Entry
  BY ListFacts
<1>5. PICK p \in 0 .. NPage - 1 : ut_list[1].offset = PageStart(p)
  BY <1>2 DEF ListInv, WriteList
<1>6. ut_list[1].length = SECTOR_PER_MPP /\ ut_list[1].buffer \in Buffer
  BY <1>2 DEF ListInv, WriteList
<1>7. PageOf(ut_list[1].offset) = p
  <2>1. 0 \in InPage
    BY GeometryAssumption DEF InPage
  <2>2. PageStart(p) \in Nat /\ PageOf(PageStart(p) + 0) = p
    BY <2>1, SectorFacts
  <2>3. PageStart(p) + 0 = PageStart(p)
    BY <2>2
  <2> QED
    BY <1>5, <2>2, <2>3
<1>8. flash_tag' = [flash_tag EXCEPT ![p] = ut_list[1].tag]
  BY <1>1, <1>2, <1>7
<1>9. \A s : s \in TaskSectors <=> Covers(ut_list[1], s)
  BY <1>2 DEF TaskSectors, Covers
<1>10. flash' = [s \in Sector |-> IF Covers(ut_list[1], s)
                                  THEN pb_pool[ut_list[1].buffer][s - ut_list[1].offset]
                                  ELSE flash[s]]
  BY <1>1, <1>2, <1>9
<1>11. ut_list[1].tag \in Tags
  BY <1>2, <1>4 DEF Entry
<1> QED
  BY <1>1, <1>2, <1>3, <1>4, <1>5, <1>6, <1>8, <1>10, <1>11

\* The page that is read to merge with is the one the host writes to in part.
LEMMA TaskMergeDoes ==
  ASSUME Types, TaskInv, BufferInv, CommandInv, StageInv, ListInv, PendingInv, TaskMerge
  PROVE  /\ Waiting("WRITE") = {} /\ merge_stage' = "FINISH"
         /\ BulkBuf \in Buffer
         /\ pb_pool' = [pb_pool EXCEPT ![BulkBuf] = [i \in InPage |-> flash[Base + i]]]
         /\ \A k \in InPage : Base + k \in Sector /\ flash[Base + k] = Current(Base + k)
         /\ ~Transferring(ep_out) /\ ~Transferring(out_done)
         /\ UNCHANGED <<disk, misread, hcmd, tags, flash, flash_tag, Offset, BulkBuf, ep_out,
                        out_done>>
<1>1. /\ task = "MERGE" /\ merge_stage' = "FINISH"
      /\ pb_pool' = [pb_pool EXCEPT ![Task.buffer] = [i \in InPage |-> flash[Task.offset + i]]]
      /\ UNCHANGED <<disk, misread, hcmd, tags, flash, flash_tag, Offset, BulkBuf, ep_out,
                     out_done>>
  BY DEF TaskMerge, Running, host, endpoints
<1>2. 1 \in Waiting("MERGE") /\ Task = ut_list[1]
  BY <1>1, TaskWaits
<1>3. /\ 1 = Len(ut_list) /\ merge_stage = "START"
      /\ Task.offset = Base /\ Task.buffer = BulkBuf
  BY <1>2 DEF ListInv, MergeList
<1>4. Waiting("WRITE") = {}
  <2> SUFFICES ASSUME NEW i \in Waiting("WRITE") PROVE FALSE
    OBVIOUS
  <2>1. i \in Nat /\ 1 <= i /\ i <= 1 /\ ut_list[i].type = "WRITE" /\ ut_list[1].type = "MERGE"
    BY <1>2, <1>3, ListFacts
  <2>2. i = 1
    BY <2>1
  <2> QED
    BY <2>1, <2>2
<1>5. Receiving /\ Offset \in Sector
  BY <1>3, InDevice DEF StageInv
<1>6. \A k \in InPage : Base + k \in Sector
  BY <1>5, SectorFacts DEF Base
<1>7. \A s \in Sector : flash[s] = Current(s)
  BY <1>4 DEF PendingInv, Pending
<1>8. BulkBuf \in Buffer /\ ~Transferring(ep_out) /\ ~Transferring(out_done)
  BY <1>3 DEF BufferInv, Active, Types
<1> QED
  BY <1>1, <1>3, <1>4, <1>6, <1>7, <1>8

\* The data of the host lands in the buffer of the transfer.
LEMMA OutDataDoes ==
  ASSUME Undisturbed, Types, BufferInv, CommandInv, StageInv, OutData
  PROVE  /\ merge_stage = "NONE" /\ merge_stage' = merge_stage
         /\ Transferring(ep_out) /\ ep_out' = Nothing
         /\ Transferring(out_done)' /\ out_done'.n = ep_out.n /\ BulkBuf \in Buffer
         /\ ep_out.at = Offset % SECTOR_PER_MPP
         /\ pb_pool' = [pb_pool EXCEPT ![BulkBuf] =
                         [i \in InPage |-> IF i \in Window(ep_out.n) THEN hcmd.dTag
                                           ELSE pb_pool[BulkBuf][i]]]
         /\ \A i \in Waiting("WRITE") : ut_list[i].buffer # BulkBuf
         /\ UNCHANGED <<disk, misread, hcmd, tags, flash, flash_tag, Offset, BulkBuf>>
<1>1. /\ merge_stage = "NONE" /\ Transferring(ep_out) /\ ep_out.buf = BulkBuf
      /\ ep_out.at = Offset % SECTOR_PER_MPP
      /\ ep_out.n = Smaller(ep_out.n, hcmd.len - moved)
      /\ out_done' = [what |-> "data", n |-> ep_out.n]
  BY OutTokens
<1>2. /\ pb_pool' = [pb_pool EXCEPT ![ep_out.buf] =
                       [i \in InPage |-> IF i \in ep_out.at .. ep_out.at + ep_out.n - 1
                                         THEN hcmd.dTag ELSE pb_pool[ep_out.buf][i]]]
      /\ ep_out' = Nothing
      /\ UNCHANGED <<disk, misread, hcmd, tags, flash, flash_tag, Offset, BulkBuf, merge_stage>>
  BY <1>1 DEF OutData, transport, store
<1>3. \A i : i \in ep_out.at .. ep_out.at + ep_out.n - 1 <=> i \in Window(ep_out.n)
  BY <1>1 DEF Window
<1>4. BulkBuf \in Buffer /\ \A i \in Waiting("WRITE") : ut_list[i].buffer # BulkBuf
  BY <1>1 DEF BufferInv, Active, Types
<1>5. pb_pool' = [pb_pool EXCEPT ![BulkBuf] =
                   [i \in InPage |-> IF i \in Window(ep_out.n) THEN hcmd.dTag
                                     ELSE pb_pool[BulkBuf][i]]]
  BY <1>1, <1>2, <1>3
<1> QED
  BY <1>1, <1>2, <1>4, <1>5 DEF Transferring

\* A copy of a page is tagged like it.
LEMMA TaggedSame ==
  ASSUME NEW page, NEW other, NEW tag, NEW log, Tagged(page, tag, log),
         \A i \in InPage : other[i] = page[i]
  PROVE  Tagged(other, tag, log)
BY DEF Tagged

\* A page stays tagged when the tag of another command is logged.
LEMMA TaggedAppend ==
  ASSUME NEW page, NEW tag, NEW log \in Seq(Tags), NEW t \in Tags, Tagged(page, tag, log)
  PROVE  Tagged(page, tag, Append(log, t))
<1>1. PICK d \in 0 .. Len(log) : /\ \A i \in InPage : page[i] <= d
                                 /\ \E i \in InPage : page[i] = d
                                 /\ d # 0 => tag = log[d]
  BY DEF Tagged
<1>2. /\ Len(Append(log, t)) = Len(log) + 1 /\ Len(log) \in Nat
      /\ \A i \in 1 .. Len(log) : Append(log, t)[i] = log[i]
  BY AppendProperties, LenProperties
<1>3. d \in 0 .. Len(log) + 1 /\ (d # 0 => d \in 1 .. Len(log))
  BY <1>2
<1> QED
  BY <1>1, <1>2, <1>3 DEF Tagged

\* A step that writes no buffer and no flash, and queues no page.
LEMMA DataKept ==
  ASSUME DataInv, UNCHANGED <<disk, misread, hcmd, tags, pb_pool, flash, flash_tag>>,
         \A i \in Waiting("WRITE")' : \E j \in Waiting("WRITE") : ut_list'[i] = ut_list[j]
  PROVE  DataInv'
  BY DEF DataInv, Numbers, PageOfFlash

\* Every step keeps the tags with the data.
LEMMA DataStep ==
  ASSUME Undisturbed, Types, NakInv, TaskInv, BufferInv, CommandInv, IsrInv, StageInv, ListInv,
         DataInv, PendingInv, TransferInv, [Next]_vars
  PROVE  DataInv'
<1> USE DEF vars, host, endpoints, transport, shared, store
<1>0. /\ hcmd.dTag \in Nat /\ tags \in Seq(Tags) /\ Len(tags) = hcmd.dTag /\ Len(tags) \in Nat
      /\ hcmd.dTag > 0 => tags[hcmd.dTag] = hcmd.tag
  BY CommandNumbers DEF CommandInv
<1>1. CASE MSC_BulkOut /\ Receiving
  <2> DEFINE new == Len(ut_list) + 1
             n == out_done.n
             r == Offset % SECTOR_PER_MPP
  <2>1. /\ Waiting("WRITE")' = Waiting("WRITE") \cup {new}
        /\ \A i \in Waiting("WRITE") : ut_list'[i] = ut_list[i]
        /\ ut_list'[new].buffer = BulkBuf /\ ut_list'[new].tag = hcmd.tag
        /\ Transferring(out_done) /\ n = WithinPage(Offset, Length) /\ BulkBuf \in Buffer
        /\ UNCHANGED <<hcmd, tags, disk, misread, pb_pool, flash, flash_tag>>
    BY <1>1, PageQueued
  <2>2. n \in Nat /\ n > 0 /\ r \in Nat /\ r + n <= SECTOR_PER_MPP
    <3>1. Offset \in Nat /\ Length \in Nat /\ Length > 0
      BY <1>1, InDevice
    <3> QED
      BY <2>1, <3>1, WithinPageFacts
  <2>3. r \in InPage /\ r \in Window(n)
    <3>1. r \in 0 .. SECTOR_PER_MPP - 1 /\ r \in r .. r + n - 1
      <4> HIDE DEF r, n
      <4> QED
        BY <2>2, GeometryAssumption
    <3> QED
      BY <3>1 DEF InPage, Window
  <2>4. pb_pool[BulkBuf][r] = hcmd.dTag
    BY <2>1, <2>3 DEF TransferInv
  <2>5. \A i \in InPage : pb_pool[BulkBuf][i] <= hcmd.dTag
    <3>1. \A i \in InPage : pb_pool[BulkBuf][i] \in 0 .. hcmd.dTag
      BY <2>1 DEF DataInv, Numbers
    <3> QED
      BY <1>0, <3>1
  <2>6. Tagged(pb_pool[BulkBuf], hcmd.tag, tags)
    <3>1. hcmd.dTag \in 0 .. Len(tags) /\ (hcmd.dTag # 0 => hcmd.tag = tags[hcmd.dTag])
      BY <1>0
    <3> QED
      BY <2>3, <2>4, <2>5, <3>1 DEF Tagged
  <2> HIDE DEF new
  <2>7. \A i \in Waiting("WRITE")' : Tagged(pb_pool[ut_list'[i].buffer], ut_list'[i].tag, tags)
    BY <2>1, <2>6 DEF DataInv
  <2> QED
    BY <2>1, <2>7 DEF DataInv, Numbers, PageOfFlash
<1>2. CASE TaskWrite
  <2> DEFINE e == ut_list[1]
  <2>1. /\ 1 \in Waiting("WRITE") /\ ut_list' = ut_list
        /\ Waiting("WRITE")' = Waiting("WRITE") \ {1}
        /\ e.buffer \in Buffer /\ e.tag \in Tags
        /\ flash' = [s \in Sector |-> IF Covers(e, s) THEN pb_pool[e.buffer][s - e.offset]
                                      ELSE flash[s]]
        /\ UNCHANGED <<disk, misread, pb_pool, hcmd, tags>>
    BY <1>2, TaskWriteDoes
  <2>2. PICK p \in 0 .. NPage - 1 :
              /\ e.offset = PageStart(p) /\ e.length = SECTOR_PER_MPP
              /\ flash_tag' = [flash_tag EXCEPT ![p] = e.tag]
    BY <1>2, TaskWriteDoes
  <2> HIDE DEF e
  <2>3. \A s \in Sector : /\ Covers(e, s) <=> PageOf(s) = p
                          /\ Covers(e, s) => s - e.offset = s % SECTOR_PER_MPP
                          /\ s % SECTOR_PER_MPP \in InPage
    BY <2>2, CoversPage
  <2>4. \A s \in Sector : flash'[s] = IF PageOf(s) = p
                                      THEN pb_pool[e.buffer][s % SECTOR_PER_MPP] ELSE flash[s]
    BY <2>1, <2>3
  <2>5. flash' \in [Sector -> Numbers]
    <3>1. \A i \in InPage : pb_pool[e.buffer][i] \in Numbers
      BY <2>1 DEF DataInv
    <3>2. \A s \in Sector : flash'[s] \in Numbers
      BY <2>3, <2>4, <3>1 DEF DataInv
    <3>3. \E f : flash' = [s \in Sector |-> f[s]]
      <4>1. flash' = [s \in Sector |-> flash'[s]]
        BY <2>1
      <4> QED
        BY <4>1
    <3> QED
      BY <3>2, <3>3
  <2>6. flash_tag' \in [0 .. NPage - 1 -> Tags]
    BY <2>1, <2>2 DEF DataInv
  <2>7. ASSUME NEW q \in 0 .. NPage - 1
        PROVE  Tagged(PageOfFlash(q)', flash_tag'[q], tags)
    <3> DEFINE page == [i \in InPage |-> flash'[PageStart(q) + i]]
    <3>1. \A i \in InPage : /\ PageStart(q) + i \in Sector
                            /\ PageOf(PageStart(q) + i) = q
                            /\ (PageStart(q) + i) % SECTOR_PER_MPP = i
      BY SectorFacts
    <3>2. CASE q = p
      <4>1. \A i \in InPage : page[i] = pb_pool[e.buffer][i]
        BY <2>4, <3>1, <3>2
      <4>2. Tagged(pb_pool[e.buffer], e.tag, tags) /\ flash_tag'[q] = e.tag
        BY <2>1, <2>2, <3>2 DEF DataInv, e
      <4> HIDE DEF page
      <4>3. Tagged(page, e.tag, tags)
        BY <4>1, <4>2, TaggedSame
      <4> QED
        BY <4>2, <4>3 DEF page, PageOfFlash
    <3>3. CASE q # p
      <4>1. \A i \in InPage : page[i] = PageOfFlash(q)[i]
        BY <2>4, <3>1, <3>3 DEF PageOfFlash
      <4>2. Tagged(PageOfFlash(q), flash_tag[q], tags) /\ flash_tag'[q] = flash_tag[q]
        BY <2>2, <3>3 DEF DataInv
      <4> HIDE DEF page
      <4>3. Tagged(page, flash_tag[q], tags)
        BY <4>1, <4>2, TaggedSame
      <4> QED
        BY <4>2, <4>3 DEF page, PageOfFlash
    <3> QED
      BY <3>2, <3>3
  <2> QED
    BY <2>1, <2>5, <2>6, <2>7 DEF DataInv, Numbers
<1>3. CASE TaskMerge
  <2>1. /\ Waiting("WRITE") = {} /\ BulkBuf \in Buffer
        /\ pb_pool' = [pb_pool EXCEPT ![BulkBuf] = [i \in InPage |-> flash[Base + i]]]
        /\ \A k \in InPage : Base + k \in Sector
        /\ UNCHANGED <<disk, misread, hcmd, tags, flash, flash_tag>>
    BY <1>3, TaskMergeDoes
  <2>2. Waiting("WRITE")' = {}
    BY <1>3, <2>1, WritesWait
  <2>3. [i \in InPage |-> flash[Base + i]] \in [InPage -> Numbers]
    BY <2>1 DEF DataInv
  <2>4. pb_pool' \in [Buffer -> [InPage -> Numbers]]
    BY <2>1, <2>3 DEF DataInv
  <2> QED
    BY <2>1, <2>2, <2>4 DEF DataInv, Numbers, PageOfFlash
<1>4. CASE OutData
  <2>1. /\ BulkBuf \in Buffer
        /\ pb_pool' = [pb_pool EXCEPT ![BulkBuf] =
                         [i \in InPage |-> IF i \in Window(ep_out.n) THEN hcmd.dTag
                                           ELSE pb_pool[BulkBuf][i]]]
        /\ \A i \in Waiting("WRITE") : ut_list[i].buffer # BulkBuf
        /\ UNCHANGED <<disk, misread, hcmd, tags, flash, flash_tag>>
    BY <1>4, OutDataDoes
  <2>2. UNCHANGED <<ut_list, task>>
    BY <1>4 DEF OutData
  <2>3. Waiting("WRITE")' = Waiting("WRITE")
    BY <2>2 DEF Waiting, Queued
  <2>4. hcmd.dTag \in Numbers
    BY <1>0 DEF Numbers
  <2>5. [i \in InPage |-> IF i \in Window(ep_out.n) THEN hcmd.dTag ELSE pb_pool[BulkBuf][i]]
          \in [InPage -> Numbers]
    BY <2>1, <2>4 DEF DataInv
  <2>6. pb_pool' \in [Buffer -> [InPage -> Numbers]]
    BY <2>1, <2>5 DEF DataInv
  <2>7. \A i \in Waiting("WRITE") : pb_pool'[ut_list[i].buffer] = pb_pool[ut_list[i].buffer]
    <3>1. \A i \in Waiting("WRITE") : ut_list[i].buffer \in Buffer
      BY DEF ListInv, WriteList
    <3> QED
      BY <2>1, <3>1 DEF DataInv
  <2>8. \A i \in Waiting("WRITE")' : Tagged(pb_pool'[ut_list'[i].buffer], ut_list'[i].tag, tags')
    BY <2>1, <2>2, <2>3, <2>7 DEF DataInv
  <2> QED
    BY <2>1, <2>6, <2>8 DEF DataInv, Numbers, PageOfFlash
<1>5. CASE InTransfer
  <2>1. UNCHANGED <<hcmd, tags, pb_pool, flash, flash_tag, ut_list, task>>
    BY <1>5 DEF InTransfer
  <2>2. Waiting("WRITE")' = Waiting("WRITE")
    BY <2>1 DEF Waiting, Queued
  <2>3. misread' = FALSE /\ disk' \in [Sector -> Numbers]
    <3>0. misread = FALSE /\ disk \in [Sector -> Numbers] /\ hcmd.dTag \in Numbers
      BY <1>0 DEF DataInv, Numbers
    <3>1. CASE Reading
      <4>1. /\ Filled /\ Read_BulkLen = Len(Read_BulkBuf)
            /\ Smaller(ep_in.n, hcmd.len - moved) = Read_BulkLen
            /\ phase = "in" /\ ep_in.what = "data" /\ hcmd.op = "read"
        BY <1>5, <3>1, InTokens DEF Reading, Informing, Ending
      <4>2. /\ misread' = (misread \/ \E i \in 1 .. Read_BulkLen :
                 \/ i > Len(Read_BulkBuf)
                 \/ Read_BulkBuf[i] # disk[hcmd.off + moved + i - 1])
            /\ disk' = disk
        BY <1>5, <4>1 DEF InTransfer
      <4>3. \A i \in 1 .. Len(Read_BulkBuf) :
              i <= Len(Read_BulkBuf) /\ Read_BulkBuf[i] = disk[hcmd.off + moved + i - 1]
        BY <4>1, LenProperties DEF Filled
      <4>4. \A i \in 1 .. Len(Read_BulkBuf) : ~(i > Len(Read_BulkBuf))
        <5>1. Len(Read_BulkBuf) \in Nat
          BY <4>1, LenProperties DEF Filled
        <5> QED
          BY <5>1
      <4> QED
        BY <3>0, <4>1, <4>2, <4>3, <4>4
    <3>2. CASE Informing /\ phase = "in"
      <4>1. hcmd.op = "info"
        BY <3>2 DEF Informing
      <4>2. misread' = misread /\ disk' = disk
        BY <1>5, <3>2, <4>1 DEF InTransfer
      <4> QED
        BY <3>0, <4>2
    <3>3. CASE Ending /\ phase = "csw"
      <4>1. ep_in = [what |-> "csw", dTag |-> hcmd.dTag]
        BY <3>3 DEF Ending
      <4>2. /\ misread' = misread
            /\ disk' = [s \in Sector |-> IF /\ hcmd.op = "write"
                                        /\ s \in hcmd.off .. hcmd.off + hcmd.len - 1
                                     THEN hcmd.dTag ELSE disk[s]]
        BY <1>5, <3>3, <4>1 DEF InTransfer
      <4> QED
        BY <3>0, <4>2
    <3> QED
      BY <1>5, <3>1, <3>2, <3>3, InTokens
  <2> QED
    BY <2>1, <2>2, <2>3 DEF DataInv, Numbers, PageOfFlash
<1>6. ASSUME NEW c \in Commands, HostCommand(c) PROVE DataInv'
  <2>1. /\ hcmd'.dTag = hcmd.dTag + 1 /\ tags' = Append(tags, c.tag)
        /\ UNCHANGED <<disk, misread, pb_pool, flash, flash_tag, ut_list, task>>
    BY <1>6 DEF HostCommand
  <2>2. c.tag \in Tags
    BY CommandsAssumption DEF Command
  <2>3. Waiting("WRITE")' = Waiting("WRITE")
    BY <2>1 DEF Waiting, Queued
  <2>4. Numbers \subseteq Numbers'
    BY <1>0, <2>1 DEF Numbers
  <2>5. \A page, tag : Tagged(page, tag, tags) => Tagged(page, tag, tags')
    BY <1>0, <2>1, <2>2, TaggedAppend
  <2>6. /\ disk' \in [Sector -> Numbers'] /\ flash' \in [Sector -> Numbers']
        /\ pb_pool' \in [Buffer -> [InPage -> Numbers']]
    BY <2>1, <2>4 DEF DataInv
  <2>7. \A p \in 0 .. NPage - 1 : PageOfFlash(p)' = PageOfFlash(p)
    BY <2>1 DEF PageOfFlash
  <2>8. \A p \in 0 .. NPage - 1 : Tagged(PageOfFlash(p)', flash_tag'[p], tags')
    BY <2>1, <2>5, <2>7 DEF DataInv
  <2>9. \A i \in Waiting("WRITE")' : Tagged(pb_pool'[ut_list'[i].buffer], ut_list'[i].tag, tags')
    BY <2>1, <2>3, <2>5 DEF DataInv
  <2> QED
    BY <2>1, <2>6, <2>8, <2>9 DEF DataInv
<1>7. CASE TaskPop
  <2>1. /\ UNCHANGED <<disk, misread, hcmd, tags, pb_pool, flash, flash_tag>>
        /\ ut_list \in Seq(Entry) /\ ut_list # <<>> /\ ut_list' = Tail(ut_list)
        /\ task = "pop" /\ task' = "next"
    BY <1>7 DEF TaskPop, Running, Types, TaskInv
  <2>2. \A i \in Waiting("WRITE")' : i + 1 \in Waiting("WRITE") /\ ut_list'[i] = ut_list[i + 1]
    BY <2>1, WaitingPop
  <2> QED
    BY <2>1, <2>2, DataKept
<1>8. CASE MSC_Reset \/ USB_Reset
  BY <1>8, Prompt DEF MSC_Reset, USB_Reset, CommandInv
<1>9. CASE /\ UNCHANGED <<disk, misread, hcmd, tags, pb_pool, flash, flash_tag>>
           /\ ~(MSC_BulkOut /\ Receiving) /\ ~TaskWrite /\ ~TaskPop
  <2>1. /\ Waiting("WRITE")' = Waiting("WRITE")
        /\ \A i \in Waiting("WRITE") : ut_list'[i] = ut_list[i]
    BY <1>9, WritesKept
  <2> QED
    BY <1>9, <2>1, DataKept
<1> QED
  BY <1>1, <1>2, <1>3, <1>4, <1>5, <1>6, <1>7, <1>8, <1>9
  DEF Next, Interrupts, Handlers, MainLoop, Tokens, USB_ISR, ISR_NextPart, MSC_BulkOut,
      MSC_BulkIn, MSC_BulkOutNak, MSC_BulkInNak, OutNaked, OutCommand, InNaked, TaskStart,
      TaskRead, TaskReady

\* A step that leaves the writes that wait, and their data, alone.
LEMMA PendingKept ==
  ASSUME PendingInv, \A s \in Sector : Current(s)' = Current(s),
         Waiting("WRITE")' = Waiting("WRITE"), flash' = flash,
         \A i \in Waiting("WRITE") : /\ ut_list'[i] = ut_list[i]
                                     /\ pb_pool'[ut_list[i].buffer] = pb_pool[ut_list[i].buffer]
  PROVE  PendingInv'
BY DEF PendingInv, Pending

\* Every step leaves each sector that the host has written in the flash, or in the
\* last write that waits for it.
LEMMA PendingStep ==
  ASSUME Undisturbed, Types, NakInv, TaskInv, BufferInv, CommandInv, IsrInv, StageInv, ListInv,
         DataInv, PendingInv, TransferInv, [Next]_vars
  PROVE  PendingInv'
<1> USE DEF vars, host, endpoints, transport, shared, store
<1>1. CASE MSC_BulkOut /\ Receiving
  <2> DEFINE new == Len(ut_list) + 1
             n == out_done.n
             r == Offset % SECTOR_PER_MPP
             p == PageOf(Offset)
  <2>1. /\ new \in Nat /\ Waiting("WRITE")' = Waiting("WRITE") \cup {new}
        /\ \A i \in Waiting("WRITE") : i \in Nat /\ i < new /\ ut_list'[i] = ut_list[i]
        /\ ut_list'[new].offset = Base /\ ut_list'[new].length = SECTOR_PER_MPP
        /\ ut_list'[new].buffer = BulkBuf
        /\ Transferring(out_done) /\ n = WithinPage(Offset, Length) /\ Offset' = Offset + n
        /\ Writing /\ Writing'
        /\ UNCHANGED <<hcmd, disk, pb_pool, flash>>
    BY <1>1, PageQueued
  <2>2. /\ n \in Nat /\ n > 0 /\ r \in Nat /\ r + n <= SECTOR_PER_MPP
        /\ Offset \in Nat /\ hcmd.off \in Nat /\ hcmd.off <= Offset /\ Offset \in Sector
    <3>1. Offset \in Nat /\ Length \in Nat /\ Length > 0 /\ Offset \in Sector /\ hcmd.off \in Nat
      BY <1>1, InDevice
    <3>2. hcmd.off <= Offset
      BY <1>1 DEF Receiving
    <3> QED
      BY <2>1, <3>1, <3>2, WithinPageFacts
  <2>3. p \in 0 .. NPage - 1 /\ Base = PageStart(p)
    BY <2>2, SectorFacts DEF Base
  <2> DEFINE e == ut_list'[new]
  <2>4. \A s \in Sector : /\ Covers(e, s) <=> PageOf(s) = p
                          /\ Covers(e, s) => s - e.offset = s % SECTOR_PER_MPP
                          /\ s % SECTOR_PER_MPP \in InPage
    <3>1. e.offset = PageStart(p) /\ e.length = SECTOR_PER_MPP
      BY <2>1, <2>3
    <3> HIDE DEF e, p
    <3> QED
      BY <2>3, <3>1, CoversPage
  \* The sectors of the transfer are those of its window.
  <2>5. ASSUME NEW s \in Sector
        PROVE  s \in Offset .. Offset + n - 1 <=> PageOf(s) = p /\ s % SECTOR_PER_MPP \in Window(n)
    <3>1. /\ Offset = PageStart(p) + r /\ r \in InPage
      BY <2>2, PageFacts
    <3>2. /\ s \in Nat /\ s % SECTOR_PER_MPP \in InPage
          /\ s = PageStart(PageOf(s)) + (s % SECTOR_PER_MPP)
      BY SectorFacts, PageFacts
    <3>3. PageStart(p) \in Nat
      BY <2>2, PageFacts
    <3> DEFINE x == PageStart(p)
               k == s % SECTOR_PER_MPP
    <3>4. ASSUME PageOf(s) = p, k \in Window(n) PROVE s \in Offset .. Offset + n - 1
      <4>1. s = x + k /\ Offset = x + r /\ k \in r .. r + n - 1
        BY <3>1, <3>2, <3>4 DEF Window
      <4>2. x \in Nat /\ k \in Nat /\ r \in Nat /\ n \in Nat
        BY <2>2, <3>2, <3>3 DEF InPage
      <4> HIDE DEF x, k, r, n
      <4> QED
        BY <4>1, <4>2
    <3>5. ASSUME s \in Offset .. Offset + n - 1 PROVE PageOf(s) = p /\ k \in Window(n)
      <4> DEFINE m == s - x
      <4>1. x \in Nat /\ r \in Nat /\ n \in Nat /\ s \in Nat /\ Offset = x + r
            /\ r + n <= SECTOR_PER_MPP /\ SECTOR_PER_MPP \in Nat
        BY <2>2, <3>1, <3>2, <3>3, GeometryAssumption
      <4> HIDE DEF x, r, n
      <4>2. m \in 0 .. SECTOR_PER_MPP - 1 /\ s = x + m /\ m \in r .. r + n - 1
        BY <3>5, <4>1
      <4> HIDE DEF m
      <4>3. PageOf(s) = p /\ k = m
        <5>1. m \in InPage /\ s = PageStart(p) + m
          BY <4>2 DEF InPage, x
        <5> HIDE DEF p
        <5>2. PageOf(s) = p /\ s % SECTOR_PER_MPP = m
          BY <2>3, <5>1, SectorFacts
        <5> QED
          BY <5>2
      <4> QED
        BY <4>2, <4>3 DEF Window, r
    <3> QED
      BY <3>4, <3>5
  <2>6. ASSUME NEW s \in Sector
        PROVE  Current(s)' = IF s \in Offset .. Offset + n - 1 THEN hcmd.dTag ELSE Current(s)
    <3>1. s \in Nat
      BY SectorFacts
    <3>2. s \in hcmd.off .. Offset' - 1 <=>
            s \in hcmd.off .. Offset - 1 \/ s \in Offset .. Offset + n - 1
      <4>1. /\ hcmd.off \in Nat /\ Offset \in Nat /\ n \in Nat
            /\ hcmd.off <= Offset /\ Offset' = Offset + n
        BY <2>1, <2>2
      <4> HIDE DEF n
      <4> QED
        BY <3>1, <4>1
    <3> HIDE DEF n
    <3> QED
      BY <2>1, <3>2 DEF Current
  <2>7. \A k \in InPage : pb_pool[BulkBuf][k] = IF k \in Window(n) THEN hcmd.dTag
                                                ELSE Current(Base + k)
    BY <2>1 DEF TransferInv
  <2>8. ASSUME NEW s \in Sector, PageOf(s) = p
        PROVE  Covers(e, s) /\ pb_pool[e.buffer][s - e.offset] = Current(s)'
    <3>1. s = Base + (s % SECTOR_PER_MPP) /\ s % SECTOR_PER_MPP \in InPage
      BY <2>3, <2>8, SectorFacts, PageFacts
    <3>2. Covers(e, s) /\ s - e.offset = s % SECTOR_PER_MPP /\ e.buffer = BulkBuf
      BY <2>1, <2>4, <2>8
    <3> HIDE DEF e, n, p
    <3> QED
      BY <2>5, <2>6, <2>7, <2>8, <3>1, <3>2
  <2>9. ASSUME NEW s \in Sector, PageOf(s) # p
        PROVE  ~Covers(e, s) /\ Current(s)' = Current(s)
    BY <2>4, <2>5, <2>6, <2>9
  <2>10. ASSUME NEW s \in Sector PROVE Pending(s)'
    <3> HIDE DEF e, p, n
    <3>1. Pending(s)
      BY DEF PendingInv, Pending
    <3>2. CASE PageOf(s) = p
      <4>1. /\ new \in Waiting("WRITE")' /\ Covers(ut_list'[new], s)
            /\ pb_pool'[ut_list'[new].buffer][s - ut_list'[new].offset] = Current(s)'
        BY <2>1, <2>8, <3>2 DEF e
      <4>2. \A i \in Waiting("WRITE")' : i = new \/ new > i
        BY <2>1
      <4> HIDE DEF new
      <4> QED
        BY <4>1, <4>2 DEF Pending
    <3>3. CASE PageOf(s) # p
      <4>1. /\ ~Covers(ut_list'[new], s) /\ Current(s)' = Current(s)
        BY <2>9, <3>3 DEF e
      <4> HIDE DEF new
      <4> QED
        BY <2>1, <3>1, <4>1 DEF Pending
    <3> QED
      BY <3>2, <3>3
  <2> QED
    BY <2>10 DEF PendingInv, Pending
<1>2. CASE TaskWrite
  <2> DEFINE e == ut_list[1]
  <2>1. /\ 1 \in Waiting("WRITE") /\ ut_list' = ut_list
        /\ Waiting("WRITE")' = Waiting("WRITE") \ {1}
        /\ \A i \in Waiting("WRITE") : i \in Nat /\ 1 <= i
        /\ flash' = [s \in Sector |-> IF Covers(e, s) THEN pb_pool[e.buffer][s - e.offset]
                                      ELSE flash[s]]
        /\ pb_pool' = pb_pool
    BY <1>2, TaskWriteDoes
  <2>2. \A s \in Sector : Current(s)' = Current(s)
    <3>1. ~MSC_BulkOut
      BY <1>2, <2>1 DEF TaskWrite, Running, MSC_BulkOut, Handling
    <3> QED
      BY <3>1, CurrentStep
  <2>3. ASSUME NEW s \in Sector PROVE Pending(s)'
    <3>1. Pending(s) /\ Current(s)' = Current(s)
      BY <2>2 DEF PendingInv, Pending
    <3>2. \A i \in Waiting("WRITE") : ~(1 > i)
      BY <2>1
    <3>3. \A i \in Waiting("WRITE") \ {1} : \A j \in Waiting("WRITE") :
            j > i => j \in Waiting("WRITE") \ {1}
      BY <2>1
    <3>4. flash'[s] = IF Covers(e, s) THEN pb_pool[e.buffer][s - e.offset] ELSE flash[s]
      BY <2>1
    <3>5. ASSUME \A i \in Waiting("WRITE") \ {1} : ~Covers(ut_list[i], s)
          PROVE  flash'[s] = Current(s)
      <4>1. CASE Covers(e, s)
        <5>1. \A j \in Waiting("WRITE") : j > 1 => ~Covers(ut_list[j], s)
          BY <3>2, <3>5
        <5> QED
          BY <2>1, <3>1, <3>4, <4>1, <5>1 DEF Pending
      <4>2. CASE ~Covers(e, s)
        <5>1. \A i \in Waiting("WRITE") : ~Covers(ut_list[i], s)
          BY <3>5, <4>2
        <5> QED
          BY <3>1, <3>4, <4>2, <5>1 DEF Pending
      <4> QED
        BY <4>1, <4>2
    <3>6. ASSUME NEW i \in Waiting("WRITE") \ {1}, Covers(ut_list[i], s),
                 \A j \in Waiting("WRITE") \ {1} : j > i => ~Covers(ut_list[j], s)
          PROVE  pb_pool[ut_list[i].buffer][s - ut_list[i].offset] = Current(s)
      <4>1. \A j \in Waiting("WRITE") : j > i => ~Covers(ut_list[j], s)
        BY <3>3, <3>6
      <4> QED
        BY <3>1, <3>6, <4>1 DEF Pending
    <3> HIDE DEF e
    <3> QED
      BY <2>1, <3>1, <3>5, <3>6 DEF Pending
  <2> QED
    BY <2>3 DEF PendingInv, Pending
<1>3. CASE TaskPop
  <2>1. /\ UNCHANGED <<pb_pool, flash>>
        /\ ut_list \in Seq(Entry) /\ ut_list # <<>> /\ ut_list' = Tail(ut_list)
        /\ task = "pop" /\ task' = "next" /\ isr.at = "off"
    BY <1>3 DEF TaskPop, Running, Types, TaskInv
  <2>2. /\ \A i \in Waiting("WRITE")' : /\ i \in Nat /\ i + 1 \in Waiting("WRITE")
                                        /\ ut_list'[i] = ut_list[i + 1]
        /\ \A j \in Waiting("WRITE") : /\ j \in Nat /\ j - 1 \in Waiting("WRITE")'
                                       /\ ut_list'[j - 1] = ut_list[j]
    BY <2>1, WaitingPop
  <2>3. \A s \in Sector : Current(s)' = Current(s)
    <3>1. ~MSC_BulkOut
      BY <2>1 DEF MSC_BulkOut, Handling
    <3> QED
      BY <3>1, CurrentStep
  <2>4. ASSUME NEW s \in Sector PROVE Pending(s)'
    <3>1. Pending(s) /\ Current(s)' = Current(s)
      BY <2>3 DEF PendingInv, Pending
    <3>2. ASSUME \A i \in Waiting("WRITE")' : ~Covers(ut_list'[i], s)
          PROVE  flash[s] = Current(s)
      <4>1. \A j \in Waiting("WRITE") : ~Covers(ut_list[j], s)
        BY <2>2, <3>2
      <4> QED
        BY <3>1, <4>1 DEF Pending
    <3>3. ASSUME NEW i \in Waiting("WRITE")', Covers(ut_list'[i], s),
                 \A j \in Waiting("WRITE")' : j > i => ~Covers(ut_list'[j], s)
          PROVE  pb_pool[ut_list'[i].buffer][s - ut_list'[i].offset] = Current(s)
      <4>1. /\ i \in Nat /\ i + 1 \in Waiting("WRITE") /\ ut_list'[i] = ut_list[i + 1]
        BY <2>2
      <4>2. ASSUME NEW j \in Waiting("WRITE"), j > i + 1 PROVE ~Covers(ut_list[j], s)
        <5>1. /\ j \in Nat /\ j - 1 \in Waiting("WRITE")' /\ ut_list'[j - 1] = ut_list[j]
          BY <2>2
        <5>2. j - 1 > i
          BY <4>1, <4>2, <5>1
        <5> QED
          BY <3>3, <5>1, <5>2
      <4> QED
        BY <3>1, <3>3, <4>1, <4>2 DEF Pending
    <3> QED
      BY <2>1, <3>1, <3>2, <3>3 DEF Pending
  <2> QED
    BY <2>4 DEF PendingInv, Pending
<1>4. CASE TaskMerge
  <2>1. Waiting("WRITE") = {} /\ flash' = flash
    BY <1>4, TaskMergeDoes
  <2>2. Waiting("WRITE")' = {}
    BY <1>4, <2>1, WritesWait
  <2>3. ~MSC_BulkOut
    BY <1>4 DEF TaskMerge, Running, MSC_BulkOut, Handling
  <2> QED
    BY <2>1, <2>2, <2>3, CurrentStep, PendingKept
<1>5. CASE OutData
  <2>1. /\ BulkBuf \in Buffer /\ flash' = flash
        /\ pb_pool' = [pb_pool EXCEPT ![BulkBuf] =
                         [i \in InPage |-> IF i \in Window(ep_out.n) THEN hcmd.dTag
                                           ELSE pb_pool[BulkBuf][i]]]
        /\ \A i \in Waiting("WRITE") : ut_list[i].buffer # BulkBuf
    BY <1>5, OutDataDoes
  <2>2. UNCHANGED <<ut_list, task>> /\ ~(MSC_BulkOut /\ Receiving)
    <3>1. out_done = Nothing
      BY <1>5, Prompt DEF OutData
    <3> QED
      BY <1>5, <3>1 DEF OutData, MSC_BulkOut, Handling, IsrInv
  <2>3. \A i \in Waiting("WRITE") : pb_pool'[ut_list[i].buffer] = pb_pool[ut_list[i].buffer]
    <3>1. \A i \in Waiting("WRITE") : ut_list[i].buffer \in Buffer
      BY DEF ListInv, WriteList
    <3> QED
      BY <2>1, <3>1 DEF DataInv
  <2>4. Waiting("WRITE")' = Waiting("WRITE")
    BY <2>2 DEF Waiting, Queued
  <2>5. \A s \in Sector : Current(s)' = Current(s)
    BY <2>2, CurrentStep
  <2> QED
    BY <2>1, <2>2, <2>3, <2>4, <2>5, PendingKept
<1>6. CASE MSC_Reset \/ USB_Reset
  BY <1>6, Prompt DEF MSC_Reset, USB_Reset, CommandInv
<1>7. CASE UNCHANGED <<pb_pool, flash>> /\ ~(MSC_BulkOut /\ Receiving) /\ ~TaskWrite /\ ~TaskPop
  <2>1. /\ Waiting("WRITE")' = Waiting("WRITE")
        /\ \A i \in Waiting("WRITE") : ut_list'[i] = ut_list[i]
    BY <1>7, WritesKept
  <2>2. \A s \in Sector : Current(s)' = Current(s)
    BY <1>7, CurrentStep
  <2> QED
    BY <1>7, <2>1, <2>2, PendingKept
<1> QED
  BY <1>1, <1>2, <1>3, <1>4, <1>5, <1>6, <1>7
  DEF Next, Interrupts, Handlers, MainLoop, Tokens, USB_ISR, ISR_NextPart, MSC_BulkOut,
      MSC_BulkIn, MSC_BulkOutNak, MSC_BulkInNak, OutNaked, OutCommand, InNaked, InTransfer,
      TaskStart, TaskRead, TaskReady, HostCommand

\* A step that leaves the transfer and its buffer alone.
LEMMA TransferKept ==
  ASSUME TransferInv, \A s \in Sector : Current(s)' = Current(s),
         merge_stage' = "FINISH" => merge_stage = "FINISH",
         Transferring(ep_out)' => Transferring(ep_out) /\ ep_out' = ep_out,
         Transferring(out_done)' => Transferring(out_done) /\ out_done' = out_done,
         Active' => /\ Active /\ Offset \in Sector
                    /\ UNCHANGED <<pb_pool, Offset, BulkBuf, hcmd>>
  PROVE  TransferInv'
<1>1. ASSUME ~Active' PROVE TransferInv'
  BY <1>1 DEF Active, TransferInv
<1>2. CASE Active'
  <2>1. \A k \in InPage : Base + k \in Sector
    BY <1>2, SectorFacts DEF Base
  <2>2. Base' = Base /\ \A n : Window(n)' = Window(n)
    BY <1>2 DEF Base, Window
  <2>3. \A k \in InPage : Current(Base + k)' = Current(Base + k)
    BY <2>1, <2>2 DEF Current
  <2> QED
    BY <1>2, <2>2, <2>3 DEF TransferInv
<1> QED
  BY <1>1, <1>2

\* A buffer is in a transfer only while the pages of a write are received.
LEMMA ActiveReceives ==
  ASSUME CommandInv, StageInv, Active
  PROVE  Receiving /\ Offset \in Sector
<1>1. ASSUME Transferring(ep_out) PROVE Receiving
  <2>1. ep_out # Nothing /\ ep_out # [what |-> "cbw"]
    BY <1>1 DEF Transferring, Nothing
  <2> QED
    BY <2>1, StageOf DEF Asking, CbwOnly
<1>2. ASSUME Transferring(out_done) PROVE Receiving
  <2>1. out_done # Nothing /\ out_done # [what |-> "cbw"]
    BY <1>2 DEF Transferring, Nothing
  <2> QED
    BY <2>1, StageOf DEF Asked
<1> QED
  BY <1>1, <1>2, StageOf, InDevice DEF Active

\* Nothing is said of a transfer that is over.
LEMMA NoTransfer == ASSUME ~Active' PROVE TransferInv'
BY DEF Active, TransferInv

\* Every step leaves the buffer of the transfer with the page as it will be once the
\* host has sent its part.
LEMMA TransferStep ==
  ASSUME Undisturbed, Types, NakInv, TaskInv, BufferInv, CommandInv, IsrInv, StageInv, ListInv,
         DataInv, PendingInv, TransferInv, [Next]_vars
  PROVE  TransferInv'
<1> USE DEF vars, host, endpoints, transport, shared, store
<1>1. CASE MSC_BulkOut
  <2>1. /\ merge_stage = "NONE" /\ merge_stage' = merge_stage /\ out_done' = Nothing
        /\ ep_out' = ep_out /\ out_done # Nothing
    BY <1>1, BulkOutDoes DEF MSC_BulkOut, Handling, IsrInv
  <2>2. ep_out = Nothing
    BY <2>1, StageOf DEF Asked, Receiving
  <2>3. ~Active'
    BY <2>1, <2>2 DEF Active, Transferring, Nothing
  <2> QED
    BY <2>3, NoTransfer
<1>2. CASE MSC_BulkIn
  <2>1. /\ UNCHANGED <<ep_out, out_done, merge_stage>> /\ in_done
    BY <1>2 DEF MSC_BulkIn, Handling, IsrInv
  <2>2. ~Receiving
    BY <2>1 DEF Receiving
  <2>3. ~Active'
    BY <2>1, <2>2, ActiveReceives DEF Active, Transferring
  <2> QED
    BY <2>3, NoTransfer
<1>3. CASE MSC_BulkOutNak
  <2>1. /\ ep_out = Nothing /\ out_done = Nothing
        /\ UNCHANGED <<out_done, Offset, Length, hcmd, pb_pool, BulkStage>>
    BY <1>3, BulkOutNakDoes DEF MSC_BulkOutNak
  <2>2. /\ ~Transferring(ep_out) /\ ~Transferring(out_done) /\ ~Transferring(out_done)'
    BY <2>1 DEF Transferring, Nothing
  <2>3. \A s \in Sector : Current(s)' = Current(s)
    <3>1. ~MSC_BulkOut
      BY <1>3 DEF MSC_BulkOut, MSC_BulkOutNak, Handling
    <3> QED
      BY <3>1, CurrentStep
  <2>4. CASE ~Transferring(ep_out)' /\ UNCHANGED <<BulkBuf, merge_stage>>
    <3>1. Active' => Active
      BY <2>2, <2>4 DEF Active
    <3> QED
      BY <2>1, <2>2, <2>3, <2>4, <3>1, ActiveReceives, TransferKept
  <2>5. CASE ~Transferring(ep_out)' /\ merge_stage' # "FINISH"
    BY <2>2, <2>5 DEF TransferInv
  <2>6. CASE AllocateOut /\ BulkStage = "DATA_OUT"
    <3>1. merge_stage = "NONE" /\ BulkBuf' = BUF_Allocate
      BY <2>6 DEF AllocateOut
    <3>2. CASE TransferTo(BUF_Allocate) /\ WithinPage(Offset, Length) # SECTOR_PER_MPP
      <4>1. merge_stage' = "START" /\ ep_out' = ep_out
        BY <3>2 DEF TransferTo
      <4> QED
        BY <2>2, <2>5, <4>1 DEF Transferring
    <3>3. CASE TransferTo(BUF_Allocate) /\ WithinPage(Offset, Length) = SECTOR_PER_MPP
      <4>1. /\ ep_out' = [what |-> "data", buf |-> BUF_Allocate, at |-> 0, n |-> SECTOR_PER_MPP]
            /\ merge_stage' = merge_stage
        BY <3>3 DEF TransferTo, PrimeOut
      <4>2. ep_out'.n = SECTOR_PER_MPP
        BY <4>1
      <4>3. \A k \in InPage : k \in (Offset % SECTOR_PER_MPP) ..
                                 ((Offset % SECTOR_PER_MPP) + SECTOR_PER_MPP - 1)
        <5> DEFINE r == Offset % SECTOR_PER_MPP
        <5>1. r \in Nat /\ r + SECTOR_PER_MPP <= SECTOR_PER_MPP /\ SECTOR_PER_MPP \in Nat
          <6>1. Receiving
            BY <1>3, <2>6, BulkOutNakDoes DEF Asking
          <6> QED
            BY <3>3, <6>1, InDevice, WithinPageFacts
        <5> HIDE DEF r
        <5>2. \A k \in InPage : k \in r .. r + SECTOR_PER_MPP - 1
          BY <5>1 DEF InPage
        <5> QED
          BY <5>2 DEF r
      <4>4. \A k \in InPage : k \in Window(ep_out.n)'
        BY <2>1, <4>2, <4>3 DEF Window
      <4> QED
        BY <2>2, <3>1, <4>1, <4>4 DEF TransferInv
    <3>4. CASE UNCHANGED <<ep_out, merge_stage>>
      <4>1. ~Active'
        BY <2>2, <3>1, <3>4 DEF Active, Transferring
      <4> QED
        BY <4>1, NoTransfer
    <3> QED
      BY <2>6, <3>2, <3>3, <3>4 DEF AllocateOut
  <2>7. CASE PrimeMerged
    <3>1. merge_stage = "FINISH" /\ merge_stage' = "NONE" /\ BulkBuf' = BulkBuf
      BY <2>7 DEF PrimeMerged
    <3>2. Offset \in Sector
      BY <3>1, ActiveReceives DEF Active
    <3>3. \A k \in InPage : Base + k \in Sector
      BY <3>2, SectorFacts DEF Base
    <3>4. \A k \in InPage : Current(Base + k)' = Current(Base + k)
      <4>1. Base' = Base
        BY <2>1 DEF Base
      <4> QED
        BY <2>3, <3>3, <4>1 DEF Current
    <3>5. \A k \in InPage : pb_pool[BulkBuf][k] = Current(Base + k)
      BY <3>1 DEF TransferInv
    <3>6. \A k \in InPage : pb_pool'[BulkBuf'][k] = Current(Base + k)'
      BY <2>1, <3>1, <3>4, <3>5
    <3> QED
      BY <2>2, <3>1, <3>6 DEF TransferInv
  <2>8. CASE (~AllocateOut /\ ~PrimeMerged) \/ BulkStage # "DATA_OUT"
    <3>1. /\ ep_out' \in {ep_out, [what |-> "cbw"]} /\ UNCHANGED <<BulkBuf, merge_stage>>
      BY <1>3, <2>8 DEF MSC_BulkOutNak
    <3>2. ~Transferring(ep_out)'
      BY <2>2, <3>1 DEF Transferring
    <3> QED
      BY <2>4, <3>1, <3>2
  <2> QED
    BY <2>6, <2>7, <2>8
<1>4. CASE OutCommand
  <2>1. /\ merge_stage = "NONE" /\ merge_stage' = merge_stage
        /\ ep_out' = Nothing /\ out_done' = [what |-> "cbw"]
    BY <1>4, OutTokens DEF OutCommand
  <2>2. ~Active'
    BY <2>1 DEF Active, Transferring, Nothing
  <2> QED
    BY <2>2, NoTransfer
<1>5. CASE OutData
  <2>1. /\ merge_stage = "NONE" /\ merge_stage' = merge_stage
        /\ Transferring(ep_out) /\ ep_out' = Nothing
        /\ Transferring(out_done)' /\ out_done'.n = ep_out.n /\ BulkBuf \in Buffer
        /\ pb_pool' = [pb_pool EXCEPT ![BulkBuf] =
                         [i \in InPage |-> IF i \in Window(ep_out.n) THEN hcmd.dTag
                                           ELSE pb_pool[BulkBuf][i]]]
        /\ UNCHANGED <<disk, hcmd, Offset, BulkBuf>>
    BY <1>5, OutDataDoes
  <2>2. Offset \in Sector
    BY <2>1, ActiveReceives DEF Active
  <2>3. \A k \in InPage : Base + k \in Sector
    BY <2>2, SectorFacts DEF Base
  <2>4. \A s \in Sector : Current(s)' = Current(s)
    <3>1. ~(MSC_BulkOut /\ Receiving)
      <4>1. out_done = Nothing
        BY <1>5, Prompt DEF OutData
      <4> QED
        BY <4>1 DEF MSC_BulkOut, Handling, IsrInv
    <3> QED
      BY <3>1, CurrentStep
  <2>5. \A k \in InPage : Current(Base + k)' = Current(Base + k)
    <3>1. Base' = Base
      BY <2>1 DEF Base
    <3> QED
      BY <2>3, <2>4, <3>1 DEF Current
  <2>6. \A k \in InPage : pb_pool'[BulkBuf][k] = IF k \in Window(ep_out.n) THEN hcmd.dTag
                                                 ELSE pb_pool[BulkBuf][k]
    BY <2>1 DEF DataInv
  <2>7. \A k \in InPage : ~(k \in Window(ep_out.n)) => pb_pool[BulkBuf][k] = Current(Base + k)
    BY <2>1 DEF TransferInv
  <2>8. \A k : k \in Window(out_done.n)' <=> k \in Window(ep_out.n)
    BY <2>1 DEF Window
  <2>9. \A k \in InPage : pb_pool'[BulkBuf'][k] = IF k \in Window(out_done.n)' THEN hcmd'.dTag
                                                  ELSE Current(Base + k)'
    BY <2>1, <2>5, <2>6, <2>7, <2>8
  <2>10. ~Transferring(ep_out)'
    BY <2>1 DEF Transferring, Nothing
  <2> QED
    BY <2>1, <2>9, <2>10 DEF TransferInv
<1>6. CASE TaskMerge
  <2>1. /\ merge_stage' = "FINISH" /\ BulkBuf \in Buffer
        /\ pb_pool' = [pb_pool EXCEPT ![BulkBuf] = [i \in InPage |-> flash[Base + i]]]
        /\ \A k \in InPage : Base + k \in Sector /\ flash[Base + k] = Current(Base + k)
        /\ ~Transferring(ep_out) /\ ~Transferring(out_done)
        /\ UNCHANGED <<disk, hcmd, Offset, BulkBuf, ep_out, out_done>>
    BY <1>6, TaskMergeDoes
  <2>2. \A s \in Sector : Current(s)' = Current(s)
    <3>1. ~MSC_BulkOut
      BY <1>6 DEF TaskMerge, Running, MSC_BulkOut, Handling
    <3> QED
      BY <3>1, CurrentStep
  <2>3. \A k \in InPage : Current(Base + k)' = Current(Base + k)
    <3>1. Base' = Base
      BY <2>1 DEF Base
    <3> QED
      BY <2>1, <2>2, <3>1 DEF Current
  <2>4. \A k \in InPage : pb_pool'[BulkBuf][k] = flash[Base + k]
    BY <2>1 DEF DataInv
  <2>5. \A k \in InPage : pb_pool'[BulkBuf'][k] = Current(Base + k)'
    BY <2>1, <2>3, <2>4
  <2>6. ~Transferring(ep_out)' /\ ~Transferring(out_done)'
    BY <2>1 DEF Transferring
  <2> QED
    BY <2>5, <2>6 DEF TransferInv
<1>7. ASSUME NEW c \in Commands, HostCommand(c) PROVE TransferInv'
  <2>1. UNCHANGED <<ep_out, out_done, merge_stage>> /\ phase = "idle"
    BY <1>7 DEF HostCommand
  <2>2. ~Receiving
    BY <2>1 DEF Receiving
  <2>3. ~Active'
    BY <2>1, <2>2, ActiveReceives DEF Active, Transferring
  <2> QED
    BY <2>3, NoTransfer
<1>8. CASE MSC_Reset \/ USB_Reset
  BY <1>8, Prompt DEF MSC_Reset, USB_Reset, CommandInv
<1>9. CASE /\ UNCHANGED <<ep_out, out_done, merge_stage, pb_pool, Offset, BulkBuf, hcmd>>
           /\ ~(MSC_BulkOut /\ Receiving)
  <2>1. \A s \in Sector : Current(s)' = Current(s)
    BY <1>9, CurrentStep
  <2>2. Active' = Active
    BY <1>9 DEF Active, Transferring
  <2> QED
    BY <1>9, <2>1, <2>2, ActiveReceives, TransferKept
<1> QED
  BY <1>1, <1>2, <1>3, <1>4, <1>5, <1>6, <1>7, <1>8, <1>9
  DEF Next, Interrupts, Handlers, MainLoop, Tokens, USB_ISR, ISR_NextPart, MSC_BulkInNak,
      OutNaked, InNaked, InTransfer, TaskStart, TaskRead, TaskReady, TaskWrite, TaskPop

-----------------------------------------------------------------------------
(*****************************************************************************)
(* The invariant and the theorems.                                           *)
(*****************************************************************************)

\* The invariant of the front end whose host waits for the handlers.
ServiceInv ==
  /\ CommandInv /\ IsrInv /\ StageInv /\ UseInv /\ ListInv
  /\ DataInv /\ PendingInv /\ TransferInv

\* It holds at the start, with nothing in use but write_buffer.
LEMMA InitService == Init => ServiceInv
<1> SUFFICES ASSUME Init PROVE ServiceInv
  OBVIOUS
<1>0. SECTOR_PER_MPP \in Nat /\ SECTOR_PER_MPP > 0 /\ NPage \in Nat /\ NPage > 0
      /\ NPage * SECTOR_PER_MPP \in Nat
  BY GeometryAssumption, SectorFacts
<1>1. 0 \in Sector /\ 0 \in InPage
  <2>1. 0 \in InPage
    BY <1>0 DEF InPage
  <2>2. PageStart(0) + 0 \in Sector /\ 0 \in 0 .. NPage - 1
    BY <1>0, <2>1, SectorFacts
  <2>3. PageStart(0) + 0 = 0
    BY <1>0 DEF PageStart
  <2> QED
    BY <2>1, <2>2, <2>3
<1>2. ut_list = <<>> /\ \A type : Waiting(type) = {}
  BY DEF Init, Waiting, Queued
<1>3. CommandInv
  <2>1. NoCommand \in Message
    BY <1>1 DEF NoCommand, Message, Ops, Tags
  <2>2. /\ hcmd = NoCommand /\ CBW = NoCommand /\ resets = 0 /\ tags = <<>>
        /\ NoCommand.op = "status" /\ NoCommand.dTag = 0
    BY DEF Init, NoCommand
  <2>3. tags \in Seq(Tags) /\ Len(tags) = 0
    BY <2>2, EmptySeq
  <2> QED
    BY <2>1, <2>2, <2>3 DEF CommandInv
<1>4. IsrInv
  BY DEF Init, IsrInv
<1>5. StageInv
  <2>1. Idle
    BY DEF Init, Idle
  <2>2. moved \in Nat /\ Offset \in Nat /\ Length \in Nat /\ merge_stage = "NONE"
    BY DEF Init
  <2> QED
    BY <2>1, <2>2 DEF StageInv
<1>6. ~Active /\ ~Transferring(ep_out) /\ ~Transferring(out_done) /\ merge_stage = "NONE"
  BY DEF Init, Active, Transferring, Nothing
<1>7. UseInv
  <2>1. Held = {} /\ InList = {} /\ InFlight = {}
    BY <1>2, <1>6 DEF Init, Held, InList, InFlight
  <2> QED
    BY <2>1 DEF Init, UseInv
<1>8. ListInv
  <2>1. ~Reading /\ task # "READY"
    BY DEF Init, Reading
  <2> QED
    BY <1>2, <2>1 DEF ListInv, ReadList, MergeList, WriteList, ReadBuffer
<1>9. DataInv
  <2>1. Numbers = 0 .. 0 /\ 0 \in Numbers /\ misread = FALSE
    <3>1. hcmd.dTag = 0
      BY DEF Init, NoCommand
    <3> QED
      BY <3>1 DEF Init, Numbers
  <2>2. /\ disk = [s \in Sector |-> 0] /\ flash = [s \in Sector |-> 0]
        /\ pb_pool = [b \in Buffer |-> [i \in InPage |-> 0]]
        /\ flash_tag = [p \in 0 .. NPage - 1 |-> "none"]
    BY DEF Init
  <2>3. /\ disk \in [Sector -> Numbers] /\ flash \in [Sector -> Numbers]
        /\ pb_pool \in [Buffer -> [InPage -> Numbers]]
    BY <2>1, <2>2
  <2>4. flash_tag \in [0 .. NPage - 1 -> Tags]
    BY <2>2 DEF Tags
  <2>5. ASSUME NEW p \in 0 .. NPage - 1 PROVE Tagged(PageOfFlash(p), flash_tag[p], tags)
    <3>1. \A i \in InPage : PageOfFlash(p)[i] = 0
      BY <2>2, SectorFacts DEF PageOfFlash
    <3>2. 0 \in 0 .. Len(tags)
      BY <1>3, LenProperties DEF CommandInv
    <3> QED
      BY <1>1, <3>1, <3>2 DEF Tagged
  <2> QED
    BY <1>2, <2>1, <2>3, <2>4, <2>5 DEF DataInv
<1>10. PendingInv
  <2>1. ~Writing
    BY DEF Init, Writing
  <2>2. \A s \in Sector : flash[s] = Current(s)
    BY <2>1 DEF Init, Current
  <2> QED
    BY <1>2, <2>2 DEF PendingInv, Pending
<1>11. TransferInv
  BY <1>6 DEF TransferInv
<1> QED
  BY <1>3, <1>4, <1>5, <1>7, <1>8, <1>9, <1>10, <1>11 DEF ServiceInv

\* Every step keeps it.
LEMMA ServiceStep ==
  Undisturbed /\ Invariants /\ ServiceInv /\ [Next]_vars => ServiceInv'
<1> SUFFICES ASSUME Undisturbed, Types, NakInv, TaskInv, BufferInv, ServiceInv, [Next]_vars
             PROVE  ServiceInv'
  BY DEF Invariants
<1>0. /\ CommandInv /\ IsrInv /\ StageInv /\ UseInv /\ ListInv
      /\ DataInv /\ PendingInv /\ TransferInv
  BY DEF ServiceInv
<1>1. CommandInv' /\ IsrInv'
  BY <1>0, CommandStep, IsrStep
<1>2. StageInv' /\ UseInv'
  BY <1>0, StageStep, UseStep
<1>3. ListInv'
  <2>1. ReadList' /\ MergeList'
    BY <1>0, ReadListStep, MergeListStep
  <2>2. WriteList' /\ ReadBuffer'
    BY <1>0, WriteListStep, ReadBufferStep
  <2> QED
    BY <2>1, <2>2 DEF ListInv
<1>4. DataInv' /\ PendingInv' /\ TransferInv'
  BY <1>0, DataStep, PendingStep, TransferStep
<1> QED
  BY <1>1, <1>2, <1>3, <1>4 DEF ServiceInv

\* It is an invariant.
LEMMA Service == ASSUME Undisturbed PROVE Spec => []ServiceInv
<1>1. Invariants /\ ServiceInv /\ [Next]_vars => ServiceInv'
  BY ServiceStep
<1> QED
  BY <1>1, Invariant, InitService, PTL DEF Spec

\* Every variable of the front end stays in its type: offsets and lengths of the
\* transport (mscuser.c) never go below zero, and the flash has numbers of writes.
THEOREM UndisturbedTypes == ASSUME Undisturbed PROVE Spec => []TypeOK
<1>1. Invariants /\ ServiceInv => TypeOK
  <2> SUFFICES ASSUME Types, ServiceInv PROVE TypeOK
    BY DEF Invariants
  <2>0. CommandInv /\ StageInv /\ DataInv
    BY DEF ServiceInv
  <2>1. phase \in Phases /\ moved \in Nat /\ Offset \in Nat /\ Length \in Nat
    BY <2>0 DEF Types, StageInv
  <2>2. resets \in 0 .. MaxResets
    BY <2>0, BoundsAssumption DEF CommandInv
  <2>3. \A m \in Message : m \in [op : Ops, off : Sector, len : Nat, tag : Tags, dTag : Nat]
    BY DEF Message
  <2>4. hcmd \in Message /\ CBW \in Message
    BY <2>0 DEF CommandInv
  <2>5. Numbers \subseteq Nat
    BY <2>0, CommandNumbers DEF Numbers
  <2>6. disk \in [Sector -> Nat] /\ flash \in [Sector -> Nat] /\ misread \in BOOLEAN
    BY <2>0, <2>5 DEF DataInv
  <2>7. pb_pool \in [Buffer -> [InPage -> Nat]]
    BY <2>0, <2>5 DEF DataInv
  <2>8. BulkStage \in Stages
    BY <2>0 DEF StageInv, Idle, Asking, Asked, Receiving, Reading, ReadSent, Informing, Ending,
                Stages
  <2>9. /\ isr.at \in {"off", "complete", "nak", "hung"}
        /\ BulkBuf \in Buffer \cup {NoBuffer} /\ dice_hold \in Buffer \cup {NoBuffer}
        /\ merge_stage \in {"NONE", "START", "FINISH"} /\ pb_pool_used \subseteq Buffer
        /\ task \in {"next", "READ", "READY", "WRITE", "MERGE", "pop"}
    BY DEF Types, Isr
  <2> QED
    BY <2>1, <2>2, <2>3, <2>4, <2>6, <2>7, <2>8, <2>9 DEF TypeOK
<1> QED
  BY <1>1, Invariant, Service, PTL

\* Every buffer that BUF_Allocate has given away is write_buffer, being programmed,
\* queued in ut_list or in the transfer under way, and in one of these only: none
\* is lost, so that BUF_Allocate fails only for a while.
THEOREM BuffersAreAccounted == ASSUME Undisturbed PROVE Spec => []BuffersAccounted
<1>1. Invariants /\ ServiceInv => BuffersAccounted
  BY OneUse, Accounted DEF Invariants, ServiceInv
<1> QED
  BY <1>1, Invariant, Service, PTL

\* A read returns what the host wrote last, although usb_user_task_loop programs
\* pages after their status was sent, merges pages written in part, and fills the
\* read buffer apart from setting its length.
THEOREM ReadsAreOfWrites == ASSUME Undisturbed PROVE Spec => []ReadsSeeWrites
<1>1. ServiceInv => ReadsSeeWrites
  BY DEF ServiceInv, DataInv, ReadsSeeWrites
<1> QED
  BY <1>1, Service, PTL

\* A page in the flash carries the tag of the last command that wrote to it, although
\* ut_list holds it while CBW is overwritten by later commands.
THEOREM TagsReachFlash == ASSUME Undisturbed PROVE Spec => []TagsArrive
<1>1. ServiceInv => TagsArrive
  <2> SUFFICES ASSUME CommandInv, DataInv, NEW p \in 0 .. NPage - 1
               PROVE  LET sectors == {flash[PageStart(p) + i] : i \in InPage}
                          newest == CHOOSE n \in sectors : \A m \in sectors : m <= n
                      IN  newest # 0 => flash_tag[p] = tags[newest]
    BY DEF ServiceInv, TagsArrive
  <2> DEFINE sectors == {flash[PageStart(p) + i] : i \in InPage}
             newest == CHOOSE n \in sectors : \A m \in sectors : m <= n
  <2>1. PICK d \in 0 .. Len(tags) : /\ \A i \in InPage : PageOfFlash(p)[i] <= d
                                    /\ \E i \in InPage : PageOfFlash(p)[i] = d
                                    /\ d # 0 => flash_tag[p] = tags[d]
    BY DEF DataInv, Tagged
  <2>2. d \in sectors /\ \A m \in sectors : m <= d
    BY <2>1 DEF PageOfFlash
  <2>3. \A m \in sectors : m \in Nat
    <3>1. \A i \in InPage : flash[PageStart(p) + i] \in Numbers
      BY SectorFacts DEF DataInv
    <3>2. Numbers \subseteq Nat
      BY CommandNumbers DEF Numbers
    <3> QED
      BY <3>1, <3>2
  <2> HIDE DEF sectors
  <2>4. newest \in sectors /\ \A m \in sectors : m <= newest
    BY <2>2
  <2> HIDE DEF newest
  <2>5. newest = d
    BY <2>2, <2>3, <2>4
  <2>6. newest # 0 => flash_tag[p] = tags[newest]
    BY <2>1, <2>5
  <2> QED
    BY <2>6 DEF newest, sectors
<1> QED
  BY <1>1, Service, PTL

=============================================================================
