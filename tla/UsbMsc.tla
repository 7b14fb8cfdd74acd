------------------------------- MODULE UsbMsc -------------------------------
(***************************************************************************)
(* The USB mass-storage front end of the SSD firmware: the bulk-only       *)
(* transport of usb/mscuser.c run by USB_ISR, the main loop of main.c that *)
(* executes what the interrupt handlers queue in ut_list, and the buffer   *)
(* pool of core/buf/buf_api.c they share.                                  *)
(*                                                                         *)
(* Four parties interleave: the host, the USB controller (a primed         *)
(* endpoint transfers, an endpoint that is not primed answers NAK and      *)
(* latches it), the interrupt handlers, and the main loop, which handlers  *)
(* preempt between any two of its steps.                                   *)
(*                                                                         *)
(* Abstracted here: a primed descriptor moves its packets in one step; the *)
(* flash below ONFM_Read and ONFM_Write is one value per sector (FtlData   *)
(* models what is behind it); commands stay inside the device's capacity   *)
(* and carry matching lengths; a stalled endpoint is left out.             *)
(***************************************************************************)
EXTENDS Integers, Sequences, FiniteSets

CONSTANTS
  SECTOR_PER_MPP,  \* sectors of a flash page
  NPage,           \* pages: MSC_BlockCount is NPage * SECTOR_PER_MPP
  BUFFER_COUNT,    \* page buffers in pb_pool
  Commands,        \* what the host may ask for
  MaxCommands,     \* bound: commands the host issues
  MaxResets,       \* bound: resets the host issues
  PromptISR        \* interrupts are taken before the host's next token

UT_LIST_SIZE == 2 * BUFFER_COUNT

Sector == 0 .. NPage * SECTOR_PER_MPP - 1
InPage == 0 .. SECTOR_PER_MPP - 1
Buffer == 0 .. BUFFER_COUNT - 1
NoBuffer == -1
Ops == {"read", "write", "verify", "info", "status"}
Tags == {"none", "ransom"}
Command == [op : Ops, off : Sector, len : 0 .. NPage * SECTOR_PER_MPP, tag : Tags]

ASSUME GeometryAssumption ==
  SECTOR_PER_MPP \in Nat \ {0} /\ NPage \in Nat \ {0}
ASSUME BufferAssumption == BUFFER_COUNT \in Nat /\ BUFFER_COUNT >= 2
\* The data of a command lies inside the device; the others carry none.
ASSUME CommandsAssumption ==
  /\ Commands \subseteq Command
  /\ \A c \in Commands : c.op \in {"read", "write", "verify"} =>
       c.len > 0 /\ c.off + c.len <= NPage * SECTOR_PER_MPP
ASSUME BoundsAssumption == MaxCommands \in Nat /\ MaxResets \in Nat
ASSUME PromptAssumption == PromptISR \in BOOLEAN

VARIABLES
  \* the host
  phase,         \* of its current command: see Phases
  hcmd,          \* the command, with its dTag
  moved,         \* sectors it has sent or received for it
  resets,        \* resets it has issued
  disk,          \* what it knows to be written: sector -> dTag of the write
  misread,       \* it has received a sector that is not the one it asked for
  tags,          \* tags of its commands, by dTag
  \* the USB controller
  ep_out, ep_in,     \* what endpoint 1 is primed with
  out_done, in_done, \* a transfer has completed and is not handled yet
  out_nak, in_nak,   \* endptnak
  \* the interrupt handlers
  isr,           \* where USB_ISR is
  CBW,           \* the command block wrapper last received
  BulkStage, Offset, Length,
  BulkBuf,       \* buffer of the bulk-out transfer
  merge_stage, merge_count,
  \* shared with the main loop
  Read_BulkBuf, Read_BulkLen,
  ut_list,       \* ut_list[ut_pop] .. ut_list[ut_push - 1]
  pb_pool,       \* contents of the page buffers: sector in page -> dTag
  pb_pool_used,
  \* the main loop and the flash
  task,          \* where usb_user_task_loop is in its current entry
  dice_hold,     \* buffer of the page being programmed
  flash, flash_tag  \* sector -> dTag of its write; page -> tag of its write

host == <<phase, hcmd, moved, resets, disk, misread, tags>>
endpoints == <<ep_out, ep_in, out_done, in_done, out_nak, in_nak>>
transport == <<CBW, BulkStage, Offset, Length, BulkBuf, merge_stage, merge_count>>
shared == <<Read_BulkBuf, Read_BulkLen, ut_list, pb_pool, pb_pool_used>>
store == <<task, dice_hold, flash, flash_tag>>
vars == <<host, endpoints, isr, transport, shared, store>>

Phases == {"idle", "cbw", "out", "in", "csw", "confused"}
Stages == {"CBW", "DATA_OUT", "DATA_IN", "DATA_IN_LAST", "CSW"}
Nothing == [what |-> "nothing"]   \* an endpoint that is not primed
NoCommand == [op |-> "status", off |-> 0, len |-> 0, tag |-> "none", dTag |-> 0]
Smaller(x, y) == IF x < y THEN x ELSE y

PageOf(s) == s \div SECTOR_PER_MPP
PageStart(p) == p * SECTOR_PER_MPP
\* Sectors from s to the end of its page, at most len.
WithinPage(s, len) == Smaller(SECTOR_PER_MPP - (s % SECTOR_PER_MPP), len)

Init ==
  /\ phase = "idle" /\ hcmd = NoCommand /\ moved = 0 /\ resets = 0
  /\ disk = [s \in Sector |-> 0] /\ misread = FALSE /\ tags = <<>>
  /\ ep_out = Nothing /\ ep_in = Nothing
  /\ out_done = Nothing /\ in_done = FALSE
  /\ out_nak = FALSE /\ in_nak = FALSE
  /\ isr = [at |-> "off", val |-> {}, naki |-> FALSE, clear |-> FALSE]
  /\ CBW = NoCommand /\ BulkStage = "CBW" /\ Offset = 0 /\ Length = 0
  /\ BulkBuf = NoBuffer /\ merge_stage = "NONE" /\ merge_count = 0
  /\ Read_BulkBuf = <<>> /\ Read_BulkLen = 0 /\ ut_list = <<>>
  /\ pb_pool = [b \in Buffer |-> [i \in InPage |-> 0]]
  /\ pb_pool_used = {0}          \* write_buffer, taken by BUF_Init
  /\ task = "next" /\ dice_hold = NoBuffer
  /\ flash = [s \in Sector |-> 0]
  /\ flash_tag = [p \in 0 .. NPage - 1 |-> "none"]

-----------------------------------------------------------------------------
(* The buffer pool and the work queue. *)

\* BUF_Allocate: the first free buffer (in the order it scans the two halves).
BUF_Allocate ==
  LET free == Buffer \ pb_pool_used
  IN  IF free = {} THEN NoBuffer ELSE CHOOSE b \in free : \A c \in free : b <= c

\* Mutant: a buffer is not given back.
MutNeverFreed(b) == pb_pool_used

\* BUF_Free; freeing memory outside the pool does nothing.
BUF_Free(b) == pb_pool_used \ {b}

\* The list entries: a host read, a full-page write, a read to merge with.
ReadEntry(off, n) ==
  [type |-> "READ", offset |-> off, length |-> n, buffer |-> NoBuffer,
   tag |-> CBW.tag]
PageEntry(type, off, b) ==
  [type |-> type, offset |-> PageStart(PageOf(off)), length |-> SECTOR_PER_MPP,
   buffer |-> b, tag |-> IF type = "MERGE" THEN "none" ELSE CBW.tag]

\* Log an entry; ASSERT(ut_push != ut_pop) spins in the handler if that fills
\* the list.
Push(entry, handled) ==
  /\ ut_list' = Append(ut_list, entry)
  /\ isr' = IF Len(ut_list) + 1 < UT_LIST_SIZE
            THEN handled ELSE [handled EXCEPT !.at = "hung"]

-----------------------------------------------------------------------------
(* USB_ISR: the completions pending at its start, then the NAKs latched    *)
(* when they are done.  A completion clears the NAK of its own endpoint.   *)

USB_ISR ==
  /\ isr.at = "off"
  /\ out_done # Nothing \/ in_done \/ out_nak \/ in_nak
  /\ LET val == {e \in {"out", "in"} :
                   \/ e = "out" /\ out_done # Nothing
                   \/ e = "in" /\ in_done}
     IN  /\ isr' = [at |-> "complete", val |-> val, naki |-> out_nak \/ in_nak,
                    clear |-> FALSE]
         /\ out_nak' = (out_nak /\ "out" \notin val)
         /\ in_nak' = (in_nak /\ "in" \notin val)
  /\ UNCHANGED <<host, ep_out, ep_in, out_done, in_done, transport, shared, store>>

ISR_NextPart ==
  /\ isr.at \in {"complete", "nak"} /\ isr.val = {}
  /\ LET latched == {e \in {"out", "in"} : \/ e = "out" /\ out_nak
                                           \/ e = "in" /\ in_nak}
     IN  isr' = IF isr.at = "complete" /\ isr.naki /\ latched # {}
                THEN [at |-> "nak", val |-> latched, naki |-> FALSE, clear |-> FALSE]
                ELSE [at |-> "off", val |-> {}, naki |-> FALSE, clear |-> FALSE]
  /\ UNCHANGED <<host, endpoints, transport, shared, store>>

Handling(part, e) ==
  /\ isr.at = part /\ e \in isr.val
  /\ part = "complete" /\ e = "in" => "out" \notin isr.val
  /\ part = "nak" /\ e = "in" => "out" \notin isr.val
Handled(e) == [isr EXCEPT !.val = @ \ {e}, !.clear = (isr.at = "complete" /\ e = "in")]

\* USB_ISR clears endptcomplete when MSC_BulkIn has returned, and with it the
\* completion of a transfer that MSC_BulkIn has primed, if there is one yet.
\* MSC_BulkOut primes no OUT transfer.
Clearing == isr.at = "complete" /\ isr.clear

\* MSC_SetCSW: prime the status of the command in CBW.
MSC_SetCSW ==
  /\ ep_in' = [what |-> "csw", dTag |-> CBW.dTag]
  /\ BulkStage' = "CSW"

\* Mutant: the length of the last read stays set while the next is queued.
MutKeepReadLen(off, len, e) ==
  LET n == WithinPage(off, len)
  IN  /\ Push(ReadEntry(off, n), Handled(e))
      /\ Offset' = off + n /\ Length' = len - n
      /\ UNCHANGED Read_BulkLen

\* MSC_MemoryRead: queue the sectors of one page.
MSC_MemoryRead(off, len, e) ==
  LET n == WithinPage(off, len)
  IN  /\ Push(ReadEntry(off, n), Handled(e))
      /\ Read_BulkLen' = 0
      /\ Offset' = off + n /\ Length' = len - n

\* MSC_GetCBW, by command.
MSC_GetCBW ==
  \/ /\ CBW.op = "read"
     /\ BulkStage' = "DATA_IN"
     /\ MSC_MemoryRead(CBW.off, CBW.len, "out")
     /\ UNCHANGED ep_in
  \/ /\ CBW.op \in {"write", "verify"}
     /\ BulkStage' = "DATA_OUT"
     /\ Offset' = CBW.off /\ Length' = CBW.len
     /\ isr' = Handled("out")
     /\ UNCHANGED <<ep_in, Read_BulkLen, ut_list>>
  \/ /\ CBW.op = "info"                                  \* DataIn_Transfer
     /\ BulkStage' = "DATA_IN_LAST"
     /\ ep_in' = [what |-> "info", dTag |-> CBW.dTag]
     /\ isr' = Handled("out")
     /\ UNCHANGED <<Offset, Length, Read_BulkLen, ut_list>>
  \/ /\ CBW.op = "status"
     /\ MSC_SetCSW
     /\ isr' = Handled("out")
     /\ UNCHANGED <<Offset, Length, Read_BulkLen, ut_list>>

\* MSC_MemoryWrite: queue the page; a transfer that is no whole number of
\* sectors (a command block received as data) is ignored.
MSC_MemoryWrite(n) ==
  /\ Push(PageEntry("WRITE", Offset, BulkBuf), Handled("out"))
  /\ Offset' = Offset + n /\ Length' = Length - n
  /\ IF Length = n THEN MSC_SetCSW ELSE UNCHANGED <<ep_in, BulkStage>>

\* MSC_MemoryVerify: the data is not looked at, its buffer not given back.
MSC_MemoryVerify ==
  /\ MSC_SetCSW
  /\ Offset' = Offset + Length /\ Length' = 0
  /\ isr' = Handled("out")
  /\ UNCHANGED ut_list

IgnoreOut ==
  /\ isr' = Handled("out")
  /\ UNCHANGED <<ep_in, BulkStage, Offset, Length, ut_list>>

MSC_BulkOut ==
  /\ Handling("complete", "out")
  /\ out_done' = Nothing
  /\ \/ BulkStage = "CBW" /\ MSC_GetCBW
     \/ /\ BulkStage # "CBW"
        /\ \/ /\ BulkStage = "DATA_OUT" /\ CBW.op = "write"
              /\ IF out_done.what = "data" THEN MSC_MemoryWrite(out_done.n)
                                           ELSE IgnoreOut
           \/ BulkStage = "DATA_OUT" /\ CBW.op = "verify" /\ MSC_MemoryVerify
           \/ BulkStage = "CSW" /\ IgnoreOut
           \/ /\ BulkStage \in {"DATA_IN", "DATA_IN_LAST"}
              /\ MSC_SetCSW /\ isr' = Handled("out")
              /\ UNCHANGED <<Offset, Length, ut_list>>
        /\ UNCHANGED Read_BulkLen
  /\ UNCHANGED <<host, ep_out, in_done, out_nak, in_nak, CBW, BulkBuf,
                 merge_stage, merge_count, Read_BulkBuf, pb_pool,
                 pb_pool_used, store>>

MSC_BulkIn ==
  /\ Handling("complete", "in")
  /\ in_done' = FALSE
  /\ \/ /\ BulkStage = "DATA_IN" /\ CBW.op = "read"
        /\ MSC_MemoryRead(Offset, Length, "in")
        /\ UNCHANGED <<ep_in, BulkStage>>
     \/ /\ ~(BulkStage = "DATA_IN" /\ CBW.op = "read")
        /\ \/ BulkStage = "DATA_IN_LAST" /\ MSC_SetCSW
           \/ BulkStage = "CSW" /\ BulkStage' = "CBW" /\ UNCHANGED ep_in
           \/ /\ BulkStage \notin {"DATA_IN_LAST", "CSW"}
              /\ UNCHANGED <<ep_in, BulkStage>>
        /\ isr' = Handled("in")
        /\ UNCHANGED <<Offset, Length, Read_BulkLen, ut_list>>
  /\ UNCHANGED <<host, ep_out, out_done, out_nak, in_nak, CBW, BulkBuf,
                 merge_stage, merge_count, Read_BulkBuf, pb_pool,
                 pb_pool_used, store>>

\* MSC_BulkOutNak: prime the endpoint for what the stage expects.
PrimeOut(b, at, n) == ep_out' = [what |-> "data", buf |-> b, at |-> at, n |-> n]

\* The next transfer into buffer b; a page written in part is read into it
\* first.
TransferTo(b) ==
  LET n == WithinPage(Offset, Length)
  IN  /\ pb_pool_used' = pb_pool_used \cup {b}
      /\ IF n # SECTOR_PER_MPP
         THEN /\ Push(PageEntry("MERGE", Offset, b), Handled("out"))
              /\ merge_stage' = "START" /\ merge_count' = n
              /\ UNCHANGED ep_out
         ELSE /\ PrimeOut(b, 0, SECTOR_PER_MPP)
              /\ isr' = Handled("out")
              /\ UNCHANGED <<merge_stage, merge_count, ut_list>>

\* Mutant: the result of BUF_Allocate is not checked.
MutUnchecked ==
  /\ merge_stage = "NONE"
  /\ BulkBuf' = BUF_Allocate
  /\ TransferTo(BUF_Allocate)

AllocateOut ==
  /\ merge_stage = "NONE"
  /\ BulkBuf' = BUF_Allocate
  /\ \/ BUF_Allocate # NoBuffer /\ TransferTo(BUF_Allocate)
     \/ /\ BUF_Allocate = NoBuffer
        /\ isr' = Handled("out")
        /\ UNCHANGED <<ep_out, merge_stage, merge_count, ut_list, pb_pool_used>>

\* Mutant: the endpoint is primed without waiting for the merged data.
MutPrimeEarly ==
  /\ merge_stage \in {"START", "FINISH"}
  /\ PrimeOut(BulkBuf, Offset % SECTOR_PER_MPP, merge_count)
  /\ merge_stage' = "NONE" /\ merge_count' = 0
  /\ isr' = Handled("out")
  /\ UNCHANGED <<BulkBuf, ut_list, pb_pool_used>>

PrimeMerged ==
  /\ merge_stage = "FINISH"
  /\ PrimeOut(BulkBuf, Offset % SECTOR_PER_MPP, merge_count)
  /\ merge_stage' = "NONE" /\ merge_count' = 0
  /\ isr' = Handled("out")
  /\ UNCHANGED <<BulkBuf, ut_list, pb_pool_used>>

MSC_BulkOutNak ==
  /\ Handling("nak", "out")
  /\ out_nak' = FALSE
  /\ \/ BulkStage = "DATA_OUT" /\ (AllocateOut \/ PrimeMerged)
     \/ /\ \/ /\ BulkStage = "DATA_OUT" /\ merge_stage = "START"
              /\ UNCHANGED ep_out
           \/ BulkStage = "CBW" /\ ep_out' = [what |-> "cbw"]
           \/ BulkStage \notin {"CBW", "DATA_OUT"} /\ UNCHANGED ep_out
        /\ isr' = Handled("out")
        /\ UNCHANGED <<BulkBuf, merge_stage, merge_count, ut_list, pb_pool_used>>
  /\ UNCHANGED <<host, ep_in, out_done, in_done, in_nak, CBW, BulkStage, Offset,
                 Length, Read_BulkBuf, Read_BulkLen, pb_pool, store>>

\* MSC_BulkInNak: a read that the main loop has finished is primed.
MSC_BulkInNak ==
  /\ Handling("nak", "in")
  /\ in_nak' = FALSE
  /\ isr' = Handled("in")
  /\ IF Read_BulkLen # 0
     THEN /\ ep_in' = [what |-> "data", n |-> Read_BulkLen]
          /\ BulkStage' = IF Length = 0 THEN "DATA_IN_LAST" ELSE BulkStage
     ELSE UNCHANGED <<ep_in, BulkStage>>
  /\ UNCHANGED <<host, ep_out, out_done, in_done, out_nak, CBW, Offset, Length,
                 BulkBuf, merge_stage, merge_count, shared, store>>

-----------------------------------------------------------------------------
(* usb_user_task_loop: the entry at ut_pop is removed when it is done.     *)

Running(step) == isr.at = "off" /\ task = step

Task == Head(ut_list)
TaskSectors == Task.offset .. Task.offset + Task.length - 1

\* Mutant: every entry is dropped while a read buffer is being sent.
MutDropWhileSending ==
  Read_BulkLen # 0 \/ (Task.type = "MERGE" /\ merge_stage # "START")

\* An entry whose request is no longer waited for is dropped.
Dropped ==
  \/ Task.type = "READ" /\ Read_BulkLen # 0
  \/ Task.type = "MERGE" /\ merge_stage # "START"

TaskStart ==
  /\ Running("next") /\ ut_list # <<>>
  /\ task' = IF Dropped THEN "pop" ELSE Task.type
  /\ UNCHANGED <<host, endpoints, isr, transport, shared, dice_hold, flash, flash_tag>>

\* The page is in Read_BulkBuf; then Read_BulkLen is set.
TaskRead ==
  /\ Running("READ")
  /\ Read_BulkBuf' = [i \in 1 .. Task.length |-> flash[Task.offset + i - 1]]
  /\ task' = "READY"
  /\ UNCHANGED <<host, endpoints, isr, transport, Read_BulkLen, ut_list, pb_pool,
                 pb_pool_used, dice_hold, flash, flash_tag>>

TaskReady ==
  /\ Running("READY")
  /\ Read_BulkLen' = Task.length
  /\ task' = "pop"
  /\ UNCHANGED <<host, endpoints, isr, transport, Read_BulkBuf, ut_list, pb_pool,
                 pb_pool_used, dice_hold, flash, flash_tag>>

\* Mutant: the tag is looked up when the entry is executed.
MutTagOfCbw == CBW.tag

TaskTag == Task.tag

\* Mutant: the buffer is released when the program starts.
MutFreedAtStart(held) == pb_pool_used \ {dice_hold, Task.buffer}

\* The buffers left in use once UBI_Write has waited for the program before
\* it on the die and started its own: the buffer of this one is held until
\* the next, unless a page of DATA_Write's own (meta data, PMT) follows.
UsedAfter(held) ==
  BUF_Free(dice_hold) \ (IF held = NoBuffer THEN {Task.buffer} ELSE {})

TaskWrite ==
  /\ Running("WRITE")
  /\ \E held \in {Task.buffer, NoBuffer} :
       /\ dice_hold' = held
       /\ pb_pool_used' = UsedAfter(held)
  /\ flash' = [s \in Sector |->
                 IF s \in TaskSectors THEN pb_pool[Task.buffer][s - Task.offset]
                                      ELSE flash[s]]
  /\ flash_tag' = [flash_tag EXCEPT ![PageOf(Task.offset)] = TaskTag]
  /\ task' = "pop"
  /\ UNCHANGED <<host, endpoints, isr, transport, Read_BulkBuf, Read_BulkLen,
                 ut_list, pb_pool>>

TaskMerge ==
  /\ Running("MERGE")
  /\ pb_pool' = [pb_pool EXCEPT ![Task.buffer] =
                   [i \in InPage |-> flash[Task.offset + i]]]
  /\ merge_stage' = "FINISH"
  /\ task' = "pop"
  /\ UNCHANGED <<host, endpoints, isr, CBW, BulkStage, Offset, Length, BulkBuf,
                 merge_count, Read_BulkBuf, Read_BulkLen, ut_list, pb_pool_used,
                 dice_hold, flash, flash_tag>>

TaskPop ==
  /\ Running("pop")
  /\ ut_list' = Tail(ut_list)
  /\ task' = "next"
  /\ UNCHANGED <<host, endpoints, isr, transport, Read_BulkBuf, Read_BulkLen,
                 pb_pool, pb_pool_used, dice_hold, flash, flash_tag>>

MainLoop == TaskStart \/ TaskRead \/ TaskReady \/ TaskWrite \/ TaskMerge \/ TaskPop

-----------------------------------------------------------------------------
(* The host and the USB controller. *)

\* With PromptISR a handler is done before the host's next token.
HostMayAct ==
  PromptISR => /\ isr.at = "off" /\ out_done = Nothing /\ ~in_done
               /\ ~out_nak /\ ~in_nak

HostCommand(c) ==
  /\ phase = "idle" /\ HostMayAct /\ hcmd.dTag < MaxCommands
  /\ hcmd' = [op |-> c.op, off |-> c.off, len |-> c.len, tag |-> c.tag,
              dTag |-> hcmd.dTag + 1]
  /\ phase' = "cbw" /\ moved' = 0 /\ tags' = Append(tags, c.tag)
  /\ UNCHANGED <<resets, disk, misread, endpoints, isr, transport, shared, store>>

OutNaked ==
  /\ phase \in {"cbw", "out"} /\ HostMayAct
  /\ ep_out = Nothing /\ ~out_nak
  /\ out_nak' = TRUE
  /\ UNCHANGED <<host, ep_out, ep_in, out_done, in_done, in_nak, isr, transport,
                 shared, store>>

\* A command block, received in CBW or in whatever buffer is primed.
OutCommand ==
  /\ phase = "cbw" /\ HostMayAct /\ ep_out # Nothing
  /\ CBW' = IF ep_out.what = "cbw" THEN hcmd ELSE CBW
  /\ ep_out' = Nothing /\ out_done' = [what |-> "cbw"]
  /\ phase' = CASE hcmd.op \in {"write", "verify"} -> "out"
                [] hcmd.op \in {"read", "info"} -> "in"
                [] hcmd.op = "status" -> "csw"
  /\ UNCHANGED <<hcmd, moved, resets, disk, misread, tags, ep_in, in_done,
                 out_nak, in_nak, isr, BulkStage, Offset, Length, BulkBuf, merge_stage,
                 merge_count, shared, store>>

OutData ==
  /\ phase = "out" /\ HostMayAct /\ ep_out.what = "data"
  /\ LET n == Smaller(ep_out.n, hcmd.len - moved)
     IN  /\ pb_pool' = [pb_pool EXCEPT ![ep_out.buf] =
                          [i \in InPage |-> IF i \in ep_out.at .. ep_out.at + n - 1
                                            THEN hcmd.dTag ELSE @[i]]]
         /\ out_done' = [what |-> "data", n |-> n]
         /\ moved' = moved + n
         /\ phase' = IF moved + n = hcmd.len THEN "csw" ELSE "out"
  /\ ep_out' = Nothing
  /\ UNCHANGED <<hcmd, resets, disk, misread, tags, ep_in, in_done, out_nak, in_nak, isr,
                 transport, Read_BulkBuf, Read_BulkLen, ut_list, pb_pool_used, store>>

InNaked ==
  /\ phase \in {"in", "csw"} /\ HostMayAct
  /\ ep_in = Nothing /\ ~in_nak
  /\ in_nak' = TRUE
  /\ UNCHANGED <<host, ep_out, ep_in, out_done, in_done, out_nak, isr, transport,
                 shared, store>>

\* The host takes what the IN endpoint sends.
InTransfer ==
  /\ phase \in {"in", "csw"} /\ HostMayAct /\ ep_in # Nothing
  /\ ep_in' = Nothing
  /\ in_done' = TRUE \/ (Clearing /\ in_done' = in_done)
  /\ \/ /\ phase = "in" /\ hcmd.op = "read" /\ ep_in.what = "data"
        /\ LET n == Smaller(ep_in.n, hcmd.len - moved)
           IN  /\ moved' = moved + n
               /\ phase' = IF moved + n = hcmd.len THEN "csw" ELSE "in"
               /\ misread' = (misread \/ \E i \in 1 .. n :
                    \/ i > Len(Read_BulkBuf)        \* left there by an earlier read
                    \/ Read_BulkBuf[i] # disk[hcmd.off + moved + i - 1])
        /\ UNCHANGED <<hcmd, disk>>
     \/ /\ phase = "in" /\ hcmd.op = "info" /\ ep_in.what = "info"
        /\ phase' = "csw"
        /\ UNCHANGED <<hcmd, moved, disk, misread>>
     \/ /\ phase = "csw" /\ ep_in = [what |-> "csw", dTag |-> hcmd.dTag]
        /\ phase' = "idle"
        /\ disk' = [s \in Sector |-> IF /\ hcmd.op = "write"
                                        /\ s \in hcmd.off .. hcmd.off + hcmd.len - 1
                                     THEN hcmd.dTag ELSE disk[s]]
        /\ UNCHANGED <<hcmd, moved, misread>>
     \/ /\ ~ \/ phase = "in" /\ hcmd.op = "info" /\ ep_in.what = "info"
             \/ phase = "in" /\ hcmd.op = "read" /\ ep_in.what = "data"
             \/ phase = "csw" /\ ep_in = [what |-> "csw", dTag |-> hcmd.dTag]
        /\ phase' = "confused"
        /\ UNCHANGED <<hcmd, moved, disk, misread>>
  /\ UNCHANGED <<resets, tags, ep_out, out_done, out_nak, in_nak, isr, transport, shared,
                 store>>

HostMayReset ==
  /\ phase # "idle" /\ HostMayAct /\ resets < MaxResets
  /\ resets' = resets + 1
  /\ phase' = "idle"
  /\ UNCHANGED <<hcmd, moved, disk, misread, tags>>

\* The class request: MSC_Reset only goes back to the command stage.
MSC_Reset ==
  /\ HostMayReset
  /\ BulkStage' = "CBW"
  /\ UNCHANGED <<endpoints, isr, CBW, Offset, Length, BulkBuf, merge_stage,
                 merge_count, shared, store>>

\* A bus reset: USB_Reset flushes the endpoints, USB_ResetCore leaves the
\* transport alone.
USB_Reset ==
  /\ HostMayReset
  /\ ep_out' = Nothing /\ ep_in' = Nothing
  /\ out_done' = Nothing /\ in_done' = FALSE
  /\ out_nak' = FALSE /\ in_nak' = FALSE
  /\ UNCHANGED <<isr, transport, shared, store>>

-----------------------------------------------------------------------------
Handlers == MSC_BulkOut \/ MSC_BulkIn \/ MSC_BulkOutNak \/ MSC_BulkInNak
Interrupts == USB_ISR \/ ISR_NextPart \/ Handlers
Tokens == OutNaked \/ OutCommand \/ OutData \/ InNaked \/ InTransfer

Next ==
  \/ Interrupts
  \/ MainLoop
  \/ Tokens
  \/ \E c \in Commands : HostCommand(c)
  \/ MSC_Reset \/ USB_Reset

Spec == Init /\ [][Next]_vars

\* A pending interrupt is taken and its handlers run; the main loop gets on
\* between interrupts, however often the host polls (strong fairness: every
\* interrupt preempts it, but returns to it); a host polls for what it has
\* begun.  The host owes no command and no reset.
Fairness == WF_vars(Interrupts) /\ SF_vars(MainLoop) /\ WF_vars(Tokens)
FairSpec == Spec /\ Fairness

-----------------------------------------------------------------------------
(* Properties. *)

TypeOK ==
  /\ phase \in Phases /\ moved \in Nat /\ resets \in 0 .. MaxResets
  /\ hcmd \in [op : Ops, off : Sector, len : Nat, tag : Tags, dTag : Nat]
  /\ CBW \in [op : Ops, off : Sector, len : Nat, tag : Tags, dTag : Nat]
  /\ disk \in [Sector -> Nat] /\ flash \in [Sector -> Nat] /\ misread \in BOOLEAN
  /\ isr.at \in {"off", "complete", "nak", "hung"}
  /\ BulkStage \in Stages /\ Offset \in Nat /\ Length \in Nat
  /\ BulkBuf \in Buffer \cup {NoBuffer} /\ dice_hold \in Buffer \cup {NoBuffer}
  /\ merge_stage \in {"NONE", "START", "FINISH"}
  /\ pb_pool \in [Buffer -> [InPage -> Nat]] /\ pb_pool_used \subseteq Buffer
  /\ task \in {"next", "READ", "READY", "WRITE", "MERGE", "pop"}

Queued(type) == {i \in DOMAIN ut_list : ut_list[i].type = type}
\* Entries the main loop still has to execute.
Waiting(type) == Queued(type) \ (IF task = "pop" THEN {1} ELSE {})

\* What a host reads is what it wrote last: a read queued behind the writes
\* sees them although their status was sent before they were programmed, a
\* read buffer is sent for the read it was filled for, and a page written in
\* part keeps its other sectors.
ReadsSeeWrites == ~misread

\* Without resets this does not take prompt handlers: what a host accepts as
\* the data of its read is that, however late NAKs and completions are handled.
\* (A host may then be sent the buffer of a read instead of a status; it does
\* not take that for data.)
LateReadsSeeWrites == resets = 0 => ReadsSeeWrites

\* Every page buffer in use has one use: write_buffer, the page being
\* programmed, a write in the list, or the bulk-out transfer under way.
OutBuffer ==
  IF \/ merge_stage # "NONE"
     \/ ep_out # Nothing /\ ep_out.what = "data"
     \/ out_done # Nothing /\ out_done.what = "data"
  THEN {BulkBuf} ELSE {}

BuffersAccounted ==
  LET queued == {ut_list[i].buffer : i \in Waiting("WRITE")}
      held == IF dice_hold = NoBuffer THEN {} ELSE {dice_hold}
  IN  /\ pb_pool_used = {0} \cup held \cup queued \cup OutBuffer
      /\ Cardinality(pb_pool_used) =
           1 + Cardinality(held) + Cardinality(Waiting("WRITE")) + Cardinality(OutBuffer)

\* No page buffer has two uses, whatever resets and interrupts do: data of the
\* host never lands in a buffer whose page is queued, or is being programmed.
NoBufferUsedTwice ==
  LET queued == {ut_list[i].buffer : i \in Waiting("WRITE")}
  IN  /\ Cardinality(queued) = Cardinality(Waiting("WRITE"))
      /\ queued \cup ({dice_hold} \ {NoBuffer}) \subseteq pb_pool_used
      /\ dice_hold \notin queued
      /\ (ep_out # Nothing /\ ep_out.what = "data") =>
           ep_out.buf \in pb_pool_used \ (queued \cup {dice_hold})

\* Every page of the flash carries the tag of the command whose data it holds,
\* although the next command block overwrites CBW while the write is queued.
TagsArrive ==
  \A p \in 0 .. NPage - 1 :
    LET sectors == {flash[PageStart(p) + i] : i \in InPage}
        newest == CHOOSE n \in sectors : \A m \in sectors : m <= n
    IN  newest # 0 => flash_tag[p] = tags[newest]

\* Every command the host has begun comes to its status: no handler waits for
\* a buffer that nobody releases, and none hangs on ASSERT(ut_push != ut_pop).
CommandsEnd == (phase # "idle") ~> (phase = "idle")

\* What the host knows to be written reaches the flash when it pauses.
WritesReachFlash == (phase = "idle") ~> (phase # "idle" \/ flash = disk)

=============================================================================
