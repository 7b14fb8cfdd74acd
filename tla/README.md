# RansomTag in TLA+

RansomTag has three parts: a hypervisor extension that *tags* the storage
commands of a guest (`01.Detection modules`, a BitVisor fork), the firmware of a
USB SSD that *retains* the pages tagged writes replace
(`02.Data backup and recovery modules`, the OpenNFM flash translation layer with
a Data Retainer), and *recovery* tools (`03.Recovery tool`).  This directory
holds TLA+ modules of the program, the TLC configurations that check them, and
TLAPS proofs.  Paths below are relative to the part they belong to.

## Inventory

| component | state | operations | hard behaviour | what makes it correct |
|---|---|---|---|---|
| FTL data path and Data Retainer (`core/ftl/ftl_data.c`, `PMT_Update`, `FTL_Write/Read/Trim`) | mapping table, block dirty table with `BACKUPFLAG`, hot, cold and reclaim journals, spare area of every page | format, write with tag, trim, reclaim, read plain / recover | live pages move while spare areas keep physical locations; pins and dirty counts share a byte; pinned space is never returned | current data readable, last benign version readable, pinned pages never erased, no ASSERT fails |
| mount, commit, replay (`FTL_Init`, `DATA_Commit`, `DATA_Replay`) | committed root, BDT, PMT; editions of the two journals | mount, commit at reclaim or at a PMT eviction, replay by edition | power loss between any two programs | the mounted device holds every acknowledged write and every pin |
| PMT cache and log (`ftl_pmt.c`) | four cached clusters, their LRU counts, the PMT blocks | load, evict, commit, reclaim PMT blocks | an eviction commits everything in the middle of a write; the reclaim erases what the last root still names | a cluster is found as it was last updated, dirty counts let the reclaim empty its block |
| ROOT, BDT, HDI (`ftl_root.c`, `ftl_bdt.c`, `ftl_hdi.c`) | two blocks each, next page | commit, scan at mount, drop pins at `THRESHOLD` | power loss while swapping the two blocks | the last complete copy is found |
| MFT walk (`FTL_Read` with the MFT tag) | `lastblock`, `lastpage`, `last_addr`, `backupmft` | read | one cursor for all readers, keyed by physical location | successive reads return successive older versions |
| UBI (`core/ubi`) | index, area and anchor tables on flash, free blocks, die buffers | write, erase (remap to a free block), bad block recovery | program failures found one call late, three logs updated in order | a logical block has one physical block, no block has two uses, no page is lost |
| MTD, NAND (`core/mtd`, `drv_nand.c`) | state of every page, status of the last program | program, read, erase | the status is dropped by some commands | a page is programmed once between erases |
| ONFM (`core/onfm.c`) | merge buffer, one-page read cache | sector read and write | the cache ignores tags | a plain read returns the current version |
| USB mass storage and buffers (`mscuser.c`, `usbcore.c`, `sys/lpc313x/main.c`, `core/buf`) | `ut_list`, `Read_BulkLen`, `merge_stage`, `BulkStage`, a pool of four page buffers | interrupts push, main loop pops | interrupt and loop share variables without a lock; buffers run out | every command is answered, in order and with its data; a buffer has one use |
| tagger (`drivers/usb/ransomtag.c`) | parsed file system layout, trigger flags, directory list, session flags, scan count | inspect each command and its data, write a tag into the CDB | parsing state that only some command sequences reset; no channel to the tools | metadata writes get the MFT tag, other writes the ransom tag, reads of the tools theirs and nobody else's |
| guest introspection, USB interposition (`ransomtag_core.c`, `usb_mscd.c`) | the process that runs; shadowed transfers | | | |
| recovery tools (`scanmft.py`, `ransomrecover.py`, `ransomtag-recover.py`) | files on disk | scan MFT versions, copy recovered files | they speak to the tagger by what they read | sessions and scans are seen as what they are |

A host command flows down this list: the tagger writes the tag into byte 6 of
the CDB, the USB front end queues it, the main loop calls `ONFM_Write` or
`ONFM_Read` with the two booleans `CheckTag` decodes, ONFM turns sectors into
pages and calls the FTL, and the FTL programs pages through UBI and MTD.  All
firmware below `ut_list` runs in one thread, call by call; above it, interrupt
handlers run between any two steps of the loop.

What is hard to test is listed with its source line under "hazards" in
`PROJECT.json`.

## Modules

| module | models | extends or instantiates |
|---|---|---|
| `FtlData` | the FTL data path and the Data Retainer | |
| `FtlRetention` | what that promises the host, request by request: one current and one retained version per address | |
| `FtlDataRefinement` | `FtlData` implements `FtlRetention` | `FtlData`, instance of `FtlRetention` |
| `FtlMount` | commit, power loss, replay | `FtlData` |
| `PmtLog` | the mapping table's own blocks, below one commit of `FtlMount` | |
| `UbiWrite` | page writes, failed programs, bad block recovery | |
| `UbiIndex` | the three table logs behind a remapping, below one step of `UbiWrite` | |
| `ReadPath` | tag byte, read cache, plain, recover and MFT reads of the device | |
| `WinScan` | Windows tagger, NTFS tools and other processes on that device | `ReadPath` |
| `LinuxTagger` | Linux tagger, ext4 tool and guest | |
| `UsbMsc` | host, USB controller, interrupt handlers, main loop, buffer pool | |
| `FtlDataProofs`, `FtlMountProofs`, `PmtLogProofs`, `UbiWriteProofs`, `UbiIndexProofs`, `UsbMscProofs`, `WinScanProofs`, `LinuxTaggerProofs` | theorems and proofs | the module they are named for |
| `MC*` | instances for TLC: constants, views, symmetry, bounds | the module they are named for |

The composition is by layers.  `FtlMount` and `WinScan` extend the module below
them; `PmtLog`, `UbiIndex` and `UbiWrite` refine a step another module takes for
one.  Composing them all in one state space is out of TLC's reach, so each states
what the layer above takes for granted as its properties.

### FtlData: writes, reclaim, retained versions

| variable | code |
|---|---|
| `nand` | contents and spare area of the pages of the data blocks; `old` is `spare[2]`, which `spare[3]` repeats |
| `pmt` | the mapping table `PMT_Search` reads and `PMT_Update` writes |
| `bdt`, `backup_block_count` | `block_dirty_table` and the field of `root_table` |
| `journal`, `reclaim` | `root_table.hot_journal[0]`, `cold_journal[0]`, and the block of `reclaim_journal[0]`; its page is 0 between calls |
| `pc` | where `FTL_Write` is: between calls, between `DATA_Write` and `DATA_Reclaim`, or stopped in an ASSERT (`"hung"`) |
| `latest`, `benign` | history: the version last written, the version a ransom tag must keep |
| `asked` | history: the request served last, with its tag |
| `starved` | history: some reclaim has found no dirty page in any block it may take |

`DATA_Write` is the whole of the C function for a write with a buffer,
including the search for the old location (`OldLogicAddr`), the dirty count or
pin (`PMT_Update`), the spare area, the journal page (`NextPage`, with the carry
of the macro) and the meta data page of a block that became full.  `FTL_Trim` is
one iteration of its loop.  `DATA_Reclaim` is split by outcome: no live page
(`ReclaimErase`), copy and rotate (`ReclaimCopy`), and the ways it stops: the
ASSERT that compares copied pages with the dirty count, a program of a page
that is not erased, and a search that never ends.

Abstractions: a page content is a model value; logical blocks are numbered from
0 (`DATA_START_BLOCK`); the heat of a page is arbitrary; the UBI layer below
programs and erases without failing (`UbiWrite` is about its failures);
`DATA_Commit` and the PMT cache change nothing that a running device reads.  An
uninitialised `oldLogicAddr` (`ftl_data.c:250`) is any of `StackValues`.

`FtlRetention` says the same to a host that knows no blocks: a plain write sets
the current and the retained version of an address, a ransom-tagged one only the
current version where there is one to protect, and once the device is full
nothing is promised.  Requests are part of its state: `asked` is the one served
last, with its tag, so that a write with the ransom tag has to be a
`RansomWrite`; and `status` tells a call that has not returned from one that
hangs, which only a full device may do.  The refinement mapping reads the
abstract versions through the mapping table and the spare areas
(`current <- ReadVersions`, `retained <- RecoverVersions`, `full <- starved`, and
`status` from `pc`), so that every reclaim must be a step that changes neither.
A search for a victim that never ends is such a hang too (`ReclaimSearchForever`).

### FtlMount: commit, power loss, mount

`FtlMount` extends `FtlData`: each of its actions is an action of `FtlData`
with what the call also does to flash, to the editions and to the cache of
mapping clusters.

| variable | code |
|---|---|
| `root` | ROOT, PMT and BDT as of the last program of a ROOT page, which is what makes a commit one step |
| `edition`, `spare1` | `edition_in_hot_journal`, `edition_in_cold_journal`; `spare[1]` of every page |
| `cached` | the clusters in `pm_node_caches`; a full cache commits everything (`PMT_Load`) |
| `power`, `losses` | off, on, or the journal `FTL_Init` is replaying; bound |
| `torn`, `risks` | history: in which windows power has been lost |

`FTL_Write` distinguishes when the cache evicts: a tagged write looks its
address up first (before the page gets its edition), an untagged one in
`PMT_Update` (after the page is programmed and before the journal moves past
it).  `PowerLoss` is a loss between two calls, or between two programs where the
result is the same; `PowerLossInWrite` the one before a meta data page;
`PowerLossInReclaim` the one between the erase and the commit.  `FTL_Init` reads
the tables, drops the pins at `THRESHOLD`, replays the hot and then the cold
journal, rebuilds a missing meta data page and goes on with an interrupted
reclaim.  It is one action for the tables (`InitTables`), one per replayed page
(`ReplayPage`) and one per journal (`ReplayEnds`); `ReplaySpins` is the loop of
`DATA_Replay` at a page whose edition it does not expect.  A replayed page may
evict a cluster and so commit (`ReplayLoad`), and power may be lost after any of
these steps; `power` is then the journal that was being replayed.

Abstractions: a program is atomic and the one a write has issued completes;
`UBI_Erase` is durable when it returns (`UbiIndex`); the look-ups of a reclaim
hit the cache; power lost while a reclaim still copies is power lost before it
(the mount does not get as far as looking at the reclaim block); a starved
device is not mounted again.  The firmware as committed formats the flash at
every power-up (`main.c` has `ONFM_Mount` commented out), so what is modelled is
the contract of the FTL interface (`ftl.h:59`), not a power cycle of that build.

The properties exclude windows in which the code does not keep them.  `risks`
records which of them the power losses so far have hit:

| risk | what happens there |
|---|---|
| `reclaim` | power lost between a full journal and the next commit: the meta data page is readable and has no edition, `DATA_Replay` waits for one for ever (`ftl_data.c:652`) |
| `torn` | the last commit was `PMT_Load`'s, in the middle of a write or of a replayed page (`ftl_pmt.c:275`): the committed journal starts at a page with an edition of the previous count |
| `order` | an address written cold and then hot since the commit: the hot journal is replayed first, the older page wins (`ftl_api.c:132`) |
| `pins` | a block pinned since the commit: the replay never pins (`ftl_data.c:659`) |
| `threshold` | the mount dropped the pins (`ftl_bdt.c:95`): tagged overwrites were never counted dirty, so a later reclaim fails `ASSERT` (`ftl_data.c:553`) |

### PmtLog: the PMT blocks

`pmt` are the pages of the PMT blocks, `flash_root` the ROOT and BDT tables as
last programmed, `root_table`, `block_dirty_table`, `cache` and `meta_data` the
variables of that name in RAM; `pc`, `slot` and `want` say where `PMT_Commit`,
called by `PMT_Load` or by `DATA_Commit`, is.  Each dirty slot is a step
(`CommitDirty`: program, count the origin dirty), then the meta data page of a
full block (`ProgramMeta`), `pmt_reclaim_blocks`, and at last `CommitRoot`.  The
content of a cluster is a version.

ROOT and BDT are programmed in one step: ROOT names the BDT page, so a BDT page
newer than the ROOT page is not read.  Two windows are excluded (`Risks`):
`commit`, power lost between a PMT page and its ROOT page, when the old ROOT may
name a page `pmt_reclaim_blocks` has erased (`ftl_pmt.c:537`) and the pages from
its `pmt_current_block` on are programmed already; and `meta`, a block found
half full at a mount, of which `PMT_Init` rebuilds no `meta_data`
(`ftl_pmt.c:137`) and whose early pages a later reclaim takes for dead.
`PmtAssumption` asks for enough PMT blocks that the dirtiest one outweighs what
a commit can count in the reclaim block; the firmware has five times as many PMT
pages as clusters.

### UsbMsc: the USB front end

Four parties: the host (`phase`, `hcmd`, `moved`), the USB controller (`ep_out`,
`ep_in`: what is primed; `*_done`, `*_nak`: what is latched), the interrupt
handlers (`isr`, `CBW`, `BulkStage`, `Offset`, `Length`, `BulkBuf`,
`merge_stage`), and the main loop (`task`, `dice_hold`).  `ut_list`,
`Read_BulkBuf`, `Read_BulkLen` and the buffer pool are shared.  `USB_ISR`
collects the completions pending at its start and, when they are done, the NAKs
latched by then (`ISR_NextPart`); every handler it calls (`MSC_BulkOut`,
`MSC_BulkIn` and the two NAK handlers) is one step.  `USB_ISR` clears the bit of
a completion after its handler has returned (`lpc313x_usbdcd.c:725`, `:733`): a
transfer that `MSC_BulkIn` has primed and that completes before that loses its
completion (`Clearing`; `MSC_BulkOut` primes no OUT transfer).  The main loop cannot run
before `USB_ISR` is through, and may be preempted between any two of its steps,
which are cut where it reads or writes a shared variable.

`MSC_Reset` and `USB_Reset` are what the class and the bus reset change, and
nothing else.  The flash is one value per sector and one tag per page.

### UbiWrite and UbiIndex: bad blocks, and tables that survive

`UbiWrite` models one die: `failed` is the NAND status register, which the next
command overwrites; `dice_hold` the page whose program nobody has checked yet;
`map`, `ecs`, `free` the area and free block tables; `pc` and `req` the place
and the variables of `UBI_Write`.  Programs and erases fail anywhere, also in
the copy of a recovery.  Its history variables record what the code does not
cope with, and the properties exclude:

| variable | window |
|---|---|
| `swallowed` | `MTD_Read` waits for the die and drops the status (`mtd_api.c:147`): the failed page is lost |
| `misplaced` | `UBI_Write` programs into the physical block it looked up before a recovery replaced it (`ubi_api.c:256`, `:311`) |
| `stripped` | the die buffer keeps two of four spare words: a recovered page loses its retained location (`ubi_api.c:352`) |
| `twice` | a synchronous recovery starts every round from the block of its first attempt, which an earlier round has released (`ubi_api.c:321`) |
| `exhausted` | no free block is left: both buffers stay taken (`ubi_api.c:542`) |
| `refused` | `DATA_Write` asserts success of a call that reports the failure of an earlier page (`ftl_data.c:235`) |

`UbiIndex` is what `UbiWrite` takes for one step of its tables: `flash` and
`anchors` are the pages programmed in every block, the last readable page of a
log is its content.  `UBI_Erase` and `ubi_reclaim_badblock` start an update;
`CommitToNextPage`, `CommitToNewBlock`, `AREA_Update`, `IndexReclaim`,
`AnchorReclaim`, `AnchorWrite`, `AnchorDone` and `IndexWrite` are its page programs, and
power may be lost before each; `ANCHOR_Init`, `INDEX_Init` and `AREA_Init` are
the mount.  `early` marks the window of the finding below: a block was erased that
the last index table on flash, `saved`, still uses.  `MappingSurvives`,
`BlocksAccounted` and `MountSucceeds` are stated outside it.

### ReadPath and WinScan: what a read returns, and to whom

`ReadPath` is the device as far as a read can tell: `nand` maps a location to
the address, the number of the write and `spare[2]`; `pmt` and `pinned` are the
FTL's; `last_addr`, `last_loc`, `backupmft` are the walk's static variables;
`cache` is `onfm_read_buffer`.  A write takes any erased location and a reclaim
moves any page, because `FtlData` already says which ones.  `DeviceRead` is
`ONFM_Read` of whole pages, with the read-ahead of a second one;
`DeviceReadPart` goes through the cache, which answers whatever the tag.

`WinScan` adds the tagger of the Windows guest (`sector2048count`, the tag by
process, and of a write also by the file object of a pending request,
`ransomtag.c:2276`), `scanmft` (`at`, `cluster`, `version`), `ransomrecover`, and
processes of any name whose commands pass meanwhile (`Attributed = FALSE`: the
process that runs need not be the one that issued the command,
`ransomtag.c:2022`).  `scanmft` means to stop at a version equal to the one
before, but compares bytes with a list of them (`scanmft.py:87-95`), which never
are: it always reads a cluster `versions` times (`ClusterDone`).

`WalksInOrder` says what those reads get: of a cluster the device has begun to
walk, the n-th read since the cluster was last written returns its n-th newest
version, as long as a chain of `spare[2]` leads there.  A write of the cluster
makes the walk start over; a reclaim that moves or erases a page of it, and a
read of another process that gets the MFT tag, end what is promised (`walked`).

`onfm_read_sector` answers a part of a page from the cache by address alone
(`onfm.c:263`).  So a part `ransomrecover` reads may be the current version, left
there by an untagged read, and a part another process reads may be an old one,
left there by the tool.  `UntaggedReadsCurrent` and `RecoverReadsRetained`
therefore judge a read by the tag it is *served* with: its own, or that of the
read that filled the cache.  They say that a page in the cache is never out of
date with respect to that tag, through writes and reclaims; they do not say that
a tool gets its own kind of answer, which the code does not ensure.

Limits: of neighbouring MFT clusters every second one is answered with the
current version only (`ftl_api.c:213`), although the README promises older
versions (`README.md:15`); `WalksInOrder` is about clusters the device walks.
As committed every write outside the MFT gets the ransom tag: blacklist, entropy
and pattern lists are commented out (`ransomtag.c:2234`).

### LinuxTagger: the ext4 guest

`super_block`, the two `read_*_metadata` triggers, `group_desc_loaded`,
`loaded_group_desc_count`, `parse_inode_trigger`, `dir_inode_extent_block`,
`mfttag_start` and `recovertag_start` are the variables of `ransomtag.c`; `cmd`
is the command on the bus; `disk` and `past` hold, per block, the directories
the tagger would find in it.  `AnalyseRead` and `AnalyseWrite` are
`linux_analyse_cbw`; `HandleSectors` is what it does with the data; a command
may be aborted between the two.  At most four groups (`ransomtag.c:931`).  A
tagger that loaded another block as the superblock is left open (`Quiet`), and
such a run ends there.

`FilesProtected` shows the boundaries of the code: the block behind each inode
table, and the first blocks of the disk while a table is unknown, pass as
inode tables because the comparison is inclusive (`ransomtag.c:846`); with all
500 directory entries used the search runs on behind the array (`:754`).

## Runs

| run | instance | shows |
|---|---|---|
| ransom | 4 blocks of 3 pages, 3 addresses, 2 contents, tags none and ransom, until starved | plain and recover reads, ASSERTs, and the refinement of `FtlRetention`: no ransom-tagged request replaces a retained version, no call hangs |
| starved | 3 blocks, 2 addresses, all tags, past starvation | types, `IInv` (with uninitialised old locations), and pinned pages in the states the other runs exclude; every ASSERT and the endless search fire |
| mount | 4 blocks, 2 addresses in 2 clusters, cache of 1, no tags, 1 power loss | `NeverStarved`; `WritesSurvive`; dirty counts exact after the mount |
| retain | 4 blocks, 2 addresses, 2 contents, tags none and ransom, cache of 1, threshold 2, 2 power losses | `MountEnds`; the retained version survives; the pin count stays exact |
| pmt | 3 PMT blocks of 4 pages, 3 clusters, cache of 2, 1 power loss | no cluster lost, dirty counts exact, no ASSERT |
| usb | 2 pages of 2 sectors, 4 buffers, 3 commands out of 6, no reset | data, order, tags, buffers; every command ends (liveness) |
| usbreset | the same with 3 commands out of 4, 2 class or bus resets anywhere and interrupts as late as they like | a buffer never has two uses; before a reset, reads get the right data |
| ubi | 2 logical blocks of 2 pages, 2 free ones, 2 failures, 1 erase | pages, spare words, blocks and buffers; calls return (liveness) |
| ubiplr | 2 logical blocks, 2 free ones, logs of 2 pages, 2 updates, 2 power losses, 3 failed programs | the mount finds a mapping with every block in one role |
| areaplr | 3 free blocks, worn ones only, no failures | violation of `AreaTableFound` (finding) |
| scan | 3 clusters, the MFT in two of them that are not neighbours, 2 changes of the flash, 4 versions, 1 scan | scan phase, the order of a walk, reads served untagged and as recover reads |
| ext4 | 2 groups, 9 blocks, list of 2, 2 writes, 1 aborted command, 1 stopped tool | tags of metadata, files and reads |

The runs take from seconds to about three minutes and reach between 60 thousand
and two million states.

### Bounds

FtlData, FtlMount.  A block of three pages has two data pages and the meta data
page, the least with a partly dirty block.  Three blocks have a role; the fourth
is pinned or a victim while roles rotate through it.  Three addresses share
blocks and retain each other's pages by accident, and three pages cannot all be
in one block; a second content tells a version from the next.  What more blocks
could add to `FtlData` is covered by the proofs, which hold for any geometry.
With a cache of one cluster and two addresses in two clusters every access after
the other address evicts; with two losses the second one interrupts a device
that was itself replayed.  `OneWritten` keeps run `retain` to one address that
holds data and another that only evicts, except early on, when both may hold the
same; it stops at the risks above other than `threshold`.  `NotStarved` stops a
run at the first starved state.

`ReadableView` and `MountView` identify states that differ only in the contents
of pages that can no longer be read: no action and no property looks at them
except to see that they are not erased, which the views keep.  `MountView` also
drops the committed tables and editions once the instance allows no further
power loss.  Addresses and contents are symmetric: they are only compared.

PmtLog.  Three blocks are the least, one current, one for reclaim, one with live
pages; a cache of two makes a commit program none, one or two clusters, and four
pages per block let a commit run over the end of its block.  `TablesView` drops
pages neither table names, and compares versions only with the latest one.

UsbMsc.  Two pages of two sectors have writes of a whole page, of part of one
and across both; four buffers are the shipped number; three commands let a
status precede its write, and a read follow it.  `PromptISR` says that a
completed transfer or a NAK is handled before the host's next token; the code
does not ensure this.  Run `usb` takes it, since without it the host can be sent
the wrong thing: a NAK handled late finds `Read_BulkLen` still set and primes the
buffer of a read already sent (`mscuser.c:601`), also in place of a status.  What
the front end keeps even then is in run `usbreset`, without `PromptISR`: no
buffer gets two uses, and while nothing was reset the host accepts no wrong
sector as the data of a read (`LateReadsSeeWrites`).  The commands of `usbreset`
include a read of both pages, so that the buffer of the first is sent and zeroed
before the second is queued.  A verify never gives its buffer back
(`mscuser.c:214`), so run `usb` sends none.

UbiWrite, UbiIndex.  Two logical blocks exchange blocks through the free table;
two failures put the second into the recovery of the first; `TablesInOrder` stops
`UbiIndex` where the window of its finding is hit.  Logs of two pages make
every second update take a new block, so three updates fill all three logs in
all orders.

WinScan.  Two changes give a cluster three versions; a scan of two clusters
restarts the walk; every read, write and reclaim of others may fall between any
two reads of the tools.  `ScanView` leaves out what no later step and no property looks at,
such as the place of a walk that has been disturbed.

LinuxTagger.  Two groups tell the arrays' filled entries from the empty ones; a
list of two fills up; one aborted command leaves a trigger set.

Deadlock is checked in run `pmt`.  The other systems may really stop: in an
ASSERT, with the bound on host commands, writes or failures used up, or in a
state left open (`Quiet`).

### Fairness

`UsbMsc.FairSpec`: weak fairness of the interrupt handlers (a pending interrupt
is taken), strong fairness of the main loop (a host that polls an endpoint makes
every NAK an interrupt, but each handler returns to the loop, so the loop gets
on whenever it is enabled again and again), weak fairness of the host's tokens
for a command it has begun.  The host owes no command and no reset.
`UbiWrite.Spec`: weak fairness of the steps inside a call; no caller owes a call.

## Finding

`areaplr`: when the area block and the index block are full in the same update,
`INDEX_Update_AreaReclaim` puts the old area block into the free table in RAM,
and `index_update` may take and erase it for the new index block before an index
table without it is on flash.  After a power loss the last index table names an
erased area table.  The comment at `ubi_index.c:277` says there is no such
window.  `ubiplr` shows that, with this window left out, every power loss leaves
a mountable device.

Known limits that are not findings (no comment of the code says otherwise, or
the shipped build does not get there) are the excluded windows tabulated above,
and these: an MFT-tagged write names the version it replaces but does not pin it
(`ftl_data.c:285`), so the walk ends early once that block is reclaimed; a device
starved by pins stops in an ASSERT (`ftl_data.c:553`), because pins are only
dropped at mount (`cmn.h:94`).

## Proofs

`FtlDataProofs` proves `TypeCorrect`, `Spec => []TypeOK`, from the assumptions on
the constants: at least three blocks, 2 to 128 pages a block (which keeps a
dirty count below `BACKUPFLAG`), tags among the three, `StackValues` well typed.
`TypeOK` is inductive by itself: a lemma per action, and under it lemmas about
the operators (`NextPageType`, `OldLogicAddrType`, `PlacementFacts`, ...).

It then proves `Invariant`, `Spec => []IInv`, and from it
`ReadsReturnLatest`, `RetainerKeepsBenign`, `NoAssertFails` and
`BackupBlocksCounted`.  None of the four is inductive:

- that a retained page survives `DATA_Reclaim` needs its block to be pinned
  (`BenignInv`) and victims to be unpinned;
- that the copy loop finds every live page needs the victim to end in its meta
  data (`MetaInv`) and the mapping table to point at data pages of the address
  (`MapInv`), the last ones (`Current`);
- that it copies as many as the dirty count says needs `Exact`: in a block
  that is not pinned, live and dirty pages make up the pages handed out;
- that its target is erased needs `Roles` and `ReclaimReady`, and that the next
  write finds an erased page needs `JournalTail` and `PcInv`.

`Exact` speaks of unpinned blocks.  Of a pinned one only `Bounded`, an
inequality, can be said, because a tagged overwrite pins without counting; the
byte then holds at most `BACKUPFLAG` plus the pages handed out.  The invariant
comes in layers: `Sound` (roles, bounds, a mapping table that points at pages
which are there), `Layout` (`Sound` and the erased tails of the journals), and on
top of `Layout`, each kept by a step if it held before (`Carried`), `Exact`,
`Current`, `Discarded`, `BenignInv` and `CountInv`.  There is one lemma per action
and outcome: `WriteStep`, `TrimStep`, `EraseStep`, `CopyStep`, and `ReclaimStep`,
which shows that the ASSERTs of a reclaim can fail only if `Exact` does not hold.
`RemapSound` is what `PMT_Update` and the advance of a journal page do together,
for a write and for a replay.  Counting lemmas (`DirtyStep`, `VictimCount`,
`CountKept`) carry the cardinalities.  `IInv` promises nothing once `starved`
is set, and `StarvedStays` shows that it is never reset.

It proves `PinsProtect`, `Spec => PinnedPagesKept`, also for starved devices.
There `IInv` says nothing, and what carries the proof is that pages of a block are programmed first to last (`FillOrder`) and no journal is ahead of its
block (`JournalFill`): then the meta data page a write adds falls on an erased
page.  That flags outlive every step until starvation (`FlagOutlives`) follows
from `Bounded`.

`PlainHostNeverStarves` says when a device is never starved: the host tags
nothing and has fewer addresses than `(NBlock - 2) * MAX_DIRTY_PAGES`.  The firmware
offers at most `(NBlock - 3) * MAX_DIRTY_PAGES` (`FTL_Capacity`, `ftl_api.c:340`, takes
off the three journals before its over-provisioning).  Nothing is ever pinned then (`NothingPinned`, from
`CountInv`); and if no block the search looks at had a dirty page, then by `Exact`
each of them would hold `MAX_DIRTY_PAGES` live pages, all of different addresses
(`DirtyPageFound`), which is more than there are.

Last, it proves `ImplementsRetention`, `Spec => RetentionSpec`: `ViewAgrees` ties
what the reads return to the history variables, from `IInv`; then a write with a
tag is the abstract step of that tag, a trim is `Trim`, a reclaim is `Return`, and a
step that starves the device is `Exhausted`.  A step to `"hung"` is one of those.

`FtlMountProofs` proves `MountAlwaysEnds`, `NoAssertFailsAfterMount`,
`WritesSurvivePowerLoss`, `RetainedSurvivesPowerLoss`, `CountSurvivesPowerLoss` and
`PlainHostNeverStarvesAfterMount`, for any geometry, cache size, assignment of
addresses to clusters, threshold and number of power losses, also of power losses
during a mount.  The inductive invariant is `MInv`, `MountInvariant`; each risk that
no power loss has left adds a layer to it:

| layer | while there is no risk of | what it says |
|---|---|---|
| `FlashInv` | `reclaim`, `torn` | the tables in RAM are `Sound`; past its page a journal is erased or, during its replay, holds data pages whose editions count on (`TailInv`); the committed tables are `Sound` too, and RAM differs from them by the pages the journals got since, which the editions number (`CommittedIn`) |
| `ExactInv` | also `threshold` | the dirty counts are exact, in RAM and as committed |
| `CurrentInv` | also `order` | the page that a replay of the tables would end with for an address (`Wins`) has its latest version |
| `RetainedInv` | any | that page is or names the retained version, in a pinned block |

The argument: a loss of power puts the committed tables in the place of those in
RAM, and `CommittedIn` is what makes them good for a replay: the pages since the
commit are still there, because pages are only appended and every erase is
followed by a commit, and they have the editions from 0 on, so that `DATA_Replay`
takes exactly them and stops at the first erased page.  `Wins` does not change
when a page is replayed (`ReplayWins`): a page taken is one the table then names.
When the replay is over nothing is left to take, and `CurrentInv` is `Current`
(`OnTables`).  A commit in the middle of a replay is `torn`, as one in the middle of
a write is; then nothing is said of the committed tables until the next commit.
`Exact` is kept because a replayed page counts the version it replaces in the same
block as the write did (`RemapSound`).  A device that hangs while it is safe did so
in a reclaim (`HungInv`), after a dropped pin left a count that is not exact, and a
power loss there is one of the `reclaim` window.  The count of pins needs no
condition on the threshold, since `InitTables` drops flags and count together
(`PinsCounted`; that no flag is left is `Bounded`).

`PmtLogProofs` proves `EveryClusterIsFound`, `TheLastCommitSurvives`,
`DirtyCountsAreExact` and `NoAssertFails`, for any number of clusters, blocks,
pages a block, slots and power losses that `PmtAssumption` admits, from one
inductive invariant: while none of the windows of `risks` has been entered,
`Invariants` holds.  `MapInv` says that the page of every cluster that is not dirty
in the cache has its latest version, and between commits the committed one too;
`CacheInv` that the slots hold different clusters, each the latest version;
`BlockInv` that the current block is filled from its first page on, the reclaim
block is erased, and a cluster whose page was in it will be programmed by the
commit under way before another block is full; `MetaInv` that the meta data of a
full block, and `meta_data` of the current one, name the clusters whose pages are
there; `CountInv` that dirty and live pages make up the pages programmed.  None of
the four properties is inductive without the others: a cluster is found because
the reclaim copied it, it copied it because the meta data named it, and the
assertion on its target holds because the count was exact.  That the victim is a
full block, dirtier than the cache is large, is a pigeonhole argument
(`DirtiestIsFull`) from the last clause of `PmtAssumption`, which the shipped
sizes satisfy: otherwise the other blocks would hold more pages than there are
clusters.

`WinScanProofs` proves `TypeCorrect`, `PhaseAlwaysKept` and
`ReadsGetWhatTheyAreServed`, which is `UntaggedReadsCurrent` and
`RecoverReadsRetained`, from one inductive invariant, `ScanInv`: the mapping
table points at pages of its address (`MapInv`); a version to preserve is the
mapped page or the one it names, in a pinned block (`RetainInv`); a page in the
read cache is what a read with the tag that brought it there would return now
(`CacheInv`); the tagger's count is where the tool is, until a scan is cut short
(`PhaseInv`).

`UbiWriteProofs` proves `BlocksHaveOneRole`, `BuffersAreReleased`, `NoPageLost` and
`NoLocationLost` from `IInv`, for any number of blocks and failures: a block that
a recovery may release, that of the held page or the one the request began with,
belongs to no other logical block (`RoleInv`); there is one buffer for the held
page and one for the request (`BufferInv`); and the held page is the last one
programmed of its logical block, in the block that one maps to, while every page
before it is in flash (`DataInv`), so that a recovery, which copies the pages
before the bad one, copies all there are.  The proof made one window wider than
the first model had it: a copy that fails after the block it copies from has been
released may erase that very block, so `twice` is set there too.

`UbiIndexProofs` proves `MountFindsData`, `OneRole` and `TablesFound`, for any number
of logical and physical blocks, pages a block, anchor blocks, operations, failed
programs and power losses, from `FormatAssumption` (the format gives every block
one role) and `CountAssumption` (blocks of two pages or more, two anchor blocks or
more).  The mapping is in two places, on flash and in RAM, and the invariant has
a part for each: `SavedInv` says what a mount would find, that the
area table the last index table names, with the update it announces applied, maps
every logical block to what the caller left in it and uses no block for two
things; `MineInv` says the same of the mapping in RAM, or of the one a mount is
about to read.  `AreaInv` ties the two: while the area table is written, either
the index table on flash announces this very update (`UpToDate`), or the area
table goes to a block that table does not need (`Fresh`).  `RecordInv` says that a
record of the anchor leads to the last index table or to nothing that can be
read, `IndexInv` that a new index block is not needed by that table and is already the
only one announced, `LoadInv` that a mount works with what `saved` holds, and
`AnchorsInv` which anchor blocks have records.  `SavedInv` speaks of the last
index table only while its block has not been erased (`Intact`): after failed
programs the block may be reclaimed before a newer table is written, and then a
mount fails rather than finds a wrong mapping.  The invariant is void once
`early` is set, and `EarlyStays` shows that this is never undone.  `TablesFound`
adds `LuckyInv`, which holds while no program has failed and no free block was
wanting: the last index table is intact, and a block announced in its place is
empty and was announced when the table's own block was full, so that a mount
which reads the older of two anchor records starts the same reclaim again.

`UsbMscProofs` proves `NoBufferIsUsedTwice`, `Spec => []NoBufferUsedTwice`, for any
number of buffers, commands and resets and without `PromptISR`.  `BufferInv` says
that the buffers of waiting writes, of the page being programmed and of the
transfer under way are in use and differ.  It rests on two other invariants.
`NakInv` is the handshake: from a NAK of the OUT endpoint to its handler nothing is
primed and no completed transfer is left, so `MSC_BulkOutNak` never gives
`BulkBuf` another buffer while a page is received into it.  `TaskInv` keeps the
main loop at the head of the list, and at a merge only while it is waited for.

It also proves the four invariants of run `usb`, as `UndisturbedTypes`,
`BuffersAreAccounted`, `ReadsAreOfWrites` and `TagsReachFlash`, for any number of
buffers, pages, sectors per page and commands.  They are stated under
`Undisturbed`, the conditions of that run: `PromptISR`, no resets, and no verify,
since `MSC_MemoryVerify` keeps its buffer.
None of the four is inductive; `ServiceInv` is, with the three above:

| part | what it says | why it is needed |
|---|---|---|
| `CommandInv`, `IsrInv` | commands lie in the device and their tags are logged; what is being handled is still pending | a transfer that is handled is there, and has its command |
| `StageInv` | host and device are together in one of eight stages (`Idle`, `Asking`, `Asked`, `Receiving`, `Reading`, `ReadSent`, `Informing`, `Ending`), and each says which transfer or NAK may be pending | a transfer left over from an earlier stage would be taken for one of this stage: none is |
| `UseInv` | every buffer in use has a use | with `BufferInv`, each has exactly one |
| `ListInv` | a waiting read or merge is the last entry; `Read_BulkBuf` has the host's data once `Read_BulkLen` is set | the main loop has programmed every earlier write before it reads |
| `DataInv` | pages in flash and in the list have the tag of their newest data | a queued page takes its tag along when `CBW` changes |
| `PendingInv` | the newest data of a sector is in flash, or in the last write that waits for it | a merge and a read find it there |
| `TransferInv` | the buffer of a transfer has the rest of its page, from the merge on | a page written in part does not lose the other part |

`LinuxTaggerProofs` proves `TaggerInvariant`, `Spec => []TaggerInv`, and from it
the action properties `MetadataAlwaysTagged`, `FilesAlwaysProtected` and
`SessionsStayApart`.  `LoadInv` orders the loading of superblock and descriptors;
`ListInv` says that a directory an inode table has named is in the list or the
list is full, because the parse trigger is set before the data of the first
inode table command comes; `SessionInv` says whose flags are set.

Model-checked only: liveness (`CommandsEnd`, `WritesReachFlash`, `CallsReturn`),
which with ENABLED is out of the prover's reach; `LateReadsSeeWrites`, of which only
the case of prompt handlers is proved; `WalksInOrder`, which is
about a recursion over the chain of versions, and induction over data is out of
its reach too.  What happens once a power loss has hit one of the windows that a
property names is outside both the runs and the proofs.

## Not modelled

- BitVisor, OpenSSL and the vendored drivers, which are nearly all of the 734
  thousand lines of the repository and which RansomTag does not change.
- Register-level drivers (NAND controller, USB PHY), ECC, multi-plane programs.
- Guest introspection: it reads kernel structures through memory maps; its
  result, the process that runs, is an input of `WinScan`.
- `HDI_IsHotPage` and its table: a heuristic that only chooses the journal,
  which `FtlData` lets be either.
- The two-block logs of ROOT, BDT and HDI and the commit `HDI_Init` makes
  during a mount (`ftl_hdi.c:112`): combined with `PmtLog` they exceed what TLC
  can explore.
- `UBI_SWL`, which the shipped loop does not call; several areas; failing
  anchor pages.  A first page of a new index block that fails (`ubi_index.c:618`)
  is modelled, but `MountSucceeds` promises nothing after it: a mount that has read
  the table from the old block then returns the error.
- A failed program of a meta data page (`ftl_data.c:294`): `FtlData` programs
  without failures, `UbiWrite` has no meta data pages.
- Partial-page writes in ONFM and `BUF_GetPage` (`buf_api.c:138`): every write that
  comes over USB is a whole page.
- READ(12) and WRITE(12), stalled endpoints, the capacity check and the contents of
  status commands in the USB front end.
- A read of the superblock given up before its data (`ransomtag.c:974`): the next
  block is taken for it, and what the tagger does then is left open.
- The tagger that is wired in is the Windows one (`usb_mscd.c:243`, `:332`); the
  Linux one is swapped in by hand.  The parsing of MFT records, inodes and
  extents in the Python tools is data conversion.

## Plan

Done in this order: `FtlData` with its invariant, `FtlMount`, `FtlRetention` and
the refinement, `UsbMsc`, `UbiWrite`, `UbiIndex`, `ReadPath` with `WinScan`,
`LinuxTagger`, `PmtLog`, then the proofs of pinned pages, of `WinScan`, of
`LinuxTagger`, of `UbiWrite`, of `UsbMsc`, of `PmtLog`, of `UbiIndex`, of the count
behind `NeverStarved`, and of `FtlMount`.  Next would be: a module for the two-block
logs with an interface to `PmtLog`, a proof that a commit of `PmtLog` is the one step
`FtlMount` takes it for, and an abstract block device that `UbiWrite` implements.
