------------------------------ MODULE WinScan ------------------------------
(***************************************************************************)
(* Recovery on a Windows guest: the tagger of drivers/usb/ransomtag.c      *)
(* (win_analyse, the one usb_mscd.c calls), the two tools of 03.Recovery   *)
(* tool/NTFS, other processes of the guest, and the device of ReadPath.    *)
(*                                                                         *)
(* The tools have no channel to the tagger.  It looks up the process that  *)
(* is running when it sees a command: "ransomrecover" gets every read      *)
(* tagged, and for "scanmft" it counts reads of the boot sector, which     *)
(* bracket the scan of the MFT.  In the scan each cluster is read versions *)
(* times, and the device answers one version older every time.  The tool   *)
(* compares the bytes it reads with a list of them, which is never equal,  *)
(* so that it never stops early at the oldest version.                     *)
(*                                                                         *)
(* A cluster is one page.  The tool's file object reads ahead; READ_AHEAD  *)
(* says whether its reads of a cluster bring the next one along.           *)
(***************************************************************************)
EXTENDS ReadPath, Sequences

CONSTANTS
  Runlist,     \* the clusters of the MFT in the order scanmft reads them
  Versions,    \* how often scanmft reads a cluster
  READ_AHEAD,  \* reads of the tool bring the next cluster along
  Attributed,  \* a command always passes while its own process is running
  MaxScans     \* bound: scans begun

ASSUME RunlistAssumption == Runlist \in Seq(Addr) /\ Runlist # <<>>
ASSUME VersionsAssumption == Versions \in Nat /\ Versions >= 2
ASSUME ReadAheadAssumption == {READ_AHEAD, Attributed} \subseteq BOOLEAN
ASSUME ScansAssumption == MaxScans \in Nat

VARIABLES
  sector2048count,  \* the tagger's count of boot sector reads
  at,          \* where scanmft is
  cluster,     \* index in Runlist of the cluster it reads
  version,     \* how often it has read it
  scans,       \* scans begun
  \* history
  killed,      \* a scan did not run to its end, or a read not its own was counted
  walked,      \* the device walks the cluster, undisturbed so far
  since,       \* reads of the cluster since it was last written
  strayed,     \* a read of a walked cluster got another version than its turn
  stale,       \* a read served untagged did not get the current version
  wrong        \* a read served as recover read did not get the retained one

scan == <<at, cluster, version, scans>>
ghosts == <<killed, walked, since, strayed, stale, wrong>>
svars == <<rvars, sector2048count, scan, ghosts>>

MftPage == {Runlist[i] : i \in 1 .. Len(Runlist)}
Boot == 0                        \* the page of sector 2048
Places == {"idle", "record", "start", "walk", "end"}

SInit ==
  /\ Init
  /\ sector2048count = 0
  /\ at = "idle" /\ cluster = 1 /\ version = 0 /\ scans = 0
  /\ killed = FALSE /\ walked = FALSE /\ since = 0
  /\ strayed = FALSE /\ stale = FALSE /\ wrong = FALSE

-----------------------------------------------------------------------------
(* The tagger. *)

\* win_Handle_Recovery counts a boot sector read of scanmft ...
Counted(process, a) ==
  IF process = "scanmft" /\ a = Boot THEN sector2048count + 1
  ELSE sector2048count

\* ... and starts over at the third.
NextCount(process, a) ==
  IF process = "scanmft" /\ Counted(process, a) = 3 THEN 0
  ELSE Counted(process, a)

\* Mutant: the scan is tagged from the first boot sector read on.
MutTagEarly(process, a) ==
  IF process = "scanmft"
  THEN IF Counted(process, a) >= 1 /\ a # Boot THEN RANSOMTAG_MFT ELSE 0
  ELSE IF process = "ransomrecover" THEN RECOVERTAG ELSE 0

\* The tag byte of a read; a command with an invalid thread gets none.
ReadTag(process, a) ==
  IF process = "scanmft"
  THEN IF Counted(process, a) = 2 /\ a # Boot THEN RANSOMTAG_MFT ELSE 0
  ELSE IF process = "ransomrecover" THEN RECOVERTAG ELSE 0

\* win_DetermineTag: the MFT by the file object of the first request the
\* process has pending or by its range, anything else is suspect.
WriteTag(process, a, is_MFT) ==
  IF process = "invalid" THEN 0
  ELSE IF is_MFT \/ a \in MftPage THEN RANSOMTAG_MFT ELSE RANSOMTAG

\* win_analyse of a READ(10) by the given process.
CountRead(process, a) == sector2048count' = NextCount(process, a)

-----------------------------------------------------------------------------
(* History: what a read should have got.  A partial read that the cache    *)
(* answers is served with the tag of the read that filled the cache.       *)

Served(a, part, cdb) == IF part /\ Cached(a) THEN cache.tag ELSE CheckTag(cdb)

Judge(a, part, cdb) ==
  LET tag    == Served(a, part, cdb)
      answer == IF part THEN PartAnswer(a, cdb) ELSE DeviceAnswer(a, cdb)
  IN  /\ stale' = (stale \/ (tag = "none" /\ answer # nand[pmt[a]].ver))
      /\ wrong' = (wrong \/ /\ tag = "recover" /\ benign[a] # NoVersion
                            /\ answer # benign[a])

-----------------------------------------------------------------------------
(* Other processes. *)

\* Who may be running when their command passes.  The tags of a read are the
\* same for an invalid thread and for any other process, and a read that passes
\* while ransomrecover runs is like one of its own (RecoverRead).
Running == {"other"} \cup IF Attributed \/ at = "idle" THEN {} ELSE {"scanmft"}

\* A read of a whole page, or of part of one, which the read cache may answer.
\* It may be seen while a tool runs.
GuestRead(a, part, process) ==
  LET cdb == ReadTag(process, a)
  IN  /\ CountRead(process, a)
      /\ IF part THEN DeviceReadPart(a, cdb) ELSE DeviceRead(a, FALSE, cdb)
      /\ walked' = (walked /\ CheckTag(cdb) # "mft")
      /\ Judge(a, part, cdb)
      /\ UNCHANGED <<scan, killed, since, strayed>>

GuestWrite(a, process, is_MFT) ==
  /\ DeviceWrite(a, WriteTag(process, a, is_MFT))
  /\ since' = IF a = Runlist[cluster] THEN 0 ELSE since
  /\ UNCHANGED <<sector2048count, scan, killed, walked, strayed, stale, wrong>>

\* The boot sector is read by others too, and counted if scanmft is running.
GuestReadsBoot(process) ==
  /\ CountRead(process, Boot)
  /\ killed' = (killed \/ process = "scanmft")
  /\ walked' = (walked /\ process # "scanmft")
  /\ UNCHANGED <<rvars, scan, since, strayed, stale, wrong>>

Reclaim(x) ==
  /\ DeviceReclaim(x)
  /\ walked' = (walked /\ nand[x].addr # Runlist[cluster])
  /\ UNCHANGED <<sector2048count, scan, killed, since, strayed, stale, wrong>>

-----------------------------------------------------------------------------
(* ransomrecover: every read that passes while it runs is tagged. *)

RecoverRead(a, part) ==
  LET cdb == ReadTag("ransomrecover", a)
  IN  /\ CountRead("ransomrecover", a)
      /\ IF part THEN DeviceReadPart(a, cdb) ELSE DeviceRead(a, FALSE, cdb)
      /\ Judge(a, part, cdb)
      /\ UNCHANGED <<scan, killed, walked, since, strayed>>

-----------------------------------------------------------------------------
(* scanmft: the boot sector, the record of the MFT, the boot sector, the   *)
(* clusters, the boot sector.                                              *)

ReadBoot(here, next) ==
  /\ at = here /\ at' = next
  /\ CountRead("scanmft", Boot)
  /\ UNCHANGED <<rvars, cluster, version, since, strayed, stale, wrong>>

ScanOpen ==
  /\ scans < MaxScans /\ scans' = scans + 1
  /\ ReadBoot("idle", "record")
  /\ UNCHANGED <<killed, walked>>

ScanRecord ==
  /\ at = "record" /\ at' = "start"
  /\ CountRead("scanmft", Runlist[1])
  /\ DeviceRead(Runlist[1], READ_AHEAD, ReadTag("scanmft", Runlist[1]))
  /\ UNCHANGED <<cluster, version, scans, ghosts>>

ScanStart == ReadBoot("start", "walk") /\ UNCHANGED <<scans, killed, walked>>

\* The tool goes on to the next cluster when it has read this one so often.
ClusterDone(reads) == reads = Versions

\* The device starts a walk: the read is tagged, and it is neither taken for
\* a consecutive one nor for one more of a cluster already walked.
WalkBegins(a, cdb) ==
  CheckTag(cdb) = "mft" /\ ~Consecutive(a, Walk) /\ ~SamePage(a, Walk)

\* History: the versions of a page that a walk can reach, Versions of them at
\* most, and the one whose turn it is at the n-th read.  A link to a page that
\* has been reclaimed ends them.
Chain(a) ==
  LET step[x \in Loc, n \in 0 .. Versions - 1] ==
        IF n = 0 \/ nand[x].old = INVALID_PM_NODE \/ nand[nand[x].old].addr # a
        THEN {nand[x].ver}
        ELSE {nand[x].ver} \cup step[nand[x].old, n - 1]
  IN  step[pmt[a], Versions - 1]

InTurn(ver, n, a) ==
  n <= Cardinality(Chain(a)) =>
    ver \in Chain(a) /\ Cardinality({v \in Chain(a) : v > ver}) = n - 1

ScanCluster ==
  LET a    == Runlist[cluster]
      cdb  == ReadTag("scanmft", a)
      ok   == IF version = 0 THEN WalkBegins(a, cdb) ELSE walked
      nth  == IF version = 0 THEN 1 ELSE since + 1
      done == ClusterDone(version + 1)
  IN  /\ at = "walk"
      /\ CountRead("scanmft", a)
      /\ DeviceRead(a, READ_AHEAD, cdb)
      /\ strayed' = (strayed \/ (ok /\ ~InTurn(DeviceAnswer(a, cdb), nth, a)))
      /\ walked' = (ok /\ ~done)
      /\ since' = IF done THEN 0 ELSE nth
      /\ IF done
         THEN /\ version' = 0
              /\ cluster' = IF cluster = Len(Runlist) THEN 1 ELSE cluster + 1
              /\ at' = IF cluster = Len(Runlist) THEN "end" ELSE "walk"
         ELSE version' = version + 1 /\ UNCHANGED <<cluster, at>>
      /\ UNCHANGED <<scans, killed, stale, wrong>>

ScanEnd == ReadBoot("end", "idle") /\ UNCHANGED <<scans, killed, walked>>

\* The tool is stopped, or fails, before it is through.
ScanKilled ==
  /\ at # "idle"
  /\ at' = "idle" /\ cluster' = 1 /\ version' = 0
  /\ killed' = TRUE /\ walked' = FALSE /\ since' = 0
  /\ UNCHANGED <<rvars, sector2048count, scans, strayed, stale, wrong>>

Next ==
  \/ \E a \in Addr, part \in BOOLEAN, process \in Running : GuestRead(a, part, process)
  \/ \E a \in Addr, process \in {"other", "invalid"}, is_MFT \in BOOLEAN :
       GuestWrite(a, process, is_MFT)
  \/ \E process \in Running : GuestReadsBoot(process)
  \/ \E x \in Loc : Reclaim(x)
  \/ \E a \in Addr, part \in BOOLEAN : RecoverRead(a, part)
  \/ ScanOpen \/ ScanRecord \/ ScanStart \/ ScanCluster \/ ScanEnd \/ ScanKilled

Spec == SInit /\ [][Next]_svars

-----------------------------------------------------------------------------
(* Properties. *)

TypeOK ==
  /\ ReadPathTypeOK
  /\ sector2048count \in 0 .. 2
  /\ at \in Places /\ cluster \in 1 .. Len(Runlist) /\ scans \in 0 .. MaxScans
  /\ version \in 0 .. Versions - 1 /\ since \in 0 .. version
  /\ {killed, walked, strayed, stale, wrong} \subseteq BOOLEAN

\* As long as every scan has run to its end and nobody else's read of the boot
\* sector was counted, a read of scanmft is tagged if and only if the tool is
\* between its second and its third boot sector read: a record read before
\* would start a walk, an untagged one after it would miss the versions.
PhaseKept ==
  ~killed => \A a \in MftPage :
    ReadTag("scanmft", a) = RANSOMTAG_MFT <=> at \in {"walk", "end"}

\* The n-th read of a cluster that the device walks, counted from the last
\* write of the cluster, gets its n-th newest version, so that Versions reads
\* yield every version the device can reach and the tool asks for.  Other
\* processes read and write all the while, also the cluster itself, which
\* makes the walk start over, and reclaims move and erase pages of others; a
\* reclaim of a page of the cluster, another MFT-tagged read, and a cluster
\* for which no walk begins are left out.
WalksInOrder == ~strayed

\* A read served untagged gets the current version, whatever the tools do at
\* the same time: no write and no reclaim leaves an older one in the read
\* cache.  Served untagged is a read of a whole page or one that misses the
\* cache if it has no tag, and a partial read that hits the cache if the read
\* that filled it had none: onfm_read_sector looks at the address only.
UntaggedReadsCurrent == ~stale

\* A read served as a recover read, in the same sense, gets the version the
\* ransom tag preserves, through reclaims and further tagged writes, of every
\* page that has not been written with the MFT tag since it was last written
\* without one.  This is not every read of ransomrecover: a part of a page
\* that an untagged read has left in the cache is served untagged, and gets
\* the current version (onfm_read_sector).
RecoverReadsRetained == ~wrong

=============================================================================
