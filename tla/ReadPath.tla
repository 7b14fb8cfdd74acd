------------------------------ MODULE ReadPath ------------------------------
(***************************************************************************)
(* How the SSD firmware answers a read: the tag byte of the command        *)
(* (recovery/recovery.c), the one-page read cache of core/onfm.c, and the  *)
(* three ways core/ftl/ftl_api.c FTL_Read serves a page: the current       *)
(* version, the retained version, or one step of a walk over the versions  *)
(* that MFT-tagged writes have chained.                                    *)
(*                                                                         *)
(* A page is programmed at a location; spare[2] of the page may name the   *)
(* location of an older one.  FtlData models which block and page that is, *)
(* how journals fill and what a reclaim chooses; here a write takes any    *)
(* erased location and a reclaim any page that is not pinned.  A page      *)
(* holds the number of the write that produced it.                         *)
(***************************************************************************)
EXTENDS Integers, FiniteSets

CONSTANTS
  Addr,       \* logical pages the file system has written (PGADDR)
  NLoc,       \* locations
  MaxWrites,  \* bound: writes after the ones that filled the device
  MaxReclaims \* bound: reclaims

ASSUME AddrAssumption == Addr \subseteq Nat \ {0} /\ IsFiniteSet(Addr)
ASSUME SpaceAssumption == NLoc \in Nat /\ NLoc > Cardinality(Addr)
ASSUME ReadBoundsAssumption == MaxWrites \in Nat /\ MaxReclaims \in Nat

VARIABLES
  nand,       \* contents of every location
  pmt,        \* page mapping table: logical page -> location
  pinned,     \* locations in blocks flagged by the Data Retainer
  last_addr,  \* logical page of the last MFT read that was not skipped
  last_loc,   \* lastblock, lastpage: where the walk began
  backupmft,  \* the location the walk reads next
  cache,      \* onfm_read_buffer and read_buffer_start_sector
  \* history
  writes,     \* writes so far
  benign,     \* the version of each page that a ransom tag must preserve, if any
  reclaims    \* reclaims so far

flash == <<nand, pmt, pinned>>
walker == <<last_addr, last_loc, backupmft>>
rvars == <<flash, walker, cache, writes, benign, reclaims>>

Loc == 1 .. NLoc
INVALID_PM_NODE == 0
MaybeLoc == Loc \cup {INVALID_PM_NODE}
Tags == {"none", "ransom", "mft", "recover"}
Version == 1 .. Cardinality(Addr) + MaxWrites
JUNK == 0                        \* what an erased page reads as
NoVersion == 0                   \* an MFT-tagged write promises no version

Erased == [addr |-> 0, ver |-> JUNK, old |-> INVALID_PM_NODE]
Cell == [addr : Addr, ver : Version, old : MaybeLoc] \cup {Erased}
NoPage == [addr |-> 0, ver |-> JUNK, tag |-> "none"]

\* Every page has been written once, untagged, in the order of the addresses.
FirstLoc(a) == Cardinality({b \in Addr : b <= a})

Init ==
  /\ nand = [x \in Loc |->
               IF \E a \in Addr : FirstLoc(a) = x
               THEN [addr |-> CHOOSE a \in Addr : FirstLoc(a) = x, ver |-> x,
                     old |-> INVALID_PM_NODE]
               ELSE Erased]
  /\ pmt = [a \in Addr |-> FirstLoc(a)]
  /\ pinned = {}
  /\ last_addr = 0 /\ last_loc = 0 /\ backupmft = 0   \* zeroed at power on
  /\ cache = NoPage
  /\ writes = Cardinality(Addr)
  /\ benign = [a \in Addr |-> FirstLoc(a)]
  /\ reclaims = 0

-----------------------------------------------------------------------------
(* recovery.c: the tag byte, CB[6] of the command. *)

RANSOMTAG == 7
RANSOMTAG_MFT == 8
RECOVERTAG == 16

\* CheckTag, in the order of its tests.
CheckTag(cdb) ==
  IF cdb % 8 = RANSOMTAG THEN "ransom"
  ELSE IF (cdb \div RANSOMTAG_MFT) % 2 = 1 THEN "mft"
  ELSE IF (cdb \div RECOVERTAG) % 2 = 1 THEN "recover" ELSE "none"

-----------------------------------------------------------------------------
(* Writes and reclaims, as far as a later read can tell. *)

FreeLoc == {x \in Loc : nand[x] = Erased /\ x \notin pinned}
NextLoc == CHOOSE x \in FreeLoc : \A y \in FreeLoc : x <= y

\* Mutant: a ransom write retains the version it replaces.
MutRetainReplaced(a, tag) ==
  IF tag \in {"ransom", "mft"} THEN pmt[a] ELSE INVALID_PM_NODE

\* DATA_Write: what spare[2] of the new page names.
OldLocation(a, tag) ==
  IF tag = "mft" THEN pmt[a]
  ELSE IF tag = "ransom"
  THEN IF nand[pmt[a]].old # INVALID_PM_NODE THEN nand[pmt[a]].old ELSE pmt[a]
  ELSE INVALID_PM_NODE

\* Mutant: a write leaves the read cache as it is.
MutKeepCache == cache

\* ONFM_Write: "disable read buffer if something is written".
CacheAfterWrite == NoPage

\* A whole-page write with the given tag byte.
DeviceWrite(a, cdb) ==
  LET tag == CheckTag(cdb)
      n   == NextLoc
  IN  /\ FreeLoc # {}
      /\ writes < Cardinality(Addr) + MaxWrites
      /\ writes' = writes + 1
      /\ nand' = [nand EXCEPT ![n] = [addr |-> a, ver |-> writes + 1,
                                      old |-> OldLocation(a, tag)]]
      /\ pmt' = [pmt EXCEPT ![a] = n]
      /\ pinned' = IF tag = "ransom" THEN pinned \cup {pmt[a]} ELSE pinned
      /\ benign' = CASE tag = "ransom" -> benign
                     [] tag = "mft" -> [benign EXCEPT ![a] = NoVersion]
                     [] OTHER -> [benign EXCEPT ![a] = writes + 1]
      /\ cache' = CacheAfterWrite
      /\ UNCHANGED <<walker, reclaims>>

\* DATA_Reclaim of an unpinned location: a mapped page moves, with its spare
\* area, and the location is erased.
DeviceReclaim(x) ==
  /\ reclaims < MaxReclaims
  /\ nand[x] # Erased /\ x \notin pinned
  /\ LET a == nand[x].addr
         n == NextLoc
     IN  IF pmt[a] = x
         THEN /\ FreeLoc # {}
              /\ nand' = [nand EXCEPT ![n] = nand[x], ![x] = Erased]
              /\ pmt' = [pmt EXCEPT ![a] = n]
         ELSE nand' = [nand EXCEPT ![x] = Erased] /\ UNCHANGED pmt
  /\ reclaims' = reclaims + 1
  /\ UNCHANGED <<pinned, walker, cache, writes, benign>>

-----------------------------------------------------------------------------
(* FTL_Read.  The walk is passed as a record, so that the pages of one     *)
(* command are read one after the other.                                   *)

Walk == [addr |-> last_addr, loc |-> last_loc, next |-> backupmft]
Answer(loc, w) == [ver |-> IF loc = INVALID_PM_NODE THEN JUNK ELSE nand[loc].ver,
                   walk |-> w]
OldOf(loc) == IF loc = INVALID_PM_NODE THEN INVALID_PM_NODE ELSE nand[loc].old

\* A read of the page after the one being walked: the current version, and
\* the walk stays where it is.
Consecutive(a, w) == a = w.addr + 1

\* The first read of a page, and the start of the walk.
WalkFrom(a, w) ==
  LET loc == pmt[a]
  IN  Answer(loc, [addr |-> a, loc |-> loc,
                   next |-> IF nand[loc].old # INVALID_PM_NODE
                            THEN nand[loc].old ELSE loc])

\* A further read of it: one version older, or the oldest again.
WalkOn(a, w) ==
  Answer(w.next, [w EXCEPT !.addr = a,
                           !.next = IF OldOf(@) # INVALID_PM_NODE
                                    THEN OldOf(@) ELSE @])

\* Mutant: the walk is recognised by the address alone.
MutByAddress(a, w) == w.addr = a

\* The test for a further read: same physical location.
SamePage(a, w) == w.loc = pmt[a]

\* A recover read: the page spare[2] names, or the page itself.
Retained(a) == IF OldOf(pmt[a]) # INVALID_PM_NODE THEN OldOf(pmt[a]) ELSE pmt[a]

FTL_Read(a, tag, w) ==
  CASE tag = "mft" -> IF Consecutive(a, w) THEN Answer(pmt[a], w)
                      ELSE IF SamePage(a, w) THEN WalkOn(a, w)
                      ELSE WalkFrom(a, w)
    [] tag = "recover" -> Answer(Retained(a), w)
    [] OTHER -> Answer(pmt[a], w)

SetWalk(w) == last_addr' = w.addr /\ last_loc' = w.loc /\ backupmft' = w.next

\* ONFM_Read of one whole page, or of two in a row; the answer is what the
\* first one held.  A second page nobody has written is not looked at.
ReadPages(a, two, tag, w) ==
  LET first == FTL_Read(a, tag, w).walk
  IN  IF two /\ a + 1 \in Addr THEN FTL_Read(a + 1, tag, first).walk ELSE first

DeviceRead(a, two, cdb) ==
  /\ SetWalk(ReadPages(a, two, CheckTag(cdb), Walk))
  /\ UNCHANGED <<flash, cache, writes, benign, reclaims>>
DeviceAnswer(a, cdb) == FTL_Read(a, CheckTag(cdb), Walk).ver

\* ONFM_Read of part of a page goes through onfm_read_sector: the page in the
\* read buffer answers, whatever the tag.
Cached(a) == cache.addr = a
PartAnswer(a, cdb) ==
  IF Cached(a) THEN cache.ver ELSE FTL_Read(a, CheckTag(cdb), Walk).ver
DeviceReadPart(a, cdb) ==
  LET r == FTL_Read(a, CheckTag(cdb), Walk)
  IN  /\ IF Cached(a) THEN UNCHANGED <<cache, walker>>
         ELSE /\ cache' = [addr |-> a, ver |-> r.ver, tag |-> CheckTag(cdb)]
              /\ SetWalk(r.walk)
      /\ UNCHANGED <<flash, writes, benign, reclaims>>

ReadPathTypeOK ==
  /\ nand \in [Loc -> Cell] /\ pmt \in [Addr -> Loc] /\ pinned \subseteq Loc
  /\ last_addr \in Addr \cup {0} /\ last_loc \in MaybeLoc /\ backupmft \in MaybeLoc
  /\ cache \in [addr : Addr \cup {0}, ver : Version \cup {JUNK}, tag : Tags]
  /\ writes \in Version /\ benign \in [Addr -> Version \cup {NoVersion}]
  /\ reclaims \in 0 .. MaxReclaims

=============================================================================
