--------------------------- MODULE WinScanProofs ---------------------------
(***************************************************************************)
(* Proofs about WinScan and the device of ReadPath, for every set of       *)
(* pages, every run list of the MFT, and any number of writes, reclaims    *)
(* and scans.                                                              *)
(***************************************************************************)
EXTENDS WinScan, FiniteSetTheorems, WellFoundedInduction, TLAPS

\* The mapping table points at programmed pages of its address.
MapInv == \A a \in Addr : nand[pmt[a]].addr = a

\* The version a ransom tag preserves is the one spare[2] of the mapped page
\* names, in a pinned block, or the mapped page itself.
RetainInv ==
  \A a \in Addr : benign[a] # NoVersion =>
    LET old == nand[pmt[a]].old
    IN  IF old = INVALID_PM_NODE THEN nand[pmt[a]].ver = benign[a]
        ELSE old \in pinned /\ nand[old].ver = benign[a]

\* A page in the read cache is what a read with the tag that brought it there
\* would return now.
CacheInv ==
  cache.addr \in Addr =>
    /\ cache.tag = "none" => cache.ver = nand[pmt[cache.addr]].ver
    /\ cache.tag = "recover" /\ benign[cache.addr] # NoVersion =>
         cache.ver = benign[cache.addr]

\* The tagger's count follows scanmft.
CountAt(place) == CASE place = "idle" -> 0
                    [] place \in {"record", "start"} -> 1
                    [] OTHER -> 2
PhaseInv == ~killed => sector2048count = CountAt(at)

DeviceInv == ReadPathTypeOK /\ MapInv /\ RetainInv /\ CacheInv
ScanType ==
  /\ sector2048count \in 0 .. 2
  /\ at \in Places /\ cluster \in 1 .. Len(Runlist) /\ scans \in 0 .. MaxScans
  /\ version \in 0 .. Versions - 1 /\ since \in 0 .. version
  /\ {killed, walked, strayed, stale, wrong} \subseteq BOOLEAN

ScanInv == DeviceInv /\ ScanType /\ PhaseInv /\ ~stale /\ ~wrong

(***************************************************************************)
(* Facts about single operators.                                           *)
(***************************************************************************)

LEMMA AddrFacts ==
  /\ 0 \notin Addr /\ Addr \subseteq Nat /\ IsFiniteSet(Addr)
  /\ NLoc \in Nat /\ Cardinality(Addr) \in Nat /\ Cardinality(Addr) < NLoc
  /\ MaxWrites \in Nat /\ MaxReclaims \in Nat
  /\ 0 \notin Loc /\ Loc \subseteq Nat
<1>1. IsFiniteSet(Addr) /\ Addr \subseteq Nat /\ 0 \notin Addr
  BY AddrAssumption
<1>2. Cardinality(Addr) \in Nat
  BY <1>1, FS_CardinalityType
<1>3. QED
  BY <1>1, <1>2, SpaceAssumption, ReadBoundsAssumption DEF Loc

LEMMA RunlistFacts ==
  /\ MftPage \subseteq Addr /\ Len(Runlist) \in Nat \ {0}
  /\ \A i \in 1 .. Len(Runlist) : Runlist[i] \in Addr
BY RunlistAssumption DEF MftPage

LEMMA TagOfByte ==
  /\ CheckTag(0) = "none" /\ CheckTag(RANSOMTAG) = "ransom"
  /\ CheckTag(RANSOMTAG_MFT) = "mft" /\ CheckTag(RECOVERTAG) = "recover"
  /\ \A cdb : CheckTag(cdb) \in Tags
BY DEF CheckTag, RANSOMTAG, RANSOMTAG_MFT, RECOVERTAG, Tags

\* A write takes an erased location.
LEMMA NextLocFacts ==
  ASSUME FreeLoc # {}
  PROVE  NextLoc \in Loc /\ nand[NextLoc] = Erased /\ NextLoc \notin pinned
<1>1. FreeLoc \subseteq Nat
  BY AddrFacts DEF FreeLoc
<1>2. PICK x \in FreeLoc : \A y \in FreeLoc : ~(<<y, x>> \in OpToRel(<, Nat))
  BY <1>1, WFMin, NatLessThanWellFounded
<1>3. \A y \in FreeLoc : x <= y
  <2> SUFFICES ASSUME NEW y \in FreeLoc, ~(x <= y) PROVE FALSE
    OBVIOUS
  <2>1. x \in Nat /\ y \in Nat /\ y < x
    BY <1>1
  <2>2. <<y, x>> \in OpToRel(<, Nat)
    BY <2>1 DEF OpToRel
  <2>3. QED
    BY <1>2, <2>2
<1>4. NextLoc \in FreeLoc
  BY <1>2, <1>3 DEF NextLoc
<1>5. QED
  BY <1>4 DEF FreeLoc

LEMMA CellFacts ==
  ASSUME ReadPathTypeOK, NEW x \in Loc
  PROVE  /\ nand[x].addr \in Addr \cup {0} /\ nand[x].ver \in Version \cup {JUNK}
         /\ nand[x].old \in MaybeLoc
         /\ nand[x].addr = 0 <=> nand[x] = Erased
<1>1. nand[x] \in Cell
  BY DEF ReadPathTypeOK
<1>2. CASE nand[x] = Erased
  BY <1>2 DEF Erased, MaybeLoc
<1>3. CASE nand[x] \in [addr : Addr, ver : Version, old : MaybeLoc]
  BY <1>3, AddrFacts DEF Erased
<1>4. QED
  BY <1>1, <1>2, <1>3 DEF Cell

\* A mapped page is programmed.
LEMMA MappedFacts ==
  ASSUME DeviceInv, NEW a \in Addr
  PROVE  /\ pmt[a] \in Loc /\ nand[pmt[a]].addr = a /\ nand[pmt[a]] # Erased
         /\ nand[pmt[a]].ver \in Version \cup {JUNK} /\ nand[pmt[a]].old \in MaybeLoc
<1>1. pmt[a] \in Loc /\ nand[pmt[a]].addr = a
  BY DEF DeviceInv, ReadPathTypeOK, MapInv
<1>2. ReadPathTypeOK /\ a # 0
  BY AddrFacts DEF DeviceInv
<1>3. QED
  BY <1>1, <1>2, CellFacts

Walks == [addr : Addr \cup {0}, loc : MaybeLoc, next : MaybeLoc]

\* FTL_Read answers with a version of some page and leaves a walk.
LEMMA ReadType ==
  ASSUME DeviceInv, NEW a \in Addr, NEW tag \in Tags, NEW w \in Walks
  PROVE  /\ FTL_Read(a, tag, w).walk \in Walks
         /\ FTL_Read(a, tag, w).ver \in Version \cup {JUNK}
<1>1. /\ pmt[a] \in Loc /\ nand[pmt[a]].ver \in Version \cup {JUNK}
      /\ nand[pmt[a]].old \in MaybeLoc /\ 0 \notin Loc /\ Loc \subseteq MaybeLoc
  BY MappedFacts, AddrFacts DEF MaybeLoc
<1>2. ReadPathTypeOK
  BY DEF DeviceInv
<1>3. \A x \in MaybeLoc : OldOf(x) \in MaybeLoc
  BY <1>2, CellFacts DEF OldOf, MaybeLoc
<1>4. \A x \in MaybeLoc, v \in Walks :
        Answer(x, v).walk \in Walks /\ Answer(x, v).ver \in Version \cup {JUNK}
  BY <1>2, CellFacts DEF Answer, MaybeLoc
<1>5. WalkFrom(a, w).walk \in Walks /\ WalkFrom(a, w).ver \in Version \cup {JUNK}
  <2> DEFINE v == [addr |-> a, loc |-> pmt[a],
                   next |-> IF nand[pmt[a]].old # INVALID_PM_NODE
                            THEN nand[pmt[a]].old ELSE pmt[a]]
  <2>1. v \in Walks
    BY <1>1 DEF Walks
  <2>2. WalkFrom(a, w) = Answer(pmt[a], v)
    BY DEF WalkFrom
  <2> HIDE DEF v
  <2>3. QED
    BY <1>1, <1>4, <2>1, <2>2
<1>6. WalkOn(a, w).walk \in Walks /\ WalkOn(a, w).ver \in Version \cup {JUNK}
  <2> DEFINE v == [w EXCEPT !.addr = a,
                            !.next = IF OldOf(@) # INVALID_PM_NODE THEN OldOf(@) ELSE @]
  <2>1. v \in Walks /\ w.next \in MaybeLoc
    BY <1>3 DEF Walks
  <2>2. WalkOn(a, w) = Answer(w.next, v)
    BY DEF WalkOn
  <2> HIDE DEF v
  <2>3. QED
    BY <1>4, <2>1, <2>2
<1>7. Retained(a) \in MaybeLoc
  BY <1>1, <1>3 DEF Retained
<1>8. QED
  BY <1>1, <1>4, <1>5, <1>6, <1>7 DEF FTL_Read

LEMMA WalkType ==
  ASSUME DeviceInv
  PROVE  Walk \in Walks
BY DEF DeviceInv, ReadPathTypeOK, Walk, Walks

\* What an untagged and a recover read return.
LEMMA PlainRead ==
  ASSUME DeviceInv, NEW a \in Addr, NEW w
  PROVE  FTL_Read(a, "none", w).ver = nand[pmt[a]].ver
BY MappedFacts, AddrFacts DEF FTL_Read, Answer, INVALID_PM_NODE

LEMMA RecoveredRead ==
  ASSUME DeviceInv, NEW a \in Addr, benign[a] # NoVersion, NEW w
  PROVE  FTL_Read(a, "recover", w).ver = benign[a]
<1>1. pmt[a] \in Loc /\ 0 \notin Loc /\ pinned \subseteq Loc
  BY MappedFacts, AddrFacts DEF DeviceInv, ReadPathTypeOK
<1>2. OldOf(pmt[a]) = nand[pmt[a]].old
  BY <1>1 DEF OldOf, INVALID_PM_NODE
<1>3. FTL_Read(a, "recover", w).ver =
        (IF Retained(a) = INVALID_PM_NODE THEN JUNK ELSE nand[Retained(a)].ver)
  BY DEF FTL_Read, Answer
<1>4. QED
  BY <1>1, <1>2, <1>3 DEF DeviceInv, RetainInv, Retained, INVALID_PM_NODE

(***************************************************************************)
(* The device.                                                             *)
(***************************************************************************)

\* Reads change the walk and the read cache only.
LEMMA SetWalkType ==
  ASSUME NEW w \in Walks, SetWalk(w)
  PROVE  last_addr' \in Addr \cup {0} /\ last_loc' \in MaybeLoc /\ backupmft' \in MaybeLoc
BY DEF SetWalk, Walks

LEMMA DeviceReadInv ==
  ASSUME DeviceInv, NEW a \in Addr, NEW two \in BOOLEAN, NEW cdb,
         DeviceRead(a, two, cdb)
  PROVE  DeviceInv' /\ UNCHANGED <<nand, pmt, pinned, cache, benign>>
<1>1. CheckTag(cdb) \in Tags
  BY TagOfByte
<1>2. FTL_Read(a, CheckTag(cdb), Walk).walk \in Walks
  BY <1>1, ReadType, WalkType
<1>3. ReadPages(a, two, CheckTag(cdb), Walk) \in Walks
  BY <1>1, <1>2, ReadType DEF ReadPages
<1>4. UNCHANGED <<nand, pmt, pinned, cache, writes, benign, reclaims>>
  BY DEF DeviceRead, flash
<1>5. last_addr' \in Addr \cup {0} /\ last_loc' \in MaybeLoc /\ backupmft' \in MaybeLoc
  BY <1>3, SetWalkType DEF DeviceRead
<1>6. QED
  BY <1>4, <1>5 DEF DeviceInv, ReadPathTypeOK, MapInv, RetainInv, CacheInv

LEMMA DeviceReadPartInv ==
  ASSUME DeviceInv, NEW a \in Addr, NEW cdb, DeviceReadPart(a, cdb)
  PROVE  DeviceInv' /\ UNCHANGED <<nand, pmt, pinned, benign>>
<1>1. CheckTag(cdb) \in Tags
  BY TagOfByte
<1>2. /\ FTL_Read(a, CheckTag(cdb), Walk).walk \in Walks
      /\ FTL_Read(a, CheckTag(cdb), Walk).ver \in Version \cup {JUNK}
  BY <1>1, ReadType, WalkType
<1>3. UNCHANGED <<nand, pmt, pinned, writes, benign, reclaims>>
  BY DEF DeviceReadPart, flash
<1>4. CASE Cached(a)
  BY <1>3, <1>4 DEF DeviceReadPart, walker, DeviceInv, ReadPathTypeOK, MapInv,
                    RetainInv, CacheInv
<1>5. CASE ~Cached(a)
  <2>1. /\ cache' = [addr |-> a, ver |-> FTL_Read(a, CheckTag(cdb), Walk).ver,
                     tag |-> CheckTag(cdb)]
        /\ SetWalk(FTL_Read(a, CheckTag(cdb), Walk).walk)
    BY <1>5 DEF DeviceReadPart
  <2>2. last_addr' \in Addr \cup {0} /\ last_loc' \in MaybeLoc /\ backupmft' \in MaybeLoc
    BY <1>2, <2>1, SetWalkType
  <2>3. cache' \in [addr : Addr \cup {0}, ver : Version \cup {JUNK}, tag : Tags]
    BY <1>1, <1>2, <2>1
  <2>4. CacheInv'
    BY <1>3, <2>1, PlainRead, RecoveredRead DEF CacheInv
  <2>5. QED
    BY <1>3, <2>2, <2>3, <2>4 DEF DeviceInv, ReadPathTypeOK, MapInv, RetainInv
<1>6. QED
  BY <1>3, <1>4, <1>5

\* A write pins what a ransom tag preserves, and only there.
LEMMA DeviceWriteInv ==
  ASSUME DeviceInv, NEW a \in Addr, NEW cdb, DeviceWrite(a, cdb),
         CheckTag(cdb) # "recover"
  PROVE  DeviceInv'
<1> DEFINE tag == CheckTag(cdb)
           n == NextLoc
           page == [addr |-> a, ver |-> writes + 1, old |-> OldLocation(a, tag)]
<1>1. /\ n \in Loc /\ nand[n] = Erased /\ n \notin pinned
      /\ nand' = [nand EXCEPT ![n] = page] /\ pmt' = [pmt EXCEPT ![a] = n]
      /\ writes < Cardinality(Addr) + MaxWrites /\ writes' = writes + 1
      /\ pinned' = (IF tag = "ransom" THEN pinned \cup {pmt[a]} ELSE pinned)
      /\ cache' = NoPage /\ UNCHANGED <<last_addr, last_loc, backupmft, reclaims>>
  BY NextLocFacts DEF DeviceWrite, CacheAfterWrite, walker
<1>2. tag \in {"none", "ransom", "mft"}
  BY TagOfByte DEF Tags
<1>3. /\ tag = "ransom" => benign' = benign
      /\ tag = "mft" => benign' = [benign EXCEPT ![a] = NoVersion]
      /\ tag = "none" => benign' = [benign EXCEPT ![a] = writes + 1]
  BY DEF DeviceWrite
<1>4. /\ nand \in [Loc -> Cell] /\ pmt \in [Addr -> Loc] /\ pinned \subseteq Loc
      /\ writes \in Version /\ benign \in [Addr -> Version \cup {NoVersion}]
  BY DEF DeviceInv, ReadPathTypeOK
<1>5. /\ pmt[a] \in Loc /\ nand[pmt[a]].old \in MaybeLoc /\ 0 \notin Loc
      /\ \A b \in Addr : pmt[b] # n
  BY <1>1, MappedFacts, AddrFacts
<1>6. writes + 1 \in Version
  BY <1>1, <1>4, AddrFacts DEF Version
<1>7. OldLocation(a, tag) \in MaybeLoc
  BY <1>5 DEF OldLocation, MaybeLoc
<1>8. page \in [addr : Addr, ver : Version, old : MaybeLoc]
  BY <1>6, <1>7
<1> HIDE DEF tag, n, page
<1>9. ReadPathTypeOK'
  <2>1. nand' \in [Loc -> Cell]
    BY <1>1, <1>4, <1>8 DEF Cell
  <2>2. /\ pinned' \subseteq Loc /\ pmt' \in [Addr -> Loc]
        /\ benign' \in [Addr -> Version \cup {NoVersion}]
    BY <1>1, <1>2, <1>3, <1>4, <1>5, <1>6
  <2>3. cache' \in [addr : Addr \cup {0}, ver : Version \cup {JUNK}, tag : Tags]
    BY <1>1 DEF NoPage, Tags
  <2>4. QED
    BY <1>1, <1>6, <2>1, <2>2, <2>3 DEF DeviceInv, ReadPathTypeOK
<1>10. MapInv'
  BY <1>1, <1>4, <1>5 DEF page, DeviceInv, MapInv
<1>11. CacheInv'
  BY <1>1, AddrFacts DEF NoPage, CacheInv
<1>12. RetainInv'
  <2> SUFFICES ASSUME NEW b \in Addr, benign'[b] # NoVersion
               PROVE  IF nand'[pmt'[b]].old = INVALID_PM_NODE
                      THEN nand'[pmt'[b]].ver = benign'[b]
                      ELSE /\ nand'[pmt'[b]].old \in pinned'
                           /\ nand'[nand'[pmt'[b]].old].ver = benign'[b]
    BY DEF RetainInv
  <2>1. benign[b] # NoVersion =>
        IF nand[pmt[b]].old = INVALID_PM_NODE THEN nand[pmt[b]].ver = benign[b]
        ELSE nand[pmt[b]].old \in pinned /\ nand[nand[pmt[b]].old].ver = benign[b]
    BY DEF DeviceInv, RetainInv
  <2>2. pinned \subseteq pinned' /\ \A x \in pinned : x # n /\ nand'[x] = nand[x]
    BY <1>1, <1>4
  <2>3. CASE b # a
    BY <1>1, <1>2, <1>3, <1>4, <1>5, <2>1, <2>2, <2>3
  <2>4. CASE b = a /\ tag = "none"
    BY <1>1, <1>3, <1>4, <2>4 DEF page, OldLocation
  <2>5. CASE b = a /\ tag = "ransom"
    <3>1. /\ nand'[pmt'[b]] = page /\ benign'[b] = benign[b] /\ pmt[a] \in pinned'
          /\ nand'[pmt[a]] = nand[pmt[a]]
      BY <1>1, <1>3, <1>4, <1>5, <2>5
    <3>2. CASE nand[pmt[a]].old # INVALID_PM_NODE
      <4>1. page.old = nand[pmt[a]].old
        BY <2>5, <3>2 DEF page, OldLocation
      <4>2. QED
        BY <2>1, <2>2, <2>5, <3>1, <3>2, <4>1
    <3>3. CASE nand[pmt[a]].old = INVALID_PM_NODE
      <4>1. page.old = pmt[a] /\ pmt[a] # INVALID_PM_NODE
        BY <1>5, <2>5, <3>3 DEF page, OldLocation, INVALID_PM_NODE
      <4>2. QED
        BY <2>1, <2>5, <3>1, <3>3, <4>1
    <3>4. QED
      BY <3>2, <3>3
  <2>6. CASE b = a /\ tag = "mft"
    BY <1>3, <1>4, <2>6
  <2>7. QED
    BY <1>2, <2>3, <2>4, <2>5, <2>6
<1>13. QED
  BY <1>9, <1>10, <1>11, <1>12 DEF DeviceInv

\* A reclaim moves a mapped page with its spare area and leaves pinned pages.
LEMMA DeviceReclaimInv ==
  ASSUME DeviceInv, NEW x \in Loc, DeviceReclaim(x)
  PROVE  DeviceInv'
<1> DEFINE a == nand[x].addr
           n == NextLoc
<1>1. /\ nand \in [Loc -> Cell] /\ pmt \in [Addr -> Loc] /\ pinned \subseteq Loc
      /\ nand[x] # Erased /\ x \notin pinned /\ reclaims < MaxReclaims
      /\ UNCHANGED <<pinned, last_addr, last_loc, backupmft, cache, writes, benign>>
      /\ reclaims' = reclaims + 1 /\ reclaims \in 0 .. MaxReclaims
  BY DEF DeviceReclaim, walker, DeviceInv, ReadPathTypeOK
<1>2. a \in Addr
  BY <1>1, CellFacts DEF DeviceInv
<1>3. \A b \in Addr : nand[pmt[b]].addr = b /\ nand[pmt[b]] # Erased /\ pmt[b] \in Loc
  BY MappedFacts
<1>4. Erased \in Cell /\ reclaims' \in 0 .. MaxReclaims
  BY <1>1, AddrFacts DEF Cell
\* Whatever a page is mapped to, its contents and spare area are there, and
\* pinned locations are as they were.
<1>5. /\ nand' \in [Loc -> Cell] /\ pmt' \in [Addr -> Loc]
      /\ \A b \in Addr : nand'[pmt'[b]] = nand[pmt[b]]
      /\ \A y \in pinned : nand'[y] = nand[y]
  <2>1. CASE pmt[a] = x
    <3>1. /\ n \in Loc /\ nand[n] = Erased /\ n \notin pinned /\ n # x
          /\ nand' = [nand EXCEPT ![n] = nand[x], ![x] = Erased]
          /\ pmt' = [pmt EXCEPT ![a] = n]
      BY <1>1, <2>1, NextLocFacts DEF DeviceReclaim
    <3> HIDE DEF n
    <3>2. \A b \in Addr : b # a => pmt[b] # x /\ pmt[b] # n
      BY <1>3, <3>1
    <3>3. nand' \in [Loc -> Cell] /\ pmt' \in [Addr -> Loc]
      BY <1>1, <1>4, <3>1
    <3>4. nand'[n] = nand[x] /\ \A y \in Loc : y # n /\ y # x => nand'[y] = nand[y]
      BY <1>1, <3>1
    <3>5. ASSUME NEW b \in Addr PROVE nand'[pmt'[b]] = nand[pmt[b]]
      BY <1>1, <1>2, <1>3, <2>1, <3>1, <3>2, <3>4
    <3>6. \A y \in pinned : nand'[y] = nand[y]
      BY <1>1, <3>1, <3>4
    <3>7. QED
      BY <3>3, <3>5, <3>6
  <2>2. CASE pmt[a] # x
    <3>1. nand' = [nand EXCEPT ![x] = Erased] /\ pmt' = pmt
      BY <2>2 DEF DeviceReclaim
    <3>2. \A b \in Addr : pmt[b] # x
      BY <1>3, <2>2
    <3>3. QED
      BY <1>1, <1>3, <1>4, <3>1, <3>2
  <2>3. QED
    BY <2>1, <2>2
<1> HIDE DEF a, n
<1>6. ReadPathTypeOK'
  BY <1>1, <1>4, <1>5 DEF DeviceInv, ReadPathTypeOK
<1>7. MapInv'
  BY <1>3, <1>5 DEF MapInv
<1>8. RetainInv'
  BY <1>1, <1>5 DEF DeviceInv, RetainInv
<1>9. CacheInv'
  BY <1>1, <1>5 DEF DeviceInv, CacheInv
<1>10. QED
  BY <1>6, <1>7, <1>8, <1>9 DEF DeviceInv

\* The device that has been filled once.
LEMMA FirstLocFacts ==
  /\ \A a \in Addr : FirstLoc(a) \in 1 .. Cardinality(Addr)
  /\ \A a, b \in Addr : FirstLoc(a) = FirstLoc(b) => a = b
<1> DEFINE upTo(a) == {b \in Addr : b <= a}
<1>1. \A a \in Addr : /\ IsFiniteSet(upTo(a)) /\ Cardinality(upTo(a)) \in Nat
                      /\ Cardinality(upTo(a)) <= Cardinality(Addr)
                      /\ Cardinality(upTo(a)) # 0
  <2> SUFFICES ASSUME NEW a \in Addr
               PROVE  /\ IsFiniteSet(upTo(a)) /\ Cardinality(upTo(a)) \in Nat
                      /\ Cardinality(upTo(a)) <= Cardinality(Addr)
                      /\ Cardinality(upTo(a)) # 0
    OBVIOUS
  <2>1. upTo(a) \in SUBSET Addr /\ a \in upTo(a)
    BY AddrFacts
  <2> HIDE DEF upTo
  <2>2. IsFiniteSet(upTo(a)) /\ Cardinality(upTo(a)) <= Cardinality(Addr)
    BY <2>1, AddrFacts, FS_Subset
  <2>3. QED
    BY <2>1, <2>2, FS_CardinalityType, FS_EmptySet
<1>2. \A a, b \in Addr : a <= b => upTo(a) \in SUBSET upTo(b)
  <2> SUFFICES ASSUME NEW a \in Addr, NEW b \in Addr, a <= b,
                      NEW c \in Addr, c <= a
               PROVE  c <= b
    OBVIOUS
  <2>1. a \in Nat /\ b \in Nat /\ c \in Nat
    BY AddrFacts
  <2>2. QED
    BY <2>1
<1>3. \A a, b \in Addr : a <= b /\ Cardinality(upTo(a)) = Cardinality(upTo(b))
                         => upTo(a) = upTo(b)
  <2> HIDE DEF upTo
  <2>1. QED
    BY <1>1, <1>2, FS_Subset
<1>4. \A a, b \in Addr : upTo(a) = upTo(b) => a = b
  <2> SUFFICES ASSUME NEW a \in Addr, NEW b \in Addr, upTo(a) = upTo(b) PROVE a = b
    OBVIOUS
  <2>1. a \in upTo(a) /\ b \in upTo(b)
    BY AddrFacts
  <2>2. a <= b /\ b <= a
    BY <2>1
  <2>3. QED
    BY <2>2, AddrFacts
<1>5. \A a \in Addr : FirstLoc(a) = Cardinality(upTo(a))
  BY DEF FirstLoc
<1> HIDE DEF upTo
<1>6. \A a, b \in Addr : a <= b \/ b <= a
  BY AddrFacts
<1>7. \A a \in Addr : FirstLoc(a) \in 1 .. Cardinality(Addr)
  BY <1>1, <1>5, AddrFacts
<1>8. QED
  BY <1>3, <1>4, <1>5, <1>6, <1>7

LEMMA DeviceInit == Init => DeviceInv
<1> SUFFICES ASSUME Init PROVE DeviceInv
  OBVIOUS
<1>1. /\ \A a \in Addr : FirstLoc(a) \in Loc /\ FirstLoc(a) \in Version
      /\ 0 \notin Addr /\ INVALID_PM_NODE = 0
  BY FirstLocFacts, AddrFacts DEF Loc, Version, INVALID_PM_NODE
<1>2. \A x \in Loc : \A a \in Addr : FirstLoc(a) = x =>
        nand[x] = [addr |-> a, ver |-> x, old |-> INVALID_PM_NODE]
  <2> SUFFICES ASSUME NEW x \in Loc, NEW a \in Addr, FirstLoc(a) = x
               PROVE  nand[x] = [addr |-> a, ver |-> x, old |-> INVALID_PM_NODE]
    OBVIOUS
  <2>1. (CHOOSE b \in Addr : FirstLoc(b) = x) = a
    BY FirstLocFacts
  <2>2. QED
    BY <2>1 DEF Init
<1>3. \A x \in Loc : nand[x] \in Cell
  <2> SUFFICES ASSUME NEW x \in Loc PROVE nand[x] \in Cell
    OBVIOUS
  <2>1. CASE \E a \in Addr : FirstLoc(a) = x
    <3>1. PICK a \in Addr : FirstLoc(a) = x
      BY <2>1
    <3>2. nand[x] = [addr |-> a, ver |-> x, old |-> INVALID_PM_NODE] /\ x \in Version
      BY <1>1, <1>2, <3>1
    <3>3. nand[x] \in [addr : Addr, ver : Version, old : MaybeLoc]
      BY <3>2 DEF MaybeLoc
    <3>4. QED
      BY <3>3 DEF Cell
  <2>2. CASE ~\E a \in Addr : FirstLoc(a) = x
    BY <2>2 DEF Init, Cell
  <2>3. QED
    BY <2>1, <2>2
<1>4. nand \in [Loc -> Cell]
  BY <1>3 DEF Init
<1>5. pmt \in [Addr -> Loc] /\ benign \in [Addr -> Version \cup {NoVersion}]
  BY <1>1 DEF Init
<1>6. \A a \in Addr : /\ pmt[a] = FirstLoc(a) /\ benign[a] = FirstLoc(a)
                      /\ nand[pmt[a]] = [addr |-> a, ver |-> FirstLoc(a),
                                         old |-> INVALID_PM_NODE]
  BY <1>1, <1>2 DEF Init
<1>7. MapInv /\ RetainInv
  <2>1. \A a \in Addr : /\ nand[pmt[a]].addr = a /\ nand[pmt[a]].ver = benign[a]
                        /\ nand[pmt[a]].old = INVALID_PM_NODE
    <3> SUFFICES ASSUME NEW a \in Addr
                 PROVE  /\ nand[pmt[a]].addr = a /\ nand[pmt[a]].ver = benign[a]
                        /\ nand[pmt[a]].old = INVALID_PM_NODE
      OBVIOUS
    <3>1. /\ nand[pmt[a]] = [addr |-> a, ver |-> FirstLoc(a), old |-> INVALID_PM_NODE]
          /\ benign[a] = FirstLoc(a)
      BY <1>6
    <3>2. QED
      BY <3>1
  <2>2. QED
    BY <2>1 DEF MapInv, RetainInv
<1>8. CacheInv
  BY <1>1 DEF Init, NoPage, CacheInv
<1>9. writes \in Version
  <2>1. Runlist[1] \in Addr
    BY RunlistFacts
  <2>2. FirstLoc(Runlist[1]) \in 1 .. Cardinality(Addr)
    BY <2>1, FirstLocFacts
  <2>3. QED
    BY <2>2, AddrFacts, SMT DEF Init, Version
<1>10. ReadPathTypeOK
  BY <1>4, <1>5, <1>9, AddrFacts DEF Init, ReadPathTypeOK, MaybeLoc, NoPage, Tags,
                                     INVALID_PM_NODE
<1>11. QED
  BY <1>7, <1>8, <1>10 DEF DeviceInv

(***************************************************************************)
(* The tagger and the tools.                                               *)
(***************************************************************************)

\* The count never reaches three.
LEMMA CountType ==
  ASSUME sector2048count \in 0 .. 2, NEW process, NEW a, CountRead(process, a)
  PROVE  /\ sector2048count' \in 0 .. 2
         /\ a # Boot \/ process # "scanmft" => sector2048count' = sector2048count
         /\ a = Boot /\ process = "scanmft" =>
              sector2048count' = IF sector2048count = 2 THEN 0 ELSE sector2048count + 1
BY DEF CountRead, NextCount, Counted

\* What the served tag asks for is what the read gets.
LEMMA ServedRead ==
  ASSUME DeviceInv, ~stale, ~wrong, NEW a \in Addr, NEW part \in BOOLEAN, NEW cdb,
         Judge(a, part, cdb)
  PROVE  ~stale' /\ ~wrong'
<1> DEFINE tag == Served(a, part, cdb)
           answer == IF part THEN PartAnswer(a, cdb) ELSE DeviceAnswer(a, cdb)
<1>1. CASE part /\ Cached(a)
  <2>1. cache.addr = a /\ answer = cache.ver /\ tag = cache.tag
    BY <1>1 DEF Cached, PartAnswer, Served
  <2>2. /\ tag = "none" => answer = nand[pmt[a]].ver
        /\ tag = "recover" /\ benign[a] # NoVersion => answer = benign[a]
    BY <2>1 DEF DeviceInv, CacheInv
  <2> HIDE DEF tag, answer
  <2>3. QED
    BY <2>2 DEF Judge, tag, answer
<1>2. CASE ~(part /\ Cached(a))
  <2>1. answer = FTL_Read(a, CheckTag(cdb), Walk).ver /\ tag = CheckTag(cdb)
    BY <1>2 DEF PartAnswer, DeviceAnswer, Served
  <2>2. /\ tag = "none" => answer = nand[pmt[a]].ver
        /\ tag = "recover" /\ benign[a] # NoVersion => answer = benign[a]
    <3> HIDE DEF tag, answer
    <3>1. QED
      BY <2>1, PlainRead, RecoveredRead
  <2> HIDE DEF tag, answer
  <2>3. QED
    BY <2>2 DEF Judge, tag, answer
<1>3. QED
  BY <1>1, <1>2

LEMMA InitInv == SInit => ScanInv
<1> SUFFICES ASSUME SInit PROVE ScanInv
  OBVIOUS
<1>1. DeviceInv
  BY DeviceInit DEF SInit
<1>2. ScanType /\ PhaseInv /\ ~stale /\ ~wrong
  <2>1. version \in 0 .. Versions - 1 /\ since \in 0 .. version
    BY VersionsAssumption DEF SInit
  <2>2. cluster \in 1 .. Len(Runlist) /\ scans \in 0 .. MaxScans
    BY RunlistFacts, ScansAssumption DEF SInit
  <2>3. QED
    <3>1. /\ sector2048count = 0 /\ at = "idle"
          /\ killed = FALSE /\ walked = FALSE /\ strayed = FALSE
          /\ stale = FALSE /\ wrong = FALSE
      BY DEF SInit
    <3>2. QED
      <4>1. {killed, walked, strayed, stale, wrong} \subseteq BOOLEAN
        BY <3>1
      <4>2. sector2048count \in 0 .. 2 /\ at \in Places
        BY <3>1 DEF Places
      <4>3. ScanType
        BY <2>1, <2>2, <4>1, <4>2 DEF ScanType
      <4>4. PhaseInv
        BY <3>1 DEF PhaseInv, CountAt
      <4>5. QED
        BY <3>1, <4>3, <4>4
<1>3. QED
  BY <1>1, <1>2 DEF ScanInv

LEMMA GuestReadInv ==
  ASSUME ScanInv, NEW a \in Addr, NEW part \in BOOLEAN, NEW process,
         GuestRead(a, part, process)
  PROVE  ScanInv'
<1> DEFINE cdb == ReadTag(process, a)
<1>1. DeviceInv /\ ScanType /\ PhaseInv /\ ~stale /\ ~wrong /\ a # Boot
  BY AddrFacts DEF ScanInv, Boot
<1>2. sector2048count' = sector2048count
  BY <1>1, CountType DEF GuestRead, ScanType
<1>3. DeviceInv'
  BY <1>1, DeviceReadInv, DeviceReadPartInv DEF GuestRead
<1>4. ~stale' /\ ~wrong'
  BY <1>1, ServedRead DEF GuestRead
<1>5. walked' \in BOOLEAN /\ stale' \in BOOLEAN /\ wrong' \in BOOLEAN
  BY <1>1 DEF GuestRead, Judge, ScanType
<1>6. {killed', walked', strayed', stale', wrong'} \subseteq BOOLEAN
  BY <1>1, <1>5 DEF GuestRead, ScanType
<1>7. ScanType' /\ PhaseInv'
  BY <1>1, <1>2, <1>5, <1>6 DEF GuestRead, scan, ScanType, PhaseInv
<1>8. QED
  BY <1>3, <1>4, <1>7 DEF ScanInv

LEMMA GuestWriteInv ==
  ASSUME ScanInv, NEW a \in Addr, NEW process, NEW is_MFT \in BOOLEAN,
         GuestWrite(a, process, is_MFT)
  PROVE  ScanInv'
<1>1. DeviceInv /\ ScanType /\ PhaseInv /\ ~stale /\ ~wrong
  BY DEF ScanInv
<1>2. CheckTag(WriteTag(process, a, is_MFT)) # "recover"
  BY TagOfByte DEF WriteTag
<1>3. DeviceInv'
  BY <1>1, <1>2, DeviceWriteInv DEF GuestWrite
<1>4. since' \in 0 .. version'
  BY <1>1, VersionsAssumption DEF GuestWrite, scan, ScanType
<1>5. ScanType' /\ PhaseInv' /\ ~stale' /\ ~wrong'
  BY <1>1, <1>4 DEF GuestWrite, scan, ScanType, PhaseInv
<1>6. QED
  BY <1>3, <1>5 DEF ScanInv

LEMMA RecoverReadInv ==
  ASSUME ScanInv, NEW a \in Addr, NEW part \in BOOLEAN, RecoverRead(a, part)
  PROVE  ScanInv'
<1>1. DeviceInv /\ ScanType /\ PhaseInv /\ ~stale /\ ~wrong /\ a # Boot
  BY AddrFacts DEF ScanInv, Boot
<1>2. sector2048count' = sector2048count
  BY <1>1, CountType DEF RecoverRead, ScanType
<1>3. DeviceInv'
  BY <1>1, DeviceReadInv, DeviceReadPartInv DEF RecoverRead
<1>4. ~stale' /\ ~wrong'
  BY <1>1, ServedRead DEF RecoverRead
<1>5. walked' \in BOOLEAN /\ stale' \in BOOLEAN /\ wrong' \in BOOLEAN
  BY <1>1 DEF RecoverRead, Judge, ScanType
<1>6. {killed', walked', strayed', stale', wrong'} \subseteq BOOLEAN
  BY <1>1, <1>5 DEF RecoverRead, ScanType
<1>7. ScanType' /\ PhaseInv'
  BY <1>1, <1>2, <1>5, <1>6 DEF RecoverRead, scan, ScanType, PhaseInv
<1>8. QED
  BY <1>3, <1>4, <1>7 DEF ScanInv

\* A read of the boot sector moves count and tool together.
LEMMA ReadBootInv ==
  ASSUME ScanInv, NEW here \in Places, NEW next \in Places, ReadBoot(here, next),
         <<here, next>> \in {<<"idle", "record">>, <<"start", "walk">>, <<"end", "idle">>},
         scans' \in 0 .. MaxScans, UNCHANGED <<killed, walked>>
  PROVE  ScanInv'
<1>1. DeviceInv /\ ScanType /\ PhaseInv /\ ~stale /\ ~wrong
  BY DEF ScanInv
<1>2. sector2048count' = IF sector2048count = 2 THEN 0 ELSE sector2048count + 1
  BY <1>1, CountType DEF ReadBoot, ScanType
<1>3. DeviceInv'
  BY <1>1 DEF ReadBoot, rvars, flash, walker, DeviceInv, ReadPathTypeOK, MapInv,
              RetainInv, CacheInv
<1>4. ScanType' /\ ~stale' /\ ~wrong'
  BY <1>1, <1>2 DEF ReadBoot, ScanType
<1>5. PhaseInv'
  BY <1>1, <1>2 DEF ReadBoot, PhaseInv, CountAt
<1>6. QED
  BY <1>3, <1>4, <1>5 DEF ScanInv

LEMMA ScanRecordInv ==
  ASSUME ScanInv, ScanRecord
  PROVE  ScanInv'
<1>1. DeviceInv /\ ScanType /\ PhaseInv /\ ~stale /\ ~wrong
  BY DEF ScanInv
<1>2. Runlist[1] \in Addr /\ Runlist[1] # Boot
  BY RunlistFacts, AddrFacts DEF Boot
<1>3. sector2048count' = sector2048count
  BY <1>1, <1>2, CountType DEF ScanRecord, ScanType
<1>4. DeviceInv'
  BY <1>1, <1>2, DeviceReadInv, ReadAheadAssumption DEF ScanRecord
<1>5. ScanType' /\ ~stale' /\ ~wrong'
  BY <1>1, <1>3 DEF ScanRecord, ghosts, ScanType, Places
<1>6. PhaseInv'
  BY <1>1, <1>3 DEF ScanRecord, ghosts, PhaseInv, CountAt
<1>7. QED
  BY <1>4, <1>5, <1>6 DEF ScanInv

LEMMA ScanClusterInv ==
  ASSUME ScanInv, ScanCluster
  PROVE  ScanInv'
<1> DEFINE a == Runlist[cluster]
           cdb == ReadTag("scanmft", a)
<1>1. DeviceInv /\ ScanType /\ PhaseInv /\ ~stale /\ ~wrong
  BY DEF ScanInv
<1>2. a \in Addr /\ a # Boot /\ cluster \in 1 .. Len(Runlist) /\ Len(Runlist) \in Nat
  BY <1>1, RunlistFacts, AddrFacts DEF ScanType, Boot
<1>3. sector2048count' = sector2048count
  BY <1>1, <1>2, CountType DEF ScanCluster, ScanType
<1>4. DeviceInv'
  BY <1>1, <1>2, DeviceReadInv, ReadAheadAssumption DEF ScanCluster
<1> HIDE DEF cdb
<1>5. version \in 0 .. Versions - 1 /\ since \in 0 .. version /\ Versions \in Nat \ {0}
  BY <1>1, VersionsAssumption DEF ScanType
<1>6. version' \in 0 .. Versions - 1
  BY <1>5 DEF ScanCluster, ClusterDone
<1>7. since' \in 0 .. version'
  BY <1>5 DEF ScanCluster, ClusterDone
<1>8. {walked', strayed'} \subseteq BOOLEAN
  BY <1>1 DEF ScanCluster, ScanType, WalkBegins
<1>9. at' \in {"walk", "end"} /\ cluster' \in 1 .. Len(Runlist) /\ at = "walk"
  BY <1>2, RunlistFacts DEF ScanCluster
<1>10. ScanType' /\ ~stale' /\ ~wrong'
  BY <1>1, <1>3, <1>6, <1>7, <1>8, <1>9 DEF ScanCluster, ScanType, Places
<1>11. PhaseInv'
  BY <1>1, <1>3, <1>9 DEF ScanCluster, PhaseInv, CountAt
<1>12. QED
  BY <1>4, <1>10, <1>11 DEF ScanInv

LEMMA NextInv == ScanInv /\ [Next]_svars => ScanInv'
<1> SUFFICES ASSUME ScanInv, [Next]_svars PROVE ScanInv'
  OBVIOUS
<1>1. DeviceInv /\ ScanType /\ PhaseInv /\ ~stale /\ ~wrong
  BY DEF ScanInv
<1>2. ASSUME NEW a \in Addr, NEW part \in BOOLEAN, NEW process \in Running,
             GuestRead(a, part, process)
      PROVE  ScanInv'
  BY <1>2, GuestReadInv
<1>3. ASSUME NEW a \in Addr, NEW process \in {"other", "invalid"},
             NEW is_MFT \in BOOLEAN, GuestWrite(a, process, is_MFT)
      PROVE  ScanInv'
  BY <1>3, GuestWriteInv
<1>4. ASSUME NEW process \in Running, GuestReadsBoot(process)
      PROVE  ScanInv'
  <2>1. sector2048count' \in 0 .. 2
        /\ (process # "scanmft" => sector2048count' = sector2048count)
    BY <1>1, <1>4, CountType DEF GuestReadsBoot, ScanType
  <2>2. ScanType' /\ PhaseInv' /\ ~stale' /\ ~wrong'
    BY <1>1, <1>4, <2>1 DEF GuestReadsBoot, scan, ScanType, PhaseInv
  <2>3. DeviceInv'
    BY <1>1, <1>4 DEF GuestReadsBoot, rvars, flash, walker, DeviceInv, ReadPathTypeOK,
                      MapInv, RetainInv, CacheInv
  <2>4. QED
    BY <2>2, <2>3 DEF ScanInv
<1>5. ASSUME NEW x \in Loc, Reclaim(x)
      PROVE  ScanInv'
  <2>1. DeviceInv'
    BY <1>1, <1>5, DeviceReclaimInv DEF Reclaim
  <2>2. ScanType' /\ PhaseInv' /\ ~stale' /\ ~wrong'
    BY <1>1, <1>5 DEF Reclaim, scan, ScanType, PhaseInv
  <2>3. QED
    BY <2>1, <2>2 DEF ScanInv
<1>6. ASSUME NEW a \in Addr, NEW part \in BOOLEAN, RecoverRead(a, part)
      PROVE  ScanInv'
  BY <1>6, RecoverReadInv
<1>7. ASSUME ScanOpen
      PROVE  ScanInv'
  <2>1. scans' \in 0 .. MaxScans
    BY <1>1, <1>7, ScansAssumption DEF ScanOpen, ScanType
  <2>2. QED
    BY <1>7, <2>1, ReadBootInv DEF ScanOpen, Places
<1>8. ASSUME ScanStart \/ ScanEnd
      PROVE  ScanInv'
  <2>1. scans' \in 0 .. MaxScans
    BY <1>1, <1>8 DEF ScanStart, ScanEnd, ScanType
  <2>2. QED
    BY <1>8, <2>1, ReadBootInv DEF ScanStart, ScanEnd, Places
<1>9. ASSUME ScanKilled
      PROVE  ScanInv'
  <2>1. DeviceInv'
    BY <1>1, <1>9 DEF ScanKilled, rvars, flash, walker, DeviceInv, ReadPathTypeOK,
                      MapInv, RetainInv, CacheInv
  <2>2. ScanType' /\ PhaseInv' /\ ~stale' /\ ~wrong'
    <3>1. version' \in 0 .. Versions - 1 /\ since' \in 0 .. version'
      BY <1>9, VersionsAssumption DEF ScanKilled
    <3>2. cluster' \in 1 .. Len(Runlist)
      BY <1>9, RunlistFacts DEF ScanKilled
    <3>3. QED
      BY <1>1, <1>9, <3>1, <3>2 DEF ScanKilled, ScanType, PhaseInv, Places
  <2>3. QED
    BY <2>1, <2>2 DEF ScanInv
<1>10. CASE UNCHANGED svars
  <2>1. DeviceInv'
    BY <1>1, <1>10 DEF svars, rvars, flash, walker, DeviceInv, ReadPathTypeOK, MapInv,
                       RetainInv, CacheInv
  <2>2. ScanType' /\ PhaseInv' /\ ~stale' /\ ~wrong'
    BY <1>1, <1>10 DEF svars, scan, ghosts, ScanType, PhaseInv
  <2>3. QED
    BY <2>1, <2>2 DEF ScanInv
<1>11. QED
  BY <1>2, <1>3, <1>4, <1>5, <1>6, <1>7, <1>8, <1>9, <1>10, ScanRecordInv,
     ScanClusterInv DEF Next

(***************************************************************************)
(* The results.                                                            *)
(***************************************************************************)

LEMMA ScanInvariant == Spec => []ScanInv
BY InitInv, NextInv, PTL DEF Spec

\* Every variable keeps its type.
THEOREM TypeCorrect == Spec => []TypeOK
<1>1. ScanInv => TypeOK
  BY DEF ScanInv, DeviceInv, ScanType, TypeOK
<1>2. QED
  BY <1>1, ScanInvariant, PTL

\* The tagger follows scanmft: its MFT reads are tagged in the scan and only
\* then, whatever other processes do, until a scan is cut short.
THEOREM PhaseAlwaysKept == Spec => []PhaseKept
<1>1. ScanInv => PhaseKept
  <2> SUFFICES ASSUME ScanInv, ~killed, NEW a \in MftPage
               PROVE  ReadTag("scanmft", a) = RANSOMTAG_MFT <=> at \in {"walk", "end"}
    BY DEF PhaseKept
  <2>1. a # Boot /\ sector2048count = CountAt(at) /\ at \in Places
    BY RunlistFacts, AddrFacts DEF ScanInv, ScanType, PhaseInv, Boot
  <2>2. QED
    BY <2>1 DEF ReadTag, Counted, CountAt, Places, RANSOMTAG_MFT
<1>2. QED
  BY <1>1, ScanInvariant, PTL

\* Whatever the guest and the tools do, and however often pages are written
\* and reclaimed: what a read served untagged gets is the current version, and
\* what a read served as recover read gets is the one the ransom tag preserves,
\* whether it comes from the flash or from the read cache.
THEOREM ReadsGetWhatTheyAreServed == Spec => [](UntaggedReadsCurrent /\ RecoverReadsRetained)
<1>1. ScanInv => UntaggedReadsCurrent /\ RecoverReadsRetained
  BY DEF ScanInv, UntaggedReadsCurrent, RecoverReadsRetained
<1>2. QED
  BY <1>1, ScanInvariant, PTL

=============================================================================
