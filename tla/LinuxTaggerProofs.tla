------------------------- MODULE LinuxTaggerProofs -------------------------
(***************************************************************************)
(* Proofs about LinuxTagger, for every layout of up to four groups, every  *)
(* length of the directory list, and any number of writes, aborted         *)
(* commands and stopped tools.                                             *)
(***************************************************************************)
EXTENDS LinuxTagger, FiniteSetTheorems, TLAPS

\* What every state of the tagger satisfies; the properties of the runs are
\* about single commands and follow from it.
\*  - The descriptors are waited for until they are there, and count as
\*    loaded once all groups are known.
\*  - A command for an inode table has started the parsing of inodes by the
\*    time its data comes, so that a directory an inode table named is in the
\*    list, unless the list is full.
\*  - The flags of the sessions are those of the open session and of the ones
\*    stopped tools have left open.
LoadInv ==
  /\ group_desc_loaded => super_block # "none" /\ ~read_group_desc_metadata
  /\ loaded_group_desc_count = NGroup => group_desc_loaded
  /\ indexed # {} => group_desc_loaded
ListInv ==
  /\ loaded_group_desc_count = NGroup /\ cmd.b \in InodeTable => parse_inode_trigger
  /\ loaded_group_desc_count = NGroup => indexed \subseteq dir_inode_extent_block \/ Full
  /\ dir_inode_extent_block \subseteq named
SessionInv ==
  /\ mfttag_start <=> "mft" \in left \/ tool = "mft"
  /\ recovertag_start <=> "recover" \in left \/ tool = "recover"
TaggerInv == TypeOK /\ LoadInv /\ ListInv /\ SessionInv

(***************************************************************************)
(* Facts about single operators.                                           *)
(***************************************************************************)

LEMMA LayoutFacts ==
  /\ NGroup \in 1 .. 4 /\ NBlock \in Nat \ {0} /\ ItableBlocks \in Nat \ {0}
  /\ 0 \notin InodeTable /\ 1 \notin InodeTable
  /\ \A g \in 1 .. NGroup : Groups[g].itable \in Nat /\ Groups[g].ibitmap \in Nat
  /\ DOMAIN Groups = 1 .. NGroup
  /\ InodeTable \subseteq Block /\ DirBlock \subseteq Block
<1>1. Groups \in Seq([itable : Block, ibitmap : Block]) /\ NGroup \in 1 .. 4
  BY LayoutAssumption
<1>2. Block \subseteq Nat /\ DOMAIN Groups = 1 .. NGroup
  BY <1>1 DEF Block, NGroup
<1>3. \A g \in 1 .. NGroup : Groups[g] \in [itable : Block, ibitmap : Block]
  <2> DEFINE Descriptors == [itable : Block, ibitmap : Block]
  <2> HIDE DEF Descriptors
  <2>1. \A g \in 1 .. NGroup : Groups[g] \in Descriptors
    <3>1. Groups \in Seq(Descriptors)
      BY <1>1 DEF Descriptors
    <3>2. QED
      BY <1>2, <3>1 DEF NGroup
  <2>2. QED
    BY <2>1 DEF Descriptors
<1>4. \A g \in 1 .. NGroup : Groups[g].itable \in Nat /\ Groups[g].ibitmap \in Nat
  BY <1>2, <1>3
<1>5. 0 \notin InodeTable /\ 1 \notin InodeTable /\ DirBlock \subseteq Block
  BY LayoutAssumption
<1>6. InodeTable \subseteq Block
  BY DEF InodeTable
<1>7. QED
  BY <1>1, <1>2, <1>4, <1>5, <1>6, LayoutAssumption

LEMMA FiniteDirectories ==
  ASSUME NEW s \in SUBSET DirBlock
  PROVE  IsFiniteSet(s) /\ Cardinality(s) \in Nat
<1>1. IsFiniteSet(Block)
  BY LayoutFacts, FS_Interval DEF Block
<1>2. IsFiniteSet(s)
  BY <1>1, LayoutFacts, FS_Subset
<1>3. QED
  BY <1>2, FS_CardinalityType

LEMMA TagTypes ==
  ASSUME NEW b
  PROVE  WriteTags(b) \subseteq {"mft", "ransom"} /\ ReadTag(b) \in {"none", "mft", "recover"}
BY DEF WriteTags, ReadTag

\* An inode table is recognised once all descriptors are known.
LEMMA InodeTableKnown ==
  ASSUME loaded_group_desc_count = NGroup, super_block # "none", NEW b \in InodeTable
  PROVE  IsInodeTable(b)
<1>1. PICK g \in 1 .. NGroup :
        b \in Groups[g].itable .. Groups[g].itable + ItableBlocks - 1
  BY LayoutFacts DEF InodeTable
<1>2. ItableStart(g) = Groups[g].itable /\ KnownLength = ItableBlocks
  BY <1>1, LayoutFacts DEF ItableStart, Entry, KnownLength
<1>3. g \in 1 .. 4
  BY <1>1, LayoutFacts
<1>4. b >= ItableStart(g) /\ b <= ItableStart(g) + KnownLength
  BY <1>1, <1>2, LayoutFacts
<1>5. QED
  BY <1>3, <1>4 DEF IsInodeTable

LEMMA BitmapKnown ==
  ASSUME loaded_group_desc_count = NGroup, NEW b \in InodeBitmap
  PROVE  IsInodeBitmap(b)
<1>1. PICK g \in 1 .. NGroup : b = Groups[g].ibitmap
  BY LayoutFacts DEF InodeBitmap
<1>2. BitmapBlock(g) = b /\ g \in 1 .. 4
  BY <1>1, LayoutFacts DEF BitmapBlock, Entry
<1>3. QED
  BY <1>2 DEF IsInodeBitmap

\* What the list becomes: it keeps its entries and its length, takes nothing
\* but directories of the data, and takes them all unless it is full.
LEMMA AddedFacts ==
  ASSUME TypeOK, NEW dirs \in SUBSET DirBlock, NEW new \in Added(dirs)
  PROVE  /\ dir_inode_extent_block \subseteq new
         /\ new \subseteq dir_inode_extent_block \cup dirs
         /\ Cardinality(new) <= DIRS
         /\ dirs \subseteq new \/ Cardinality(new) = DIRS
<1> DEFINE old == dir_inode_extent_block
           rest == dirs \ old
           fits == {s \in SUBSET rest : Cardinality(s) + Cardinality(old) <= DIRS}
<1>1. old \subseteq DirBlock /\ Cardinality(old) <= DIRS /\ DIRS \in Nat
  BY TaggerBoundsAssumption DEF TypeOK
<1>2. PICK s \in fits : new = old \cup s /\ \A u \in fits : Cardinality(u) <= Cardinality(s)
  BY DEF Added
<1>3. s \subseteq DirBlock /\ s \cap old = {}
  OBVIOUS
<1>4. /\ IsFiniteSet(s) /\ Cardinality(s) \in Nat
      /\ IsFiniteSet(old) /\ Cardinality(old) \in Nat
  BY <1>1, <1>3, FiniteDirectories
<1>5. Cardinality(new) = Cardinality(old) + Cardinality(s)
  <2>1. Cardinality(new) = Cardinality(old) + Cardinality(s) - Cardinality(old \cap s)
    BY <1>2, <1>4, FS_Union
  <2>2. Cardinality(old \cap s) = 0
    BY <1>3, FS_EmptySet
  <2>3. QED
    BY <1>4, <2>1, <2>2
<1>6. Cardinality(new) <= DIRS
  BY <1>2, <1>4, <1>5
<1>7. ASSUME Cardinality(new) # DIRS
      PROVE  dirs \subseteq new
  <2> SUFFICES ASSUME NEW d \in rest, d \notin s PROVE FALSE
    BY <1>2
  <2>1. Cardinality(s \cup {d}) = Cardinality(s) + 1
    BY <1>4, FS_AddElement
  <2>2. Cardinality(s) + 1 + Cardinality(old) <= DIRS
    BY <1>1, <1>4, <1>5, <1>6, <1>7
  <2>3. s \cup {d} \in fits
    BY <1>2, <2>1, <2>2
  <2>4. QED
    BY <1>2, <1>4, <2>1, <2>3
<1>8. QED
  BY <1>2, <1>6, <1>7

LEMMA ContentsType ==
  ASSUME NEW b \in Block
  PROVE  ContentsOf(b) \subseteq SUBSET DirBlock
BY ContentsAssumption DEF ContentsOf

LEMMA InitInv == Init => TaggerInv
<1> SUFFICES ASSUME Init PROVE TaggerInv
  OBVIOUS
<1>1. Cardinality({}) = 0 /\ DIRS \in Nat /\ MaxWrites \in Nat /\ MaxAborts \in Nat
      /\ MaxKills \in Nat
  BY FS_EmptySet, TaggerBoundsAssumption
<1>2. NGroup \in Nat /\ NGroup # 0 /\ 0 \in Block
  BY LayoutFacts DEF Block
<1>3. Idle \in [op : {"none", "read", "write"}, b : Block \cup Magic, n : 1 .. 2,
                tag : Tags, data : SUBSET DirBlock, by : {"guest", "tool"}]
  BY <1>2 DEF Idle, Tags
<1>4. TypeOK
  <2>1. disk \in [Block -> SUBSET DirBlock] /\ past \in [Block -> SUBSET SUBSET DirBlock]
    BY DEF Init
  <2>2. cmd = Idle /\ loaded_group_desc_count \in 0 .. NGroup
    BY <1>2 DEF Init
  <2>3. Cardinality(dir_inode_extent_block) <= DIRS
    BY <1>1 DEF Init
  <2>4. writes \in 0 .. MaxWrites /\ aborts \in 0 .. MaxAborts /\ kills \in 0 .. MaxKills
    BY <1>1 DEF Init
  <2>5. QED
    BY <1>3, <2>1, <2>2, <2>3, <2>4 DEF Init, TypeOK
<1>5. QED
  BY <1>2, <1>4 DEF Init, TaggerInv, LoadInv, ListInv, SessionInv, Full

(***************************************************************************)
(* A command: what its CBW does to the tagger.                             *)
(***************************************************************************)

\* The command on the bus, and the wait for the descriptors.
LEMMA ReadCommand ==
  ASSUME TaggerInv, NEW b \in Block \cup Magic, NEW n \in 1 .. 2,
         NEW by \in {"guest", "tool"}, AnalyseRead(b, n, by)
  PROVE  /\ cmd' \in [op : {"none", "read", "write"}, b : Block \cup Magic, n : 1 .. 2,
                      tag : Tags, data : SUBSET DirBlock, by : {"guest", "tool"}]
         /\ cmd'.op = "read" /\ cmd'.b = b /\ cmd'.tag = ReadTag(b) /\ cmd'.by = by
         /\ {read_ext4_metadata', read_group_desc_metadata', parse_inode_trigger',
             mfttag_start', recovertag_start'} \subseteq BOOLEAN
         /\ group_desc_loaded => ~read_group_desc_metadata'
         /\ loaded_group_desc_count = NGroup /\ b \in InodeTable => parse_inode_trigger'
<1>1. PICK data \in IF b \in Magic THEN {{}}
                    ELSE IF ReadTag(b) = "none" THEN {disk[b]} ELSE past[b] :
        cmd' = [op |-> "read", b |-> b, n |-> n, tag |-> ReadTag(b),
                data |-> data, by |-> by]
  BY DEF AnalyseRead
<1>2. data \in SUBSET DirBlock
  <2>1. CASE b \in Magic
    BY <1>1, <2>1
  <2>2. CASE b \notin Magic
    BY <1>1, <2>2 DEF TaggerInv, TypeOK
  <2>3. QED
    BY <2>1, <2>2
<1>3. ReadTag(b) \in Tags
  BY TagTypes DEF Tags
<1>4. group_desc_loaded => ~read_group_desc_metadata'
  BY DEF AnalyseRead, AnalyseSuper, TaggerInv, LoadInv
<1>5. loaded_group_desc_count = NGroup /\ b \in InodeTable => parse_inode_trigger'
  BY InodeTableKnown DEF AnalyseRead, TaggerInv, LoadInv
<1>6. {read_ext4_metadata', read_group_desc_metadata', parse_inode_trigger',
       mfttag_start', recovertag_start'} \subseteq BOOLEAN
  BY DEF AnalyseRead, AnalyseSuper, AnalyseMagic, TaggerInv, TypeOK, IsInodeTable
<1>7. QED
  BY <1>1, <1>2, <1>3, <1>4, <1>5, <1>6

\* A read keeps everything but the flags of the sessions, which are looked at
\* action by action.
LEMMA ReadInv ==
  ASSUME TaggerInv, NEW b \in Block \cup Magic, NEW n \in 1 .. 2,
         NEW by \in {"guest", "tool"}, AnalyseRead(b, n, by),
         UNCHANGED <<disk, past, writes, aborts, kills, named, indexed>>,
         tool' \in Sessions \cup {"none"}, left' \subseteq Sessions
  PROVE  TypeOK' /\ LoadInv' /\ ListInv'
<1> USE DEF TaggerInv
<1>1. TypeOK'
  BY ReadCommand DEF AnalyseRead, TypeOK
<1>2. LoadInv'
  BY ReadCommand DEF AnalyseRead, LoadInv
<1>3. ListInv'
  BY ReadCommand DEF AnalyseRead, ListInv, Full
<1>4. QED
  BY <1>1, <1>2, <1>3

\* The blocks of the file system are none of the four magic blocks.
LEMMA MagicFacts ==
  /\ {MftStart, MftEnd, RecoverStart, RecoverEnd} \subseteq Magic
  /\ Block \cap Magic = {}
  /\ MftStart # MftEnd /\ MftStart # RecoverStart /\ MftStart # RecoverEnd
  /\ MftEnd # RecoverStart /\ MftEnd # RecoverEnd /\ RecoverStart # RecoverEnd
BY LayoutFacts DEF MftStart, MftEnd, RecoverStart, RecoverEnd, Magic, Block

LEMMA BlockReadKeepsSessions ==
  ASSUME SessionInv, NEW b \in Block, AnalyseMagic(b), UNCHANGED <<tool, left>>
  PROVE  SessionInv'
BY MagicFacts DEF SessionInv, AnalyseMagic

(***************************************************************************)
(* The actions.                                                            *)
(***************************************************************************)

LEMMA GuestReadInv ==
  ASSUME TaggerInv, NEW b \in Block, NEW n \in 1 .. 2, GuestRead(b, n)
  PROVE  TaggerInv'
<1>1. TypeOK' /\ LoadInv' /\ ListInv'
  BY ReadInv DEF GuestRead, TaggerInv, TypeOK
<1>2. SessionInv'
  BY BlockReadKeepsSessions DEF GuestRead, AnalyseRead, TaggerInv
<1>3. QED
  BY <1>1, <1>2 DEF TaggerInv

LEMMA ToolReadInv ==
  ASSUME TaggerInv, NEW b \in Block, ToolRead(b)
  PROVE  TaggerInv'
<1>1. TypeOK' /\ LoadInv' /\ ListInv'
  BY ReadInv DEF ToolRead, TaggerInv, TypeOK
<1>2. SessionInv'
  BY BlockReadKeepsSessions DEF ToolRead, AnalyseRead, TaggerInv
<1>3. QED
  BY <1>1, <1>2 DEF TaggerInv

LEMMA ToolOpenInv ==
  ASSUME TaggerInv, NEW session \in Sessions, ToolOpen(session)
  PROVE  TaggerInv'
<1> DEFINE b == IF session = "mft" THEN MftStart ELSE RecoverStart
<1>1. b \in Magic /\ AnalyseRead(b, 1, "tool")
  BY MagicFacts DEF ToolOpen
<1>2. TypeOK' /\ LoadInv' /\ ListInv'
  <2>1. /\ UNCHANGED <<disk, past, writes, aborts, kills, named, indexed>>
        /\ tool' \in Sessions \cup {"none"} /\ left' \subseteq Sessions
    BY DEF ToolOpen, TaggerInv, TypeOK
  <2> HIDE DEF b
  <2>2. QED
    BY <1>1, <2>1, ReadInv
<1>3. AnalyseMagic(b)
  BY <1>1 DEF AnalyseRead
<1>4. SessionInv'
  BY <1>3, MagicFacts DEF ToolOpen, AnalyseMagic, TaggerInv, SessionInv, Sessions
<1>5. QED
  BY <1>2, <1>4 DEF TaggerInv

LEMMA ToolCloseInv ==
  ASSUME TaggerInv, ToolClose
  PROVE  TaggerInv'
<1> DEFINE b == IF tool = "mft" THEN MftEnd ELSE RecoverEnd
<1>1. b \in Magic /\ AnalyseRead(b, 1, "tool")
  BY MagicFacts DEF ToolClose
<1>2. TypeOK' /\ LoadInv' /\ ListInv'
  BY <1>1, ReadInv DEF ToolClose, TaggerInv, TypeOK
<1>3. AnalyseMagic(b)
  BY <1>1 DEF AnalyseRead
<1>4. tool \in Sessions
  BY DEF ToolClose, TaggerInv, TypeOK
<1>5. SessionInv'
  BY <1>3, <1>4, MagicFacts DEF ToolClose, AnalyseMagic, TaggerInv, SessionInv, Sessions
<1>6. QED
  BY <1>2, <1>5 DEF TaggerInv

LEMMA ToolKilledInv ==
  ASSUME TaggerInv, ToolKilled
  PROVE  TaggerInv'
<1>1. MaxKills \in Nat
  BY TaggerBoundsAssumption
<1>2. TypeOK'
  BY <1>1 DEF ToolKilled, tagger, TaggerInv, TypeOK
<1>3. LoadInv' /\ ListInv'
  BY DEF ToolKilled, tagger, TaggerInv, LoadInv, ListInv, Full
<1>4. SessionInv'
  BY DEF ToolKilled, tagger, TaggerInv, SessionInv, TypeOK, Sessions
<1>5. QED
  BY <1>2, <1>3, <1>4 DEF TaggerInv

\* The command on the bus after the CBW of a write.
LEMMA WriteCommand ==
  ASSUME TaggerInv, NEW b \in Block, NEW data \in ContentsOf(b), AnalyseWrite(b, data)
  PROVE  /\ cmd' \in [op : {"none", "read", "write"}, b : Block \cup Magic, n : 1 .. 2,
                      tag : Tags, data : SUBSET DirBlock, by : {"guest", "tool"}]
         /\ cmd'.op = "write" /\ cmd'.b = b /\ cmd'.tag \in WriteTags(b)
<1>1. PICK tag \in WriteTags(b) :
        cmd' = [op |-> "write", b |-> b, n |-> 1, tag |-> tag, data |-> data,
                by |-> "guest"]
  BY DEF AnalyseWrite
<1>2. data \in SUBSET DirBlock /\ tag \in Tags
  BY ContentsType, TagTypes DEF Tags
<1>3. QED
  BY <1>1, <1>2

LEMMA GuestWriteInv ==
  ASSUME TaggerInv, NEW b \in Block, NEW data \in ContentsOf(b), GuestWrite(b, data)
  PROVE  TaggerInv'
<1>1. AnalyseWrite(b, data) /\ MaxWrites \in Nat
  BY TaggerBoundsAssumption DEF GuestWrite
<1>2. parse_inode_trigger' \in BOOLEAN
  BY <1>1 DEF AnalyseWrite, IsInodeTable, TaggerInv, TypeOK
<1>3. TypeOK'
  BY <1>1, <1>2, WriteCommand DEF GuestWrite, AnalyseWrite, TaggerInv, TypeOK
<1>4. LoadInv'
  BY DEF GuestWrite, AnalyseWrite, TaggerInv, LoadInv
<1>5. loaded_group_desc_count = NGroup /\ b \in InodeTable => parse_inode_trigger'
  BY <1>1, InodeTableKnown DEF AnalyseWrite, TaggerInv, LoadInv
<1>6. ListInv'
  BY <1>1, <1>5, WriteCommand DEF GuestWrite, AnalyseWrite, TaggerInv, ListInv, Full
<1>7. SessionInv'
  BY DEF GuestWrite, AnalyseWrite, TaggerInv, SessionInv
<1>8. QED
  BY <1>3, <1>4, <1>6, <1>7 DEF TaggerInv

LEMMA AbortInv ==
  ASSUME TaggerInv, Abort
  PROVE  TaggerInv'
<1>1. MaxAborts \in Nat /\ 0 \in Block /\ 0 \notin InodeTable
  BY LayoutFacts, TaggerBoundsAssumption DEF Block
<1>2. cmd' = Idle /\ cmd'.b = 0
  BY DEF Abort, Idle
<1>3. cmd' \in [op : {"none", "read", "write"}, b : Block \cup Magic, n : 1 .. 2,
                tag : Tags, data : SUBSET DirBlock, by : {"guest", "tool"}]
  BY <1>1, <1>2 DEF Idle, Tags
<1>4. TypeOK'
  BY <1>1, <1>3 DEF Abort, tagger, TaggerInv, TypeOK
<1>5. LoadInv' /\ ListInv' /\ SessionInv'
  BY <1>1, <1>2 DEF Abort, tagger, TaggerInv, LoadInv, ListInv, SessionInv, Full
<1>6. QED
  BY <1>4, <1>5 DEF TaggerInv

\* The data: the descriptors, and the directories an inode table names.
LEMMA TransferInv ==
  ASSUME TaggerInv, Transfer
  PROVE  TaggerInv'
<1> DEFINE ready == ParsedSuper # "none" /\ (group_desc_loaded \/ GroupsDone)
<1>1. /\ TypeOK /\ LoadInv /\ ListInv /\ SessionInv /\ HandleSectors
      /\ cmd' = Idle /\ cmd'.b = 0 /\ 0 \notin InodeTable /\ 0 \in Block
  BY LayoutFacts DEF Transfer, TaggerInv, Idle, Block
<1>2. cmd.data \in SUBSET DirBlock /\ cmd.b \in Block \cup Magic
  BY <1>1 DEF TypeOK
<1>3. \/ /\ ParsesInodes(ready) /\ dir_inode_extent_block' \in Added(cmd.data)
         /\ named' = named \cup cmd.data
      \/ /\ ~ParsesInodes(ready) /\ UNCHANGED <<dir_inode_extent_block, named>>
  BY <1>1 DEF HandleSectors
<1>4. /\ dir_inode_extent_block \subseteq dir_inode_extent_block'
      /\ dir_inode_extent_block' \subseteq DirBlock
      /\ Cardinality(dir_inode_extent_block') <= DIRS
  BY <1>1, <1>2, <1>3, AddedFacts DEF TypeOK
<1>5. Full => Full'
  <2>1. /\ IsFiniteSet(dir_inode_extent_block') /\ Cardinality(dir_inode_extent_block) \in Nat
        /\ Cardinality(dir_inode_extent_block') \in Nat
    BY <1>4, FiniteDirectories
  <2>2. Cardinality(dir_inode_extent_block) <= Cardinality(dir_inode_extent_block')
    BY <1>4, <2>1, FS_Subset
  <2>3. QED
    BY <1>4, <2>1, <2>2, TaggerBoundsAssumption DEF Full
<1>6. TypeOK'
  <2>1. ParsedGroups \in 0 .. NGroup
    BY <1>1, LayoutAssumption DEF ParsedGroups, TypeOK
  <2>2. ParsedSuper \in {"none", "good", "bad"}
    BY <1>1 DEF ParsedSuper, TypeOK
  <2>3. GroupsDone \in BOOLEAN
    BY DEF GroupsDone
  <2>4. cmd' \in [op : {"none", "read", "write"}, b : Block \cup Magic, n : 1 .. 2,
                  tag : Tags, data : SUBSET DirBlock, by : {"guest", "tool"}]
    BY <1>1 DEF Idle, Tags
  <2>5. disk' \in [Block -> SUBSET DirBlock] /\ past' \in [Block -> SUBSET SUBSET DirBlock]
    BY <1>1, <1>2 DEF Transfer, TypeOK
  <2>6. {read_ext4_metadata', read_group_desc_metadata', group_desc_loaded',
         parse_inode_trigger', mfttag_start', recovertag_start'} \subseteq BOOLEAN
    BY <1>1, <2>3 DEF HandleSectors, TypeOK
  <2>7. QED
    BY <1>1, <1>4, <2>1, <2>2, <2>4, <2>5, <2>6 DEF Transfer, HandleSectors, TypeOK
\* The count of groups changes only while the descriptors are waited for, and
\* only by a command for the descriptors.
<1>7. ASSUME ParsedGroups = NGroup, loaded_group_desc_count # NGroup
      PROVE  ~group_desc_loaded /\ GroupsDone /\ cmd.b = 1
  <2>1. Parsing /\ cmd.b = 1 /\ Flagged = NGroup
    BY <1>7 DEF ParsedGroups
  <2>2. QED
    BY <1>1, <2>1, LayoutFacts DEF Parsing, LoadInv, GroupsDone
<1>8. LoadInv'
  BY <1>1, <1>7 DEF HandleSectors, LoadInv, GroupsDone, Parsing, ParsedSuper
<1>9. ASSUME ParsedGroups = NGroup
      PROVE  indexed' \subseteq dir_inode_extent_block' \/ Full'
  <2>1. CASE ~(ready /\ cmd.b \in InodeTable)
    <3>1. indexed' = indexed
      BY <1>1, <2>1 DEF HandleSectors
    <3>2. QED
      BY <1>1, <1>4, <1>5, <1>7, <1>9, <3>1 DEF LoadInv, ListInv
  <2>2. CASE ready /\ cmd.b \in InodeTable
    <3>1. indexed' = indexed \cup cmd.data
      BY <1>1, <2>2 DEF HandleSectors
    <3>2. loaded_group_desc_count = NGroup
      BY <1>7, <1>9, <2>2, LayoutFacts
    <3>3. ParsesInodes(ready)
      BY <1>1, <2>2, <3>2 DEF ListInv, ParsesInodes
    <3>4. dir_inode_extent_block' \in Added(cmd.data)
      BY <1>3, <3>3
    <3>5. cmd.data \subseteq dir_inode_extent_block' \/ Full'
      BY <1>1, <1>2, <3>4, AddedFacts DEF Full
    <3>6. QED
      BY <1>1, <1>4, <1>5, <3>1, <3>2, <3>5 DEF ListInv
  <2>3. QED
    BY <2>1, <2>2
<1>10. ListInv'
  <2>1. dir_inode_extent_block' \subseteq named'
    BY <1>1, <1>2, <1>3, AddedFacts DEF ListInv
  <2>2. loaded_group_desc_count' = ParsedGroups
    BY <1>1 DEF HandleSectors
  <2>3. QED
    BY <1>1, <1>9, <2>1, <2>2 DEF ListInv
<1>11. SessionInv'
  BY <1>1 DEF Transfer, HandleSectors, SessionInv
<1>12. QED
  BY <1>6, <1>8, <1>10, <1>11 DEF TaggerInv

LEMMA NextInv == TaggerInv /\ [Next]_lvars => TaggerInv'
<1> SUFFICES ASSUME TaggerInv, [Next]_lvars PROVE TaggerInv'
  OBVIOUS
<1>1. ASSUME NEW b \in Block, NEW n \in Lengths(b), GuestRead(b, n)
      PROVE  TaggerInv'
  <2>1. n \in 1 .. 2
    BY DEF Lengths
  <2>2. QED
    BY <1>1, <2>1, GuestReadInv
<1>2. ASSUME NEW b \in Block, NEW data \in ContentsOf(b), GuestWrite(b, data)
      PROVE  TaggerInv'
  BY <1>2, GuestWriteInv
<1>3. ASSUME NEW session \in Sessions, ToolOpen(session)
      PROVE  TaggerInv'
  BY <1>3, ToolOpenInv
<1>4. ASSUME NEW b \in Block, ToolRead(b)
      PROVE  TaggerInv'
  BY <1>4, ToolReadInv
<1>5. CASE UNCHANGED lvars
  BY <1>5 DEF lvars, tagger, TaggerInv, TypeOK, LoadInv, ListInv, SessionInv, Full
<1>6. QED
  BY <1>1, <1>2, <1>3, <1>4, <1>5, ToolCloseInv, ToolKilledInv, TransferInv, AbortInv
     DEF Next

(***************************************************************************)
(* The results.                                                            *)
(***************************************************************************)

\* The invariant of the tagger holds in every reachable state.
THEOREM TaggerInvariant == Spec => []TaggerInv
BY InitInv, NextInv, PTL DEF Spec

\* A write passes as a command of the guest, tagged by WriteTags.
LEMMA OnlyGuestsWrite ==
  ASSUME [Next]_lvars, cmd = Idle, cmd'.op = "write", TaggerInv
  PROVE  cmd'.b \in Block /\ cmd'.tag \in WriteTags(cmd'.b)
<1>1. cmd' # cmd
  BY DEF Idle
<1>2. ASSUME NEW b \in Block, NEW data \in ContentsOf(b), GuestWrite(b, data)
      PROVE  cmd'.b \in Block /\ cmd'.tag \in WriteTags(cmd'.b)
  BY <1>2, WriteCommand DEF GuestWrite
<1>3. ASSUME NEW b \in Block, NEW n \in Lengths(b), GuestRead(b, n)
      PROVE  FALSE
  BY <1>3 DEF GuestRead, AnalyseRead
<1>4. ASSUME NEW session \in Sessions, ToolOpen(session)
      PROVE  FALSE
  BY <1>4 DEF ToolOpen, AnalyseRead
<1>5. ASSUME NEW b \in Block, ToolRead(b)
      PROVE  FALSE
  BY <1>5 DEF ToolRead, AnalyseRead
<1>6. ASSUME ToolClose
      PROVE  FALSE
  BY <1>6 DEF ToolClose, AnalyseRead
<1>7. ~ToolKilled /\ ~Transfer /\ ~Abort
  BY <1>1 DEF ToolKilled, Transfer, Abort
<1>8. QED
  BY <1>1, <1>2, <1>3, <1>4, <1>5, <1>6, <1>7 DEF Next, lvars

\* Writes of inode tables, inode bitmaps and listed directories carry the MFT
\* tag, in every layout and after any sequence of commands.
THEOREM MetadataAlwaysTagged == Spec => MetadataTagged
<1>1. TaggerInv /\ [Next]_lvars =>
        [\A b \in InodeTable \cup InodeBitmap \cup (IF Full THEN {} ELSE indexed) :
           Ready /\ cmd = Idle /\ Writing(b)' => cmd'.tag = "mft"]_lvars
  <2> SUFFICES ASSUME TaggerInv, [Next]_lvars,
                      NEW b \in InodeTable \cup InodeBitmap
                                \cup (IF Full THEN {} ELSE indexed),
                      Ready, cmd = Idle, Writing(b)'
               PROVE  cmd'.tag = "mft"
    OBVIOUS
  <2>1. cmd'.op = "write" /\ cmd'.b = b
    BY DEF Writing
  <2>2. cmd'.tag \in WriteTags(b)
    BY <2>1, OnlyGuestsWrite
  <2>3. loaded_group_desc_count = NGroup /\ super_block # "none"
    BY DEF Ready
  <2>4. CASE b \in InodeTable \cup InodeBitmap
    BY <2>2, <2>3, <2>4, InodeTableKnown, BitmapKnown DEF WriteTags
  <2>5. CASE ~Full /\ b \in indexed
    <3>1. b \in dir_inode_extent_block
      BY <2>3, <2>5 DEF TaggerInv, ListInv
    <3>2. \A t : MayBeDirectory(b, t = "mft") = (t = "mft")
      BY <3>1 DEF MayBeDirectory
    <3>3. QED
      BY <2>2, <3>2 DEF WriteTags
  <2>6. QED
    BY <2>4, <2>5
<1>2. QED
  BY <1>1, TaggerInvariant, PTL DEF Spec, MetadataTagged

\* A write of file data keeps its ransom tag, in every layout: what the
\* comparison with the tables takes in besides them is the block behind each.
THEOREM FilesAlwaysProtected == Spec => FilesProtected
<1>1. TaggerInv /\ [Next]_lvars =>
        [\A b \in DirBlock \ named :
           /\ Ready /\ ~Full /\ cmd = Idle /\ Writing(b)'
           /\ b > ItableBlocks
           /\ b - ItableBlocks \notin {Groups[g].itable : g \in DOMAIN Groups}
           => cmd'.tag = "ransom"]_lvars
  <2> SUFFICES ASSUME TaggerInv, [Next]_lvars, NEW b \in DirBlock \ named,
                      Ready, ~Full, cmd = Idle, Writing(b)', b > ItableBlocks,
                      b - ItableBlocks \notin {Groups[g].itable : g \in DOMAIN Groups}
               PROVE  cmd'.tag = "ransom"
    OBVIOUS
  <2>1. cmd'.tag \in WriteTags(b)
    BY OnlyGuestsWrite DEF Writing
  <2>2. loaded_group_desc_count = NGroup /\ KnownLength = ItableBlocks
    BY DEF Ready, KnownLength
  <2>3. b \in Nat /\ b \in Block /\ b # 0 /\ b \notin InodeTable \cup InodeBitmap
    BY LayoutFacts, LayoutAssumption DEF Block
  <2>4. ~IsInodeTable(b)
    <3> SUFFICES ASSUME NEW i \in 1 .. 4, b >= ItableStart(i),
                        b <= ItableStart(i) + ItableBlocks
                 PROVE  FALSE
      BY <2>2 DEF IsInodeTable
    <3>1. CASE i \in 1 .. NGroup
      <4>1. ItableStart(i) = Groups[i].itable /\ Groups[i].itable \in Nat
        BY <2>2, <3>1, LayoutFacts DEF ItableStart, Entry
      <4>2. b # Groups[i].itable + ItableBlocks
        BY <2>3, <3>1, <4>1, LayoutFacts
      <4>3. b \in Groups[i].itable .. Groups[i].itable + ItableBlocks - 1
        BY <2>3, <4>1, <4>2, LayoutFacts, SMTT(30)
      <4>4. QED
        BY <2>3, <3>1, <4>3, LayoutFacts DEF InodeTable
    <3>2. CASE i \notin 1 .. NGroup
      <4>1. ItableStart(i) = 0
        BY <3>2, LayoutFacts DEF ItableStart
      <4>2. QED
        BY <2>3, <4>1, LayoutFacts
    <3>3. QED
      BY <3>1, <3>2
  <2>5. ~IsInodeBitmap(b)
    <3> SUFFICES ASSUME NEW i \in 1 .. 4, b = BitmapBlock(i) PROVE FALSE
      BY DEF IsInodeBitmap
    <3>1. CASE i \in 1 .. NGroup
      BY <2>2, <2>3, <3>1, LayoutFacts DEF BitmapBlock, Entry, InodeBitmap
    <3>2. CASE i \notin 1 .. NGroup
      BY <2>3, <3>2, LayoutFacts DEF BitmapBlock
    <3>3. QED
      BY <3>1, <3>2
  <2>6. b \notin dir_inode_extent_block
    BY DEF TaggerInv, ListInv
  <2>7. \A t : MayBeDirectory(b, t = "mft") = (t # "mft")
    BY <2>6 DEF MayBeDirectory, Full
  <2>8. QED
    BY <2>1, <2>4, <2>5, <2>7 DEF WriteTags
<1>2. QED
  BY <1>1, TaggerInvariant, PTL DEF Spec, FilesProtected

\* Reads carry the tag of the session the tool has open, for any number of
\* sessions and of tools that were stopped.
THEOREM SessionsStayApart == Spec => SessionsApart
<1>1. TaggerInv /\ [Next]_lvars =>
        [/\ cmd = Idle /\ cmd'.op = "read" /\ cmd'.b \in Block
         /\ left = {} /\ (cmd'.by = "tool" \/ tool = "none")
         => cmd'.tag = tool]_lvars
  <2> SUFFICES ASSUME TaggerInv, [Next]_lvars, cmd = Idle, cmd'.op = "read",
                      cmd'.b \in Block, left = {}
               PROVE  cmd'.by = "tool" \/ tool = "none" => cmd'.tag = tool
    OBVIOUS
  <2>1. \A b \in Block : ReadTag(b) = tool
    BY MagicFacts DEF ReadTag, TaggerInv, SessionInv, TypeOK, Sessions
  <2>2. ASSUME NEW b \in Block, NEW n \in Lengths(b), GuestRead(b, n)
        PROVE  cmd'.tag = tool
    BY <2>1, <2>2 DEF GuestRead, AnalyseRead
  <2>3. ASSUME NEW b \in Block, ToolRead(b)
        PROVE  cmd'.tag = tool
    BY <2>1, <2>3 DEF ToolRead, AnalyseRead
  <2>4. ASSUME NEW session \in Sessions, ToolOpen(session)
        PROVE  FALSE
    BY <2>4, MagicFacts DEF ToolOpen, AnalyseRead
  <2>5. ASSUME ToolClose
        PROVE  FALSE
    BY <2>5, MagicFacts DEF ToolClose, AnalyseRead
  <2>6. ASSUME NEW b \in Block, NEW data \in ContentsOf(b), GuestWrite(b, data)
        PROVE  FALSE
    BY <2>6 DEF GuestWrite, AnalyseWrite
  <2>7. cmd' # cmd
    BY DEF Idle
  <2>8. ~ToolKilled /\ ~Transfer /\ ~Abort
    BY <2>7 DEF ToolKilled, Transfer, Abort
  <2>9. QED
    BY <2>2, <2>3, <2>4, <2>5, <2>6, <2>7, <2>8 DEF Next, lvars
<1>2. QED
  BY <1>1, TaggerInvariant, PTL DEF Spec, SessionsApart

=============================================================================
