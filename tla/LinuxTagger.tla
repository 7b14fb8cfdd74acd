---------------------------- MODULE LinuxTagger ----------------------------
(***************************************************************************)
(* The tagger for Linux guests of drivers/usb/ransomtag.c: it sees every   *)
(* command (linux_analyse_cbw) and every sector that is transferred        *)
(* (linux_ransomtag_storage_handle_sectors), learns from them where the    *)
(* ext4 file system keeps its meta data, and tags writes accordingly.  The *)
(* recovery tool (03.Recovery tool/ext4) opens and closes its sessions by  *)
(* reading four magic blocks.                                              *)
(*                                                                         *)
(* Commands are whole blocks; the contents of a block are the directory    *)
(* extents the tagger finds if it parses the block as inodes.  A command   *)
(* is its CBW and then its data, or no data if the host gives it up.       *)
(***************************************************************************)
EXTENDS Integers, Sequences, FiniteSets

CONSTANTS
  NBlock,       \* blocks of the file system: 0 is the superblock, 1 the descriptors
  Groups,       \* sequence of groups: [itable |-> first block, ibitmap |-> block]
  ItableBlocks, \* blocks of the inode table of a group
  Flagged,      \* groups before the first whose bg_flags is zero
  DIRS,         \* entries of dir_inode_extent_block, 500 in the code
  DirBlock,     \* blocks the file system uses for directories or files
  Lookalikes,   \* contents of file blocks, as inodes
  MaxWrites,    \* bound: writes of the guest
  MaxAborts,    \* bound: commands given up after their CBW
  MaxKills      \* bound: tools that stop in a session

VARIABLES
  \* the tagger
  super_block,  \* "none", "good", or "bad": loaded from another block
  read_ext4_metadata, read_group_desc_metadata, group_desc_loaded,
  loaded_group_desc_count, parse_inode_trigger,
  dir_inode_extent_block, \* as a set: the entries before the first zero
  mfttag_start, recovertag_start,
  \* the command on the bus, the disk and the tool
  cmd,          \* see Idle and Issue
  disk,         \* contents of every block
  past,         \* contents a tagged read of the block may return
  tool,         \* the session the recovery tool has open
  \* bounds and history
  writes, aborts,
  left,         \* sessions a killed tool has left open
  kills,
  named,        \* directory extents found in any block the tagger has parsed
  indexed       \* directory extents inode tables carried past a ready tagger

tagger == <<super_block, read_ext4_metadata, read_group_desc_metadata,
            group_desc_loaded, loaded_group_desc_count, parse_inode_trigger,
            dir_inode_extent_block, mfttag_start, recovertag_start>>
lvars == <<tagger, cmd, disk, past, tool, writes, aborts, left, kills, named, indexed>>

NGroup == Len(Groups)
Block == 0 .. NBlock - 1
\* Blocks 120000 to 120003, in the order of trigger_mfttag_start, _end,
\* trigger_recovertag_start, _end of the tool.
MftStart == NBlock
MftEnd == NBlock + 1
RecoverStart == NBlock + 2
RecoverEnd == NBlock + 3
Magic == NBlock .. NBlock + 3
Tags == {"none", "ransom", "mft", "recover"}
Sessions == {"mft", "recover"}

\* The blocks of the file system's meta data, as mkfs laid them out.
InodeTable == {b \in Block : \E g \in DOMAIN Groups :
                 b \in Groups[g].itable .. Groups[g].itable + ItableBlocks - 1}
InodeBitmap == {Groups[g].ibitmap : g \in DOMAIN Groups}

ASSUME LayoutAssumption ==
  /\ NBlock \in Nat \ {0} /\ ItableBlocks \in Nat \ {0}
  /\ Groups \in Seq([itable : Block, ibitmap : Block])
  /\ NGroup \in 1 .. 4                    \* the arrays have four entries
  /\ InodeTable \cap (DirBlock \cup InodeBitmap \cup {0, 1}) = {}
  /\ DirBlock \subseteq Block \ (InodeBitmap \cup {0, 1})
  /\ Flagged \in 0 .. NGroup
ASSUME ContentsAssumption == Lookalikes \subseteq SUBSET DirBlock /\ {} \in Lookalikes
ASSUME TaggerBoundsAssumption ==
  DIRS \in Nat /\ MaxWrites \in Nat /\ MaxAborts \in Nat /\ MaxKills \in Nat

Idle == [op |-> "none", b |-> 0, n |-> 1, tag |-> "none", data |-> {}, by |-> "guest"]

Init ==
  /\ super_block = "none" /\ group_desc_loaded = FALSE
  /\ read_ext4_metadata = FALSE /\ read_group_desc_metadata = FALSE
  /\ loaded_group_desc_count = 0 /\ parse_inode_trigger = FALSE
  /\ dir_inode_extent_block = {}
  /\ mfttag_start = FALSE /\ recovertag_start = FALSE
  /\ cmd = Idle
  /\ disk = [b \in Block |-> {}] /\ past = [b \in Block |-> {{}}]
  /\ tool = "none"
  /\ writes = 0 /\ aborts = 0 /\ left = {} /\ kills = 0
  /\ named = {} /\ indexed = {}

-----------------------------------------------------------------------------
(* What the tagger takes a block for.  Entries of its four-entry arrays    *)
(* that no descriptor has filled hold zero.                                *)

Entry(i, known) == IF i <= loaded_group_desc_count THEN known ELSE 0
ItableStart(i) == IF i <= NGroup THEN Entry(i, Groups[i].itable) ELSE 0
BitmapBlock(i) == IF i <= NGroup THEN Entry(i, Groups[i].ibitmap) ELSE 0
KnownLength == IF super_block = "none" THEN 0 ELSE ItableBlocks

\* Mutant: the last block of a table is not part of it.
MutShortTable(b) ==
  \E i \in 1 .. 4 : b >= ItableStart(i) /\ b <= ItableStart(i) + KnownLength - 2

\* linux_is_inode_table_sector: the end is inclusive.
IsInodeTable(b) ==
  \E i \in 1 .. 4 : b >= ItableStart(i) /\ b <= ItableStart(i) + KnownLength

IsInodeBitmap(b) == \E i \in 1 .. 4 : b = BitmapBlock(i)

\* linux_traverse_dir_inode_extent_block: with all entries used, the search
\* for a block that is not among them runs on behind the array.
MayBeDirectory(b, found) ==
  IF b \in dir_inode_extent_block THEN found
  ELSE IF Cardinality(dir_inode_extent_block) = DIRS THEN TRUE ELSE ~found

\* Mutant: every write is taken for one of meta data.
MutAllMetadata(b) == {"mft"}

\* The tag of a write.
WriteTags(b) ==
  IF IsInodeTable(b) \/ IsInodeBitmap(b) THEN {"mft"}
  ELSE {t \in {"mft", "ransom"} : MayBeDirectory(b, t = "mft")}

\* Mutant: a recovery session gets the tag of the other kind.
MutTagAll(b) == IF b \in Magic THEN "none" ELSE IF recovertag_start THEN "mft" ELSE "none"

\* The tag of a read.
ReadTag(b) ==
  IF b \in Magic THEN "none"
  ELSE IF mfttag_start THEN "mft"
  ELSE IF recovertag_start THEN "recover" ELSE "none"

-----------------------------------------------------------------------------
(* linux_analyse_cbw. *)

\* The first read of the superblock, and of the descriptors behind it.
AnalyseSuper(b, n) ==
  LET first == b = 0 /\ super_block = "none" /\ (n = 1 \/ ~group_desc_loaded)
  IN  /\ read_ext4_metadata' = (read_ext4_metadata \/ first)
      /\ read_group_desc_metadata' =
           (\/ read_group_desc_metadata
            \/ first /\ n > 1
            \/ b = 1 /\ super_block # "none" /\ ~group_desc_loaded)

AnalyseMagic(b) ==
  /\ mfttag_start' = ((mfttag_start \/ b = MftStart) /\ b # MftEnd)
  /\ recovertag_start' = ((recovertag_start \/ b = RecoverStart) /\ b # RecoverEnd)

AnalyseRead(b, n, by) ==
  /\ AnalyseSuper(b, n)
  /\ AnalyseMagic(b)
  /\ parse_inode_trigger' = (parse_inode_trigger \/ IsInodeTable(b))
  /\ \E data \in IF b \in Magic THEN {{}}
                 ELSE IF ReadTag(b) = "none" THEN {disk[b]} ELSE past[b] :
       cmd' = [op |-> "read", b |-> b, n |-> n, tag |-> ReadTag(b),
               data |-> data, by |-> by]
  /\ UNCHANGED <<super_block, group_desc_loaded, loaded_group_desc_count,
                 dir_inode_extent_block>>

AnalyseWrite(b, data) ==
  /\ parse_inode_trigger' = (parse_inode_trigger \/ IsInodeTable(b))
  /\ \E tag \in WriteTags(b) :
       cmd' = [op |-> "write", b |-> b, n |-> 1, tag |-> tag, data |-> data,
               by |-> "guest"]
  /\ UNCHANGED <<super_block, read_ext4_metadata, read_group_desc_metadata,
                 group_desc_loaded, loaded_group_desc_count,
                 dir_inode_extent_block, mfttag_start, recovertag_start>>

-----------------------------------------------------------------------------
(* linux_ransomtag_storage_handle_sectors: the data of the command.        *)

\* linux_parse_ext4_superblock takes whatever comes for the superblock.
ParsedSuper ==
  IF ~read_ext4_metadata THEN super_block
  ELSE IF cmd.b = 0 THEN "good" ELSE "bad"

\* linux_parse_ext4_group_desc: only block 1 is parsed, up to a group without
\* flags, but any block ends the wait for the descriptors.
Parsing == read_group_desc_metadata /\ ParsedSuper # "none"
ParsedGroups ==
  IF Parsing /\ cmd.b = 1 THEN Flagged ELSE loaded_group_desc_count
GroupsDone == Parsing /\ ~(cmd.b = 1 /\ Flagged < NGroup)

\* The data is parsed as inodes from the first inode table access on.
ParsesInodes(ready) == parse_inode_trigger /\ ready

\* linux_add_to_dir_inode_extent_block, for all the directories in the data;
\* when they do not all fit, the first ones are added.
Added(dirs) ==
  LET fits == {s \in SUBSET (dirs \ dir_inode_extent_block) :
                 Cardinality(s) + Cardinality(dir_inode_extent_block) <= DIRS}
  IN  {dir_inode_extent_block \cup s : s \in
         {t \in fits : \A u \in fits : Cardinality(u) <= Cardinality(t)}}

HandleSectors ==
  LET ready == ParsedSuper # "none" /\ (group_desc_loaded \/ GroupsDone)
  IN  /\ super_block' = ParsedSuper
      /\ read_ext4_metadata' = FALSE
      /\ read_group_desc_metadata' = (read_group_desc_metadata /\ ~GroupsDone)
      /\ loaded_group_desc_count' = ParsedGroups
      /\ group_desc_loaded' = (group_desc_loaded \/ GroupsDone)
      /\ IF ParsesInodes(ready)
         THEN /\ dir_inode_extent_block' \in Added(cmd.data)
              /\ named' = named \cup cmd.data
         ELSE UNCHANGED <<dir_inode_extent_block, named>>
      /\ indexed' = IF ready /\ cmd.b \in InodeTable THEN indexed \cup cmd.data
                    ELSE indexed
      /\ UNCHANGED <<parse_inode_trigger, mfttag_start, recovertag_start>>

-----------------------------------------------------------------------------
(* The bus: one command at a time. *)

\* What a tagger does whose superblock is another block is left open.
Quiet == cmd = Idle /\ super_block # "bad"

\* The tagger asks for the length of a read of the superblock only.
Lengths(b) == IF b = 0 THEN 1 .. 2 ELSE {1}

GuestRead(b, n) ==
  /\ Quiet
  /\ AnalyseRead(b, n, "guest")
  /\ UNCHANGED <<disk, past, tool, writes, aborts, left, kills, named, indexed>>

\* An inode table block names up to two directories, a file block may look as
\* if it did, and other blocks do not.
ContentsOf(b) == IF b \in InodeTable THEN {{}} \cup {{d, e} : d, e \in DirBlock}
                 ELSE IF b \in DirBlock THEN Lookalikes ELSE {{}}

GuestWrite(b, data) ==
  /\ Quiet /\ writes < MaxWrites
  /\ AnalyseWrite(b, data)
  /\ writes' = writes + 1
  /\ UNCHANGED <<disk, past, tool, aborts, left, kills, named, indexed>>

\* The tool opens a session, reads in it and closes it.
ToolOpen(session) ==
  /\ Quiet /\ tool = "none"
  /\ AnalyseRead(IF session = "mft" THEN MftStart ELSE RecoverStart, 1, "tool")
  /\ tool' = session
  /\ UNCHANGED <<disk, past, writes, aborts, left, kills, named, indexed>>

ToolRead(b) ==
  /\ Quiet /\ tool # "none"
  /\ AnalyseRead(b, 1, "tool")
  /\ UNCHANGED <<disk, past, tool, writes, aborts, left, kills, named, indexed>>

ToolClose ==
  /\ Quiet /\ tool # "none"
  /\ AnalyseRead(IF tool = "mft" THEN MftEnd ELSE RecoverEnd, 1, "tool")
  /\ tool' = "none" /\ left' = left \ {tool}
  /\ UNCHANGED <<disk, past, writes, aborts, kills, named, indexed>>

\* The tool is stopped in a session.
ToolKilled ==
  /\ Quiet /\ tool # "none" /\ kills < MaxKills
  /\ tool' = "none" /\ left' = left \cup {tool} /\ kills' = kills + 1
  /\ UNCHANGED <<tagger, cmd, disk, past, writes, aborts, named, indexed>>

\* The data of the command passes.
Transfer ==
  /\ cmd # Idle
  /\ HandleSectors
  /\ IF cmd.op = "write"
     THEN /\ disk' = [disk EXCEPT ![cmd.b] = cmd.data]
          /\ past' = [past EXCEPT ![cmd.b] = @ \cup {cmd.data}]
     ELSE UNCHANGED <<disk, past>>
  /\ cmd' = Idle
  /\ UNCHANGED <<tool, writes, aborts, left, kills>>

\* The host gives the command up, and the tagger does not notice.
Abort ==
  /\ cmd # Idle /\ aborts < MaxAborts
  /\ aborts' = aborts + 1
  /\ cmd' = Idle
  /\ UNCHANGED <<tagger, disk, past, tool, writes, left, kills, named, indexed>>

Next ==
  \/ \E b \in Block : \E n \in Lengths(b) : GuestRead(b, n)
  \/ \E b \in Block : \E data \in ContentsOf(b) : GuestWrite(b, data)
  \/ \E session \in Sessions : ToolOpen(session)
  \/ \E b \in Block : ToolRead(b)
  \/ ToolClose \/ ToolKilled
  \/ Transfer \/ Abort

Spec == Init /\ [][Next]_lvars

-----------------------------------------------------------------------------
(* Properties. *)

TypeOK ==
  /\ super_block \in {"none", "good", "bad"}
  /\ {read_ext4_metadata, read_group_desc_metadata, group_desc_loaded,
      parse_inode_trigger, mfttag_start, recovertag_start} \subseteq BOOLEAN
  /\ loaded_group_desc_count \in 0 .. NGroup
  /\ dir_inode_extent_block \subseteq DirBlock
  /\ Cardinality(dir_inode_extent_block) <= DIRS
  /\ cmd \in [op : {"none", "read", "write"}, b : Block \cup Magic, n : 1 .. 2,
              tag : Tags, data : SUBSET DirBlock, by : {"guest", "tool"}]
  /\ disk \in [Block -> SUBSET DirBlock] /\ past \in [Block -> SUBSET SUBSET DirBlock]
  /\ tool \in Sessions \cup {"none"} /\ left \subseteq Sessions
  /\ writes \in 0 .. MaxWrites /\ aborts \in 0 .. MaxAborts /\ kills \in 0 .. MaxKills

Ready == super_block = "good" /\ loaded_group_desc_count = NGroup
Full == Cardinality(dir_inode_extent_block) = DIRS
Writing(b) == cmd.op = "write" /\ cmd.b = b

\* Once the tagger has read the descriptors, a write of the inode table or of
\* an inode bitmap carries the MFT tag, whatever else it has seen; and so does
\* a write to a directory whose inode has passed the tagger, for as long as the
\* list has room: the versions of the meta data stay chained.
MetadataTagged ==
  [][\A b \in InodeTable \cup InodeBitmap \cup (IF Full THEN {} ELSE indexed) :
       Ready /\ cmd = Idle /\ Writing(b)' => cmd'.tag = "mft"]_lvars

\* File data is never taken for meta data, unless some block the tagger parsed
\* named the block, it follows an inode table (an entry nothing has filled is
\* one at block 0), or the list is full.
FilesProtected ==
  [][\A b \in DirBlock \ named :
       /\ Ready /\ ~Full /\ cmd = Idle /\ Writing(b)'
       /\ b > ItableBlocks
       /\ b - ItableBlocks \notin {Groups[g].itable : g \in DOMAIN Groups}
       => cmd'.tag = "ransom"]_lvars

\* Every read of the tool in a session carries the tag of the session, although
\* the guest reads all the while; with no session open a read of the guest
\* carries no tag, gets the current version, and leaves the walk of the device
\* where it was. A tool that was stopped may have left a session open.
SessionsApart ==
  [][/\ cmd = Idle /\ cmd'.op = "read" /\ cmd'.b \in Block
     /\ left = {} /\ (cmd'.by = "tool" \/ tool = "none")
     => cmd'.tag = tool]_lvars

=============================================================================
