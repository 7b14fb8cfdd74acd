--------------------------- MODULE MCLinuxTagger ---------------------------
(* Instances of LinuxTagger. *)
EXTENDS LinuxTagger

\* Two groups with tables of one block.
TwoGroups == <<[itable |-> 4, ibitmap |-> 2], [itable |-> 6, ibitmap |-> 3]>>
\* A file block may hold what looks like the inode of one directory.
InodeImages == {{}, {5}}

=============================================================================
