------------------------- MODULE FtlDataRefinement -------------------------
(***************************************************************************)
(* FtlData implements FtlRetention: the versions of the abstract device    *)
(* are what the reads of the real one return through the mapping table and *)
(* the spare areas.  A reclaim is the rest of a call that changes neither,  *)
(* until the device is starved.                                            *)
(***************************************************************************)
EXTENDS FtlData

\* The version a cell carries; an erased page or a meta data page has none.
VersionOf(cell) == IF cell.kind = "data" THEN cell.data ELSE NoData

ReadVersion(a) == IF Mapped(a) THEN VersionOf(PlainRead(a)) ELSE NoData

\* The history variable only says whether a version is promised; the version
\* itself is what the recover read finds.
RecoverVersion(a) ==
  IF Mapped(a) /\ benign[a] # NoData THEN VersionOf(RecoverRead(a)) ELSE NoData

ReadVersions == [a \in Addr |-> ReadVersion(a)]
RecoverVersions == [a \in Addr |-> RecoverVersion(a)]

Retention == INSTANCE FtlRetention WITH
  current <- ReadVersions, retained <- RecoverVersions,
  status <- IF pc \in Temp THEN "busy" ELSE pc, full <- starved

\* Whatever DATA_Reclaim copies and erases, the host sees a device that
\* keeps one current and one retained version per address.  The abstract
\* device shows which request a step serves, so that a request with the ransom
\* tag has to be a RansomWrite, which replaces no retained version; and it
\* shows a hung call, which it allows on a full device only.
RetentionSpec == Retention!Spec

=============================================================================
