----------------------------- MODULE MCWinScan -----------------------------
(* Instances of WinScan. *)
EXTENDS WinScan

\* An MFT of two clusters that are not neighbours.
ApartMFT == <<2, 4>>

\* Bound: two changes of the flash in all, writes or reclaims.
FewChanges == writes - Cardinality(Addr) + reclaims <= 2

\* What no later step and no property looks at is left out: where a walk goes on
\* and how far it is once it was disturbed (the next one starts afresh), the
\* version of a cached page that was read with the MFT tag, and, when the last
\* scan is over, the walk, and the tagger's count if a scan was cut short.
ScanView ==
  LET over == at = "idle" /\ scans = MaxScans
  IN  <<flash, writes, benign, reclaims, scan, killed, walked, strayed, stale, wrong,
        IF over THEN <<>> ELSE <<last_addr, last_loc>>,
        IF walked THEN <<backupmft, since>> ELSE <<>>,
        IF cache.tag = "mft" THEN [cache EXCEPT !.ver = JUNK] ELSE cache,
        IF over /\ killed THEN 0 ELSE sector2048count>>

=============================================================================
