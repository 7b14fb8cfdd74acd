----------------------------- MODULE MCUbiWrite -----------------------------
(* The instance of UbiWrite: two logical blocks of two pages. *)
EXTENDS UbiWrite

MCLogBlock == 0 .. 1

=============================================================================
