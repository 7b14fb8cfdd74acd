------------------------------ MODULE MCUsbMsc ------------------------------
(* Instances of UsbMsc: two pages of two sectors. *)
EXTENDS UsbMsc

Cmd(op, off, len, tag) == [op |-> op, off |-> off, len |-> len, tag |-> tag]

\* Writes of a whole page, of part of one and across both; reads across both;
\* a command with data from the device and one with a status only.
MixedCommands ==
  {Cmd("write", 0, 2, "ransom"), Cmd("write", 1, 2, "none"),
   Cmd("read", 0, 4, "none"), Cmd("read", 1, 1, "none"),
   Cmd("info", 0, 0, "none"), Cmd("status", 0, 0, "none")}

\* Commands that meet a reset: a write of part of each page, a read of both, a
\* verify that compares data, a status, which leaves nothing behind.
ResetCommands ==
  {Cmd("write", 1, 2, "none"), Cmd("read", 0, 4, "none"),
   Cmd("verify", 0, 2, "none"), Cmd("status", 0, 0, "none")}

=============================================================================
