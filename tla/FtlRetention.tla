---------------------------- MODULE FtlRetention ----------------------------
(***************************************************************************)
(* What the flash translation layer with the Data Retainer promises to the *)
(* host, without blocks, pages or garbage collection: one version to read  *)
(* and one version to recover per address.  FtlData implements it.         *)
(*                                                                         *)
(* Requests are part of the interface: asked is the one served last, with  *)
(* the tag it carried, so that no step that serves a suspected write can   *)
(* pass for that of a trusted one.                                         *)
(*                                                                         *)
(* A device that has run out of dirty pages promises nothing any more:     *)
(* that is the price of pinning, and full says when it is paid.            *)
(***************************************************************************)
CONSTANTS Addr, Data, Tags, NoData

VARIABLES
  current,   \* the version a plain read returns
  retained,  \* the version a recover read returns, if one is promised
  asked,     \* the last request: its address and its tag
  status,    \* "busy": a call has served its request and not returned yet
  full       \* no page can be reclaimed any more

rvars == <<current, retained, asked, status, full>>

Version == Data \cup {NoData}
Request == [addr : Addr, tag : Tags \cup {"trim"}]
NoRequest == [tag |-> "format"]

Init ==
  /\ current = [a \in Addr |-> NoData]
  /\ retained = [a \in Addr |-> NoData]
  /\ asked = NoRequest
  /\ status = "idle"
  /\ full = FALSE

\* A write the guest's tagger trusts is the next version to retain.
PlainWrite(a, d) ==
  /\ current' = [current EXCEPT ![a] = d]
  /\ retained' = [retained EXCEPT ![a] = d]

\* A suspected write never replaces a retained version, and is one itself
\* only where there is nothing to protect.
RansomWrite(a, d) ==
  /\ current' = [current EXCEPT ![a] = d]
  /\ retained' = IF current[a] = NoData
                 THEN [retained EXCEPT ![a] = d] ELSE retained

\* A write of file system meta data starts a chain of its own.
MftWrite(a, d) ==
  /\ current' = [current EXCEPT ![a] = d]
  /\ retained' = [retained EXCEPT ![a] = NoData]

\* The next request is served, and the call returns now or later.
Serve(a, tag) ==
  /\ ~full /\ UNCHANGED full
  /\ status = "idle" /\ status' \in {"idle", "busy"}
  /\ asked' = [addr |-> a, tag |-> tag]

Write(a, d, tag) ==
  /\ Serve(a, tag)
  /\ \/ tag = "none" /\ PlainWrite(a, d)
     \/ tag = "ransom" /\ RansomWrite(a, d)
     \/ tag = "mft" /\ MftWrite(a, d)

Trim(a) ==
  /\ Serve(a, "trim")
  /\ current' = [current EXCEPT ![a] = NoData]
  /\ retained' = [retained EXCEPT ![a] = NoData]

\* The rest of the call, whatever it does to the flash.
Return ==
  /\ status = "busy" /\ status' = "idle"
  /\ UNCHANGED <<current, retained, asked, full>>

\* The device is full: nothing is promised from here on, not even that a call
\* returns.
Exhausted ==
  /\ full' = TRUE
  /\ current' \in [Addr -> Version]
  /\ retained' \in [Addr -> Version]
  /\ asked' \in Request \cup {NoRequest}
  /\ status' \in {"idle", "busy", "hung"}

Next ==
  \/ \E a \in Addr, d \in Data, tag \in Tags : Write(a, d, tag)
  \/ \E a \in Addr : Trim(a)
  \/ Return
  \/ Exhausted

Spec == Init /\ [][Next]_rvars

=============================================================================
