------------------------------ MODULE Transfer ------------------------------
(***************************************************************************)
(* What a bulk transfer of data_object_bulk.go promises, whichever of      *)
(* download, upload or resumable download carries it out: the destination  *)
(* (the local file, or the remote replica) is created empty, then receives *)
(* bytes of the source, each at its own offset and never past the source's *)
(* end, in any order and any grouping; the call returns success only when  *)
(* the destination is the source exactly, and otherwise fails.  A          *)
(* resumable transfer may be started again after a failure on what it had *)
(* already written.                                                        *)
(*                                                                         *)
(* Byte k of the source is the value k; Absent is a position not written.  *)
(***************************************************************************)
EXTENDS Integers

CONSTANTS
  Size,        \* length of the source
  Positions,   \* the offsets of the destination that are looked at
  Resumable    \* whether a failed transfer may be taken up again

VARIABLES
  dst,       \* the destination: offset -> source byte or Absent
  outcome    \* "running", "ok" or "failed"

avars == <<dst, outcome>>

Absent == -1

Empty == [k \in Positions |-> Absent]

(* The destination holding the source exactly and nothing after it.       *)
Exact == [k \in Positions |-> IF k < Size THEN k ELSE Absent]

Data == {k \in Positions : k < Size}

AInit == dst = Empty /\ outcome = "running"

(* The destination is created, or truncated, empty.                        *)
Create == outcome = "running" /\ dst' = Empty /\ UNCHANGED outcome

(* Some bytes of the source land at their own offsets.                     *)
Put ==
  /\ outcome = "running"
  /\ \E S \in SUBSET Data : dst' = [k \in Positions |-> IF k \in S THEN k ELSE dst[k]]
  /\ UNCHANGED outcome

(* Success; an empty source is created and completed at once.             *)
Succeed ==
  /\ outcome = "running"
  /\ dst = Exact \/ Size = 0
  /\ dst' = Exact
  /\ outcome' = "ok"

Fail == outcome = "running" /\ outcome' = "failed" /\ UNCHANGED dst

Resume == Resumable /\ outcome = "failed" /\ outcome' = "running" /\ UNCHANGED dst

ANext == Create \/ Put \/ Succeed \/ Fail \/ Resume

ASpec == AInit /\ [][ANext]_avars

=============================================================================
