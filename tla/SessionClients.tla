--------------------------- MODULE SessionClients ---------------------------
(***************************************************************************)
(* The session used by concurrent goroutines, as the transfer functions of *)
(* data_object_bulk.go use it: a caller takes one connection               *)
(* (AcquireConnection, as in UploadDataObject or a download retry) or a    *)
(* batch (AcquireConnectionsMulti, as in DownloadDataObjectParallel),      *)
(* does I/O on it, during which the socket may fail, and gives each        *)
(* connection it received back once (ReturnConnection or                  *)
(* DiscardConnection).  Release is the owner's last call, made when no     *)
(* caller holds a connection (FileSystem.Release after the transfers).     *)
(*                                                                         *)
(* refs[p][c] is the number of references to c that caller p holds.  A     *)
(* caller acquires only when it holds nothing, so refs[p][c] is 0 or 1.    *)
(***************************************************************************)
EXTENDS Session

CONSTANTS
  MaxMulti,   \* largest batch asked of AcquireConnectionsMulti
  MaxShares   \* bound: no acquisition may push a share count above it

ASSUME ClientsAssumption ==
  /\ MaxMulti \in Nat \ {0}
  /\ MaxShares \in Nat \ {0}
  /\ Callers # {}

VARIABLE refs

vars == <<sessionVars, refs>>

Held(p) == {c \in Conn : refs[p][c] > 0}

(* Model bound on the share counts (leaked shares would grow forever).     *)
Headroom(k) == \A c \in Conn : shares[c] + k <= MaxShares

ClientsInit ==
  /\ Init
  /\ refs = [p \in Callers |-> [c \in Conn |-> 0]]

Acquire(p) ==
  /\ Held(p) = {}
  /\ Headroom(1)
  /\ \E got \in Conn \cup {NoConn} :
       /\ AcquireConnection(got)
       /\ refs' = IF got = NoConn THEN refs ELSE [refs EXCEPT ![p][got] = 1]

AcquireMulti(p) ==
  /\ Held(p) = {}
  /\ \E n \in 1..MaxMulti :
       /\ Headroom(n)
       /\ MultiStart(p, n)
  /\ UNCHANGED refs

(* The steps AcquireConnectionsMulti takes while it holds the mutex.       *)
MultiStep(p) ==
  /\ MultiPoolGet(p) \/ MultiPoolEnd(p) \/ MultiShare(p)
  /\ UNCHANGED refs

MultiDone(p) ==
  /\ MultiFinish(p, multi.got)
  /\ refs' = [refs EXCEPT ![p] = [c \in Conn |-> IF c \in multi.got THEN 1 ELSE 0]]

Return(p, c) ==
  /\ refs[p][c] > 0
  /\ ReturnConnection(c)
  /\ refs' = [refs EXCEPT ![p][c] = @ - 1]

Discard(p, c) ==
  /\ refs[p][c] > 0
  /\ DiscardConnection(c)
  /\ refs' = [refs EXCEPT ![p][c] = @ - 1]

(* Only a connection some caller is using does I/O and can fail.           *)
Fail(c) ==
  /\ \E p \in Callers : refs[p][c] > 0
  /\ SocketFail(c)
  /\ UNCHANGED refs

ReleaseAll ==
  /\ \A p \in Callers : Held(p) = {}
  /\ Release
  /\ UNCHANGED refs

ClientsNext ==
  \/ \E p \in Callers :
       \/ Acquire(p) \/ AcquireMulti(p) \/ MultiStep(p) \/ MultiDone(p)
       \/ \E c \in Conn : Return(p, c) \/ Discard(p, c)
  \/ \E c \in Conn : Fail(c)
  \/ ReleaseAll

(* Once AcquireConnectionsMulti has the mutex, the goroutine keeps running *)
(* it: weak fairness on its steps, none on what the callers choose to do.  *)
ClientsSpec ==
  /\ ClientsInit
  /\ [][ClientsNext]_vars
  /\ \A p \in Callers : WF_vars(MultiStep(p) \/ MultiDone(p))

----------------------------------------------------------------------------
TypeOK ==
  /\ connections \in [Conn -> ConnState]
  /\ shares \in [Conn -> Nat]
  /\ startNewTransaction \in BOOLEAN
  /\ poormansRollbackFail \in BOOLEAN
  /\ mutex \in Callers \cup {NoCaller}
  /\ multi \in MultiState
  /\ refs \in [Callers -> [Conn -> Nat]]

(***************************************************************************)
(* The share map and the pool agree (spec section 3, Session State): a     *)
(* connection has a share entry exactly when the pool has it outstanding.  *)
(* Broken if getConnectionFromPool replaced a pooled connection without    *)
(* discarding it, or ReturnConnection gave one back and kept its entry.    *)
(***************************************************************************)
SharedIffOutstanding ==
  \A c \in Conn : shares[c] > 0 <=> connections[c].st = "out"

(* The pool never holds more than MaxCap open or MaxIdle idle connections  *)
(* (spec section 3, Pool State), across the session's Get/Discard/GetNew.  *)
PoolBounds ==
  /\ OpenConnections(connections) <= MaxCap
  /\ Cardinality(Idle(connections)) <= MaxIdle

(* A connection a caller holds has a share entry and is outstanding.       *)
HeldIsShared ==
  \A p \in Callers, c \in Conn : refs[p][c] > 0 => shares[c] > 0

=============================================================================
