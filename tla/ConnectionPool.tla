--------------------------- MODULE ConnectionPool ---------------------------
(***************************************************************************)
(* The bounded pool of iRODS connections that IRODSSession drives through  *)
(* sess.connectionPool.Get / GetNew / Return / Discard / Release /         *)
(* AvailableConnections / OpenConnections.  The pool's own source is not   *)
(* under src/, so every operator here is modelled from spec section 4.2;   *)
(* the session module calls them exactly where session.go does.           *)
(*                                                                         *)
(* The pool's state and each connection's socket-failed flag are kept in   *)
(* one function, connections[c] = [st |-> lifecycle, failed |-> BOOLEAN]:  *)
(*   "free" : no live connection object has this identity,                 *)
(*   "idle" : in the pool's idle list,                                     *)
(*   "out"  : handed out by the pool (outstanding).                        *)
(* A destroyed connection becomes "free" again: the identity may be used   *)
(* by a later connection, which is sound because nothing refers to a       *)
(* destroyed connection any more (the session's invariants say so).        *)
(*                                                                         *)
(* The operations are written as functions from a connection function to   *)
(* the SET of outcomes the pool may produce, so that the session can chain *)
(* several pool calls inside one critical section (Get, then Discard,      *)
(* then GetNew) as one atomic step.  Time-based eviction (lifespan, idle   *)
(* timeout) is abstracted to a nondeterministic choice of which idle       *)
(* connections have expired when Get or Return looks at them.              *)
(***************************************************************************)
EXTENDS Naturals, FiniteSets

CONSTANTS
  Conn,            \* identities of connection objects
  InitialCap,      \* ConnectionPoolConfig.InitialCap
  MaxIdle,         \* ConnectionPoolConfig.MaxIdle
  MaxCap,          \* ConnectionPoolConfig.MaxCap
  ConnectMayFail,  \* whether connecting to the server may fail
  NoConn           \* the nil *IRODSConnection

ASSUME PoolAssumption ==
  /\ IsFiniteSet(Conn)
  /\ InitialCap \in Nat /\ MaxIdle \in Nat /\ MaxCap \in Nat \ {0}
  /\ InitialCap <= MaxIdle /\ MaxIdle <= MaxCap
  /\ Cardinality(Conn) >= MaxCap      \* enough identities for a full pool
  /\ ConnectMayFail \in BOOLEAN
  /\ NoConn \notin Conn

VARIABLE connections

ConnState == [st : {"free", "idle", "out"}, failed : BOOLEAN]

(* The value of a connection identity that has no live object.            *)
Closed == [st |-> "free", failed |-> FALSE]

Idle(cs) == {c \in Conn : cs[c].st = "idle"}
Outstanding(cs) == {c \in Conn : cs[c].st = "out"}
FreeIds(cs) == {c \in Conn : cs[c].st = "free"}

(* AvailableConnections: idle ones plus headroom up to MaxCap.             *)
AvailableConnections(cs) == MaxCap - Cardinality(Outstanding(cs))

(* OpenConnections: idle plus outstanding.                                 *)
OpenConnections(cs) == Cardinality(Idle(cs)) + Cardinality(Outstanding(cs))

(* Disconnect every connection of S and forget it.                         *)
Destroy(cs, S) == [c \in Conn |-> IF c \in S THEN Closed ELSE cs[c]]

(***************************************************************************)
(* An outcome of Get or GetNew: the pool afterwards, the connection handed *)
(* out (NoConn on error), whether it was created by this call, and the     *)
(* error ("ok", "poolFull" for ErrConnectionPoolFull, "connectFailed").    *)
(***************************************************************************)
Outcome(cs, c, isNew, err) ==
  [pool |-> cs, conn |-> c, isNew |-> isNew, err |-> err]

(* GetNew: a fresh connection if fewer than MaxCap are outstanding.        *)
PoolGetNew(cs) ==
  IF Cardinality(Outstanding(cs)) < MaxCap
  THEN { Outcome([cs EXCEPT ![c] = [st |-> "out", failed |-> FALSE]],
                 c, TRUE, "ok") : c \in FreeIds(cs) }
       \cup (IF ConnectMayFail
             THEN {Outcome(cs, NoConn, FALSE, "connectFailed")} ELSE {})
  ELSE {Outcome(cs, NoConn, FALSE, "poolFull")}

(* Get, once the expired idle connections have been destroyed: reuse an    *)
(* idle connection if one is left, else create one as GetNew does.         *)
GetAfterEviction(cs) ==
  IF Idle(cs) # {}
  THEN { Outcome([cs EXCEPT ![c].st = "out"], c, FALSE, "ok") : c \in Idle(cs) }
  ELSE PoolGetNew(cs)

(* Get: lazy eviction of some set E of expired idle connections first.     *)
PoolGet(cs) == UNION { GetAfterEviction(Destroy(cs, E)) : E \in SUBSET Idle(cs) }

(* Mutant: Return ignores MaxIdle.                                         *)
PoolReturnNoIdleCap(cs, c) ==
  {Destroy(cs, {c})}
  \cup (IF ~cs[c].failed THEN {[cs EXCEPT ![c].st = "idle"]} ELSE {})

(* Return: destroy c if its socket failed, it expired, or the idle list is *)
(* full; otherwise put it back in the idle list.  The set of possible      *)
(* pools afterwards.                                                       *)
PoolReturn(cs, c) ==
  {Destroy(cs, {c})}
  \cup (IF ~cs[c].failed /\ Cardinality(Idle(cs)) < MaxIdle
        THEN {[cs EXCEPT ![c].st = "idle"]} ELSE {})

(* Discard: destroy c unconditionally.                                     *)
PoolDiscard(cs, c) == Destroy(cs, {c})

(* Release: destroy the idle connections and forget the outstanding ones.  *)
PoolRelease(cs) == Destroy(cs, Idle(cs) \cup Outstanding(cs))

(* NewConnectionPool: InitialCap connections are created and left idle.    *)
PoolInitStates ==
  { [c \in Conn |-> IF c \in S THEN [st |-> "idle", failed |-> FALSE] ELSE Closed] :
      S \in {T \in SUBSET Conn : Cardinality(T) = InitialCap} }

=============================================================================
