----------------------------- MODULE PoolProofs -----------------------------
(***************************************************************************)
(* The pool's capacity bounds under the session, for every pool size,     *)
(* initial, idle and maximum capacity and every set of callers: however    *)
(* the session chains Get, Discard, GetNew and Return, the pool never has  *)
(* more than MaxCap connections open or MaxIdle idle.                      *)
(***************************************************************************)
EXTENDS SessionProofs

(* The bounds of PoolBounds, for any pool state.                           *)
Bounded(cs) ==
  OpenConnections(cs) <= MaxCap /\ Cardinality(Idle(cs)) <= MaxIdle

(* The idle and outstanding sets are finite and disjoint.                  *)
LEMMA PoolSets ==
  ASSUME NEW cs \in CSType
  PROVE  /\ IsFiniteSet(Idle(cs)) /\ IsFiniteSet(Outstanding(cs))
         /\ Cardinality(Idle(cs)) \in Nat /\ Cardinality(Outstanding(cs)) \in Nat
         /\ Idle(cs) \cap Outstanding(cs) = {}
<1>1. Idle(cs) \subseteq Conn /\ Outstanding(cs) \subseteq Conn
  BY DEF Idle, Outstanding
<1>2. IsFiniteSet(Idle(cs)) /\ IsFiniteSet(Outstanding(cs))
  BY <1>1, PoolAssumption, FS_Subset
<1>. QED
  BY <1>2, FS_CardinalityType DEF Idle, Outstanding

(* Destroying connections only shrinks the idle and outstanding sets.      *)
LEMMA DestroyBound ==
  ASSUME NEW cs \in CSType, NEW S \in SUBSET Conn, Bounded(cs)
  PROVE  /\ Bounded(Destroy(cs, S))
         /\ Idle(Destroy(cs, S)) = Idle(cs) \ S
         /\ Outstanding(Destroy(cs, S)) = Outstanding(cs) \ S
<1>1. /\ Idle(Destroy(cs, S)) = Idle(cs) \ S
      /\ Outstanding(Destroy(cs, S)) = Outstanding(cs) \ S
  BY DEF Destroy, Closed, Idle, Outstanding
<1>2. Destroy(cs, S) \in CSType
  BY DestroyFacts
<1>3. /\ IsFiniteSet(Idle(cs)) /\ IsFiniteSet(Outstanding(cs))
      /\ Cardinality(Idle(cs)) \in Nat /\ Cardinality(Outstanding(cs)) \in Nat
  BY PoolSets
<1>4. /\ Cardinality(Idle(Destroy(cs, S))) \in Nat
      /\ Cardinality(Outstanding(Destroy(cs, S))) \in Nat
  BY <1>2, PoolSets
<1>5. /\ Cardinality(Idle(Destroy(cs, S))) <= Cardinality(Idle(cs))
      /\ Cardinality(Outstanding(Destroy(cs, S))) <= Cardinality(Outstanding(cs))
  BY <1>1, <1>3, FS_Subset
<1>6. Bounded(Destroy(cs, S))
  BY <1>3, <1>4, <1>5, PoolAssumption DEF Bounded, OpenConnections
<1>. QED
  BY <1>1, <1>6

(***************************************************************************)
(* GetNew creates a connection only while fewer than MaxCap are            *)
(* outstanding; that keeps the open count bounded when the idle list is    *)
(* empty, or when some slot is free anyway.                                *)
(***************************************************************************)
LEMMA GetNewBound ==
  ASSUME NEW cs \in CSType, Bounded(cs),
         Idle(cs) = {} \/ OpenConnections(cs) < MaxCap,
         NEW o \in PoolGetNew(cs)
  PROVE  Bounded(o.pool)
<1>0. /\ IsFiniteSet(Idle(cs)) /\ IsFiniteSet(Outstanding(cs))
      /\ Cardinality(Idle(cs)) \in Nat /\ Cardinality(Outstanding(cs)) \in Nat
  BY PoolSets
<1>1. CASE Cardinality(Outstanding(cs)) < MaxCap /\ o.err = "ok"
  <2>0. o \in { Outcome([cs EXCEPT ![c] = [st |-> "out", failed |-> FALSE]], c, TRUE, "ok") :
                c \in FreeIds(cs) }
    BY <1>1 DEF PoolGetNew, Outcome
  <2>1. PICK c \in FreeIds(cs) :
               o = Outcome([cs EXCEPT ![c] = [st |-> "out", failed |-> FALSE]], c, TRUE, "ok")
    BY <2>0, Zenon
  <2>2. /\ Idle(o.pool) = Idle(cs)
        /\ Outstanding(o.pool) = Outstanding(cs) \cup {c}
        /\ c \notin Outstanding(cs)
    BY <2>1 DEF Outcome, Idle, Outstanding, FreeIds, CSType
  <2>3. Cardinality(Outstanding(o.pool)) = Cardinality(Outstanding(cs)) + 1
    BY <1>0, <2>2, FS_AddElement
  <2>4. OpenConnections(cs) < MaxCap
    <3>1. CASE Idle(cs) = {}
      <4>1. Cardinality(Idle(cs)) = 0
        BY <3>1, FS_EmptySet
      <4>. QED
        BY <1>1, <1>0, <4>1 DEF OpenConnections
    <3>. QED
      BY <3>1
  <2>5. Cardinality(Idle(o.pool)) = Cardinality(Idle(cs))
    BY <2>2
  <2>. QED
    BY <1>0, <2>3, <2>4, <2>5, PoolAssumption DEF Bounded, OpenConnections
<1>2. CASE ~(Cardinality(Outstanding(cs)) < MaxCap /\ o.err = "ok")
  <2>1. o.pool = cs
    BY <1>2 DEF PoolGetNew, Outcome
  <2>. QED
    BY <2>1
<1>. QED
  BY <1>1, <1>2

(***************************************************************************)
(* pool.Get: expired idle connections are destroyed, then an idle one is   *)
(* handed out (one fewer idle, one more outstanding) or GetNew runs on an  *)
(* empty idle list.                                                        *)
(***************************************************************************)
LEMMA GetBound ==
  ASSUME NEW cs \in CSType, Bounded(cs), NEW o \in PoolGet(cs)
  PROVE  Bounded(o.pool)
<1>1. PICK E \in SUBSET Idle(cs) : o \in GetAfterEviction(Destroy(cs, E))
  BY DEF PoolGet
<1>2. Destroy(cs, E) \in CSType /\ Bounded(Destroy(cs, E))
  <2>1. E \in SUBSET Conn
    BY DEF Idle
  <2>. QED
    BY <2>1, DestroyFacts, DestroyBound
<1>. DEFINE ds == Destroy(cs, E)
<1>3. CASE Idle(ds) # {}
  <2>1. PICK c \in Idle(ds) : o = Outcome([ds EXCEPT ![c].st = "out"], c, FALSE, "ok")
    BY <1>1, <1>3, Zenon DEF GetAfterEviction, ds
  <2>2. /\ Idle(o.pool) = Idle(ds) \ {c}
        /\ Outstanding(o.pool) = Outstanding(ds) \cup {c}
        /\ c \notin Outstanding(ds)
    BY <1>2, <2>1 DEF Outcome, Idle, Outstanding, CSType, ConnState, ds
  <2>3. /\ IsFiniteSet(Idle(ds)) /\ IsFiniteSet(Outstanding(ds))
        /\ Cardinality(Idle(ds)) \in Nat /\ Cardinality(Outstanding(ds)) \in Nat
    BY <1>2, PoolSets DEF ds
  <2>4. /\ Cardinality(Idle(o.pool)) = Cardinality(Idle(ds) \ {c})
        /\ Cardinality(Outstanding(o.pool)) = Cardinality(Outstanding(ds) \cup {c})
    BY <2>2
  <2>7. /\ Cardinality(Idle(ds) \ {c}) = Cardinality(Idle(ds)) - 1
        /\ Cardinality(Outstanding(ds) \cup {c}) = Cardinality(Outstanding(ds)) + 1
    BY <2>2, <2>3, FS_AddElement, FS_RemoveElement
  <2>5. Cardinality(Idle(ds)) # 0
    BY <1>3, <2>3, FS_EmptySet
  <2>6. Bounded(ds)
    BY <1>2 DEF ds
  <2>. QED
    BY <2>3, <2>4, <2>5, <2>6, <2>7, PoolAssumption DEF Bounded, OpenConnections
<1>4. CASE Idle(ds) = {}
  <2>1. o \in PoolGetNew(ds)
    BY <1>1, <1>4 DEF GetAfterEviction, ds
  <2>. QED
    BY <1>2, <1>4, <2>1, GetNewBound DEF ds
<1>. QED
  BY <1>3, <1>4

(***************************************************************************)
(* The replacement path of getConnectionFromPool (lines 1155-1170): the    *)
(* pooled connection just handed out is discarded, which frees a slot for *)
(* the GetNew that follows.                                                *)
(***************************************************************************)
LEMMA ReplaceBound ==
  ASSUME NEW cs \in CSType, Bounded(cs), NEW c \in Outstanding(cs),
         NEW n \in PoolGetNew(PoolDiscard(cs, c))
  PROVE  Bounded(n.pool)
<1>1. /\ Destroy(cs, {c}) \in CSType /\ Bounded(Destroy(cs, {c}))
      /\ Idle(Destroy(cs, {c})) = Idle(cs) \ {c}
      /\ Outstanding(Destroy(cs, {c})) = Outstanding(cs) \ {c}
  BY DestroyFacts, DestroyBound DEF Outstanding
<1>2. Idle(cs) \ {c} = Idle(cs)
  BY DEF Idle, Outstanding
<1>3. /\ IsFiniteSet(Outstanding(cs)) /\ Cardinality(Outstanding(cs)) \in Nat
      /\ Cardinality(Idle(cs)) \in Nat
  BY PoolSets
<1>4. Cardinality(Outstanding(Destroy(cs, {c}))) = Cardinality(Outstanding(cs)) - 1
  BY <1>1, <1>3, FS_RemoveElement
<1>5. OpenConnections(Destroy(cs, {c})) < MaxCap
  BY <1>1, <1>2, <1>3, <1>4, PoolAssumption DEF Bounded, OpenConnections
<1>. QED
  BY <1>1, <1>5, GetNewBound DEF PoolDiscard

(***************************************************************************)
(* Return: a connection the pool had handed out is destroyed, or becomes   *)
(* idle when the idle list has room (one more idle, one fewer outstanding). *)
(***************************************************************************)
LEMMA ReturnBound ==
  ASSUME NEW cs \in CSType, Bounded(cs), NEW c \in Outstanding(cs),
         NEW r \in PoolReturn(cs, c)
  PROVE  Bounded(r)
<1>1. CASE r = Destroy(cs, {c})
  <2>1. {c} \in SUBSET Conn
    BY DEF Outstanding
  <2>. QED
    BY <1>1, <2>1, DestroyBound
<1>2. CASE r = [cs EXCEPT ![c].st = "idle"] /\ Cardinality(Idle(cs)) < MaxIdle
  <2>1. /\ Idle(r) = Idle(cs) \cup {c}
        /\ Outstanding(r) = Outstanding(cs) \ {c}
        /\ c \notin Idle(cs)
    BY <1>2 DEF Idle, Outstanding, CSType, ConnState
  <2>2. /\ IsFiniteSet(Idle(cs)) /\ IsFiniteSet(Outstanding(cs))
        /\ Cardinality(Idle(cs)) \in Nat /\ Cardinality(Outstanding(cs)) \in Nat
    BY PoolSets
  <2>3. /\ Cardinality(Idle(r)) = Cardinality(Idle(cs) \cup {c})
        /\ Cardinality(Outstanding(r)) = Cardinality(Outstanding(cs) \ {c})
    BY <2>1
  <2>4. /\ Cardinality(Idle(cs) \cup {c}) = Cardinality(Idle(cs)) + 1
        /\ Cardinality(Outstanding(cs) \ {c}) = Cardinality(Outstanding(cs)) - 1
    BY <2>1, <2>2, FS_AddElement, FS_RemoveElement
  <2>. QED
    BY <1>2, <2>2, <2>3, <2>4, PoolAssumption DEF Bounded, OpenConnections
<1>3. \/ r = Destroy(cs, {c})
      \/ r = [cs EXCEPT ![c].st = "idle"] /\ Cardinality(Idle(cs)) < MaxIdle
  BY DEF PoolReturn
<1>. QED
  BY <1>1, <1>2, <1>3

(***************************************************************************)
(* getConnectionFromPool (lines 1128-1181), whichever of its paths it      *)
(* takes: pool.Get alone, or pool.Get, Discard and GetNew.                 *)
(***************************************************************************)
LEMMA FromPoolBound ==
  ASSUME TypeOK, Bounded(connections), NEW o \in GetConnectionFromPool
  PROVE  Bounded(o.pool)
<1>1. PICK o1 \in PoolGet(connections) :
         o \in IF o1.err = "ok" THEN AfterPoolGet(o1)
               ELSE {SessOutcome(o1, poormansRollbackFail)}
  BY DEF GetConnectionFromPool
<1>2. /\ connections \in CSType
      /\ OutcomeOK(connections, o1)
      /\ Bounded(o1.pool)
  BY GetFacts, GetBound DEF TypeOK, CSType
<1>3. CASE o.pool = o1.pool
  BY <1>2, <1>3
<1>4. CASE o \in ReplaceWithNew(o1, TRUE) /\ o1.err = "ok"
  <2>1. PICK n \in PoolGetNew(PoolDiscard(o1.pool, o1.conn)) : o = SessOutcome(n, TRUE)
    BY <1>4 DEF ReplaceWithNew
  <2>2. o1.pool \in CSType /\ o1.conn \in Outstanding(o1.pool)
    BY <1>2, <1>4 DEF OutcomeOK
  <2>3. Bounded(n.pool)
    BY <1>2, <2>2, ReplaceBound
  <2>. QED
    BY <2>1, <2>3 DEF SessOutcome
<1>5. CASE o1.err # "ok"
  BY <1>1, <1>5, <1>3 DEF SessOutcome
<1>6. CASE o1.err = "ok"
  <2>1. o \in AfterPoolGet(o1)
    BY <1>1, <1>6
  <2>2. \/ o \in ReplaceWithNew(o1, TRUE)
        \/ o = SessOutcome(o1, FALSE)
        \/ o = SessOutcome(o1, poormansRollbackFail)
    BY <2>1 DEF AfterPoolGet
  <2>3. CASE o \in ReplaceWithNew(o1, TRUE)
    BY <1>4, <1>6, <2>3
  <2>4. CASE o = SessOutcome(o1, FALSE) \/ o = SessOutcome(o1, poormansRollbackFail)
    <3>1. o.pool = o1.pool
      BY <2>4 DEF SessOutcome
    <3>. QED
      BY <1>3, <3>1
  <2>. QED
    BY <2>2, <2>3, <2>4
<1>. QED
  BY <1>5, <1>6

----------------------------------------------------------------------------
(***************************************************************************)
(* NewConnectionPool creates InitialCap idle connections (InitialCap <=    *)
(* MaxIdle <= MaxCap); NewIRODSSession's rollback probe then gets one and  *)
(* returns or discards it.                                                 *)
(***************************************************************************)
LEMMA InitBound == ClientsInit => Bounded(connections)
<1> SUFFICES ASSUME ClientsInit PROVE Bounded(connections)
  OBVIOUS
<1>1. PICK cs0 \in PoolInitStates :
        IF startNewTransaction
        THEN \E o \in PoolGet(cs0) :
               /\ o.err = "ok"
               /\ \/ connections \in PoolReturn(o.pool, o.conn)
                  \/ connections = PoolDiscard(o.pool, o.conn)
        ELSE connections = cs0
  BY DEF ClientsInit, Init, SessionInit
<1>2. cs0 \in CSType /\ Bounded(cs0)
  <2>1. PICK S \in SUBSET Conn :
          /\ Cardinality(S) = InitialCap
          /\ cs0 = [c \in Conn |-> IF c \in S THEN [st |-> "idle", failed |-> FALSE]
                                            ELSE Closed]
    BY DEF PoolInitStates
  <2>2. cs0 \in CSType /\ Idle(cs0) = S /\ Outstanding(cs0) = {}
    BY <2>1 DEF CSType, ConnState, Closed, Idle, Outstanding
  <2>3. Cardinality(Idle(cs0)) = InitialCap /\ Cardinality(Outstanding(cs0)) = 0
    BY <2>1, <2>2, FS_EmptySet
  <2>. QED
    BY <2>2, <2>3, PoolAssumption DEF Bounded, OpenConnections
<1>3. CASE startNewTransaction
  <2>1. PICK o \in PoolGet(cs0) :
          /\ o.err = "ok"
          /\ \/ connections \in PoolReturn(o.pool, o.conn)
             \/ connections = PoolDiscard(o.pool, o.conn)
    BY <1>1, <1>3
  <2>2. /\ o.pool \in CSType /\ o.conn \in Outstanding(o.pool)
        /\ Bounded(o.pool)
    BY <1>2, <2>1, GetFacts, GetBound DEF OutcomeOK
  <2>3. CASE connections \in PoolReturn(o.pool, o.conn)
    BY <2>2, <2>3, ReturnBound
  <2>4. CASE connections = PoolDiscard(o.pool, o.conn)
    <3>1. {o.conn} \in SUBSET Conn
      BY <2>2 DEF Outstanding
    <3>. QED
      BY <2>2, <2>4, <3>1, DestroyBound DEF PoolDiscard
  <2>. QED
    BY <2>1, <2>3, <2>4
<1>4. CASE ~startNewTransaction
  BY <1>1, <1>2, <1>4
<1>. QED
  BY <1>3, <1>4

(* A socket failure changes no connection's place in the pool.             *)
LEMMA FailBound ==
  ASSUME TypeOK, Bounded(connections), NEW c \in Conn, SocketFail(c)
  PROVE  Bounded(connections')
<1>1. Idle(connections') = Idle(connections)
      /\ Outstanding(connections') = Outstanding(connections)
  BY DEF SocketFail, Idle, Outstanding, TypeOK
<1>. QED
  BY <1>1 DEF Bounded, OpenConnections

(***************************************************************************)
(* ReturnConnection and DiscardConnection: the last share hands the        *)
(* connection to pool.Return or pool.Discard, and a connection with a      *)
(* share is outstanding (ShareIffOut).                                     *)
(***************************************************************************)
LEMMA GiveBackBound ==
  ASSUME IInv, Bounded(connections), NEW c \in Conn,
         ReturnConnection(c) \/ DiscardConnection(c)
  PROVE  Bounded(connections')
<1>1. connections \in CSType
  BY DEF IInv, TypeOK, CSType
<1>2. CASE connections' = connections
  BY <1>2
<1>3. CASE shares[c] > 0 /\ connections' = PoolDiscard(connections, c)
  <2>1. {c} \in SUBSET Conn
    OBVIOUS
  <2>. QED
    BY <1>1, <1>3, <2>1, DestroyBound DEF PoolDiscard
<1>4. CASE shares[c] > 0 /\ connections' \in PoolReturn(connections, c)
  <2>1. c \in Outstanding(connections)
    BY <1>4 DEF IInv, ShareIffOut
  <2>. QED
    BY <1>1, <1>4, <2>1, ReturnBound
<1>. QED
  BY <1>2, <1>3, <1>4 DEF ReturnConnection, DiscardConnection

(* Every step of the session and its callers keeps the pool within bounds. *)
LEMMA NextBound ==
  IInv /\ Bounded(connections) /\ [ClientsNext]_vars => Bounded(connections')
<1> SUFFICES ASSUME IInv, Bounded(connections), [ClientsNext]_vars
             PROVE  Bounded(connections')
  OBVIOUS
<1>0. TypeOK
  BY DEF IInv
<1>1. CASE \E p \in Callers : Acquire(p)
  <2>1. PICK got : AcquireConnection(got)
    BY <1>1 DEF Acquire
  <2>. QED
    BY <1>0, <2>1, FromPoolBound DEF AcquireConnection
<1>2. CASE \E p \in Callers : AcquireMulti(p) \/ MultiDone(p)
  BY <1>2 DEF AcquireMulti, MultiStart, MultiDone, MultiFinish
<1>3. CASE \E p \in Callers : MultiStep(p)
  BY <1>0, <1>3, FromPoolBound DEF MultiStep, MultiPoolGet, MultiPoolEnd, MultiShare
<1>4. CASE \E p \in Callers, c \in Conn : Return(p, c) \/ Discard(p, c)
  BY <1>4, GiveBackBound DEF Return, Discard
<1>5. CASE \E c \in Conn : Fail(c)
  BY <1>0, <1>5, FailBound DEF Fail
<1>6. CASE ReleaseAll
  <2>1. connections \in CSType /\ Idle(connections) \cup Outstanding(connections) \in SUBSET Conn
    BY <1>0 DEF TypeOK, CSType, Idle, Outstanding
  <2>. QED
    BY <1>6, <2>1, DestroyBound DEF ReleaseAll, Release, PoolRelease
<1>7. CASE UNCHANGED vars
  BY <1>7 DEF vars, sessionVars
<1>. QED
  BY <1>1, <1>2, <1>3, <1>4, <1>5, <1>6, <1>7 DEF ClientsNext

(***************************************************************************)
(* Spec section 3 (Pool State), for every pool configuration and number of *)
(* callers: however AcquireConnection, the loop of AcquireConnectionsMulti, *)
(* ReturnConnection, DiscardConnection and Release interleave, and however *)
(* getConnectionFromPool chains Get, Discard and GetNew (lines 1155-1170),  *)
(* the pool never has more than MaxCap connections open or MaxIdle idle.   *)
(***************************************************************************)
THEOREM PoolBoundsThm == ClientsSpec => []PoolBounds
<1>. DEFINE PInv == IInv /\ Bounded(connections)
<1>1. ClientsInit => PInv
  BY InitIInv, InitBound
<1>2. PInv /\ [ClientsNext]_vars => PInv'
  BY NextIInv, NextBound
<1>3. PInv => PoolBounds
  BY DEF Bounded, PoolBounds
<1>. QED
  BY <1>1, <1>2, <1>3, PTL DEF ClientsSpec

=============================================================================
