---------------------------- MODULE SessionProofs ----------------------------
(***************************************************************************)
(* Proofs about the session and its pool, for every value of the           *)
(* constants: the type invariant, and that the share map and the pool      *)
(* agree on which connections are outstanding.                             *)
(***************************************************************************)
EXTENDS SessionClients, FiniteSetTheorems, TLAPS

CSType == [Conn -> ConnState]

(***************************************************************************)
(* What the session needs to know of a pool call: the pool stays           *)
(* well-typed, and a successful call hands out one connection that was not *)
(* outstanding before and is afterwards, leaving the others as they were;  *)
(* a failed call leaves the set of outstanding connections alone.          *)
(***************************************************************************)
OutcomeOK(cs, o) ==
  /\ o.pool \in CSType
  /\ o.err = "ok" => /\ o.conn \in Conn
                     /\ o.conn \notin Outstanding(cs)
                     /\ Outstanding(o.pool) = Outstanding(cs) \cup {o.conn}
  /\ o.err # "ok" => Outstanding(o.pool) = Outstanding(cs)

LEMMA DestroyFacts ==
  ASSUME NEW cs \in CSType, NEW S \in SUBSET Conn
  PROVE  /\ Destroy(cs, S) \in CSType
         /\ Outstanding(Destroy(cs, S)) = Outstanding(cs) \ S
BY DEF Destroy, Closed, ConnState, CSType, Outstanding

LEMMA GetNewFacts ==
  ASSUME NEW cs \in CSType, NEW o \in PoolGetNew(cs)
  PROVE  /\ OutcomeOK(cs, o)
         /\ o.isNew \in BOOLEAN
<1>1. CASE Cardinality(Outstanding(cs)) < MaxCap
  <2>1. CASE o.err = "ok"
    <3>1. PICK c \in FreeIds(cs) :
                o = Outcome([cs EXCEPT ![c] = [st |-> "out", failed |-> FALSE]], c, TRUE, "ok")
      BY <1>1, <2>1 DEF PoolGetNew, Outcome
    <3>. QED
      BY <3>1 DEF OutcomeOK, Outcome, FreeIds, Outstanding, CSType, ConnState
  <2>2. CASE o.err # "ok"
    <3>1. o = Outcome(cs, NoConn, FALSE, "connectFailed")
      BY <1>1, <2>2 DEF PoolGetNew, Outcome
    <3>. QED
      BY <3>1 DEF Outcome, OutcomeOK
  <2>. QED
    BY <2>1, <2>2
<1>2. CASE ~(Cardinality(Outstanding(cs)) < MaxCap)
  <2>1. o = Outcome(cs, NoConn, FALSE, "poolFull")
    BY <1>2 DEF PoolGetNew
  <2>. QED
    BY <2>1 DEF Outcome, OutcomeOK
<1>. QED
  BY <1>1, <1>2

LEMMA GetFacts ==
  ASSUME NEW cs \in CSType, NEW o \in PoolGet(cs)
  PROVE  /\ OutcomeOK(cs, o)
         /\ o.isNew \in BOOLEAN
<1>1. PICK E \in SUBSET Idle(cs) : o \in GetAfterEviction(Destroy(cs, E))
  BY DEF PoolGet
<1>. DEFINE ds == Destroy(cs, E)
<1>2. /\ ds \in CSType
      /\ Outstanding(ds) = Outstanding(cs)
  <2>1. E \subseteq Conn /\ E \cap Outstanding(cs) = {}
    BY DEF Idle, Outstanding
  <2>. QED
    BY <2>1, DestroyFacts
<1>3. CASE Idle(ds) # {}
  <2>1. PICK c \in Idle(ds) : o = Outcome([ds EXCEPT ![c].st = "out"], c, FALSE, "ok")
    BY <1>1, <1>3 DEF GetAfterEviction
  <2>. QED
    BY <1>2, <2>1 DEF OutcomeOK, Outcome, Idle, Outstanding, CSType, ConnState
<1>4. CASE Idle(ds) = {}
  <2>1. o \in PoolGetNew(ds)
    BY <1>1, <1>4 DEF GetAfterEviction
  <2>2. OutcomeOK(ds, o) /\ o.isNew \in BOOLEAN
    BY <1>2, <2>1, GetNewFacts
  <2>. QED
    BY <1>2, <2>2 DEF OutcomeOK
<1>. QED
  BY <1>3, <1>4

LEMMA ReturnFacts ==
  ASSUME NEW cs \in CSType, NEW c \in Conn, NEW r \in PoolReturn(cs, c)
  PROVE  /\ r \in CSType
         /\ Outstanding(r) = Outstanding(cs) \ {c}
<1>1. CASE r = Destroy(cs, {c})
  BY <1>1, DestroyFacts
<1>2. CASE r = [cs EXCEPT ![c].st = "idle"]
  BY <1>2 DEF CSType, ConnState, Outstanding
<1>. QED
  BY <1>1, <1>2 DEF PoolReturn

(***************************************************************************)
(* getConnectionFromPool keeps the same promise as pool.Get, whichever of   *)
(* its paths (reuse, rollback, replace by a new connection) it takes.      *)
(***************************************************************************)
LEMMA ReplaceFacts ==
  ASSUME NEW cs \in CSType, NEW o1, OutcomeOK(cs, o1), o1.err = "ok",
         NEW prf \in BOOLEAN, NEW r \in ReplaceWithNew(o1, prf)
  PROVE  OutcomeOK(cs, r) /\ r.prf \in BOOLEAN
<1>. DEFINE ds == PoolDiscard(o1.pool, o1.conn)
<1>1. PICK n \in PoolGetNew(ds) : r = SessOutcome(n, prf)
  BY DEF ReplaceWithNew
<1>2. ds \in CSType /\ Outstanding(ds) = Outstanding(cs)
  <2>1. ds \in CSType /\ Outstanding(ds) = Outstanding(o1.pool) \ {o1.conn}
    BY DestroyFacts DEF PoolDiscard, OutcomeOK
  <2>. QED
    BY <2>1 DEF OutcomeOK
<1>3. OutcomeOK(ds, n)
  BY <1>2, GetNewFacts
<1>. QED
  BY <1>1, <1>2, <1>3 DEF SessOutcome, OutcomeOK

LEMMA FromPoolFacts ==
  ASSUME TypeOK, NEW o \in GetConnectionFromPool
  PROVE  OutcomeOK(connections, o) /\ o.prf \in BOOLEAN
<1>1. PICK o1 \in PoolGet(connections) :
         o \in IF o1.err = "ok" THEN AfterPoolGet(o1)
               ELSE {SessOutcome(o1, poormansRollbackFail)}
  BY DEF GetConnectionFromPool
<1>2. OutcomeOK(connections, o1) /\ connections \in CSType
  BY GetFacts DEF TypeOK, CSType
<1>3. CASE o1.err # "ok"
  BY <1>1, <1>2, <1>3 DEF SessOutcome, OutcomeOK, TypeOK
<1>4. CASE o1.err = "ok"
  <2>1. o \in AfterPoolGet(o1)
    BY <1>1, <1>4
  <2>2. CASE o \in ReplaceWithNew(o1, TRUE)
    BY <1>2, <1>4, <2>2, ReplaceFacts
  <2>3. CASE o = SessOutcome(o1, FALSE)
    BY <1>2, <2>3 DEF SessOutcome, OutcomeOK
  <2>4. CASE o = SessOutcome(o1, poormansRollbackFail)
    BY <1>2, <2>4 DEF SessOutcome, OutcomeOK, TypeOK
  <2>. QED
    BY <2>1, <2>2, <2>3, <2>4 DEF AfterPoolGet
<1>. QED
  BY <1>3, <1>4

LEMMA ShareExistingFacts ==
  ASSUME TypeOK, NEW got, ShareExisting(got)
  PROVE  /\ shares' \in [Conn -> Nat]
         /\ \A c \in Conn : shares'[c] > 0 <=> shares[c] > 0
         /\ got = NoConn \/ got \in Conn
BY DEF ShareExisting, LeastShared, SharedKeys, TypeOK

(***************************************************************************)
(* The inductive invariant.  SharedIffOutstanding alone is inductive only  *)
(* with the type invariant, and the type invariant needs MultiInv: the     *)
(* connections the first loop of AcquireConnectionsMulti collected are at  *)
(* most as many as its iterations, so connectionsInNeed is never negative. *)
(***************************************************************************)
MultiInv ==
  multi.phase = "pool" => /\ Cardinality(multi.got) <= multi.i
                          /\ multi.i <= multi.n

ShareIffOut == \A c \in Conn : shares[c] > 0 <=> c \in Outstanding(connections)

IInv == TypeOK /\ MultiInv /\ ShareIffOut

LEMMA GotFinite ==
  ASSUME TypeOK
  PROVE  /\ IsFiniteSet(multi.got)
         /\ Cardinality(multi.got) \in Nat
BY PoolAssumption, FS_Subset, FS_CardinalityType DEF TypeOK, MultiState

LEMMA ToShareFacts ==
  ASSUME TypeOK, MultiInv, multi.phase = "pool"
  PROVE  ToSharePhase(multi) \in MultiState
<1>1. multi.n - Cardinality(multi.got) \in Nat
  BY GotFinite DEF MultiInv, TypeOK, MultiState
<1>. QED
  BY <1>1, Zenon DEF ToSharePhase, MultiState, TypeOK

LEMMA InitIInv == ClientsInit => IInv
<1> SUFFICES ASSUME ClientsInit PROVE IInv
  OBVIOUS
<1>1. Outstanding(connections) = {} /\ connections \in CSType
  <2>1. PICK cs0 \in PoolInitStates :
          IF startNewTransaction
          THEN \E o \in PoolGet(cs0) :
                 /\ o.err = "ok"
                 /\ \/ /\ connections \in PoolReturn(o.pool, o.conn)
                       /\ poormansRollbackFail = FALSE
                    \/ /\ RollbackMayFail
                       /\ connections = PoolDiscard(o.pool, o.conn)
                       /\ poormansRollbackFail = TRUE
          ELSE /\ connections = cs0
               /\ poormansRollbackFail = Anonymous
    BY DEF ClientsInit, Init, SessionInit
  <2>2. cs0 \in CSType /\ Outstanding(cs0) = {}
    <3>1. PICK S \in SUBSET Conn :
            cs0 = [c \in Conn |-> IF c \in S THEN [st |-> "idle", failed |-> FALSE]
                                              ELSE Closed]
      BY DEF PoolInitStates
    <3>. QED
      BY <3>1 DEF CSType, ConnState, Closed, Outstanding
  <2>3. CASE startNewTransaction
    <3>1. PICK o \in PoolGet(cs0) :
                 /\ o.err = "ok"
                 /\ \/ connections \in PoolReturn(o.pool, o.conn)
                    \/ connections = PoolDiscard(o.pool, o.conn)
      BY <2>1, <2>3
    <3>2. OutcomeOK(cs0, o)
      BY <2>2, GetFacts
    <3>3. o.pool \in CSType /\ o.conn \in Conn /\ Outstanding(o.pool) = {o.conn}
      BY <2>2, <3>1, <3>2 DEF OutcomeOK
    <3>4. CASE connections \in PoolReturn(o.pool, o.conn)
      BY <3>3, <3>4, ReturnFacts
    <3>5. CASE connections = PoolDiscard(o.pool, o.conn)
      BY <3>3, <3>5, DestroyFacts DEF PoolDiscard
    <3>. QED
      BY <3>1, <3>4, <3>5
  <2>4. CASE ~startNewTransaction
    BY <2>1, <2>2, <2>4
  <2>. QED
    BY <2>3, <2>4
<1>2. TypeOK
  <2>1. poormansRollbackFail \in BOOLEAN
    BY SessionAssumption DEF ClientsInit, Init, SessionInit
  <2>. QED
    BY <1>1, <2>1, SessionAssumption
    DEF ClientsInit, Init, SessionInit, TypeOK, CSType, MultiState, MultiIdle
<1>3. MultiInv
  BY DEF ClientsInit, Init, SessionInit, MultiInv, MultiIdle
<1>4. ShareIffOut
  BY <1>1 DEF ClientsInit, Init, SessionInit, ShareIffOut
<1>. QED
  BY <1>2, <1>3, <1>4 DEF IInv

(***************************************************************************)
(* AcquireConnection: a connection from the pool gets its first share as   *)
(* it becomes outstanding; a shared one already had both.                  *)
(***************************************************************************)
LEMMA AcquireConnIInv ==
  ASSUME IInv, NEW got, AcquireConnection(got),
         refs' \in [Callers -> [Conn -> Nat]]
  PROVE  IInv'
<1>1. UNCHANGED <<startNewTransaction, mutex, multi>>
  BY DEF AcquireConnection
<1>2. refs' \in [Callers -> [Conn -> Nat]]
  OBVIOUS
<1>3. /\ connections' \in CSType
      /\ shares' \in [Conn -> Nat]
      /\ poormansRollbackFail' \in BOOLEAN
      /\ ShareIffOut'
  <2>1. CASE \E o \in GetConnectionFromPool :
               /\ connections' = o.pool
               /\ poormansRollbackFail' = o.prf
               /\ IF o.err = "ok"
                  THEN /\ got = o.conn
                       /\ shares' = [shares EXCEPT ![o.conn] = @ + 1]
                  ELSE ShareExisting(got)
    <3>1. PICK o \in GetConnectionFromPool :
               /\ connections' = o.pool
               /\ poormansRollbackFail' = o.prf
               /\ IF o.err = "ok"
                  THEN /\ got = o.conn
                       /\ shares' = [shares EXCEPT ![o.conn] = @ + 1]
                  ELSE ShareExisting(got)
      BY <2>1
    <3>2. OutcomeOK(connections, o) /\ o.prf \in BOOLEAN
      BY FromPoolFacts DEF IInv
    <3>3. CASE o.err = "ok"
      <4>1. /\ shares' = [shares EXCEPT ![o.conn] = @ + 1]
            /\ o.conn \in Conn /\ o.conn \notin Outstanding(connections)
            /\ Outstanding(connections') = Outstanding(connections) \cup {o.conn}
            /\ connections' \in CSType /\ poormansRollbackFail' \in BOOLEAN
        BY <3>1, <3>2, <3>3 DEF OutcomeOK
      <4>2. shares' \in [Conn -> Nat]
        BY <4>1 DEF IInv, TypeOK
      <4>3. ShareIffOut'
        BY <4>1 DEF IInv, TypeOK, ShareIffOut
      <4>. QED
        BY <4>1, <4>2, <4>3
    <3>4. CASE o.err # "ok"
      <4>1. ShareExisting(got)
        BY <3>1, <3>4
      <4>. QED
        BY <3>1, <3>2, <3>4, <4>1, ShareExistingFacts
        DEF OutcomeOK, IInv, TypeOK, ShareIffOut
    <3>. QED
      BY <3>3, <3>4
  <2>2. CASE ShareExisting(got) /\ UNCHANGED <<connections, poormansRollbackFail>>
    BY <2>2, ShareExistingFacts DEF IInv, TypeOK, ShareIffOut, CSType
  <2>. QED
    BY <2>1, <2>2 DEF AcquireConnection
<1>. QED
  BY <1>1, <1>2, <1>3 DEF IInv, TypeOK, CSType, MultiInv

LEMMA AcquireIInv ==
  ASSUME IInv, NEW p \in Callers, Acquire(p)
  PROVE  IInv'
<1>1. PICK got \in Conn \cup {NoConn} :
        /\ AcquireConnection(got)
        /\ refs' = IF got = NoConn THEN refs ELSE [refs EXCEPT ![p][got] = 1]
  BY DEF Acquire
<1>2. refs' \in [Callers -> [Conn -> Nat]]
  BY <1>1 DEF IInv, TypeOK
<1>. QED
  BY <1>1, <1>2, AcquireConnIInv

LEMMA MultiStartIInv ==
  ASSUME IInv, NEW p \in Callers, NEW n \in Nat, MultiStart(p, n), UNCHANGED refs
  PROVE  IInv'
<1>1. multi' = [phase |-> "pool", i |-> 0, n |-> n, need |-> 0,
                visited |-> {}, got |-> {}]
  BY DEF MultiStart, MultiIdle
<1>2. Cardinality(multi'.got) = 0
  BY <1>1, FS_EmptySet
<1>3. UNCHANGED <<connections, shares, startNewTransaction, poormansRollbackFail, refs>>
      /\ mutex' = p
  BY DEF MultiStart
<1>4. multi' \in MultiState
  BY <1>1 DEF MultiState
<1>5. TypeOK'
  BY <1>3, <1>4 DEF IInv, TypeOK
<1>6. MultiInv'
  BY <1>1, <1>2 DEF MultiInv
<1>7. ShareIffOut'
  BY <1>3 DEF IInv, ShareIffOut
<1>. QED
  BY <1>5, <1>6, <1>7 DEF IInv

LEMMA AcquireMultiIInv ==
  ASSUME IInv, NEW p \in Callers, AcquireMulti(p)
  PROVE  IInv'
<1>1. PICK n \in 1..MaxMulti : MultiStart(p, n)
  BY DEF AcquireMulti
<1>. QED
  BY <1>1, MultiStartIInv DEF AcquireMulti

(***************************************************************************)
(* The loops of AcquireConnectionsMulti: a pooled connection gets its      *)
(* first share as it becomes outstanding, the share loop only adds to      *)
(* entries that exist, and the first loop collects at most one connection *)
(* per iteration.                                                          *)
(***************************************************************************)
LEMMA MultiPoolGetIInv ==
  ASSUME IInv, NEW p \in Callers, MultiPoolGet(p), UNCHANGED refs
  PROVE  IInv'
<1>1. PICK o \in GetConnectionFromPool :
         /\ connections' = o.pool
         /\ poormansRollbackFail' = o.prf
         /\ IF o.err = "ok"
            THEN /\ multi' = [multi EXCEPT !.i = @ + 1, !.got = @ \cup {o.conn}]
                 /\ shares' = [shares EXCEPT ![o.conn] = @ + 1]
            ELSE /\ multi' = ToSharePhase(multi)
                 /\ UNCHANGED shares
  BY DEF MultiPoolGet
<1>2. OutcomeOK(connections, o) /\ o.prf \in BOOLEAN
  BY FromPoolFacts DEF IInv
<1>3. UNCHANGED <<startNewTransaction, mutex>> /\ multi.phase = "pool"
      /\ multi.i < multi.n
  BY DEF MultiPoolGet
<1>4. CASE o.err = "ok"
  <2>1. o.conn \in Conn
    BY <1>2, <1>4 DEF OutcomeOK
  <2>2. /\ IsFiniteSet(multi.got)
        /\ Cardinality(multi.got) \in Nat
        /\ Cardinality(multi.got \cup {o.conn}) <= Cardinality(multi.got) + 1
        /\ Cardinality(multi.got \cup {o.conn}) \in Nat
    <3>1. IsFiniteSet(multi.got) /\ Cardinality(multi.got) \in Nat
      BY GotFinite DEF IInv
    <3>2. /\ IsFiniteSet(multi.got \cup {o.conn})
          /\ Cardinality(multi.got \cup {o.conn}) =
               IF o.conn \in multi.got THEN Cardinality(multi.got)
               ELSE Cardinality(multi.got) + 1
      BY <3>1, FS_AddElement
    <3>3. Cardinality(multi.got \cup {o.conn}) <= Cardinality(multi.got) + 1
      BY <3>1, <3>2
    <3>. QED
      BY <3>1, <3>2, <3>3, FS_CardinalityType
  <2>3. multi' = [multi EXCEPT !.i = @ + 1, !.got = @ \cup {o.conn}]
    BY <1>1, <1>4
  <2>4. multi' = [phase |-> multi.phase, i |-> multi.i + 1, n |-> multi.n,
                  need |-> multi.need, visited |-> multi.visited,
                  got |-> multi.got \cup {o.conn}]
    BY <2>3 DEF IInv, TypeOK, MultiState
  <2>5. multi' \in MultiState /\ MultiInv'
    <3>1. multi' \in MultiState
      BY <2>1, <2>4 DEF IInv, TypeOK, MultiState
    <3>2. Cardinality(multi'.got) <= multi'.i /\ multi'.i <= multi'.n
      <4>1. Cardinality(multi.got) <= multi.i /\ multi.i \in Nat /\ multi.n \in Nat
        BY <1>3 DEF IInv, MultiInv, TypeOK, MultiState
      <4>2. multi'.got = multi.got \cup {o.conn} /\ multi'.i = multi.i + 1
            /\ multi'.n = multi.n
        BY <2>4
      <4>3. Cardinality(multi'.got) = Cardinality(multi.got \cup {o.conn})
        BY <4>2
      <4>4. multi.i < multi.n
        BY DEF MultiPoolGet
      <4>5. Cardinality(multi.got \cup {o.conn}) <= multi.i + 1
        BY <2>2, <4>1
      <4>. QED
        BY <4>1, <4>2, <4>3, <4>4, <4>5
    <3>. QED
      BY <3>1, <3>2 DEF MultiInv
  <2>6. ShareIffOut' /\ shares' \in [Conn -> Nat] /\ connections' \in CSType
    BY <1>1, <1>2, <1>4 DEF OutcomeOK, IInv, TypeOK, ShareIffOut
  <2>. QED
    BY <1>1, <1>2, <1>3, <2>5, <2>6 DEF IInv, TypeOK, CSType
<1>5. CASE o.err # "ok"
  <2>1. multi' = ToSharePhase(multi) /\ UNCHANGED shares
    BY <1>1, <1>5
  <2>2. multi' \in MultiState /\ multi'.phase = "share"
    BY <1>3, <2>1, ToShareFacts DEF IInv, ToSharePhase
  <2>3. MultiInv'
    BY <2>2 DEF MultiInv
  <2>4. ShareIffOut' /\ connections' \in CSType
    BY <1>1, <1>2, <1>5, <2>1 DEF OutcomeOK, IInv, ShareIffOut
  <2>. QED
    BY <1>1, <1>2, <1>3, <2>1, <2>2, <2>3, <2>4 DEF IInv, TypeOK, CSType
<1>. QED
  BY <1>4, <1>5

LEMMA MultiPoolEndIInv ==
  ASSUME IInv, NEW p \in Callers, MultiPoolEnd(p), UNCHANGED refs
  PROVE  IInv'
<1>1. multi' = ToSharePhase(multi) /\ multi.phase = "pool"
      /\ UNCHANGED <<connections, shares, startNewTransaction, poormansRollbackFail, mutex>>
  BY DEF MultiPoolEnd
<1>2. multi' \in MultiState /\ multi'.phase = "share"
  BY <1>1, ToShareFacts DEF IInv, ToSharePhase
<1>. QED
  BY <1>1, <1>2 DEF IInv, TypeOK, MultiInv, ShareIffOut

LEMMA MultiShareIInv ==
  ASSUME IInv, NEW p \in Callers, MultiShare(p), UNCHANGED refs
  PROVE  IInv'
<1>1. /\ multi.phase = "share" /\ multi.need > 0
      /\ UNCHANGED <<connections, startNewTransaction, poormansRollbackFail, mutex>>
  BY DEF MultiShare
<1>2. CASE \E c \in SharedKeys \ multi.visited :
             /\ shares' = [shares EXCEPT ![c] = @ + 1]
             /\ multi' = [multi EXCEPT !.need = @ - 1, !.visited = @ \cup {c},
                                       !.got = @ \cup {c}]
  <2>1. PICK c \in SharedKeys \ multi.visited :
             /\ shares' = [shares EXCEPT ![c] = @ + 1]
             /\ multi' = [multi EXCEPT !.need = @ - 1, !.visited = @ \cup {c},
                                       !.got = @ \cup {c}]
    BY <1>2
  <2>2. c \in Conn /\ shares[c] > 0
    BY DEF SharedKeys
  <2>3. multi' = [phase |-> multi.phase, i |-> multi.i, n |-> multi.n,
                  need |-> multi.need - 1, visited |-> multi.visited \cup {c},
                  got |-> multi.got \cup {c}]
    BY <2>1 DEF IInv, TypeOK, MultiState
  <2>4. multi' \in MultiState /\ multi'.phase = "share"
    BY <1>1, <2>2, <2>3 DEF IInv, TypeOK, MultiState
  <2>. QED
    BY <1>1, <2>1, <2>2, <2>4 DEF IInv, TypeOK, MultiInv, ShareIffOut
<1>3. CASE multi' = [multi EXCEPT !.visited = {}] /\ UNCHANGED shares
  <2>1. multi' \in MultiState /\ multi'.phase = "share"
    BY <1>1, <1>3 DEF IInv, TypeOK, MultiState
  <2>. QED
    BY <1>1, <1>3, <2>1 DEF IInv, TypeOK, MultiInv, ShareIffOut
<1>. QED
  BY <1>2, <1>3 DEF MultiShare

LEMMA MultiFinishIInv ==
  ASSUME IInv, NEW p \in Callers, NEW got, MultiFinish(p, got),
         refs' \in [Callers -> [Conn -> Nat]]
  PROVE  IInv'
<1>1. /\ multi' = MultiIdle /\ mutex' = NoCaller
      /\ UNCHANGED <<connections, shares, startNewTransaction, poormansRollbackFail>>
  BY DEF MultiFinish
<1>. QED
  BY <1>1 DEF IInv, TypeOK, MultiInv, ShareIffOut, MultiIdle, MultiState

LEMMA MultiDoneIInv ==
  ASSUME IInv, NEW p \in Callers, MultiDone(p)
  PROVE  IInv'
<1>1. refs' \in [Callers -> [Conn -> Nat]]
  BY DEF MultiDone, IInv, TypeOK
<1>. QED
  BY <1>1, MultiFinishIInv DEF MultiDone

(***************************************************************************)
(* ReturnConnection and DiscardConnection: the last share of a connection *)
(* goes together with its leaving the outstanding set, whichever of        *)
(* Return, Discard or destruction the pool does.                           *)
(***************************************************************************)
LEMMA LastShareFacts ==
  ASSUME IInv, NEW c \in Conn, shares[c] > 0,
         \/ connections' = PoolDiscard(connections, c)
         \/ connections' \in PoolReturn(connections, c)
  PROVE  /\ connections' \in CSType
         /\ Outstanding(connections') = Outstanding(connections) \ {c}
<1>1. connections \in CSType
  BY DEF IInv, TypeOK, CSType
<1>. QED
  BY <1>1, DestroyFacts, ReturnFacts DEF PoolDiscard

LEMMA ReturnConnIInv ==
  ASSUME IInv, NEW c \in Conn, ReturnConnection(c) \/ DiscardConnection(c),
         refs' \in [Callers -> [Conn -> Nat]]
  PROVE  IInv'
<1>1. UNCHANGED <<startNewTransaction, poormansRollbackFail, mutex, multi>>
  BY DEF ReturnConnection, DiscardConnection
<1>2. /\ connections' \in CSType
      /\ shares' \in [Conn -> Nat]
      /\ ShareIffOut'
  <2>1. CASE shares[c] > 0 /\ shares[c] - 1 <= 0
    <3>1. /\ shares' = [shares EXCEPT ![c] = 0]
          /\ \/ connections' = PoolDiscard(connections, c)
             \/ connections' \in PoolReturn(connections, c)
      BY <2>1 DEF ReturnConnection, DiscardConnection
    <3>2. /\ connections' \in CSType
          /\ Outstanding(connections') = Outstanding(connections) \ {c}
      BY <2>1, <3>1, LastShareFacts
    <3>. QED
      BY <3>1, <3>2 DEF IInv, TypeOK, ShareIffOut
  <2>2. CASE shares[c] > 0 /\ ~(shares[c] - 1 <= 0)
    <3>1. shares' = [shares EXCEPT ![c] = @ - 1] /\ UNCHANGED connections
      BY <2>2 DEF ReturnConnection, DiscardConnection
    <3>. QED
      BY <2>2, <3>1 DEF IInv, TypeOK, ShareIffOut, CSType
  <2>3. CASE ~(shares[c] > 0)
    <3>1. UNCHANGED <<shares, connections>>
      BY <2>3 DEF ReturnConnection, DiscardConnection
    <3>. QED
      BY <3>1 DEF IInv, TypeOK, ShareIffOut, CSType
  <2>. QED
    BY <2>1, <2>2, <2>3
<1>. QED
  BY <1>1, <1>2 DEF IInv, TypeOK, CSType, MultiInv

LEMMA ReturnIInv ==
  ASSUME IInv, NEW p \in Callers, NEW c \in Conn, Return(p, c) \/ Discard(p, c)
  PROVE  IInv'
<1>1. /\ refs' = [refs EXCEPT ![p][c] = @ - 1]
      /\ refs[p][c] > 0
      /\ ReturnConnection(c) \/ DiscardConnection(c)
  BY DEF Return, Discard
<1>2. refs' \in [Callers -> [Conn -> Nat]]
  BY <1>1 DEF IInv, TypeOK
<1>. QED
  BY <1>1, <1>2, ReturnConnIInv

LEMMA SocketFailIInv ==
  ASSUME IInv, NEW c \in Conn, SocketFail(c), UNCHANGED refs
  PROVE  IInv'
<1>1. /\ connections' = [connections EXCEPT ![c].failed = TRUE]
      /\ UNCHANGED <<shares, startNewTransaction, poormansRollbackFail, mutex, multi>>
  BY DEF SocketFail
<1>2. connections' \in [Conn -> ConnState]
      /\ \A d \in Conn : connections'[d].st = connections[d].st
  BY <1>1 DEF IInv, TypeOK, ConnState
<1>. QED
  BY <1>1, <1>2 DEF IInv, TypeOK, MultiInv, ShareIffOut, Outstanding

LEMMA FailIInv ==
  ASSUME IInv, NEW c \in Conn, Fail(c)
  PROVE  IInv'
BY SocketFailIInv DEF Fail

LEMMA ReleaseIInv ==
  ASSUME IInv, ReleaseAll
  PROVE  IInv'
<1>1. /\ shares' = [c \in Conn |-> 0]
      /\ connections' = PoolRelease(connections)
      /\ UNCHANGED <<startNewTransaction, poormansRollbackFail, mutex, multi, refs>>
  BY DEF ReleaseAll, Release
<1>2. /\ connections' \in CSType
      /\ Outstanding(connections') = {}
  <2>1. connections \in CSType
    BY DEF IInv, TypeOK, CSType
  <2>2. Idle(connections) \cup Outstanding(connections) \subseteq Conn
    BY DEF Idle, Outstanding
  <2>. QED
    BY <1>1, <2>1, <2>2, DestroyFacts DEF PoolRelease
<1>. QED
  BY <1>1, <1>2 DEF IInv, TypeOK, MultiInv, ShareIffOut, CSType

(***************************************************************************)
(* Every step of the session and its callers preserves the invariant.      *)
(***************************************************************************)
LEMMA NextIInv == IInv /\ [ClientsNext]_vars => IInv'
<1> SUFFICES ASSUME IInv, [ClientsNext]_vars PROVE IInv'
  OBVIOUS
<1>1. CASE \E p \in Callers : Acquire(p)
  BY <1>1, AcquireIInv
<1>2. CASE \E p \in Callers : AcquireMulti(p)
  BY <1>2, AcquireMultiIInv
<1>3. CASE \E p \in Callers : MultiStep(p)
  <2>1. PICK p \in Callers : MultiStep(p)
    BY <1>3
  <2>. QED
    BY <2>1, MultiPoolGetIInv, MultiPoolEndIInv, MultiShareIInv DEF MultiStep
<1>4. CASE \E p \in Callers : MultiDone(p)
  BY <1>4, MultiDoneIInv
<1>5. CASE \E p \in Callers, c \in Conn : Return(p, c) \/ Discard(p, c)
  BY <1>5, ReturnIInv
<1>6. CASE \E c \in Conn : Fail(c)
  BY <1>6, FailIInv
<1>7. CASE ReleaseAll
  BY <1>7, ReleaseIInv
<1>8. CASE UNCHANGED vars
  BY <1>8 DEF vars, sessionVars, IInv, TypeOK, MultiInv, ShareIffOut, Outstanding
<1>. QED
  BY <1>1, <1>2, <1>3, <1>4, <1>5, <1>6, <1>7, <1>8 DEF ClientsNext

LEMMA IInvImplies == IInv => TypeOK /\ SharedIffOutstanding
BY DEF IInv, ShareIffOut, SharedIffOutstanding, Outstanding

(***************************************************************************)
(* Type correctness of the session, its pool and the callers' references, *)
(* for every pool configuration and number of callers.                     *)
(***************************************************************************)
THEOREM TypeCorrect == ClientsSpec => []TypeOK
<1>1. ClientsInit => IInv
  BY InitIInv
<1>2. IInv /\ [ClientsNext]_vars => IInv'
  BY NextIInv
<1>. QED
  BY <1>1, <1>2, IInvImplies, PTL DEF ClientsSpec

(***************************************************************************)
(* The share map and the pool always agree on which connections are       *)
(* handed out: AcquireConnection, the loops of AcquireConnectionsMulti,   *)
(* ReturnConnection, DiscardConnection and Release update both together,  *)
(* for every value of the constants.                                       *)
(***************************************************************************)
THEOREM ShareMapAgreement == ClientsSpec => []SharedIffOutstanding
<1>1. ClientsInit => IInv
  BY InitIInv
<1>2. IInv /\ [ClientsNext]_vars => IInv'
  BY NextIInv
<1>. QED
  BY <1>1, <1>2, IInvImplies, PTL DEF ClientsSpec

=============================================================================
