------------------------------ MODULE Session ------------------------------
(***************************************************************************)
(* IRODSSession (src/irods/fs/data_object_bulk.go, the session.go part,    *)
(* lines 1021-1393): the share map over the connection pool, transaction   *)
(* hygiene (poor man's rollback) and the session mutex.                    *)
(*                                                                         *)
(* Every exported method locks sess.mutex for its whole body, so each one  *)
(* is one atomic step here, except AcquireConnectionsMulti whose loops are *)
(* modelled iteration by iteration with the mutex held by its caller: no   *)
(* other session step can interleave, and a loop that never ends is a      *)
(* state in which no session step is possible.                             *)
(*                                                                         *)
(* An operation that hands a connection to its caller takes the result as  *)
(* a parameter (got), which the calling module binds with \E; the session  *)
(* itself does not know who holds which connection.                        *)
(***************************************************************************)
EXTENDS ConnectionPool

CONSTANTS
  Callers,              \* goroutines that call the session
  StartNewTransaction,  \* IRODSSessionConfig.StartNewTransaction
  Anonymous,            \* account.ClientUser = "anonymous"
  RollbackMayFail,      \* the server may reject PoorMansRollback
  NoCaller              \* the mutex is free

ASSUME SessionAssumption ==
  /\ StartNewTransaction \in BOOLEAN
  /\ Anonymous \in BOOLEAN
  /\ RollbackMayFail \in BOOLEAN
  /\ NoCaller \notin Callers

VARIABLES
  shares,                \* sharedConnections, 0 for a connection not in the map
  startNewTransaction,   \* sess.startNewTransaction
  poormansRollbackFail,  \* sess.poormansRollbackFail
  mutex,                 \* caller holding sess.mutex across steps, or NoCaller
  multi                  \* locals of an AcquireConnectionsMulti in progress

sessionVars == <<connections, shares, startNewTransaction, poormansRollbackFail,
                 mutex, multi>>

MultiState ==
  [phase : {"none", "pool", "share"}, i : Nat, n : Nat, need : Nat,
   visited : SUBSET Conn, got : SUBSET Conn]

(* No AcquireConnectionsMulti is running.                                  *)
MultiIdle ==
  [phase |-> "none", i |-> 0, n |-> 0, need |-> 0, visited |-> {}, got |-> {}]

SharedKeys == {c \in Conn : shares[c] > 0}

----------------------------------------------------------------------------
(***************************************************************************)
(* getConnectionFromPool (lines 1128-1181).  An outcome records the pool,  *)
(* the connection (NoConn on error), the error and the new value of        *)
(* poormansRollbackFail.                                                   *)
(***************************************************************************)
SessOutcome(o, prf) == [pool |-> o.pool, conn |-> o.conn, err |-> o.err, prf |-> prf]

(* Discard the pooled connection, then create a new one (GetNew).          *)
ReplaceWithNew(o, prf) ==
  { SessOutcome(n, prf) : n \in PoolGetNew(PoolDiscard(o.pool, o.conn)) }

(* What follows a successful pool.Get: a reused connection is refreshed    *)
(* with a rollback, or replaced when rollback is known (or found) to fail. *)
AfterPoolGet(o) ==
  IF startNewTransaction /\ ~o.isNew
  THEN IF poormansRollbackFail
       THEN ReplaceWithNew(o, TRUE)
       ELSE {SessOutcome(o, FALSE)}
            \cup (IF RollbackMayFail THEN ReplaceWithNew(o, TRUE) ELSE {})
  ELSE {SessOutcome(o, poormansRollbackFail)}

GetConnectionFromPool ==
  UNION { IF o.err = "ok" THEN AfterPoolGet(o)
          ELSE {SessOutcome(o, poormansRollbackFail)} : o \in PoolGet(connections) }

(***************************************************************************)
(* The fallback of AcquireConnection (lines 1217-1243): share the          *)
(* connection with the fewest shares, or fail when the map is empty.       *)
(***************************************************************************)
(* Mutant: the share count of the shared connection is not stored back.    *)
ShareExistingNoIncrement(got) ==
  IF SharedKeys = {}
  THEN got = NoConn /\ UNCHANGED shares
  ELSE got \in {c \in SharedKeys : \A d \in SharedKeys : shares[c] <= shares[d]}
       /\ UNCHANGED shares

LeastShared == {c \in SharedKeys : \A d \in SharedKeys : shares[c] <= shares[d]}

ShareExisting(got) ==
  IF SharedKeys = {}
  THEN got = NoConn /\ UNCHANGED shares
  ELSE got \in LeastShared /\ shares' = [shares EXCEPT ![got] = @ + 1]

----------------------------------------------------------------------------
(***************************************************************************)
(* NewIRODSSession (lines 1046-1115): create the pool, force the anonymous *)
(* settings, and probe the rollback once on a pooled connection.  A        *)
(* session whose probe cannot get a connection is never created.  The     *)
(* state is a parameter so that a new process can create a new session.   *)
(***************************************************************************)
SessionInit(sh, mx, mu, snt, cs, prf) ==
  /\ sh = [c \in Conn |-> 0]
  /\ mx = NoCaller
  /\ mu = MultiIdle
  /\ snt = (StartNewTransaction /\ ~Anonymous)
  /\ \E cs0 \in PoolInitStates :
       IF snt
       THEN \E o \in PoolGet(cs0) :
              /\ o.err = "ok"
              /\ \/ /\ cs \in PoolReturn(o.pool, o.conn)
                    /\ prf = FALSE
                 \/ /\ RollbackMayFail
                    /\ cs = PoolDiscard(o.pool, o.conn)
                    /\ prf = TRUE
       ELSE /\ cs = cs0
            /\ prf = Anonymous

Init ==
  SessionInit(shares, mutex, multi, startNewTransaction, connections, poormansRollbackFail)

(***************************************************************************)
(* AcquireConnection (lines 1184-1244).                                    *)
(***************************************************************************)
AcquireConnection(got) ==
  /\ mutex = NoCaller
  /\ \/ /\ AvailableConnections(connections) > 0
        /\ \E o \in GetConnectionFromPool :
             /\ connections' = o.pool
             /\ poormansRollbackFail' = o.prf
             /\ IF o.err = "ok"
                THEN /\ got = o.conn
                     /\ shares' = [shares EXCEPT ![o.conn] = @ + 1]
                ELSE ShareExisting(got)
     \/ /\ AvailableConnections(connections) <= 0
        /\ ShareExisting(got)
        /\ UNCHANGED <<connections, poormansRollbackFail>>
  /\ UNCHANGED <<startNewTransaction, mutex, multi>>

(***************************************************************************)
(* AcquireConnectionsMulti (lines 1247-1312), one loop iteration a step.   *)
(***************************************************************************)
MultiStart(p, number) ==
  /\ mutex = NoCaller
  /\ mutex' = p
  /\ multi' = [MultiIdle EXCEPT !.phase = "pool", !.n = number]
  /\ UNCHANGED <<connections, shares, startNewTransaction, poormansRollbackFail>>

(* Mutant: an off-by-one in connectionsInNeed.                             *)
ToSharePhaseOffByOne(m) ==
  [m EXCEPT !.phase = "share", !.need = m.n - Cardinality(m.got) - 1]

(* Leaving the first loop: the share phase needs what the pool missed.     *)
ToSharePhase(m) == [m EXCEPT !.phase = "share", !.need = m.n - Cardinality(m.got)]

(* One iteration of the first loop that calls getConnectionFromPool.       *)
MultiPoolGet(p) ==
  /\ mutex = p
  /\ multi.phase = "pool"
  /\ multi.i < multi.n
  /\ AvailableConnections(connections) > 0
  /\ \E o \in GetConnectionFromPool :
       /\ connections' = o.pool
       /\ poormansRollbackFail' = o.prf
       /\ IF o.err = "ok"
          THEN /\ multi' = [multi EXCEPT !.i = @ + 1, !.got = @ \cup {o.conn}]
               /\ shares' = [shares EXCEPT ![o.conn] = @ + 1]
          ELSE /\ multi' = ToSharePhase(multi)
               /\ UNCHANGED shares
  /\ UNCHANGED <<startNewTransaction, mutex>>

(* The first loop ends: number iterations done or nothing available.       *)
MultiPoolEnd(p) ==
  /\ mutex = p
  /\ multi.phase = "pool"
  /\ multi.i >= multi.n \/ AvailableConnections(connections) <= 0
  /\ multi' = ToSharePhase(multi)
  /\ UNCHANGED <<connections, shares, startNewTransaction, poormansRollbackFail, mutex>>

(***************************************************************************)
(* One iteration of the range over sharedConnections (lines 1292-1304):    *)
(* an entry not yet visited in this pass gets one more share; when a pass  *)
(* is over and more are needed, a new pass starts.  With an empty map      *)
(* neither is possible: the outer loop spins forever holding the mutex.    *)
(***************************************************************************)
MultiShare(p) ==
  /\ mutex = p
  /\ multi.phase = "share"
  /\ multi.need > 0
  /\ \/ \E c \in SharedKeys \ multi.visited :
          /\ shares' = [shares EXCEPT ![c] = @ + 1]
          /\ multi' = [multi EXCEPT !.need = @ - 1, !.visited = @ \cup {c},
                                    !.got = @ \cup {c}]
     \/ /\ SharedKeys # {}
        /\ SharedKeys \subseteq multi.visited
        /\ multi' = [multi EXCEPT !.visited = {}]
        /\ UNCHANGED shares
  /\ UNCHANGED <<connections, startNewTransaction, poormansRollbackFail, mutex>>

(* The method returns the deduplicated connections and unlocks.            *)
MultiFinish(p, got) ==
  /\ mutex = p
  /\ multi.phase = "share"
  /\ multi.need <= 0
  /\ got = multi.got
  /\ mutex' = NoCaller
  /\ multi' = MultiIdle
  /\ UNCHANGED <<connections, shares, startNewTransaction, poormansRollbackFail>>

(* Mutant: the last share hands the connection back but keeps its entry.   *)
ReturnConnectionKeepEntry(c) ==
  /\ mutex = NoCaller
  /\ IF shares[c] > 0
     THEN IF shares[c] - 1 <= 0
          THEN /\ UNCHANGED shares
               /\ IF startNewTransaction /\ poormansRollbackFail
                  THEN connections' = PoolDiscard(connections, c)
                  ELSE connections' \in PoolReturn(connections, c)
          ELSE /\ shares' = [shares EXCEPT ![c] = @ - 1]
               /\ UNCHANGED connections
     ELSE UNCHANGED <<shares, connections>>
  /\ UNCHANGED <<startNewTransaction, poormansRollbackFail, mutex, multi>>

(***************************************************************************)
(* ReturnConnection (lines 1315-1348): the last share returns the          *)
(* connection to the pool, or discards it when the session needs fresh     *)
(* transactions and cannot roll back.  Unknown connections are ignored.    *)
(***************************************************************************)
ReturnConnection(c) ==
  /\ mutex = NoCaller
  /\ IF shares[c] > 0
     THEN IF shares[c] - 1 <= 0
          THEN /\ shares' = [shares EXCEPT ![c] = 0]
               /\ IF startNewTransaction /\ poormansRollbackFail
                  THEN connections' = PoolDiscard(connections, c)
                  ELSE connections' \in PoolReturn(connections, c)
          ELSE /\ shares' = [shares EXCEPT ![c] = @ - 1]
               /\ UNCHANGED connections
     ELSE UNCHANGED <<shares, connections>>
  /\ UNCHANGED <<startNewTransaction, poormansRollbackFail, mutex, multi>>

(* DiscardConnection (lines 1351-1369): the same accounting, but the last  *)
(* share always destroys the connection.                                   *)
DiscardConnection(c) ==
  /\ mutex = NoCaller
  /\ IF shares[c] > 0
     THEN IF shares[c] - 1 <= 0
          THEN /\ shares' = [shares EXCEPT ![c] = 0]
               /\ connections' = PoolDiscard(connections, c)
          ELSE /\ shares' = [shares EXCEPT ![c] = @ - 1]
               /\ UNCHANGED connections
     ELSE UNCHANGED <<shares, connections>>
  /\ UNCHANGED <<startNewTransaction, poormansRollbackFail, mutex, multi>>

(* Release (lines 1372-1381): empty the share map, release the pool.       *)
Release ==
  /\ mutex = NoCaller
  /\ shares' = [c \in Conn |-> 0]
  /\ connections' = PoolRelease(connections)
  /\ UNCHANGED <<startNewTransaction, poormansRollbackFail, mutex, multi>>

(* A round trip on an outstanding connection hits a socket error: the      *)
(* connection's socket-failed flag is raised and stays raised.             *)
SocketFail(c) ==
  /\ connections[c].st = "out"
  /\ ~connections[c].failed
  /\ connections' = [connections EXCEPT ![c].failed = TRUE]
  /\ UNCHANGED <<shares, startNewTransaction, poormansRollbackFail, mutex, multi>>

=============================================================================
