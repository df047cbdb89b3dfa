----------------------------- MODULE MCSession -----------------------------
(***************************************************************************)
(* Model-checking instance of SessionClients: the properties that need     *)
(* sums over callers live here, since the Folds behind SumFunction are out *)
(* of the proof system's reach.                                            *)
(***************************************************************************)
EXTENDS SessionClients, Functions

CONSTANTS c1, c2, c3, p1, p2

MCConn == {c1, c2, c3}
MCCallers == {p1, p2}

(* References callers hold to c.                                           *)
RefsTo(c) == SumFunction([p \in Callers |-> refs[p][c]])

(***************************************************************************)
(* No connection returns to the pool, or is destroyed, while a caller      *)
(* still holds it: each caller's reference is backed by a share            *)
(* (AcquireConnection lines 1206-1211 and 1240-1241, ReturnConnection      *)
(* lines 1325-1344).                                                       *)
(***************************************************************************)
SharesCoverRefs == \A c \in Conn : RefsTo(c) <= shares[c]

(***************************************************************************)
(* Spec section 8, invariant 2 and scenario 6: every share was handed to   *)
(* a caller, so in steady state (no method inside sess.mutex) the shares  *)
(* equal the references held, and once every caller has returned what it  *)
(* received the map is empty again.  AcquireConnectionsMulti (lines        *)
(* 1292-1309) adds a share per requested slot but hands out each          *)
(* connection once.                                                        *)
(***************************************************************************)
SharesMatchRefs ==
  mutex = NoCaller => \A c \in Conn : RefsTo(c) = shares[c]

(***************************************************************************)
(* AcquireConnectionsMulti always returns and unlocks sess.mutex: every    *)
(* other session method waits for it.                                      *)
(***************************************************************************)
MultiReleasesMutex == \A p \in Callers : (mutex = p) ~> (mutex # p)

=============================================================================
