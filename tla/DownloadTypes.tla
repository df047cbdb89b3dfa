---------------------------- MODULE DownloadTypes ----------------------------
(***************************************************************************)
(* Type correctness of DownloadDataObjectParallel together with the        *)
(* session it shares with other callers, for every value of the constants. *)
(* The session's invariant IInv (SessionProofs) is carried through the     *)
(* download's own calls of AcquireConnectionsMulti, AcquireConnection,     *)
(* ReturnConnection and the socket failures of its requests.               *)
(***************************************************************************)
EXTENDS DownloadProofs, SessionProofs, FiniteSetTheorems

(* A task between its start and its return holds a connection of the      *)
(* session: the one of the batch (line 580) or of the retry (line 689).    *)
ConnHeld == \A t \in Tasks : pc[t] \in {"open", "copy", "retry"} => taskConn[t] \in Conn

(* The tasks that have called wg.Done().                                   *)
Ended == {t \in Tasks : pc[t] \in {"done", "exit"}}

(***************************************************************************)
(* Each task sends at most one error before it returns (every send is      *)
(* followed by return, lines 584-595 and 675-705), so errChan, of capacity *)
(* numTasks (line 723), never holds more errors than there are ended tasks. *)
(***************************************************************************)
ErrsBound == errs <= Cardinality(Ended)

(* The batch and the tasks' connections are connections of the session.   *)
TaskConns ==
  /\ slice \in Seq(Conn)
  /\ taskConn \in [Tasks -> Conn \cup {NoConn}]
  /\ ConnHeld

(* What the download adds to the session's IInv and to DLInv.              *)
DTPart ==
  /\ IInv /\ TaskConns /\ ErrsBound
  /\ sockFails \in 0..MaxSocketFails

(* The inductive invariant behind DLTypeOK.                                *)
DTInv == DLInv /\ DTPart

(* What the steps below need: the download's core, whatever the local     *)
(* file held before (the resumable download shares these steps).           *)
DTCore == DLCore /\ DTPart

----------------------------------------------------------------------------
LEMMA NumTasksNat == NumTasks \in Nat
BY DownloadAssumption DEF NumTasks

(* There are numTasks tasks, so at most numTasks of them have ended.       *)
LEMMA EndedFinite ==
  /\ IsFiniteSet(Ended)
  /\ Cardinality(Ended) \in Nat
  /\ Cardinality(Ended) <= NumTasks
<1>1. IsFiniteSet(Tasks) /\ Cardinality(Tasks) = NumTasks
  BY NumTasksNat, FS_Interval DEF Tasks
<1>2. Ended \in SUBSET Tasks
  BY DEF Ended
<1>. QED
  BY <1>1, <1>2, FS_Subset, FS_CardinalityType

(* A session step of the other callers or of Main's batch request leaves  *)
(* the tasks alone.                                                        *)
LEMMA TasksKept ==
  ASSUME TaskConns, ErrsBound, UNCHANGED <<slice, pc, taskConn, errs>>
  PROVE  TaskConns' /\ ErrsBound'
BY DEF TaskConns, ConnHeld, ErrsBound, Ended

(* A session left unchanged keeps IInv.                                    *)
LEMMA IInvKept ==
  ASSUME IInv, UNCHANGED vars
  PROVE  IInv'
BY DEF IInv, TypeOK, MultiInv, ShareIffOut, Outstanding, vars, sessionVars

(***************************************************************************)
(* A task moves from a state in which it has not ended; it sends at most   *)
(* one error, and only as it ends (Fail1).                                 *)
(***************************************************************************)
LEMMA ErrsStep ==
  ASSUME NEW S, pc \in [Tasks -> S], errs \in Nat, ErrsBound,
         NEW t \in Tasks, pc[t] \notin {"done", "exit"}, NEW v,
         pc' = [pc EXCEPT ![t] = v],
         errs' = errs \/ (errs' = errs + 1 /\ v = "done")
  PROVE  ErrsBound'
<1>1. IsFiniteSet(Ended) /\ Cardinality(Ended) \in Nat
  BY EndedFinite
<1>2. CASE v \in {"done", "exit"}
  <2>1. Ended' = Ended \cup {t} /\ t \notin Ended
    BY <1>2 DEF Ended
  <2>2. Cardinality(Ended') = Cardinality(Ended) + 1
    BY <1>1, <2>1, FS_AddElement
  <2>. QED
    BY <1>1, <2>2 DEF ErrsBound
<1>3. CASE v \notin {"done", "exit"}
  <2>1. Ended' = Ended
    BY <1>3 DEF Ended
  <2>. QED
    BY <1>3, <2>1 DEF ErrsBound
<1>. QED
  BY <1>2, <1>3

(* A task that moves keeps its connection, or takes c, which it needs to  *)
(* hold when it moves to open, copy or retry.                              *)
LEMMA HeldStep ==
  ASSUME TaskConns, NEW S, pc \in [Tasks -> S], UNCHANGED slice,
         NEW t \in Tasks, NEW v, pc' = [pc EXCEPT ![t] = v],
         NEW c \in Conn \cup {NoConn}, taskConn' = [taskConn EXCEPT ![t] = c],
         v \in {"open", "copy", "retry"} => c \in Conn
  PROVE  TaskConns'
BY DEF TaskConns, ConnHeld

(* A request on connection c: either the socket is left as it is, or it   *)
(* fails now (SocketBreaks); nothing else of the session changes.         *)
LEMMA RequestIInv ==
  ASSUME IInv, NEW c \in Conn, sockFails \in 0..MaxSocketFails,
         UNCHANGED <<connections, sockFails>> \/ SocketBreaks(c),
         UNCHANGED <<shares, startNewTransaction, poormansRollbackFail, mutex, multi, refs>>
  PROVE  IInv' /\ sockFails' \in 0..MaxSocketFails
<1>1. CASE UNCHANGED <<connections, sockFails>>
  BY <1>1, IInvKept DEF vars, sessionVars
<1>2. CASE SocketBreaks(c)
  <2>1. IInv'
    BY <1>2, SocketFailIInv DEF SocketBreaks
  <2>2. sockFails' \in 0..MaxSocketFails
    BY <1>2, DownloadAssumption DEF SocketBreaks
  <2>. QED
    BY <2>1, <2>2
<1>. QED
  BY <1>1, <1>2


----------------------------------------------------------------------------
(* When DownloadDataObjectParallel is called.                              *)
LEMMA DTPartInit == DLInit => DTPart
<1> SUFFICES ASSUME DLInit PROVE DTPart
  OBVIOUS
<1>1. IInv
  BY InitIInv DEF DLInit
<1>2. Ended = {}
  BY DEF DLInit, CallInit, CallInitOf, Ended
<1>3. ErrsBound
  BY <1>2, FS_EmptySet DEF DLInit, CallInit, CallInitOf, ErrsBound
<1>4. TaskConns
  BY DEF DLInit, CallInit, CallInitOf, TaskConns, ConnHeld
<1>. QED
  BY <1>1, <1>3, <1>4, DownloadAssumption DEF DLInit, DTPart

(* Main's os.Create and, for a non-empty object, the start of the batch.   *)
LEMMA BeginPart ==
  ASSUME DTCore, Begin
  PROVE  DTPart'
<1>1. TaskConns' /\ ErrsBound'
  BY TasksKept DEF DTCore, DTPart, Begin
<1>2. IInv'
  <2>1. CASE FileLength = 0
    BY <2>1, IInvKept DEF DTCore, DTPart, Begin
  <2>2. CASE FileLength # 0
    BY <2>2, NumTasksNat, MultiStartIInv, DownloadAssumption DEF DTCore, DTPart, Begin
  <2>. QED
    BY <2>1, <2>2
<1>. QED
  BY <1>1, <1>2 DEF DTCore, DTPart, Begin

(* The loops of AcquireConnectionsMulti run by Main.                       *)
LEMMA MainMultiPart ==
  ASSUME DTCore, MainMulti
  PROVE  DTPart'
<1>1. TaskConns' /\ ErrsBound' /\ UNCHANGED sockFails
  BY TasksKept DEF DTCore, DTPart, MainMulti, dlVars
<1>2. IInv'
  BY MultiPoolGetIInv, MultiPoolEndIInv, MultiShareIInv, DownloadAssumption
  DEF DTCore, DTPart, MainMulti
<1>. QED
  BY <1>1, <1>2 DEF DTCore, DTPart

(***************************************************************************)
(* The batch comes back (lines 1306-1311): the slice lists its distinct    *)
(* connections, and the tasks, still idle, are started.                    *)
(***************************************************************************)
LEMMA LaunchPart ==
  ASSUME DTCore, Launch
  PROVE  DTPart'
<1>1. IInv'
  BY MultiFinishIInv, DownloadAssumption DEF DTCore, DTPart, IInv, TypeOK, Launch
<1>2. slice' \in Seq(Conn)
  <2>1. IsFiniteSet(multi.got) /\ Cardinality(multi.got) \in Nat
        /\ multi.got \subseteq Conn
    BY GotFinite DEF DTCore, DTPart, IInv, TypeOK, MultiState
  <2>2. PICK s \in Bijection(0..(Cardinality(multi.got) - 1), multi.got) :
          slice' = [k \in 1..Cardinality(multi.got) |-> s[k - 1]]
    BY DEF Launch
  <2>3. s \in [0..(Cardinality(multi.got) - 1) -> Conn]
    BY <2>1, <2>2 DEF Bijection, Injection, Surjection
  <2>. QED
    BY <2>1, <2>2, <2>3
<1>3. \A t \in Tasks : pc[t] = "idle" /\ pc'[t] \in {"idle", "start"}
  BY DEF DTCore, DLCore, TasksIdle, Launch
<1>4. Ended' = Ended /\ UNCHANGED <<errs, taskConn, sockFails>>
  BY <1>3 DEF Ended, Launch
<1>5. TaskConns'
  BY <1>2, <1>3, <1>4 DEF DTCore, DTPart, TaskConns, ConnHeld
<1>. QED
  BY <1>1, <1>4, <1>5 DEF DTCore, DTPart, ErrsBound

(* Wait returns, and the callers that share the session act.               *)
LEMMA QuietPart ==
  ASSUME DTCore, Finish \/ OtherStep \/ OtherFail
  PROVE  DTPart'
<1>1. TaskConns' /\ ErrsBound' /\ UNCHANGED sockFails
  BY TasksKept DEF DTCore, DTPart, Finish, OtherStep, OtherFail, dlVars
<1>2. IInv'
  <2>1. CASE Finish
    BY <2>1, IInvKept DEF DTCore, DTPart, Finish
  <2>2. CASE OtherStep
    <3>1. PICK p \in Others :
            \/ Acquire(p)
            \/ \E c \in Conn : Return(p, c) \/ Discard(p, c)
      BY <2>2 DEF OtherStep
    <3>. QED
      BY <3>1, AcquireIInv, ReturnIInv DEF DTCore, DTPart, Others
  <2>3. CASE OtherFail
    BY <2>3, FailIInv DEF DTCore, DTPart, OtherFail
  <2>. QED
    BY <2>1, <2>2, <2>3
<1>. QED
  BY <1>1, <1>2 DEF DTCore, DTPart

(***************************************************************************)
(* The start of downloadTask (lines 562-595): the task takes the slice's   *)
(* entry, and starts its first trial or sends an error and returns.        *)
(***************************************************************************)
LEMMA StartPart ==
  ASSUME DTCore, NEW t \in Tasks, NEW lo, StartTask(t, lo)
  PROVE  DTPart'
<1>0. t + 1 \in Nat /\ Len(slice) \in Nat
  BY DEF DTCore, DTPart, TaskConns, Tasks
<1>1. IInv' /\ UNCHANGED sockFails
  BY IInvKept DEF DTCore, DTPart, StartTask, vars, sessionVars
<1>2. CASE t + 1 > Len(slice)
  BY <1>1, <1>2, TasksKept DEF DTCore, DTPart, StartTask
<1>3. CASE t + 1 <= Len(slice)
  <2>1. slice[t + 1] \in Conn
    BY <1>3 DEF DTCore, DTPart, TaskConns, Tasks
  <2>2. /\ taskConn' = [taskConn EXCEPT ![t] = slice[t + 1]]
        /\ \/ pc' = [pc EXCEPT ![t] = "done"] /\ errs' = errs + 1
           \/ pc' = [pc EXCEPT ![t] = "open"] /\ errs' = errs
        /\ UNCHANGED slice /\ pc[t] = "start"
    BY <1>0, <1>3 DEF StartTask, Fail1
  <2>3. pc \in [Tasks -> {"idle", "start", "open", "copy", "retry", "acquire", "done", "exit"}]
        /\ errs \in Nat
    BY DEF DTCore, DLCore
  <2>4. TaskConns'
    BY <2>1, <2>2, <2>3, HeldStep DEF DTCore, DTPart
  <2>5. ErrsBound'
    BY <2>2, <2>3, ErrsStep DEF DTCore, DTPart
  <2>. QED
    BY <1>1, <2>4, <2>5 DEF DTCore, DTPart
<1>. QED
  BY <1>0, <1>2, <1>3

(* The pc a failed trial moves to, and the errors it sends.                *)
LEMMA FailedMove ==
  ASSUME NEW t, NEW c, TrialFailed(t, c)
  PROVE  \E v \in {"retry", "done"} :
            /\ pc' = [pc EXCEPT ![t] = v]
            /\ errs' = errs \/ (errs' = errs + 1 /\ v = "done")
BY TrialFailedFacts

(***************************************************************************)
(* A request of a trial, OpenDataObject and its seeks (lines 599-628) or   *)
(* one iteration of the copy loop (lines 631-672): the task keeps its      *)
(* connection, whose socket may fail, and moves on, retries or returns.    *)
(***************************************************************************)
LEMMA RequestPart ==
  ASSUME DTCore, NEW t \in Tasks, Open(t) \/ Copy(t)
  PROVE  DTPart'
<1>1. taskConn[t] \in Conn /\ pc[t] \in {"open", "copy"}
  BY DEF DTCore, DTPart, TaskConns, ConnHeld, Open, Copy
<1>2. /\ UNCHANGED <<connections, sockFails>> \/ SocketBreaks(taskConn[t])
      /\ UNCHANGED <<shares, startNewTransaction, poormansRollbackFail, mutex, multi, refs>>
      /\ UNCHANGED <<slice, taskConn>>
  BY DEF Open, Copy
<1>3. IInv' /\ sockFails' \in 0..MaxSocketFails
  BY <1>1, <1>2, RequestIInv DEF DTCore, DTPart
<1>4. \/ UNCHANGED <<pc, errs>>
      \/ \E v \in {"copy", "retry", "done"} :
            /\ pc' = [pc EXCEPT ![t] = v]
            /\ errs' = errs \/ (errs' = errs + 1 /\ v = "done")
  <2>1. CASE Open(t)
    BY <2>1, FailedMove DEF Open
  <2>2. CASE Copy(t)
    BY <2>2, FailedMove DEF Copy
  <2>. QED
    BY <2>1, <2>2
<1>5. pc \in [Tasks -> {"idle", "start", "open", "copy", "retry", "acquire", "done", "exit"}]
      /\ errs \in Nat
  BY DEF DTCore, DLCore
<1>6. taskConn' = [taskConn EXCEPT ![t] = taskConn[t]]
  BY <1>2 DEF DTCore, DTPart, TaskConns
<1>7. TaskConns' /\ ErrsBound'
  <2>1. CASE UNCHANGED <<pc, errs>>
    BY <1>2, <2>1, TasksKept DEF DTCore, DTPart
  <2>2. CASE \E v \in {"copy", "retry", "done"} :
               /\ pc' = [pc EXCEPT ![t] = v]
               /\ errs' = errs \/ (errs' = errs + 1 /\ v = "done")
    <3>1. PICK v \in {"copy", "retry", "done"} :
               /\ pc' = [pc EXCEPT ![t] = v]
               /\ errs' = errs \/ (errs' = errs + 1 /\ v = "done")
      BY <2>2
    <3>2. TaskConns'
      BY <1>1, <1>2, <1>5, <1>6, <3>1, HeldStep DEF DTCore, DTPart
    <3>3. ErrsBound'
      BY <1>1, <1>5, <3>1, ErrsStep DEF DTCore, DTPart
    <3>. QED
      BY <3>2, <3>3
  <2>. QED
    BY <1>4, <2>1, <2>2
<1>. QED
  BY <1>3, <1>7 DEF DTPart

(* The retry gives the failed connection back (lines 682-687).            *)
LEMMA RetryReturnPart ==
  ASSUME DTCore, NEW t \in Tasks, RetryReturn(t)
  PROVE  DTPart'
<1>1. taskConn[t] \in Conn
  BY DEF DTCore, DTPart, TaskConns, ConnHeld, RetryReturn
<1>2. IInv'
  BY <1>1, ReturnConnIInv DEF DTCore, DTPart, IInv, TypeOK, RetryReturn
<1>3. /\ pc' = [pc EXCEPT ![t] = "acquire"] /\ pc[t] = "retry"
      /\ taskConn' = [taskConn EXCEPT ![t] = taskConn[t]]
      /\ UNCHANGED <<slice, errs, sockFails>>
  BY DEF DTCore, DTPart, TaskConns, RetryReturn
<1>4. pc \in [Tasks -> {"idle", "start", "open", "copy", "retry", "acquire", "done", "exit"}]
      /\ errs \in Nat
  BY DEF DTCore, DLCore
<1>. QED
  BY <1>1, <1>2, <1>3, <1>4, HeldStep, ErrsStep DEF DTCore, DTPart

(***************************************************************************)
(* ... and asks the session for another (lines 689-699): the task opens a  *)
(* new trial only on a connection it got, else sends an error and returns. *)
(***************************************************************************)
LEMMA RetryAcquirePart ==
  ASSUME DTCore, NEW t \in Tasks, RetryAcquire(t)
  PROVE  DTPart'
<1>1. PICK got \in Conn \cup {NoConn} :
        /\ AcquireConnection(got)
        /\ taskConn' = [taskConn EXCEPT ![t] = got]
        /\ IF Unusable(got)
           THEN Fail1(t)
           ELSE pc' = [pc EXCEPT ![t] = "open"] /\ UNCHANGED errs
  BY DEF RetryAcquire
<1>2. IInv'
  BY <1>1, AcquireConnIInv DEF DTCore, DTPart, IInv, TypeOK, RetryAcquire
<1>3. \E v \in {"open", "done"} :
        /\ pc' = [pc EXCEPT ![t] = v]
        /\ errs' = errs \/ (errs' = errs + 1 /\ v = "done")
        /\ v = "open" => got \in Conn
  BY <1>1 DEF Unusable, Fail1
<1>4. pc \in [Tasks -> {"idle", "start", "open", "copy", "retry", "acquire", "done", "exit"}]
      /\ errs \in Nat /\ pc[t] = "acquire"
      /\ UNCHANGED <<slice, sockFails>>
  BY DEF DTCore, DLCore, RetryAcquire
<1>. QED
  BY <1>1, <1>2, <1>3, <1>4, HeldStep, ErrsStep DEF DTCore, DTPart

(* The deferred function (lines 565-568) of a task that called Done.       *)
LEMMA TaskExitPart ==
  ASSUME DTCore, NEW t \in Tasks, TaskExit(t)
  PROVE  DTPart'
<1>1. IInv'
  <2>1. CASE taskConn[t] = NoConn
    BY <2>1, IInvKept DEF DTCore, DTPart, TaskExit, vars
  <2>2. CASE taskConn[t] # NoConn
    <3>1. taskConn[t] \in Conn
      BY <2>2 DEF DTCore, DTPart, TaskConns
    <3>. QED
      BY <2>2, <3>1, ReturnConnIInv DEF DTCore, DTPart, IInv, TypeOK, TaskExit
  <2>. QED
    BY <2>1, <2>2
<1>2. /\ pc' = [pc EXCEPT ![t] = "exit"] /\ pc[t] = "done"
      /\ UNCHANGED <<slice, taskConn, errs, sockFails>>
      /\ pc \in [Tasks -> {"idle", "start", "open", "copy", "retry", "acquire", "done", "exit"}]
  BY DEF DTCore, DLCore, TaskExit
<1>3. Ended' = Ended
  BY <1>2 DEF Ended
<1>4. TaskConns'
  BY <1>2 DEF DTCore, DTPart, TaskConns, ConnHeld
<1>. QED
  BY <1>1, <1>2, <1>3, <1>4 DEF DTCore, DTPart, ErrsBound

----------------------------------------------------------------------------
(* DTInv is inductive for the download and the session it shares.          *)
THEOREM DTInvNext == DTInv /\ [DLNext]_allVars => DTInv'
<1> SUFFICES ASSUME DTInv, [DLNext]_allVars PROVE DTInv'
  OBVIOUS
<1>1. DLInv'
  BY DLInvNext DEF DTInv
<1>0. DTCore
  BY DEF DTInv, DLInv, DTCore
<1>2. DTPart'
  <2>1. CASE Begin
    BY <1>0, <2>1, BeginPart
  <2>2. CASE MainMulti
    BY <1>0, <2>2, MainMultiPart
  <2>3. CASE Launch
    BY <1>0, <2>3, LaunchPart
  <2>4. CASE Finish \/ OtherStep \/ OtherFail
    BY <1>0, <2>4, QuietPart
  <2>5. ASSUME NEW t \in Tasks, TaskStep(t)
        PROVE  DTPart'
    <3>1. CASE TaskStart(t)
      BY <1>0, <3>1, StartPart DEF TaskStart
    <3>2. CASE Open(t) \/ Copy(t)
      BY <1>0, <3>2, RequestPart
    <3>3. CASE RetryReturn(t)
      BY <1>0, <3>3, RetryReturnPart
    <3>4. CASE RetryAcquire(t)
      BY <1>0, <3>4, RetryAcquirePart
    <3>5. CASE TaskExit(t)
      BY <1>0, <3>5, TaskExitPart
    <3>. QED
      BY <2>5, <3>1, <3>2, <3>3, <3>4, <3>5 DEF TaskStep
  <2>6. CASE UNCHANGED allVars
    <3>1. IInv'
      BY <2>6, IInvKept DEF DTInv, DTPart, allVars
    <3>. QED
      BY <2>6, <3>1 DEF DTInv, DTPart, TaskConns, ConnHeld, ErrsBound, Ended,
         allVars, dlVars
  <2>. QED
    BY <2>1, <2>2, <2>3, <2>4, <2>5, <2>6 DEF DLNext
<1>. QED
  BY <1>1, <1>2 DEF DTInv

(* DTInv gives every variable of the download and the session its type.    *)
LEMMA DTInvTyped == DTInv => DLTypeOK
<1> SUFFICES ASSUME DTInv PROVE DLTypeOK
  OBVIOUS
<1>1. \A t \in Tasks : taskRemain[t] \in Nat
  BY TaskArith DEF DTInv, DLInv, DLCore
<1>2. errs \in 0..NumTasks
  BY EndedFinite, NumTasksNat DEF DTInv, DTPart, ErrsBound, DLInv, DLCore
<1>. QED
  BY <1>1, <1>2 DEF DTInv, DTPart, IInv, TaskConns, DLInv, DLCore, DLTypeOK

(***************************************************************************)
(* DownloadDataObjectParallel on a shared session is type-correct for      *)
(* every object length, number of tasks, pool and set of other callers:    *)
(* the slice and every task's connection are connections of the session,  *)
(* the task states and offsets keep their types, errChan never holds more  *)
(* than numTasks errors (each task sends at most one before it returns),   *)
(* and the session's own TypeOK holds throughout.                          *)
(***************************************************************************)
THEOREM DownloadTypeCorrect == DLSpec => []DLTypeOK
<1>1. DLInit => DTInv
  BY DLInvInit, DTPartInit DEF DTInv
<1>2. DTInv /\ [DLNext]_allVars => DTInv'
  BY DTInvNext
<1>3. DTInv => DLTypeOK
  BY DTInvTyped
<1>. QED
  BY <1>1, <1>2, <1>3, PTL DEF DLSpec

=============================================================================
