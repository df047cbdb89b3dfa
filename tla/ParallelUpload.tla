---------------------------- MODULE ParallelUpload ----------------------------
(***************************************************************************)
(* UploadDataObjectParallel (src/irods/fs/data_object_bulk.go, lines       *)
(* 209-406): a primary handle opened for parallel put on an unmanaged      *)
(* connection, then one goroutine per task, each on its own unmanaged      *)
(* connection with a replica handle, writing its range of the local file.  *)
(*                                                                         *)
(* The local file's byte at offset k is the value k; the remote object is  *)
(* a function from offsets to the local offset whose byte landed there.    *)
(* Each remote request and each local read is one step.  A task's errors   *)
(* go to errChan, of capacity numTasks, which nobody reads before          *)
(* taskWaitGroup.Wait() returns: a send on a full channel blocks the task  *)
(* for ever ("blocked").  The deferred calls of a task run in the reverse  *)
(* order of their defer statements.                                        *)
(*                                                                         *)
(* AcquireUnmanagedConnection is not under src/: per spec 4.4.2 it gives a *)
(* new connection that is not in the share map, so DiscardConnection      *)
(* (lines 1351-1369), which only acts on share-map entries, leaves it      *)
(* open.                                                                   *)
(***************************************************************************)
EXTENDS Integers

CONSTANTS
  FileLength,      \* stat.Size() of the local file
  TaskNum,         \* taskNum argument
  AutoNumTasks,    \* util.GetNumTasksForParallelTransfer(fileLength)
  BufSize,         \* common.ReadWriteBufferSize
  IOErrors,        \* whether a request or a local read may fail
  CloseErrors      \* whether CloseDataObjectReplica may fail

ASSUME UploadAssumption ==
  /\ FileLength \in Nat /\ TaskNum \in Int /\ AutoNumTasks \in Nat \ {0}
  /\ BufSize \in Nat \ {0}
  /\ IOErrors \in BOOLEAN /\ CloseErrors \in BOOLEAN

None == -1

(* numTasks, lines 238-241 (not capped by ConnectionMaxNumber here).       *)
NumTasks == IF TaskNum <= 0 THEN AutoNumTasks ELSE TaskNum

Tasks == 0..(NumTasks - 1)

(* Mutant: the partition length rounded down.                            *)
LengthPerThreadFloor == FileLength \div NumTasks

(* lengthPerThread, lines 371-374.                                         *)
LengthPerThread ==
  FileLength \div NumTasks + (IF FileLength % NumTasks > 0 THEN 1 ELSE 0)

TaskOffset(t) == t * LengthPerThread

Extent == 0..(NumTasks * LengthPerThread + BufSize)

VARIABLES
  up,          \* the caller: "start", "open", "token", "wait", "ok", "err", "serial"
  tpc,         \* per task: "idle", "acquire", "replica", "seek", "copy",
               \*   "close", "done" (Done called), "blocked"
  pconn,       \* the primary's unmanaged connection: "none", "live", "closed"
  phandle,     \* the primary handle: "none", "open", "closed"
  uconn,       \* per task: its unmanaged connection, as pconn
  handle,      \* per task: its replica handle, as phandle
  taskRemain,  \* per task
  hpos,        \* per task: the replica handle's offset
  remote,      \* the remote object
  errs         \* errors in errChan

upVars == <<up, tpc, pconn, phandle, uconn, handle, taskRemain, hpos, remote, errs>>

UInit ==
  /\ up = "start"
  /\ tpc = [t \in Tasks |-> "idle"]
  /\ pconn = "none" /\ phandle = "none"
  /\ uconn = [t \in Tasks |-> "none"]
  /\ handle = [t \in Tasks |-> "none"]
  /\ taskRemain = [t \in Tasks |-> 0]
  /\ hpos = [t \in Tasks |-> 0]
  /\ remote = [k \in Extent |-> None]
  /\ errs = 0

(* Mutant: errChan made with one slot fewer than numTasks.                 *)
ErrCapOffByOne == NumTasks - 1

(* make(chan error, numTasks), line 274.                                   *)
ErrCap == NumTasks

(* errChan <- err, then go on at next; on a full channel the task blocks. *)
SendErr(t, next) ==
  IF errs < ErrCap
  THEN errs' = errs + 1 /\ tpc' = [tpc EXCEPT ![t] = next]
  ELSE tpc' = [tpc EXCEPT ![t] = "blocked"] /\ UNCHANGED errs

----------------------------------------------------------------------------
(***************************************************************************)
(* The caller, lines 215-256: a server without parallel upload (line 215, *)
(* not modelled, so always possible), an empty file or a single task fall *)
(* back to the serial UploadDataObject; os.Stat or the acquisition may    *)
(* fail; otherwise an unmanaged connection is acquired for the primary    *)
(* handle (its deferred DiscardConnection is a no-op, see above).          *)
(***************************************************************************)
Begin ==
  /\ up = "start"
  /\ \/ up' = "serial" /\ UNCHANGED pconn
     \/ IOErrors /\ up' = "err" /\ UNCHANGED pconn
     \/ FileLength # 0 /\ NumTasks # 1 /\ up' = "open" /\ pconn' = "live"
  /\ UNCHANGED <<tpc, phandle, uconn, handle, taskRemain, hpos, remote, errs>>

(* OpenDataObjectForPutParallel, lines 260-264, with mode "w+".            *)
OpenPrimary ==
  /\ up = "open"
  /\ \/ /\ up' = "token"
        /\ phandle' = "open"
        /\ remote' = [k \in Extent |-> None]
     \/ IOErrors /\ up' = "err" /\ UNCHANGED <<phandle, remote>>
  /\ UNCHANGED <<tpc, pconn, uconn, handle, taskRemain, hpos, errs>>

(***************************************************************************)
(* GetReplicaAccessInfo, lines 266-270: on failure the primary handle is   *)
(* closed; on success the tasks are started (lines 274-283, 376-383).      *)
(***************************************************************************)
GetToken ==
  /\ up = "token"
  /\ \/ /\ up' = "wait"
        /\ tpc' = [t \in Tasks |-> "acquire"]
        /\ UNCHANGED phandle
     \/ /\ IOErrors /\ up' = "err"
        /\ phandle' = "closed"
        /\ UNCHANGED tpc
  /\ UNCHANGED <<pconn, uconn, handle, taskRemain, hpos, remote, errs>>

(***************************************************************************)
(* taskWaitGroup.Wait() returns, lines 385-405: the primary handle is      *)
(* closed with the ordinary close; on a queued error the first is          *)
(* returned, otherwise a failed close or replication is.                   *)
(***************************************************************************)
Finish ==
  /\ up = "wait"
  /\ \A t \in Tasks : tpc[t] = "done"
  /\ phandle' = "closed"
  /\ IF errs > 0
     THEN up' = "err"
     ELSE \/ up' = "ok"
          \/ IOErrors /\ up' = "err"
  /\ UNCHANGED <<tpc, pconn, uconn, handle, taskRemain, hpos, remote, errs>>

----------------------------------------------------------------------------
(* AcquireUnmanagedConnection and the nil check, lines 286-296.            *)
TaskAcquire(t) ==
  /\ tpc[t] = "acquire"
  /\ \/ /\ uconn' = [uconn EXCEPT ![t] = "live"]
        /\ tpc' = [tpc EXCEPT ![t] = "replica"]
        /\ UNCHANGED errs
     \/ IOErrors /\ SendErr(t, "done") /\ UNCHANGED uconn
  /\ UNCHANGED <<up, pconn, phandle, handle, taskRemain, hpos, remote>>

(* OpenDataObjectWithReplicaToken, lines 300-304.                          *)
OpenReplica(t) ==
  /\ tpc[t] = "replica"
  /\ \/ /\ handle' = [handle EXCEPT ![t] = "open"]
        /\ tpc' = [tpc EXCEPT ![t] = "seek"]
        /\ UNCHANGED errs
     \/ IOErrors /\ SendErr(t, "done") /\ UNCHANGED handle
  /\ UNCHANGED <<up, pconn, phandle, uconn, taskRemain, hpos, remote>>

(* Mutant: the replica handle is never seeked to taskOffset.               *)
SeekNoMove(t) ==
  /\ tpc[t] = "seek"
  /\ \/ /\ taskRemain' = [taskRemain EXCEPT ![t] = LengthPerThread]
        /\ tpc' = [tpc EXCEPT ![t] = "copy"]
        /\ UNCHANGED <<hpos, errs>>
     \/ IOErrors /\ SendErr(t, "close") /\ UNCHANGED <<hpos, taskRemain>>
  /\ UNCHANGED <<up, pconn, phandle, uconn, handle, remote>>

(***************************************************************************)
(* The local file opened read-only and the replica handle seeked to        *)
(* taskOffset, lines 312-330; a failure, or a seek that lands elsewhere,   *)
(* is queued and the task returns through its deferred close.              *)
(***************************************************************************)
Seek(t) ==
  /\ tpc[t] = "seek"
  /\ \/ /\ hpos' = [hpos EXCEPT ![t] = TaskOffset(t)]
        /\ taskRemain' = [taskRemain EXCEPT ![t] = LengthPerThread]
        /\ tpc' = [tpc EXCEPT ![t] = "copy"]
        /\ UNCHANGED errs
     \/ IOErrors /\ SendErr(t, "close") /\ UNCHANGED <<hpos, taskRemain>>
  /\ UNCHANGED <<up, pconn, phandle, uconn, handle, remote>>

(* Bytes from..from+n-1 written at remote offset at.                       *)
WriteAt(f, at, from, n) ==
  [k \in DOMAIN f |-> IF at <= k /\ k < at + n THEN from + (k - at) ELSE f[k]]

(* Mutant: bufferLen not clamped to taskRemain (lines 337-339 dropped).    *)
CopyNoClamp(t) ==
  /\ tpc[t] = "copy"
  /\ LET bufferLen == BufSize
         off == TaskOffset(t) + (LengthPerThread - taskRemain[t])
         left == IF FileLength > off THEN FileLength - off ELSE 0
         n == IF bufferLen < left THEN bufferLen ELSE left
     IN
     \/ /\ taskRemain[t] <= 0
        /\ tpc' = [tpc EXCEPT ![t] = "close"]
        /\ UNCHANGED <<taskRemain, hpos, remote, errs>>
     \/ /\ taskRemain[t] > 0
        /\ remote' = WriteAt(remote, hpos[t], off, n)
        /\ hpos' = [hpos EXCEPT ![t] = @ + n]
        /\ taskRemain' = [taskRemain EXCEPT ![t] = @ - n]
        /\ tpc' = [tpc EXCEPT ![t] = IF n < bufferLen THEN "close" ELSE "copy"]
        /\ UNCHANGED errs
     \/ /\ taskRemain[t] > 0 /\ IOErrors
        /\ SendErr(t, "close")
        /\ UNCHANGED <<taskRemain, hpos, remote>>
  /\ UNCHANGED <<up, pconn, phandle, uconn, handle>>

(***************************************************************************)
(* One iteration of the copy loop, lines 335-368: f.ReadAt at              *)
(* taskOffset + (taskLength - taskRemain) returns a full buffer, or fewer  *)
(* bytes with io.EOF at the end of the file; the bytes read are written to *)
(* the replica handle.  EOF ends the loop; a read or write error ends it   *)
(* and is queued (line 367).                                               *)
(***************************************************************************)
Copy(t) ==
  /\ tpc[t] = "copy"
  /\ LET bufferLen == IF taskRemain[t] < BufSize THEN taskRemain[t] ELSE BufSize
         off == TaskOffset(t) + (LengthPerThread - taskRemain[t])
         left == IF FileLength > off THEN FileLength - off ELSE 0
         n == IF bufferLen < left THEN bufferLen ELSE left
     IN
     \/ /\ taskRemain[t] <= 0
        /\ tpc' = [tpc EXCEPT ![t] = "close"]
        /\ UNCHANGED <<taskRemain, hpos, remote, errs>>
     \/ /\ taskRemain[t] > 0
        /\ remote' = WriteAt(remote, hpos[t], off, n)
        /\ hpos' = [hpos EXCEPT ![t] = @ + n]
        /\ taskRemain' = [taskRemain EXCEPT ![t] = @ - n]
        /\ tpc' = [tpc EXCEPT ![t] = IF n < bufferLen THEN "close" ELSE "copy"]
        /\ UNCHANGED errs
     \/ /\ taskRemain[t] > 0 /\ IOErrors
        /\ SendErr(t, "close")
        /\ UNCHANGED <<taskRemain, hpos, remote>>
  /\ UNCHANGED <<up, pconn, phandle, uconn, handle>>

(* Mutant: wg.Done runs before the replica handle is closed.               *)
CloseReplicaAfterDone(t) ==
  /\ tpc[t] = "close"
  /\ tpc' = [tpc EXCEPT ![t] = "done"]
  /\ UNCHANGED <<handle, errs>>
  /\ UNCHANGED <<up, pconn, phandle, uconn, taskRemain, hpos, remote>>

(***************************************************************************)
(* The deferred calls, in reverse order (lines 305-310, 291, 283): the    *)
(* replica handle is closed with CloseDataObjectReplica, whose error is    *)
(* queued; DiscardConnection leaves the unmanaged connection open; then    *)
(* taskWaitGroup.Done().                                                   *)
(***************************************************************************)
CloseReplica(t) ==
  /\ tpc[t] = "close"
  /\ handle' = [handle EXCEPT ![t] = "closed"]
  /\ \/ tpc' = [tpc EXCEPT ![t] = "done"] /\ UNCHANGED errs
     \/ CloseErrors /\ SendErr(t, "done")
  /\ UNCHANGED <<up, pconn, phandle, uconn, taskRemain, hpos, remote>>

TaskStep(t) ==
  TaskAcquire(t) \/ OpenReplica(t) \/ Seek(t) \/ Copy(t) \/ CloseReplica(t)

UNext ==
  \/ Begin \/ OpenPrimary \/ GetToken \/ Finish
  \/ \E t \in Tasks : TaskStep(t)

(* The caller and every task goroutine keep running while they can.        *)
USpec ==
  /\ UInit
  /\ [][UNext]_upVars
  /\ WF_upVars(Begin \/ OpenPrimary \/ GetToken \/ Finish)
  /\ \A t \in Tasks : WF_upVars(TaskStep(t))

----------------------------------------------------------------------------
UTypeOK ==
  /\ up \in {"start", "open", "token", "wait", "ok", "err", "serial"}
  /\ tpc \in [Tasks -> {"idle", "acquire", "replica", "seek", "copy", "close",
                        "done", "blocked"}]
  /\ pconn \in {"none", "live", "closed"} /\ phandle \in {"none", "open", "closed"}
  /\ uconn \in [Tasks -> {"none", "live", "closed"}]
  /\ handle \in [Tasks -> {"none", "open", "closed"}]
  /\ taskRemain \in [Tasks -> 0..LengthPerThread]
  /\ hpos \in [Tasks -> Nat]
  /\ remote \in [Extent -> {None} \cup Nat]
  /\ errs \in 0..NumTasks

(***************************************************************************)
(* Spec section 4.4.2: the primary handle is closed only after every       *)
(* replica handle is closed.  The code relies on the deferred              *)
(* CloseDataObjectReplica running before the deferred taskWaitGroup.Done   *)
(* (defer order, lines 283 and 305) and on Wait() before the close.        *)
(***************************************************************************)
ReplicasClosedFirst ==
  phandle = "closed" => \A t \in Tasks : handle[t] # "open"

(***************************************************************************)
(* Spec section 8, invariant 3: an upload that returns nil has written     *)
(* every byte of the file at its own offset and nothing past the end: the  *)
(* ranges of the tasks are disjoint, cover [0, N) and stop at EOF.         *)
(***************************************************************************)
UploadExact ==
  up = "ok" => \A k \in Extent : remote[k] = IF k < FileLength THEN k ELSE None

(***************************************************************************)
(* UploadDataObjectParallel returns: taskWaitGroup.Wait() is not waiting   *)
(* for ever on a task stuck sending to errChan.                            *)
(***************************************************************************)
UploadTerminates == <>(up \in {"ok", "err", "serial"})

(***************************************************************************)
(* Spec section 8, scenario 2: every connection acquired as unmanaged for *)
(* the upload is discarded (disconnected) by the time it returns.          *)
(***************************************************************************)
UnmanagedDiscarded ==
  up \in {"ok", "err"} => pconn # "live" /\ \A t \in Tasks : uconn[t] # "live"

(* The next local offset task t reads, and the end of the part of its     *)
(* range that lies in the file.                                            *)
NextOff(t) == TaskOffset(t) + (LengthPerThread - taskRemain[t])

RangeEnd(t) ==
  IF TaskOffset(t) + LengthPerThread < FileLength
  THEN TaskOffset(t) + LengthPerThread ELSE FileLength

(* The remote object holds bytes from..to-1 of the file in place.          *)
Written(from, to) == \A k \in Extent : from <= k /\ k < to => remote[k] = k

(* The remote object holds only bytes of the file, each at its offset.  *)
InPlace == \A k \in Extent : remote[k] = None \/ (remote[k] = k /\ k < FileLength)

(* Tasks run only while the caller waits on taskWaitGroup.               *)
Running ==
  \A t \in Tasks : tpc[t] \in {"acquire", "replica", "seek", "copy", "close"} => up = "wait"

(* No task starts before the replica token is obtained.                  *)
NotStarted == up \in {"start", "open", "token"} => \A t \in Tasks : tpc[t] = "idle"

(* nil is returned only with every task done and errChan empty.          *)
OkAllDone == up = "ok" => errs = 0 /\ \A t \in Tasks : tpc[t] = "done"

(* A copying task's handle is at the local offset it reads next, and its *)
(* range is written up to there.                                          *)
CopyAt ==
  \A t \in Tasks : tpc[t] = "copy" =>
     hpos[t] = NextOff(t) /\ Written(TaskOffset(t), NextOff(t))

(* A task that ended while errChan is empty wrote its range to EOF.       *)
EndedWritten ==
  \A t \in Tasks : tpc[t] \in {"close", "done"} /\ errs = 0 =>
     Written(TaskOffset(t), RangeEnd(t))

(***************************************************************************)
(* The inductive invariant behind UploadExact and UPRefinesTransfer: the   *)
(* remote object holds only file bytes in place; tasks run only while the *)
(* caller waits; a copying task's replica handle is at the local offset it *)
(* reads next (the seek of lines 319-328 and the write of line 343 after  *)
(* the ReadAt of line 341) and everything before it in its range is       *)
(* written; a task that ended while errChan is empty wrote its whole      *)
(* range up to the end of the file; and nil is returned only with every   *)
(* task done and errChan empty (lines 385-390).                            *)
(***************************************************************************)
UploadInv ==
  UTypeOK /\ InPlace /\ Running /\ NotStarted /\ OkAllDone /\ CopyAt /\ EndedWritten

----------------------------------------------------------------------------
(* The outcome UploadDataObjectParallel returns; the serial fallback is    *)
(* not modelled and stays "running".                                       *)
UPOutcome ==
  IF up = "ok" THEN "ok" ELSE IF up = "err" THEN "failed" ELSE "running"

Abs == INSTANCE Transfer WITH Size <- FileLength, Positions <- Extent,
                              Resumable <- FALSE, dst <- remote, outcome <- UPOutcome

(***************************************************************************)
(* The parallel upload implements the abstract transfer: the replica is    *)
(* truncated by the "w+" open, each task's writes put bytes of the file at *)
(* their own offsets below its length, and nil is returned only on the    *)
(* exact object.                                                           *)
(***************************************************************************)
UPRefinesTransfer == Abs!ASpec


=============================================================================
