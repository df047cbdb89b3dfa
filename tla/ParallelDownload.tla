--------------------------- MODULE ParallelDownload ---------------------------
(***************************************************************************)
(* DownloadDataObjectParallel (src/irods/fs/data_object_bulk.go, lines     *)
(* 497-729) running on the shared session of SessionClients: the caller    *)
(* Main acquires a batch with AcquireConnectionsMulti and starts one       *)
(* goroutine per task; the other callers keep using the session as         *)
(* SessionClients lets them, so connections may be shared with them.       *)
(*                                                                         *)
(* The remote object's byte at offset k is the value k, so the local file, *)
(* a function from offsets to the remote offset whose byte landed there   *)
(* (None when nothing was written), says exactly which bytes went where.  *)
(* Each remote request is one step: the connection's lock serializes the  *)
(* requests of the tasks that share it.  A request fails on a connection  *)
(* whose socket has failed, and any request may be the one whose socket   *)
(* fails (at most MaxSocketFails times).                                  *)
(***************************************************************************)
EXTENDS SessionClients, Sequences, Functions

CONSTANTS
  Main,                 \* the goroutine calling DownloadDataObjectParallel
  FileLength,           \* fileLength argument, equal to the object's size
  TaskNum,              \* taskNum argument
  AutoNumTasks,         \* util.GetNumTasksForParallelTransfer(fileLength)
  ConnectionMaxNumber,  \* session.GetConfig().ConnectionMaxNumber
  BufSize,              \* common.ReadWriteBufferSize
  MaxSocketFails,       \* bound on socket failures during the download
  OtherErrors           \* whether non-socket I/O errors may happen

ASSUME DownloadAssumption ==
  /\ Main \in Callers
  /\ FileLength \in Nat /\ TaskNum \in Int /\ AutoNumTasks \in Nat \ {0}
  /\ ConnectionMaxNumber \in Nat /\ BufSize \in Nat \ {0}
  /\ MaxSocketFails \in Nat /\ OtherErrors \in BOOLEAN

None == -1

(* numTasks, lines 520-527.                                                *)
NumTasks ==
  LET n == IF TaskNum <= 0 THEN AutoNumTasks ELSE TaskNum
  IN  IF n > ConnectionMaxNumber THEN ConnectionMaxNumber ELSE n

Tasks == 0..(NumTasks - 1)

(* Mutant: the partition length rounded down.                            *)
LengthPerThreadFloor == FileLength \div NumTasks

(* lengthPerThread, lines 708-711: the ceiling of FileLength / NumTasks.   *)
LengthPerThread ==
  FileLength \div NumTasks + (IF FileLength % NumTasks > 0 THEN 1 ELSE 0)

TaskOffset(t) == t * LengthPerThread

(* Offsets the local file may have bytes at.                               *)
Extent == 0..(NumTasks * LengthPerThread + BufSize)

VARIABLES
  dl,         \* Main: "start", "acquire", "wait", "ok", "err", "crash"
  slice,      \* the slice AcquireConnectionsMulti returned
  pc,         \* per task: "idle", "start", "open", "copy", "retry",
              \*   "acquire", "done" (wg.Done called), "exit"
  taskConn,   \* per task: its connection, NoConn for nil
  lastOffset, \* per task
  taskRemain, \* per task
  hpos,       \* per task: the remote handle's offset
  file,       \* the local file
  errs,       \* errors in errChan
  sockFails   \* socket failures so far

dlVars == <<dl, slice, pc, taskConn, lastOffset, taskRemain, hpos, file, errs, sockFails>>
allVars == <<vars, dlVars>>

Others == Callers \ {Main}

(* The local file after os.Create: no bytes.                              *)
EmptyFile == [k \in Extent |-> None]

(* taskConn == nil || !taskConn.IsConnected()                              *)
Unusable(c) == c = NoConn \/ connections[c].st = "free"

(* The state of one call of DownloadDataObjectParallel before it starts.  *)
CallInitOf(d, sl, p, tc, lo, tr, h, e) ==
  /\ d = "start"
  /\ sl = <<>>
  /\ p = [t \in Tasks |-> "idle"]
  /\ tc = [t \in Tasks |-> NoConn]
  /\ lo = [t \in Tasks |-> 0]
  /\ tr = [t \in Tasks |-> 0]
  /\ h = [t \in Tasks |-> 0]
  /\ e = 0

CallInit == CallInitOf(dl, slice, pc, taskConn, lastOffset, taskRemain, hpos, errs)

DLInit ==
  /\ ClientsInit
  /\ CallInit
  /\ file = EmptyFile
  /\ sockFails = 0

----------------------------------------------------------------------------
(* Main, lines 509-553: os.Create truncates the local file (lines 512 and  *)
(* 532); an empty object ends there, otherwise the batch is requested.     *)
Begin ==
  /\ dl = "start"
  /\ IF FileLength = 0
     THEN /\ dl' = "ok"
          /\ UNCHANGED vars
     ELSE /\ dl' = "acquire"
          /\ MultiStart(Main, NumTasks)
          /\ UNCHANGED refs
  /\ file' = EmptyFile
  /\ UNCHANGED <<slice, pc, taskConn, lastOffset, taskRemain, hpos, errs, sockFails>>

(* The loops of AcquireConnectionsMulti, Main holding the mutex.           *)
MainMulti ==
  /\ dl = "acquire"
  /\ MultiPoolGet(Main) \/ MultiPoolEnd(Main) \/ MultiShare(Main)
  /\ UNCHANGED <<refs, dlVars>>

(***************************************************************************)
(* AcquireConnectionsMulti returns the distinct connections in map order   *)
(* (lines 1306-1311); lines 708-720 divide by numTasks and start the       *)
(* tasks, each at its offset with lengthPerThread bytes to go.             *)
(***************************************************************************)
Launch ==
  /\ dl = "acquire"
  /\ MultiFinish(Main, multi.got)
  /\ UNCHANGED refs
  /\ \E s \in Bijection(0..(Cardinality(multi.got) - 1), multi.got) :
       slice' = [k \in 1..Cardinality(multi.got) |-> s[k - 1]]
  /\ IF NumTasks = 0
     THEN dl' = "crash" /\ UNCHANGED pc
     ELSE dl' = "wait" /\ pc' = [t \in Tasks |-> "start"]
  /\ UNCHANGED <<taskConn, lastOffset, taskRemain, hpos, file, errs, sockFails>>

(* taskWaitGroup.Wait() returns; the first queued error, if any.           *)
Finish ==
  /\ dl = "wait"
  /\ \A t \in Tasks : pc[t] \in {"done", "exit"}
  /\ dl' = IF errs > 0 THEN "err" ELSE "ok"
  /\ UNCHANGED <<vars, slice, pc, taskConn, lastOffset, taskRemain, hpos, file, errs, sockFails>>

----------------------------------------------------------------------------
(* Mutant: the task enqueues its error and carries on.                    *)
Fail1KeepGoing(t) == errs' = errs + 1 /\ UNCHANGED pc

(* The task enqueues an error and returns.                                 *)
Fail1(t) == errs' = errs + 1 /\ pc' = [pc EXCEPT ![t] = "done"]

(***************************************************************************)
(* The start of downloadTask: taskConn := connections[taskID] panics       *)
(* (index out of range, the whole process dies) when the slice is shorter  *)
(* than numTasks; a nil or disconnected connection, or a local file that   *)
(* cannot be opened, is an error; otherwise the task starts at lastOffset  *)
(* lo with taskLength - (lo - taskOffset) bytes to go.                     *)
(***************************************************************************)
StartTask(t, lo) ==
  /\ dl = "wait" /\ pc[t] = "start"
  /\ IF t + 1 > Len(slice)
     THEN /\ dl' = "crash"
          /\ UNCHANGED <<pc, taskConn, errs, lastOffset, taskRemain>>
     ELSE /\ taskConn' = [taskConn EXCEPT ![t] = slice[t + 1]]
          /\ \/ /\ Unusable(slice[t + 1]) \/ OtherErrors
                /\ Fail1(t)
                /\ UNCHANGED <<lastOffset, taskRemain>>
             \/ /\ ~Unusable(slice[t + 1])
                /\ pc' = [pc EXCEPT ![t] = "open"]
                /\ lastOffset' = [lastOffset EXCEPT ![t] = lo]
                /\ taskRemain' = [taskRemain EXCEPT ![t] = LengthPerThread - (lo - TaskOffset(t))]
                /\ UNCHANGED errs
          /\ UNCHANGED dl
  /\ UNCHANGED <<vars, slice, hpos, file, sockFails>>

(* Lines 562-595: DownloadDataObjectParallel starts at taskOffset.         *)
TaskStart(t) == StartTask(t, TaskOffset(t))

(* Mutant: every failed trial is retried.                                 *)
TrialFailedAlwaysRetry(t, c) == pc' = [pc EXCEPT ![t] = "retry"] /\ UNCHANGED errs

(* A trial that failed (lines 675-705): retry when the socket failed,     *)
(* else enqueue the error and return.                                      *)
TrialFailed(t, c) ==
  IF connections'[c].failed
  THEN pc' = [pc EXCEPT ![t] = "retry"] /\ UNCHANGED errs
  ELSE Fail1(t)

(* The request's socket fails now (sockFails counts the failures).         *)
SocketBreaks(c) ==
  /\ sockFails < MaxSocketFails
  /\ SocketFail(c)
  /\ sockFails' = sockFails + 1

(* Mutant: the reopened handle is not seeked to lastOffset.               *)
OpenSkipSeek(t) ==
  /\ dl = "wait" /\ pc[t] = "open"
  /\ LET c == taskConn[t] IN
     \/ /\ ~connections[c].failed
        /\ hpos' = [hpos EXCEPT ![t] = 0]
        /\ pc' = [pc EXCEPT ![t] = "copy"]
        /\ UNCHANGED <<connections, errs, sockFails>>
     \/ /\ \/ connections[c].failed /\ UNCHANGED <<connections, sockFails>>
           \/ SocketBreaks(c)
        /\ TrialFailed(t, c)
        /\ UNCHANGED hpos
     \/ /\ OtherErrors /\ ~connections[c].failed
        /\ UNCHANGED <<connections, hpos, sockFails>>
        /\ TrialFailed(t, c)
  /\ UNCHANGED <<shares, startNewTransaction, poormansRollbackFail, mutex, multi, refs>>
  /\ UNCHANGED <<dl, slice, taskConn, lastOffset, taskRemain, file>>

(***************************************************************************)
(* The start of trial, lines 599-628: OpenDataObject, and when lastOffset  *)
(* is not 0 the seeks of the remote handle and of the local file.          *)
(***************************************************************************)
Open(t) ==
  /\ dl = "wait" /\ pc[t] = "open"
  /\ LET c == taskConn[t] IN
     \/ /\ ~connections[c].failed
        /\ hpos' = [hpos EXCEPT ![t] = lastOffset[t]]
        /\ pc' = [pc EXCEPT ![t] = "copy"]
        /\ UNCHANGED <<connections, errs, sockFails>>
     \/ /\ \/ connections[c].failed /\ UNCHANGED <<connections, sockFails>>
           \/ SocketBreaks(c)
        /\ TrialFailed(t, c)
        /\ UNCHANGED hpos
     \/ /\ OtherErrors /\ ~connections[c].failed
        /\ UNCHANGED <<connections, hpos, sockFails>>
        /\ TrialFailed(t, c)
  /\ UNCHANGED <<shares, startNewTransaction, poormansRollbackFail, mutex, multi, refs>>
  /\ UNCHANGED <<dl, slice, taskConn, lastOffset, taskRemain, file>>

(* Bytes remote offsets from..from+n-1 written at local offset at.         *)
WriteAt(f, at, from, n) ==
  [k \in DOMAIN f |-> IF at <= k /\ k < at + n THEN from + (k - at) ELSE f[k]]

(***************************************************************************)
(* One iteration of the copy loop, lines 631-672: read up to bufferLen     *)
(* bytes, write them at taskOffset + (taskLength - taskRemain), advance;   *)
(* EOF ends the trial successfully, a read error ends it with an error,   *)
(* and a queued error of another task stops it.                            *)
(***************************************************************************)
Copy(t) ==
  /\ dl = "wait" /\ pc[t] = "copy"
  /\ LET c == taskConn[t]
         bufferLen == IF taskRemain[t] < BufSize THEN taskRemain[t] ELSE BufSize
         avail == IF FileLength > hpos[t] THEN FileLength - hpos[t] ELSE 0
         at == TaskOffset(t) + (LengthPerThread - taskRemain[t])
     IN
     \/ /\ taskRemain[t] <= 0
        /\ pc' = [pc EXCEPT ![t] = "done"]
        /\ UNCHANGED <<connections, hpos, file, errs, taskRemain, lastOffset, sockFails>>
     \/ /\ taskRemain[t] > 0
        /\ \/ connections[c].failed /\ UNCHANGED <<connections, sockFails>>
           \/ SocketBreaks(c)
        /\ TrialFailed(t, c)
        /\ UNCHANGED <<hpos, file, taskRemain, lastOffset>>
     \/ /\ taskRemain[t] > 0 /\ OtherErrors /\ ~connections[c].failed
        /\ UNCHANGED <<connections, hpos, file, taskRemain, lastOffset, sockFails>>
        /\ TrialFailed(t, c)
     \/ /\ taskRemain[t] > 0 /\ ~connections[c].failed
        /\ UNCHANGED <<connections, sockFails>>
        /\ \E n \in 0..(IF bufferLen < avail THEN bufferLen ELSE avail), eof \in BOOLEAN :
             /\ n = 0 => eof
             /\ eof => n = avail
             /\ file' = WriteAt(file, at, hpos[t], n)
             /\ taskRemain' = [taskRemain EXCEPT ![t] = @ - n]
             /\ lastOffset' = [lastOffset EXCEPT ![t] = @ + n]
             /\ hpos' = [hpos EXCEPT ![t] = @ + n]
             /\ IF eof
                THEN pc' = [pc EXCEPT ![t] = "done"] /\ UNCHANGED errs
                ELSE IF errs > 0
                     THEN TrialFailed(t, c)
                     ELSE UNCHANGED <<pc, errs>>
  /\ UNCHANGED <<shares, startNewTransaction, poormansRollbackFail, mutex, multi, refs>>
  /\ UNCHANGED <<dl, slice, taskConn>>

(* The retry, lines 682-687: give the failed connection back ...           *)
RetryReturn(t) ==
  /\ dl = "wait" /\ pc[t] = "retry"
  /\ ReturnConnection(taskConn[t])
  /\ pc' = [pc EXCEPT ![t] = "acquire"]
  /\ UNCHANGED <<refs, dl, slice, taskConn, lastOffset, taskRemain, hpos, file, errs, sockFails>>

(* ... and ask the session for another one (lines 689-699).               *)
RetryAcquire(t) ==
  /\ dl = "wait" /\ pc[t] = "acquire"
  /\ \E got \in Conn \cup {NoConn} :
       /\ AcquireConnection(got)
       /\ taskConn' = [taskConn EXCEPT ![t] = got]
       /\ IF Unusable(got)
          THEN Fail1(t)
          ELSE pc' = [pc EXCEPT ![t] = "open"] /\ UNCHANGED errs
  /\ UNCHANGED <<refs, dl, slice, lastOffset, taskRemain, hpos, file, sockFails>>

(* The deferred function, lines 565-568: wg.Done() was called on the way   *)
(* to "done"; then ReturnConnection(taskConn), a no-op for nil.            *)
TaskExit(t) ==
  /\ pc[t] = "done" /\ dl # "crash"
  /\ IF taskConn[t] = NoConn
     THEN UNCHANGED sessionVars
     ELSE ReturnConnection(taskConn[t])
  /\ pc' = [pc EXCEPT ![t] = "exit"]
  /\ UNCHANGED <<refs, dl, slice, taskConn, lastOffset, taskRemain, hpos, file, errs, sockFails>>

(* The other callers of the session, as in SessionClients.                 *)
OtherStep ==
  /\ dl # "crash"
  /\ \E p \in Others :
       \/ Acquire(p)
       \/ \E c \in Conn : Return(p, c) \/ Discard(p, c)
  /\ UNCHANGED dlVars

OtherFail ==
  /\ dl # "crash"
  /\ \E c \in Conn : Fail(c)
  /\ UNCHANGED dlVars

TaskStep(t) ==
  TaskStart(t) \/ Open(t) \/ Copy(t) \/ RetryReturn(t) \/ RetryAcquire(t) \/ TaskExit(t)

DLNext ==
  \/ Begin \/ MainMulti \/ Launch \/ Finish
  \/ \E t \in Tasks : TaskStep(t)
  \/ OtherStep \/ OtherFail

(* Goroutines that can run keep running; the other callers need not.       *)
DLSpec ==
  /\ DLInit
  /\ [][DLNext]_allVars
  /\ WF_allVars(Begin) /\ WF_allVars(MainMulti) /\ WF_allVars(Launch)
  /\ WF_allVars(Finish)
  /\ \A t \in Tasks : WF_allVars(TaskStep(t))

----------------------------------------------------------------------------
DLTypeOK ==
  /\ TypeOK
  /\ dl \in {"start", "acquire", "wait", "ok", "err", "crash"}
  /\ slice \in Seq(Conn)
  /\ pc \in [Tasks -> {"idle", "start", "open", "copy", "retry", "acquire", "done", "exit"}]
  /\ taskConn \in [Tasks -> Conn \cup {NoConn}]
  /\ lastOffset \in [Tasks -> Nat]
  /\ taskRemain \in [Tasks -> Nat]
  /\ hpos \in [Tasks -> Nat]
  /\ file \in [Extent -> {None} \cup Nat]
  /\ errs \in 0..NumTasks
  /\ sockFails \in 0..MaxSocketFails

(***************************************************************************)
(* Every byte the tasks write lands at its own offset: the write offset   *)
(* taskOffset + (taskLength - taskRemain) (line 641) and the remote read  *)
(* position (lastOffset, the seek of lines 612-628 after a retry) stay    *)
(* equal across chunks, short reads and retries on other connections.     *)
(***************************************************************************)
WritesInPlace == \A k \in Extent : file[k] \in {None, k}

(***************************************************************************)
(* Spec section 8, invariant 4: when DownloadDataObjectParallel returns    *)
(* nil the local file is byte-exact: every offset below the length holds  *)
(* its byte and nothing was written beyond it (the ceil partitioning of   *)
(* lines 708-711 and the EOF handling of lines 656-660 together).         *)
(***************************************************************************)
DownloadExact ==
  dl = "ok" => \A k \in Extent : file[k] = IF k < FileLength THEN k ELSE None

(***************************************************************************)
(* Spec section 4.3: callers of AcquireConnectionsMulti must tolerate      *)
(* fewer distinct connections than requested.  Line 563 indexes the slice *)
(* by task number, so the process must never crash there.                 *)
(***************************************************************************)
NoCrash == dl # "crash"

(***************************************************************************)
(* Spec section 4.4.3 step 5: after a socket failure a task returns the    *)
(* connection and acquires a fresh one (lines 682-699): the connection it *)
(* gets back from AcquireConnection is never one whose socket has failed. *)
(***************************************************************************)
FreshAfterRetry ==
  [][\A t \in Tasks :
       pc[t] = "acquire" /\ pc'[t] = "open" => ~connections'[taskConn'[t]].failed
    ]_allVars

(***************************************************************************)
(* When the batch comes from the pool and a retry finds a free slot, the  *)
(* download returns and every task's deferred ReturnConnection runs: a    *)
(* socket failure is retried on a fresh connection (lines 682-699), any   *)
(* other error ends the task with one send (lines 700-703), and the copy   *)
(* loop advances or stops at EOF.  The share pass of the batch call and a  *)
(* retry handed back a failed connection are not covered: the runs        *)
(* session_multi_spin and download_stale_retry show where they go wrong.   *)
(***************************************************************************)
DownloadTerminates ==
  <>(dl \in {"ok", "err"} /\ \A t \in Tasks : pc[t] = "exit")

----------------------------------------------------------------------------
(* The end of the part of task t's range that lies in the object.          *)
RangeEnd(t) ==
  IF TaskOffset(t) + LengthPerThread < FileLength
  THEN TaskOffset(t) + LengthPerThread ELSE FileLength

(* The local file holds bytes from..to-1 of the object in place.           *)
Written(from, to) == \A k \in Extent : from <= k /\ k < to => file[k] = k

(* Every byte of the object in the local file is at its own offset.      *)
InPlace == \A k \in Extent : file[k] \in Nat => file[k] = k /\ k < FileLength

(* No task runs before the batch is in and the tasks are launched.        *)
TasksIdle == dl \in {"start", "acquire"} => \A t \in Tasks : pc[t] = "idle"

(* Between trials and inside one, lastOffset is the next offset to fetch, *)
(* taskOffset + (taskLength - taskRemain), and the range is written up to *)
(* it; a copying trial's remote handle is there too.                       *)
AtLastOffset ==
  \A t \in Tasks :
     /\ pc[t] \in {"open", "copy", "retry", "acquire"} =>
          /\ lastOffset[t] = TaskOffset(t) + (LengthPerThread - taskRemain[t])
          /\ Written(TaskOffset(t), lastOffset[t])
     /\ pc[t] = "copy" => hpos[t] = lastOffset[t]

(* A task that ended while errChan is empty fetched its range up to EOF.  *)
EndedWritten ==
  \A t \in Tasks : pc[t] \in {"done", "exit"} /\ errs = 0 =>
     Written(TaskOffset(t), RangeEnd(t))

(* nil is returned for a non-empty object only after tasks were launched, *)
(* every one of them ended, and errChan is empty.                          *)
OkAllEnded ==
  /\ dl = "wait" => NumTasks # 0
  /\ dl = "ok" /\ FileLength > 0 =>
       /\ NumTasks # 0 /\ errs = 0
       /\ \A t \in Tasks : pc[t] \in {"done", "exit"}

(***************************************************************************)
(* The core of the inductive invariant, whatever else the local file held *)
(* before (lines 582, 595, 612-628 and 641-653): the file holds object    *)
(* bytes only in place; between and inside the trials of a task            *)
(* lastOffset, the write offset and the remote handle agree and the range  *)
(* is fetched up to there; a task that ended while errChan is empty        *)
(* fetched its range to EOF; and nil is returned only with every task     *)
(* ended and errChan empty.                                                *)
(***************************************************************************)
DLCore ==
  /\ dl \in {"start", "acquire", "wait", "ok", "err", "crash"}
  /\ pc \in [Tasks -> {"idle", "start", "open", "copy", "retry", "acquire", "done", "exit"}]
  /\ lastOffset \in [Tasks -> Nat] /\ taskRemain \in [Tasks -> 0..LengthPerThread]
  /\ hpos \in [Tasks -> Nat] /\ file \in [Extent -> Int]
  /\ errs \in Nat
  /\ InPlace /\ TasksIdle /\ AtLastOffset /\ EndedWritten /\ OkAllEnded

(* The inductive invariant behind WritesInPlace and DownloadExact: the    *)
(* core, and a file that holds nothing but holes and fetched bytes.        *)
DLInv == DLCore /\ file \in [Extent -> {None} \cup Nat]

----------------------------------------------------------------------------
(* The outcome DownloadDataObjectParallel returns, as Transfer sees it.    *)
DLOutcome ==
  CASE dl = "ok" -> "ok"
    [] dl \in {"err", "crash"} -> "failed"
    [] OTHER -> "running"

Abs == INSTANCE Transfer WITH Size <- FileLength, Positions <- Extent,
                              Resumable <- FALSE, dst <- file, outcome <- DLOutcome

(***************************************************************************)
(* The parallel download implements the abstract transfer: whatever the    *)
(* tasks, retries and broken sockets do, every step writes bytes of the    *)
(* object at their own offsets below its length, or truncates the file,    *)
(* or is invisible, and the call returns nil only on the exact file.       *)
(***************************************************************************)
DLRefinesTransfer == Abs!ASpec


=============================================================================
