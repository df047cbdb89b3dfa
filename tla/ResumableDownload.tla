-------------------------- MODULE ResumableDownload --------------------------
(***************************************************************************)
(* DownloadDataObjectParallelResumable (src/irods/fs/data_object_bulk.go,  *)
(* lines 732-1020): the parallel download of ParallelDownload, plus a      *)
(* resume journal on disk, and a process that may die at any moment and    *)
(* be started again on the same local path.                                *)
(*                                                                         *)
(* The task goroutines, the retries and the session are those of           *)
(* ParallelDownload: the code of lines 814-985 is the same as that of      *)
(* lines 555-705 except where a task starts (its lastOffset comes from     *)
(* the journal) and where a chunk is written (an entry is appended).       *)
(*                                                                         *)
(* The journal (DataObjectTransferStatusLocal, not under src/, modelled    *)
(* from spec sections 3 and 4.5) is an append-only sequence of entries     *)
(* [off, comp] = {StartOffset, CompletedLength}; the entries written but   *)
(* not yet flushed are in jbuf, and a process death keeps a prefix of them *)
(* (a truncated trailing entry is discarded by the reader).  Reopening an  *)
(* existing journal keeps its entries.  The local file and the journal are *)
(* the only state that outlives the process.                               *)
(***************************************************************************)
EXTENDS ParallelDownload

CONSTANTS
  MaxRestarts,   \* bound on the times the process dies and is run again
  StaleLocal     \* whether localPath holds an older, longer file at first

ASSUME ResumeAssumption ==
  /\ MaxRestarts \in Nat /\ StaleLocal \in BOOLEAN

(* A byte of the older file at localPath, not of this object.              *)
Stale == -2

TaskOffsets == {TaskOffset(t) : t \in Tasks}

(* A journal entry: StartOffset and CompletedLength of a task.            *)
Entry == [off : TaskOffsets, comp : 0..LengthPerThread]

VARIABLES
  jexists,   \* the journal file exists
  jdisk,     \* the entries that are on disk
  jbuf,      \* the entries written and not yet flushed
  status,    \* GetStatus(): per task offset, the completed length or None
  restarts   \* times the process has died and been started again

jVars == <<jexists, jdisk, jbuf, status, restarts>>
rVars == <<allVars, jVars>>

(* The reader: the last entry keyed by start offset o defines progress.    *)
LastCompleted(log, o) ==
  LET idx == {i \in DOMAIN log : log[i].off = o}
  IN  IF idx = {} THEN None
      ELSE log[CHOOSE i \in idx : \A j \in idx : j <= i].comp

RInit ==
  /\ ClientsInit
  /\ CallInit
  /\ file = [k \in Extent |-> IF StaleLocal /\ k <= FileLength THEN Stale ELSE None]
  /\ sockFails = 0
  /\ jexists = FALSE
  /\ jdisk = <<>>
  /\ jbuf = <<>>
  /\ status = [o \in TaskOffsets |-> None]
  /\ restarts = 0

----------------------------------------------------------------------------
(***************************************************************************)
(* Main, lines 739-810: an empty object is an os.Create (line 748).        *)
(* Otherwise GetOrNewDataObjectTransferStatusLocal reads the journal, the  *)
(* journal is created or reopened and its header written (lines 768-787), *)
(* the local file is opened with O_RDWR|O_CREATE, without truncating it   *)
(* (line 790), and the batch is requested.                                 *)
(***************************************************************************)
RBegin ==
  /\ dl = "start"
  /\ IF FileLength = 0
     THEN /\ dl' = "ok"
          /\ file' = EmptyFile
          /\ UNCHANGED <<vars, jexists, status>>
     ELSE /\ dl' = "acquire"
          /\ MultiStart(Main, NumTasks)
          /\ UNCHANGED <<refs, file>>
          /\ status' = [o \in TaskOffsets |-> LastCompleted(jdisk, o)]
          /\ jexists' = TRUE
  /\ UNCHANGED <<slice, pc, taskConn, lastOffset, taskRemain, hpos, errs, sockFails>>
  /\ UNCHANGED <<jdisk, jbuf, restarts>>

(* Mutant: the resumed task ignores the journal's start offset.            *)
ResumeOffsetNoStart(t) ==
  IF status[TaskOffset(t)] = None THEN TaskOffset(t) ELSE status[TaskOffset(t)]

(* lastOffset of a task, lines 841-847: StartOffset + CompletedLength of   *)
(* its entry, or its taskOffset when the journal has none.                 *)
ResumeOffset(t) ==
  IF status[TaskOffset(t)] = None THEN TaskOffset(t)
  ELSE TaskOffset(t) + status[TaskOffset(t)]

(* The start of downloadTask, lines 814-860.                               *)
RTaskStart(t) == StartTask(t, ResumeOffset(t)) /\ UNCHANGED jVars

(* Mutant: CompletedLength computed after taskRemain was decremented.      *)
StatusEntryLate(t) ==
  LET n == taskRemain[t] - taskRemain'[t]
  IN  [off |-> TaskOffset(t), comp |-> (LengthPerThread - taskRemain'[t]) + n]

(* The entry of lines 919-926, for the n = bytesRead bytes just written.   *)
StatusEntry(t) ==
  LET n == taskRemain[t] - taskRemain'[t]
  IN  [off |-> TaskOffset(t), comp |-> (LengthPerThread - taskRemain[t]) + n]

(***************************************************************************)
(* One iteration of the copy loop, lines 896-950: as in ParallelDownload,  *)
(* and after a chunk of bytesRead > 0 bytes is written at its offset the   *)
(* entry is appended with WriteStatus (line 926).                          *)
(***************************************************************************)
RCopy(t) ==
  /\ Copy(t)
  /\ jbuf' = IF taskRemain'[t] < taskRemain[t]
             THEN Append(jbuf, StatusEntry(t))
             ELSE jbuf
  /\ UNCHANGED <<jexists, jdisk, status, restarts>>

(* Mutant: the journal is closed but never deleted after a success.        *)
RFinishKeepJournal ==
  /\ Finish
  /\ jdisk' = jdisk \o jbuf /\ jbuf' = <<>>
  /\ UNCHANGED <<jexists, status, restarts>>

(***************************************************************************)
(* taskWaitGroup.Wait() returns, lines 1002-1019: on an error the journal *)
(* is closed (its entries flushed) and kept; on success it is closed and  *)
(* deleted.                                                                *)
(***************************************************************************)
RFinish ==
  /\ Finish
  /\ IF errs > 0
     THEN jdisk' = jdisk \o jbuf /\ UNCHANGED jexists
     ELSE jdisk' = <<>> /\ jexists' = FALSE
  /\ jbuf' = <<>>
  /\ UNCHANGED <<status, restarts>>

(***************************************************************************)
(* The process dies (killed, or the panic of line 821, or it returned an   *)
(* error and the user runs it again) and DownloadDataObjectParallel-       *)
(* Resumable is called again in a new process with a new session: only the *)
(* local file and what reached the journal's file remain.                  *)
(***************************************************************************)
Restart ==
  /\ dl # "ok"
  /\ restarts < MaxRestarts
  /\ restarts' = restarts + 1
  /\ \E k \in 0..Len(jbuf) : jdisk' = jdisk \o SubSeq(jbuf, 1, k)
  /\ jbuf' = <<>>
  /\ status' = [o \in TaskOffsets |-> None]
  /\ SessionInit(shares', mutex', multi', startNewTransaction', connections',
                  poormansRollbackFail')
  /\ refs' = [p \in Callers |-> [c \in Conn |-> 0]]
  /\ CallInitOf(dl', slice', pc', taskConn', lastOffset', taskRemain', hpos', errs')
  /\ UNCHANGED <<file, sockFails, jexists>>

RTaskStep(t) ==
  \/ RTaskStart(t) \/ RCopy(t)
  \/ (Open(t) \/ RetryReturn(t) \/ RetryAcquire(t) \/ TaskExit(t)) /\ UNCHANGED jVars

RNext ==
  \/ RBegin \/ RFinish \/ Restart
  \/ (MainMulti \/ Launch \/ OtherStep \/ OtherFail) /\ UNCHANGED jVars
  \/ \E t \in Tasks : RTaskStep(t)

(* The fairness of DLSpec; a death of the process is never forced.         *)
RSpec ==
  /\ RInit
  /\ [][RNext]_rVars
  /\ WF_rVars(RBegin) /\ WF_rVars(MainMulti /\ UNCHANGED jVars)
  /\ WF_rVars(Launch /\ UNCHANGED jVars) /\ WF_rVars(RFinish)
  /\ \A t \in Tasks : WF_rVars(RTaskStep(t))

----------------------------------------------------------------------------
RDTypeOK ==
  /\ TypeOK
  /\ dl \in {"start", "acquire", "wait", "ok", "err", "crash"}
  /\ pc \in [Tasks -> {"idle", "start", "open", "copy", "retry", "acquire", "done", "exit"}]
  /\ lastOffset \in [Tasks -> Nat] /\ taskRemain \in [Tasks -> 0..LengthPerThread]
  /\ file \in [Extent -> {None, Stale} \cup Nat]
  /\ errs \in 0..NumTasks
  /\ jexists \in BOOLEAN
  /\ jdisk \in Seq(Entry) /\ jbuf \in Seq(Entry)
  /\ status \in [TaskOffsets -> {None} \cup Nat]
  /\ restarts \in 0..MaxRestarts

(***************************************************************************)
(* The journal never claims a byte the local file does not hold: every    *)
(* entry, flushed or not, says bytes off .. off+comp-1 are downloaded, and *)
(* each of them is the object's byte at its offset.  This is what makes a *)
(* resumed task's skip (lines 841-847) safe after a death at any point,   *)
(* and it rests on WriteStatus following WriteAt (lines 913-926) with the *)
(* length counted before taskRemain is decremented.                        *)
(***************************************************************************)
JournalSound ==
  \A e \in Range(jdisk \o jbuf) :
     \A k \in e.off..(e.off + e.comp - 1) : file[k] = k

(***************************************************************************)
(* Spec section 8, invariant 5: a resumable download that returns nil,    *)
(* however many times its process died before, leaves the local file     *)
(* byte-exact (every byte of the object and nothing after it) and its     *)
(* journal deleted.                                                        *)
(***************************************************************************)
ResumeExact ==
  dl = "ok" =>
     /\ \A k \in Extent : file[k] = IF k < FileLength THEN k ELSE None
     /\ ~jexists

(* A journal entry's claim holds: the local file has bytes off..off+comp-1 *)
(* of the object, each in place.                                           *)
EntrySound(e) == Written(e.off, e.off + e.comp)

(* Every entry on disk and in the buffer is sound.                         *)
EntriesSound ==
  /\ \A i \in 1..Len(jdisk) : EntrySound(jdisk[i])
  /\ \A i \in 1..Len(jbuf) : EntrySound(jbuf[i])

(* What GetStatus read from the disk (lines 768-775) is sound: it is what  *)
(* a resumed task skips (lines 841-847).                                   *)
StatusSound ==
  \A o \in TaskOffsets : status[o] # None => Written(o, o + status[o])

(* Bytes of the older file are there only if they were at first.          *)
StaleOnlyAtFirst == ~StaleLocal => \A k \in Extent : file[k] # Stale

(* An empty object never opens the journal (line 748), and a download     *)
(* that returned nil deleted it (lines 1012-1018).                         *)
JournalClosed ==
  /\ FileLength = 0 => /\ dl \in {"start", "ok"} /\ ~jexists
                       /\ jdisk = <<>> /\ jbuf = <<>>
  /\ dl = "ok" => ~jexists

(***************************************************************************)
(* The inductive invariant behind JournalSound and ResumeExact.  The       *)
(* download's core holds across deaths of the process (a new process      *)
(* starts with every task idle, and the file keeps what was fetched); the *)
(* journal's entries and what was read from them are sound; and the       *)
(* journal is closed where the code deletes or never opens it.             *)
(***************************************************************************)
RInv ==
  /\ DLCore
  /\ file \in [Extent -> {None, Stale} \cup Nat]
  /\ jdisk \in Seq(Entry) /\ jbuf \in Seq(Entry)
  /\ status \in [TaskOffsets -> {None} \cup 0..LengthPerThread]
  /\ StaleOnlyAtFirst /\ EntriesSound /\ StatusSound /\ JournalClosed

----------------------------------------------------------------------------
RAbs == INSTANCE Transfer WITH Size <- FileLength, Positions <- Extent,
                               Resumable <- TRUE, dst <- file, outcome <- DLOutcome

(***************************************************************************)
(* The resumable download, across deaths of its process, implements the    *)
(* abstract resumable transfer: a restart after a failure takes up the     *)
(* file as it was, and a restart while running is invisible.               *)
(***************************************************************************)
RDRefinesTransfer == RAbs!ASpec


=============================================================================
