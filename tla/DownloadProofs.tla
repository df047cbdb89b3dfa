--------------------------- MODULE DownloadProofs ---------------------------
(***************************************************************************)
(* Proofs about DownloadDataObjectParallel, for every object length,       *)
(* number of tasks, buffer size, pool and set of other session users:     *)
(* DLInv is inductive, so every byte the tasks write lands at its own      *)
(* offset, and a download that returns nil leaves the local file exact.    *)
(* The session's own steps are never expanded: every action of the        *)
(* download says what it leaves unchanged of the download's variables.     *)
(***************************************************************************)
EXTENDS ParallelDownload, Partition, TLAPS

(* The arithmetic of a task's range, once the task exists.                 *)
LEMMA TaskArith ==
  ASSUME NEW t \in Tasks
  PROVE  /\ NumTasks \in Nat \ {0}
         /\ LengthPerThread \in Nat
         /\ LengthPerThread = CeilLen(FileLength, NumTasks)
         /\ TaskOffset(t) \in Nat
         /\ RangeEnd(t) \in Nat
         /\ RangeEnd(t) <= TaskOffset(t) + LengthPerThread
         /\ RangeEnd(t) <= FileLength
<1>1. NumTasks \in Nat \ {0}
  BY DownloadAssumption DEF NumTasks, Tasks
<1>2. LengthPerThread = CeilLen(FileLength, NumTasks)
  BY DEF LengthPerThread, CeilLen
<1>3. LengthPerThread \in Nat
  BY <1>1, <1>2, CeilLenNat, DownloadAssumption
<1>4. TaskOffset(t) \in Nat
  BY <1>1, <1>3 DEF TaskOffset, Tasks
<1>. QED
  BY <1>1, <1>2, <1>3, <1>4, DownloadAssumption DEF RangeEnd

(* The offsets of the local file are natural numbers.                      *)
LEMMA ExtentNat == Extent \subseteq Nat
BY DEF Extent

(* A failed trial either goes to the retry, or queues its error and ends. *)
LEMMA TrialFailedFacts ==
  ASSUME NEW t, NEW c, TrialFailed(t, c)
  PROVE  \/ pc' = [pc EXCEPT ![t] = "retry"] /\ errs' = errs
         \/ pc' = [pc EXCEPT ![t] = "done"] /\ errs' = errs + 1
BY DEF TrialFailed, Fail1

(* A step that only adds bytes in place keeps every written stretch.      *)
LEMMA WrittenKept ==
  ASSUME \A k \in Extent : file[k] = k => file'[k] = k
  PROVE  \A a, b : Written(a, b) => Written(a, b)'
BY DEF Written

(* A step changes a byte of the local file only into a hole or a fetched  *)
(* byte: the values the file may hold are kept.                            *)
FileStep == \A k \in Extent : file'[k] \in {file[k], None} \cup Nat

LEMMA FileValsKept ==
  ASSUME NEW V, None \in V, file \in [Extent -> V \cup Nat],
         file' \in [Extent -> Int], FileStep
  PROVE  file' \in [Extent -> V \cup Nat]
BY DEF FileStep

(* Only os.Create and the WriteAt of the copy loop change the local file. *)
LEMMA KeepFile ==
  ASSUME NEW t, NEW lo,
         \/ MainMulti \/ Launch \/ Finish \/ OtherStep \/ OtherFail
         \/ StartTask(t, lo) \/ Open(t) \/ RetryReturn(t) \/ RetryAcquire(t)
         \/ TaskExit(t)
  PROVE  file' = file
BY DEF MainMulti, Launch, Finish, OtherStep, OtherFail, StartTask, Open,
   RetryReturn, RetryAcquire, TaskExit, dlVars

----------------------------------------------------------------------------
(* The invariant holds when DownloadDataObjectParallel is called.          *)
THEOREM DLInvInit == DLInit => DLInv
BY ExtentNat, TaskArith DEF DLInit, CallInit, CallInitOf, EmptyFile, None, DLInv, DLCore, InPlace,
   TasksIdle, AtLastOffset, EndedWritten, OkAllEnded

(* Main's steps (lines 509-553, 708-728) and the other session users.      *)
LEMMA MainStep ==
  ASSUME DLCore,
         Begin \/ MainMulti \/ Launch \/ Finish \/ OtherStep \/ OtherFail
  PROVE  DLCore' /\ FileStep
<1>1. CASE Begin
  BY <1>1 DEF Begin, EmptyFile, None, DLCore, FileStep, InPlace, TasksIdle,
     AtLastOffset, EndedWritten, OkAllEnded, Written
<1>2. CASE MainMulti \/ OtherStep \/ OtherFail
  <2>1. UNCHANGED dlVars
    BY <1>2 DEF MainMulti, OtherStep, OtherFail
  <2>. QED
    BY <2>1 DEF dlVars, DLCore, FileStep, FileStep, InPlace, TasksIdle, AtLastOffset, EndedWritten,
       OkAllEnded, Written, RangeEnd
<1>3. CASE Launch
  BY <1>3 DEF Launch, DLCore, FileStep, InPlace, TasksIdle, AtLastOffset, EndedWritten,
     OkAllEnded, Written, RangeEnd
<1>4. CASE Finish
  BY <1>4 DEF Finish, DLCore, FileStep, InPlace, TasksIdle, AtLastOffset, EndedWritten,
     OkAllEnded, Written, RangeEnd
<1>. QED
  BY <1>1, <1>2, <1>3, <1>4


(***************************************************************************)
(* The start of a task (lines 562-595) at a lastOffset lo inside its range *)
(* up to which the range is already fetched: lo = taskOffset for the      *)
(* plain download, the journal's offset for the resumable one.             *)
(***************************************************************************)
LEMMA StartStep ==
  ASSUME DLCore, NEW t \in Tasks, NEW lo \in Nat,
         TaskOffset(t) <= lo, lo <= TaskOffset(t) + LengthPerThread,
         Written(TaskOffset(t), lo),
         StartTask(t, lo)
  PROVE  DLCore' /\ FileStep
<1>. USE TaskArith, ExtentNat
<1>1. CASE t + 1 > Len(slice)
  BY <1>1 DEF StartTask, DLCore, FileStep, InPlace, TasksIdle, AtLastOffset, EndedWritten,
     OkAllEnded, Written, RangeEnd
<1>2. CASE ~(t + 1 > Len(slice)) /\ errs' = errs + 1 /\ pc' = [pc EXCEPT ![t] = "done"]
  BY <1>2 DEF StartTask, DLCore, FileStep, InPlace, TasksIdle, AtLastOffset, EndedWritten,
     OkAllEnded, Written, RangeEnd
<1>3. CASE ~(t + 1 > Len(slice)) /\ pc' = [pc EXCEPT ![t] = "open"]
           /\ lastOffset' = [lastOffset EXCEPT ![t] = lo]
           /\ taskRemain' = [taskRemain EXCEPT ![t] = LengthPerThread - (lo - TaskOffset(t))]
           /\ errs' = errs
  BY <1>3 DEF StartTask, DLCore, FileStep, InPlace, TasksIdle, AtLastOffset, EndedWritten,
     OkAllEnded, Written, RangeEnd
<1>. QED
  BY <1>1, <1>2, <1>3 DEF StartTask, Fail1

(* The steps of a task that do not write (lines 565-568, 599-628 and       *)
(* 682-699): opening and seeking, the retry, and the deferred return.      *)
LEMMA ControlStep ==
  ASSUME DLCore, NEW t \in Tasks,
         Open(t) \/ RetryReturn(t) \/ RetryAcquire(t) \/ TaskExit(t)
  PROVE  DLCore' /\ FileStep
<1>. USE TaskArith, ExtentNat
<1>1. CASE Open(t)
  <2>1. CASE pc' = [pc EXCEPT ![t] = "copy"] /\ hpos' = [hpos EXCEPT ![t] = lastOffset[t]]
             /\ errs' = errs
    BY <1>1, <2>1 DEF Open, DLCore, FileStep, InPlace, TasksIdle, AtLastOffset, EndedWritten,
       OkAllEnded, Written, RangeEnd
  <2>2. CASE \/ pc' = [pc EXCEPT ![t] = "retry"] /\ errs' = errs
             \/ pc' = [pc EXCEPT ![t] = "done"] /\ errs' = errs + 1
    BY <1>1, <2>2 DEF Open, DLCore, FileStep, InPlace, TasksIdle, AtLastOffset, EndedWritten,
       OkAllEnded, Written, RangeEnd
  <2>. QED
    BY <1>1, <2>1, <2>2, TrialFailedFacts DEF Open
<1>2. CASE RetryReturn(t)
  BY <1>2 DEF RetryReturn, DLCore, FileStep, InPlace, TasksIdle, AtLastOffset, EndedWritten,
     OkAllEnded, Written, RangeEnd
<1>3. CASE RetryAcquire(t)
  <2>1. CASE \/ pc' = [pc EXCEPT ![t] = "open"] /\ errs' = errs
             \/ pc' = [pc EXCEPT ![t] = "done"] /\ errs' = errs + 1
    BY <1>3, <2>1 DEF RetryAcquire, DLCore, FileStep, InPlace, TasksIdle, AtLastOffset,
       EndedWritten, OkAllEnded, Written, RangeEnd
  <2>. QED
    BY <1>3, <2>1 DEF RetryAcquire, Fail1
<1>4. CASE TaskExit(t)
  BY <1>4 DEF TaskExit, DLCore, FileStep, InPlace, TasksIdle, AtLastOffset, EndedWritten,
     OkAllEnded, Written, RangeEnd
<1>. QED
  BY <1>1, <1>2, <1>3, <1>4


(***************************************************************************)
(* One trial of the copy loop (lines 630-680): the read at hpos lands at  *)
(* lastOffset, which is hpos, and never past the end of the object.       *)
(***************************************************************************)
LEMMA CopyStep ==
  ASSUME DLCore, NEW t \in Tasks, Copy(t)
  PROVE  /\ DLCore' /\ FileStep
         /\ \A k \in Extent : file[k] = k => file'[k] = k
         /\ taskRemain'[t] < taskRemain[t] =>
              \A k \in Extent :
                 TaskOffset(t) <= k /\ k < TaskOffset(t) + (LengthPerThread - taskRemain'[t])
                 => file'[k] = k
<1>. USE TaskArith, ExtentNat
<1>. DEFINE bl == IF taskRemain[t] < BufSize THEN taskRemain[t] ELSE BufSize
            av == IF FileLength > hpos[t] THEN FileLength - hpos[t] ELSE 0
            at == TaskOffset(t) + (LengthPerThread - taskRemain[t])
            c  == taskConn[t]
<1>0. /\ TaskOffset(t) \in Nat /\ LengthPerThread \in Nat /\ RangeEnd(t) \in Nat
      /\ RangeEnd(t) <= FileLength /\ RangeEnd(t) <= TaskOffset(t) + LengthPerThread
  BY TaskArith
<1>1. /\ dl = "wait" /\ pc[t] = "copy" /\ dl' = dl
      /\ at = lastOffset[t] /\ hpos[t] = lastOffset[t]
      /\ \A k \in Extent : TaskOffset(t) <= k /\ k < lastOffset[t] => file[k] = k
  BY DEF Copy, DLCore, AtLastOffset, Written
<1>2. CASE taskRemain[t] <= 0 /\ pc' = [pc EXCEPT ![t] = "done"]
           /\ UNCHANGED <<hpos, file, errs, taskRemain, lastOffset>>
  <2>1. taskRemain[t] = 0 /\ lastOffset[t] >= RangeEnd(t)
    BY <1>1, <1>2 DEF DLCore, AtLastOffset
  <2>. QED
    BY <1>1, <1>2, <2>1 DEF DLCore, FileStep, InPlace, TasksIdle, AtLastOffset, EndedWritten,
       OkAllEnded, Written, RangeEnd
<1>3. CASE /\ taskRemain[t] > 0
           /\ UNCHANGED <<hpos, file, taskRemain, lastOffset>>
           /\ \/ pc' = [pc EXCEPT ![t] = "retry"] /\ errs' = errs
              \/ pc' = [pc EXCEPT ![t] = "done"] /\ errs' = errs + 1
  BY <1>1, <1>3 DEF DLCore, FileStep, InPlace, TasksIdle, AtLastOffset, EndedWritten,
     OkAllEnded, Written, RangeEnd
<1>4. CASE /\ taskRemain[t] > 0
           /\ \E n \in 0..(IF bl < av THEN bl ELSE av), eof \in BOOLEAN :
                /\ n = 0 => eof
                /\ eof => n = av
                /\ file' = WriteAt(file, at, hpos[t], n)
                /\ taskRemain' = [taskRemain EXCEPT ![t] = @ - n]
                /\ lastOffset' = [lastOffset EXCEPT ![t] = @ + n]
                /\ hpos' = [hpos EXCEPT ![t] = @ + n]
                /\ IF eof
                   THEN pc' = [pc EXCEPT ![t] = "done"] /\ UNCHANGED errs
                   ELSE IF errs > 0
                        THEN TrialFailed(t, c)
                        ELSE UNCHANGED <<pc, errs>>
  <2>1. PICK n \in 0..(IF bl < av THEN bl ELSE av), eof \in BOOLEAN :
                /\ n = 0 => eof
                /\ eof => n = av
                /\ file' = WriteAt(file, at, hpos[t], n)
                /\ taskRemain' = [taskRemain EXCEPT ![t] = @ - n]
                /\ lastOffset' = [lastOffset EXCEPT ![t] = @ + n]
                /\ hpos' = [hpos EXCEPT ![t] = @ + n]
                /\ IF eof
                   THEN pc' = [pc EXCEPT ![t] = "done"] /\ UNCHANGED errs
                   ELSE IF errs > 0
                        THEN TrialFailed(t, c)
                        ELSE UNCHANGED <<pc, errs>>
    BY <1>4
  <2>2. /\ n \in Nat /\ n <= taskRemain[t]
        /\ n > 0 => lastOffset[t] + n <= FileLength
        /\ eof => lastOffset[t] + n >= FileLength
    <3>1. lastOffset[t] \in Nat /\ taskRemain[t] \in Nat /\ BufSize \in Nat /\ FileLength \in Nat
      BY DownloadAssumption DEF DLCore
    <3>2. n \in Nat /\ n <= bl /\ n <= av
      BY <1>1, <2>1, <3>1 DEF bl, av
    <3>3. n <= taskRemain[t]
      BY <3>1, <3>2 DEF bl
    <3>4. n > 0 => lastOffset[t] + n <= FileLength
      BY <1>1, <3>1, <3>2 DEF av
    <3>5. eof => lastOffset[t] + n >= FileLength
      BY <1>1, <2>1, <3>1 DEF av
    <3>. QED
      BY <3>2, <3>3, <3>4, <3>5
  <2>3. \A k \in Extent : file'[k] = IF lastOffset[t] <= k /\ k < lastOffset[t] + n
                                     THEN k ELSE file[k]
    BY <1>1, <2>1 DEF WriteAt, DLCore
  <2>4. InPlace'
    BY <2>2, <2>3, DownloadAssumption DEF DLCore, InPlace, None
  <2>5. \A a, b : Written(a, b) => Written(a, b)'
    BY <2>3, WrittenKept DEF DLCore, InPlace
  <2>6. \A k \in Extent : TaskOffset(t) <= k /\ k < lastOffset[t] + n => file'[k] = k
    BY <1>1, <2>2, <2>3 DEF DLCore
  <2>7. \/ pc' = [pc EXCEPT ![t] = "done"] /\ errs' = errs /\ eof
        \/ pc' = [pc EXCEPT ![t] = "retry"] /\ errs' = errs
        \/ pc' = [pc EXCEPT ![t] = "done"] /\ errs' = errs + 1
        \/ pc' = pc /\ errs' = errs
    BY <2>1, TrialFailedFacts
  <2>8. lastOffset'[t] = lastOffset[t] + n /\ hpos'[t] = lastOffset'[t]
        /\ taskRemain'[t] = taskRemain[t] - n
    BY <1>1, <2>1 DEF DLCore
  <2>9. eof => lastOffset[t] + n >= RangeEnd(t)
    BY <1>0, <2>2, DownloadAssumption DEF DLCore
  <2>10. /\ pc' \in [Tasks -> {"idle", "start", "open", "copy", "retry", "acquire", "done", "exit"}]
         /\ lastOffset' \in [Tasks -> Nat] /\ taskRemain' \in [Tasks -> 0..LengthPerThread]
         /\ hpos' \in [Tasks -> Nat] /\ errs' \in Nat
    BY <1>1, <2>1, <2>2, <2>7 DEF DLCore
  <2>11. file' \in [Extent -> Int]
    BY <2>1, <2>3, ExtentNat DEF DLCore, WriteAt
  <2>12. TasksIdle' /\ OkAllEnded'
    BY <1>1, <2>1 DEF DLCore, TasksIdle, OkAllEnded
  <2>13. AtLastOffset'
    BY <1>1, <2>1, <2>2, <2>5, <2>6, <2>7, <2>8
       DEF DLCore, AtLastOffset, Written
  <2>14. EndedWritten'
    BY <1>1, <2>1, <2>5, <2>6, <2>7, <2>9 DEF DLCore, EndedWritten, Written
  <2>15. FileStep
    BY <2>3, ExtentNat DEF FileStep
  <2>16. \A k \in Extent : file[k] = k => file'[k] = k
    BY <2>3
  <2>17. TaskOffset(t) + (LengthPerThread - taskRemain'[t]) = lastOffset[t] + n
    BY <1>0, <1>1, <2>2, <2>8 DEF DLCore
  <2>18. \A k \in Extent :
            TaskOffset(t) <= k /\ k < TaskOffset(t) + (LengthPerThread - taskRemain'[t])
            => file'[k] = k
    BY <2>6, <2>17
  <2>. QED
    BY <1>1, <2>4, <2>10, <2>11, <2>12, <2>13, <2>14, <2>15, <2>16, <2>18 DEF DLCore
<1>. QED
  <2>1. TrialFailed(t, c) => \/ pc' = [pc EXCEPT ![t] = "retry"] /\ errs' = errs
                             \/ pc' = [pc EXCEPT ![t] = "done"] /\ errs' = errs + 1
    BY TrialFailedFacts
  <2>. QED
    BY <1>2, <1>3, <1>4, <2>1 DEF Copy


----------------------------------------------------------------------------
(* DLInv is inductive: every step of main, of a task goroutine and of the *)
(* other session users keeps it.                                           *)
THEOREM DLInvNext == DLInv /\ [DLNext]_allVars => DLInv'
<1>. SUFFICES ASSUME DLInv, [DLNext]_allVars PROVE DLInv'
  OBVIOUS
<1>1. DLCore
  BY DEF DLInv
<1>2. DLCore' /\ FileStep
  <2>1. CASE Begin \/ MainMulti \/ Launch \/ Finish \/ OtherStep \/ OtherFail
    BY <1>1, <2>1, MainStep
  <2>2. ASSUME NEW t \in Tasks, TaskStart(t) PROVE DLCore' /\ FileStep
    <3>1. TaskOffset(t) \in Nat /\ LengthPerThread \in Nat
      BY TaskArith
    <3>2. Written(TaskOffset(t), TaskOffset(t))
      BY <3>1, ExtentNat DEF Written
    <3>. QED
      BY <1>1, <2>2, <3>1, <3>2, StartStep DEF TaskStart
  <2>3. CASE \E t \in Tasks : TaskStep(t)
    BY <1>1, <2>3, <2>2, ControlStep, CopyStep DEF TaskStep
  <2>4. CASE UNCHANGED allVars
    BY <1>1, <2>4 DEF allVars, dlVars, DLCore, FileStep, InPlace, TasksIdle,
       AtLastOffset, EndedWritten, OkAllEnded, Written, RangeEnd
  <2>. QED
    BY <2>1, <2>3, <2>4 DEF DLNext
<1>3. file' \in [Extent -> {None} \cup Nat]
  <2>1. None \in {None} /\ file \in [Extent -> {None} \cup Nat] /\ file' \in [Extent -> Int]
    BY <1>2 DEF DLInv, DLCore
  <2>. QED
    BY <1>2, <2>1, FileValsKept
<1>. QED
  BY <1>2, <1>3 DEF DLInv

(* DLInv holds in every state of the download.                             *)
THEOREM DLInvariant == DLSpec => []DLInv
BY DLInvInit, DLInvNext, PTL DEF DLSpec

(* Every byte a task goroutine writes into the local file lands at its own *)
(* offset (the WriteAt of line 653 at lastOffset, which is the offset the  *)
(* reader is at), for every object length, task count and buffer size.    *)
THEOREM WritesInPlaceThm == DLSpec => []WritesInPlace
<1>1. DLInv => WritesInPlace
  BY DEF DLInv, DLCore, InPlace, WritesInPlace, None
<1>. QED
  BY <1>1, DLInvariant, PTL

(* When DownloadDataObjectParallel returns nil the local file holds the    *)
(* object exactly: every offset below the object length is fetched by the  *)
(* task whose range holds it, and nothing is written past it.              *)
LEMMA InvImpliesDownloadExact == DLInv => DownloadExact
<1>. SUFFICES ASSUME DLInv, dl = "ok", NEW k \in Extent
              PROVE  file[k] = IF k < FileLength THEN k ELSE None
  BY DEF DownloadExact
<1>1. k \in Nat /\ FileLength \in Nat
  BY ExtentNat, DownloadAssumption
<1>2. CASE k >= FileLength
  BY <1>1, <1>2 DEF DLInv, DLCore, InPlace, None
<1>3. CASE k < FileLength
  <2>1. NumTasks \in Nat \ {0} /\ errs = 0 /\ \A t \in Tasks : pc[t] \in {"done", "exit"}
    <3>1. NumTasks \in Nat
      BY DownloadAssumption DEF NumTasks
    <3>. QED
      BY <1>1, <1>3, <3>1 DEF DLInv, DLCore, OkAllEnded
  <2>2. PICK t \in 0..(NumTasks - 1) :
          /\ t * CeilLen(FileLength, NumTasks) <= k
          /\ k < t * CeilLen(FileLength, NumTasks) + CeilLen(FileLength, NumTasks)
    BY <1>1, <1>3, <2>1, PartsCover, DownloadAssumption
  <2>3. t \in Tasks
    BY DEF Tasks
  <2>4. TaskOffset(t) <= k /\ k < RangeEnd(t)
    BY <1>1, <1>3, <2>2, <2>3, TaskArith DEF TaskOffset, RangeEnd
  <2>5. Written(TaskOffset(t), RangeEnd(t))
    BY <2>1, <2>3 DEF DLInv, DLCore, EndedWritten
  <2>. QED
    BY <1>3, <2>4, <2>5 DEF Written
<1>. QED
  BY <1>2, <1>3, <1>1

(* DownloadExact holds in every state, for every value of the constants.  *)
THEOREM DownloadExactness == DLSpec => []DownloadExact
BY DLInvariant, InvImpliesDownloadExact, PTL

=============================================================================
