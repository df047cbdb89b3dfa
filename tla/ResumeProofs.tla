---------------------------- MODULE ResumeProofs ----------------------------
(***************************************************************************)
(* Proofs about DownloadDataObjectParallelResumable, for every object      *)
(* length, task count, buffer size, pool and number of process deaths:     *)
(* RInv is inductive, so the journal never claims a byte the local file   *)
(* does not hold, and a resumed download that returns nil on a path with  *)
(* no older file leaves the local file exact and the journal deleted.     *)
(* The task steps are those of the plain download: their proofs are the   *)
(* lemmas of DownloadProofs.                                               *)
(***************************************************************************)
EXTENDS ResumableDownload, DownloadProofs, DownloadTypes, WellFoundedInduction,
        SequenceTheorems, TLAPS

(* A non-empty set of indices of a sequence has a largest element: the    *)
(* CHOOSE of the journal reader picks a real entry.                        *)
LEMMA MaxIndex ==
  ASSUME NEW L \in Nat, NEW S \in SUBSET (1..L), S # {}
  PROVE  \E i \in S : \A j \in S : j <= i
<1>. DEFINE T == {L - i : i \in S}
<1>1. T \subseteq Nat /\ T # {}
  <2>1. \A i \in S : L - i \in Nat
    OBVIOUS
  <2>. QED
    BY <2>1, Zenon
<1>2. PICK x \in T : \A y \in T : ~(<<y, x>> \in OpToRel(<, Nat))
  BY <1>1, NatLessThanWellFounded, WFMin
<1>3. PICK i \in S : x = L - i
  BY Zenon
<1>4. \A j \in S : j <= i
  <2>1. SUFFICES ASSUME NEW j \in S, j > i PROVE FALSE
    OBVIOUS
  <2>2. L - j \in T /\ L - j < x
    BY <1>3, <2>1
  <2>. QED
    BY <1>1, <1>2, <2>2 DEF OpToRel
<1>. QED
  BY <1>4

(* The journal reader returns None or the length of an entry of the log   *)
(* that has the offset asked for.                                          *)
LEMMA LastCompletedFacts ==
  ASSUME NEW log \in Seq(Entry), NEW o
  PROVE  \/ LastCompleted(log, o) = None
         \/ \E i \in 1..Len(log) : log[i].off = o /\ LastCompleted(log, o) = log[i].comp
<1>. DEFINE idx == {i \in DOMAIN log : log[i].off = o}
<1>1. CASE idx = {}
  BY <1>1 DEF LastCompleted
<1>2. CASE idx # {}
  <2>1. idx \subseteq 1..Len(log)
    OBVIOUS
  <2>2. \E i \in idx : \A j \in idx : j <= i
    <3>1. Len(log) \in Nat /\ idx \in SUBSET (1..Len(log))
      BY <2>1
    <3>. QED
      BY <1>2, <3>1, MaxIndex, Zenon
  <2>. QED
    BY <1>2, <2>2 DEF LastCompleted
<1>. QED
  BY <1>1, <1>2


(* GetStatus on a sound log: every length it returns is at most a task's  *)
(* range and its bytes are in the file.                                    *)
LEMMA StatusFromLog ==
  ASSUME NEW log \in Seq(Entry), \A i \in 1..Len(log) : EntrySound(log[i]),
         NEW o \in TaskOffsets
  PROVE  \/ LastCompleted(log, o) = None
         \/ /\ LastCompleted(log, o) \in 0..LengthPerThread
            /\ Written(o, o + LastCompleted(log, o))
<1>1. CASE LastCompleted(log, o) = None
  BY <1>1
<1>2. CASE \E i \in 1..Len(log) : log[i].off = o /\ LastCompleted(log, o) = log[i].comp
  <2>1. PICK i \in 1..Len(log) : log[i].off = o /\ LastCompleted(log, o) = log[i].comp
    BY <1>2
  <2>2. log[i] \in Entry /\ EntrySound(log[i])
    OBVIOUS
  <2>. QED
    BY <2>1, <2>2 DEF Entry, EntrySound
<1>. QED
  BY <1>1, <1>2, LastCompletedFacts

(* Entry e's claim holds of the local file after a step.                   *)
SoundAfter(e) == \A k \in Extent : e.off <= k /\ k < e.off + e.comp => file'[k] = k

(* A step that keeps every fetched byte keeps every sound entry sound.     *)
LEMMA EntryKept ==
  ASSUME NEW e, EntrySound(e), \A k \in Extent : file[k] = k => file'[k] = k
  PROVE  SoundAfter(e)
BY DEF EntrySound, Written, SoundAfter

(* Appending a sound log to a sound log gives a sound log.                 *)
LEMMA ConcatSound ==
  ASSUME NEW a \in Seq(Entry), NEW b \in Seq(Entry),
         \A i \in 1..Len(a) : EntrySound(a[i]),
         \A i \in 1..Len(b) : EntrySound(b[i])
  PROVE  /\ a \o b \in Seq(Entry)
         /\ \A i \in 1..Len(a \o b) : EntrySound((a \o b)[i])
BY ConcatProperties

----------------------------------------------------------------------------
(* The invariant holds when DownloadDataObjectParallelResumable is first  *)
(* called.                                                                 *)
THEOREM RInvInit == RInit => RInv
<1>. SUFFICES ASSUME RInit PROVE RInv
  OBVIOUS
<1>1. DLCore
  BY ExtentNat, TaskArith DEF RInit, CallInit, CallInitOf, None, Stale, DLCore,
     InPlace, TasksIdle, AtLastOffset, EndedWritten, OkAllEnded
<1>2. file \in [Extent -> {None, Stale} \cup Nat]
  BY DEF RInit
<1>5. StaleOnlyAtFirst
  BY ResumeAssumption DEF RInit, StaleOnlyAtFirst, None, Stale
<1>3. jdisk \in Seq(Entry) /\ jbuf \in Seq(Entry) /\ EntriesSound /\ JournalClosed
  BY DEF RInit, EntriesSound, JournalClosed, CallInit, CallInitOf
<1>4. status \in [TaskOffsets -> {None} \cup 0..LengthPerThread] /\ StatusSound
  BY DEF RInit, StatusSound
<1>. QED
  BY <1>1, <1>2, <1>3, <1>4, <1>5 DEF RInv

(***************************************************************************)
(* A step that changes neither the local file nor the journal, and leaves *)
(* the download's core holding, keeps RInv when it changes dl only as     *)
(* Launch and a task's start do.                                           *)
(***************************************************************************)
LEMMA QuietStep ==
  ASSUME RInv, DLCore', file' = file, UNCHANGED jVars,
         \/ dl' = dl
         \/ dl \in {"acquire", "wait"} /\ dl' \in {"wait", "crash"}
  PROVE  RInv'
<1>1. \A a, b : Written(a, b)' = Written(a, b)
  BY DEF Written
<1>2. StaleOnlyAtFirst' /\ EntriesSound' /\ StatusSound'
  BY <1>1 DEF RInv, StaleOnlyAtFirst, EntriesSound, EntrySound, StatusSound, jVars
<1>3. JournalClosed'
  BY DEF RInv, JournalClosed, jVars
<1>. QED
  BY <1>2, <1>3 DEF RInv, jVars


(* A step that leaves the local file alone keeps every written stretch.    *)
LEMMA WrittenSame ==
  ASSUME file' = file
  PROVE  \A a, b : Written(a, b)' = Written(a, b)
BY DEF Written

(* With an empty object every task's range is empty.                       *)
LEMMA EmptyRanges ==
  ASSUME FileLength = 0, NEW t \in Tasks
  PROVE  LengthPerThread = 0
<1>1. NumTasks \in Nat \ {0} /\ LengthPerThread = CeilLen(FileLength, NumTasks)
  BY TaskArith
<1>. QED
  BY <1>1, Z3 DEF CeilLen

(***************************************************************************)
(* Lines 739-810: the empty object is created, or the journal is read,    *)
(* opened and the batch requested; the tasks are all idle.                 *)
(***************************************************************************)
LEMMA RBeginStep ==
  ASSUME RInv, RBegin
  PROVE  RInv'
<1>1. dl = "start" /\ \A t \in Tasks : pc[t] = "idle"
  BY DEF RBegin, RInv, DLCore, TasksIdle
<1>2. CASE FileLength = 0
  <2>1. /\ dl' = "ok" /\ file' = EmptyFile
        /\ UNCHANGED <<jexists, jdisk, jbuf, status, pc, lastOffset, taskRemain, hpos, errs>>
    BY <1>2 DEF RBegin
  <2>2. DLCore'
    BY <1>1, <1>2, <2>1 DEF RInv, DLCore, InPlace, TasksIdle, AtLastOffset,
       EndedWritten, OkAllEnded, EmptyFile, None
  <2>3. file' \in [Extent -> {None, Stale} \cup Nat] /\ StaleOnlyAtFirst'
    BY <2>1 DEF EmptyFile, StaleOnlyAtFirst, None, Stale
  <2>4. EntriesSound'
    BY <1>2, <2>1 DEF RInv, JournalClosed, EntriesSound
  <2>5. StatusSound'
    <3>1. SUFFICES ASSUME NEW o \in TaskOffsets, status[o] # None
                   PROVE  Written(o, o + status[o])'
      BY <2>1 DEF StatusSound
    <3>2. PICK t \in Tasks : o = TaskOffset(t)
      BY DEF TaskOffsets
    <3>3. LengthPerThread = 0 /\ status[o] \in 0..LengthPerThread
      BY <1>2, <3>1, <3>2, EmptyRanges DEF RInv
    <3>4. o \in Nat
      BY <3>2, TaskArith
    <3>. QED
      BY <2>1, <3>3, <3>4, ExtentNat DEF Written
  <2>6. JournalClosed'
    BY <1>2, <2>1 DEF RInv, JournalClosed
  <2>. QED
    BY <2>1, <2>2, <2>3, <2>4, <2>5, <2>6 DEF RInv
<1>3. CASE FileLength # 0
  <2>1. /\ dl' = "acquire" /\ file' = file /\ jexists' = TRUE
        /\ status' = [o \in TaskOffsets |-> LastCompleted(jdisk, o)]
        /\ UNCHANGED <<jdisk, jbuf, pc, lastOffset, taskRemain, hpos, errs>>
    BY <1>3 DEF RBegin
  <2>2. \A a, b : Written(a, b)' = Written(a, b)
    BY <2>1, WrittenSame
  <2>3. DLCore'
    BY <1>1, <2>1, <2>2 DEF RInv, DLCore, InPlace, TasksIdle, AtLastOffset,
       EndedWritten, OkAllEnded
  <2>4. status' \in [TaskOffsets -> {None} \cup 0..LengthPerThread] /\ StatusSound'
    <3>1. \A o \in TaskOffsets :
             \/ LastCompleted(jdisk, o) = None
             \/ /\ LastCompleted(jdisk, o) \in 0..LengthPerThread
                /\ Written(o, o + LastCompleted(jdisk, o))
      BY StatusFromLog DEF RInv, EntriesSound
    <3>. QED
      BY <2>1, <2>2, <3>1 DEF StatusSound
  <2>5. EntriesSound' /\ StaleOnlyAtFirst'
    BY <2>1, <2>2 DEF RInv, EntriesSound, EntrySound, StaleOnlyAtFirst
  <2>6. JournalClosed'
    BY <1>3, <2>1 DEF JournalClosed
  <2>. QED
    BY <2>1, <2>3, <2>4, <2>5, <2>6 DEF RInv
<1>. QED
  BY <1>2, <1>3

(***************************************************************************)
(* Lines 1002-1019: the tasks are all done; on an error the journal is     *)
(* flushed and kept, on success deleted.                                   *)
(***************************************************************************)
LEMMA RFinishStep ==
  ASSUME RInv, RFinish
  PROVE  RInv'
<1>1. DLCore' /\ file' = file
  BY MainStep, KeepFile DEF RFinish, RInv
<1>2. /\ dl = "wait" /\ dl' = (IF errs > 0 THEN "err" ELSE "ok") /\ errs' = errs
      /\ UNCHANGED <<status, restarts>>
  <2>1. Finish /\ UNCHANGED <<status, restarts>>
    BY DEF RFinish
  <2>. QED
    BY <2>1 DEF Finish
<1>3. \A a, b : Written(a, b)' = Written(a, b)
  BY <1>1, WrittenSame
<1>4. jdisk' \in Seq(Entry) /\ jbuf' \in Seq(Entry) /\ EntriesSound'
  <2>1. CASE errs > 0
    <3>1. jdisk' = jdisk \o jbuf /\ jbuf' = <<>>
      BY <2>1 DEF RFinish
    <3>2. jdisk \o jbuf \in Seq(Entry)
          /\ \A i \in 1..Len(jdisk \o jbuf) : EntrySound((jdisk \o jbuf)[i])
      BY ConcatSound DEF RInv, EntriesSound
    <3>. QED
      BY <1>3, <3>1, <3>2 DEF EntriesSound, EntrySound
  <2>2. CASE ~(errs > 0)
    BY <2>1, <2>2 DEF RFinish, EntriesSound
  <2>. QED
    BY <2>1, <2>2
<1>5. JournalClosed'
  BY <1>2 DEF RFinish, RInv, JournalClosed
<1>. QED
  BY <1>1, <1>2, <1>3, <1>4, <1>5
     DEF RInv, StaleOnlyAtFirst, StatusSound, RFinish


(***************************************************************************)
(* The process dies and is started again: only the local file and a       *)
(* prefix of the unflushed entries, appended to the disk, remain.          *)
(***************************************************************************)
LEMMA RestartStep ==
  ASSUME RInv, Restart
  PROVE  RInv'
<1>1. /\ dl' = "start" /\ pc' = [t \in Tasks |-> "idle"]
      /\ lastOffset' = [t \in Tasks |-> 0] /\ taskRemain' = [t \in Tasks |-> 0]
      /\ hpos' = [t \in Tasks |-> 0] /\ errs' = 0
      /\ file' = file /\ jexists' = jexists /\ jbuf' = <<>>
      /\ status' = [o \in TaskOffsets |-> None]
  BY DEF Restart, CallInitOf
<1>2. \A a, b : Written(a, b)' = Written(a, b)
  BY <1>1, WrittenSame
<1>3. DLCore'
  BY <1>1, TaskArith DEF RInv, DLCore, InPlace, TasksIdle, AtLastOffset,
     EndedWritten, OkAllEnded
<1>4. PICK k \in 0..Len(jbuf) : jdisk' = jdisk \o SubSeq(jbuf, 1, k)
  BY DEF Restart
<1>5. /\ SubSeq(jbuf, 1, k) \in Seq(Entry)
      /\ \A i \in 1..Len(SubSeq(jbuf, 1, k)) : EntrySound(SubSeq(jbuf, 1, k)[i])
  <2>1. \A i \in 1..k : jbuf[i] \in Entry
    BY DEF RInv
  <2>2. /\ SubSeq(jbuf, 1, k) \in Seq(Entry)
        /\ Len(SubSeq(jbuf, 1, k)) = k
        /\ \A i \in 1..k : SubSeq(jbuf, 1, k)[i] = jbuf[i]
    BY <2>1, SubSeqProperties
  <2>. QED
    BY <2>2 DEF RInv, EntriesSound
<1>6. jdisk' \in Seq(Entry) /\ EntriesSound'
  <2>1. /\ jdisk \o SubSeq(jbuf, 1, k) \in Seq(Entry)
        /\ \A i \in 1..Len(jdisk \o SubSeq(jbuf, 1, k)) :
              EntrySound((jdisk \o SubSeq(jbuf, 1, k))[i])
    BY <1>5, ConcatSound DEF RInv, EntriesSound
  <2>. QED
    BY <1>1, <1>2, <1>4, <2>1 DEF EntriesSound, EntrySound
<1>7. JournalClosed'
  <2>1. FileLength = 0 => jdisk' = <<>>
    <3>1. SUFFICES ASSUME FileLength = 0 PROVE jdisk' = <<>>
      OBVIOUS
    <3>2. jdisk = <<>> /\ jbuf = <<>>
      BY <3>1 DEF RInv, JournalClosed
    <3>3. k = 0 /\ SubSeq(jbuf, 1, k) = <<>>
      BY <3>2
    <3>. QED
      BY <1>4, <3>2, <3>3
  <2>. QED
    BY <1>1, <2>1 DEF RInv, JournalClosed
<1>. QED
  BY <1>1, <1>2, <1>3, <1>6, <1>7
     DEF RInv, StaleOnlyAtFirst, StatusSound

(***************************************************************************)
(* One trial of the copy loop (lines 896-950): the entry appended after a *)
(* chunk claims the range up to the bytes just written, and those are in  *)
(* the file.                                                               *)
(***************************************************************************)
LEMMA RCopyStep ==
  ASSUME RInv, NEW t \in Tasks, RCopy(t)
  PROVE  RInv'
<1>1. /\ DLCore' /\ FileStep
      /\ \A k \in Extent : file[k] = k => file'[k] = k
      /\ taskRemain'[t] < taskRemain[t] =>
           \A k \in Extent :
              TaskOffset(t) <= k /\ k < TaskOffset(t) + (LengthPerThread - taskRemain'[t])
              => file'[k] = k
  BY CopyStep DEF RCopy, RInv
<1>2. dl = "wait" /\ dl' = dl /\ UNCHANGED <<jexists, jdisk, status, restarts>>
  BY DEF RCopy, Copy
<1>3. file' \in [Extent -> {None, Stale} \cup Nat] /\ StaleOnlyAtFirst'
  <2>1. file' \in [Extent -> Int]
    BY <1>1 DEF DLCore
  <2>2. file' \in [Extent -> {None, Stale} \cup Nat]
    BY <1>1, <2>1, FileValsKept DEF RInv
  <2>. QED
    BY <1>1, <2>2 DEF RInv, StaleOnlyAtFirst, FileStep, None, Stale
<1>4. \A a, b : Written(a, b) => Written(a, b)'
  BY <1>1, WrittenKept
<1>5. StatusSound'
  BY <1>2, <1>4 DEF RInv, StatusSound
<1>6. \A i \in 1..Len(jdisk) : SoundAfter(jdisk[i])
  BY <1>1, EntryKept DEF RInv, EntriesSound
<1>7. jbuf' \in Seq(Entry) /\ \A i \in 1..Len(jbuf') : SoundAfter(jbuf'[i])
  <2>1. \A i \in 1..Len(jbuf) : SoundAfter(jbuf[i])
    BY <1>1, EntryKept DEF RInv, EntriesSound
  <2>2. CASE taskRemain'[t] < taskRemain[t]
    <3>1. jbuf' = Append(jbuf, StatusEntry(t))
      BY <2>2 DEF RCopy
    <3>2. /\ StatusEntry(t).off = TaskOffset(t)
          /\ StatusEntry(t).comp = LengthPerThread - taskRemain'[t]
      <4>1. taskRemain[t] \in Nat /\ taskRemain'[t] \in Nat /\ LengthPerThread \in Nat
        BY <1>1, TaskArith DEF RInv, DLCore
      <4>. QED
        BY <4>1 DEF StatusEntry
    <3>3. StatusEntry(t) \in Entry
      <4>1. taskRemain'[t] \in 0..LengthPerThread /\ LengthPerThread \in Nat
        BY <1>1, TaskArith DEF DLCore
      <4>2. TaskOffset(t) \in TaskOffsets
        BY DEF TaskOffsets
      <4>. QED
        BY <3>2, <4>1, <4>2 DEF StatusEntry, Entry
    <3>4. /\ jbuf' \in Seq(Entry) /\ Len(jbuf') = Len(jbuf) + 1
          /\ \A i \in 1..Len(jbuf) : jbuf'[i] = jbuf[i]
          /\ jbuf'[Len(jbuf) + 1] = StatusEntry(t)
      BY <3>1, <3>3, AppendProperties DEF RInv
    <3>5. \A k \in Extent :
             jbuf'[Len(jbuf) + 1].off <= k
             /\ k < jbuf'[Len(jbuf) + 1].off + jbuf'[Len(jbuf) + 1].comp
             => file'[k] = k
      BY <1>1, <2>2, <3>2, <3>4
    <3>. QED
      BY <2>1, <3>4, <3>5 DEF SoundAfter
  <2>3. CASE ~(taskRemain'[t] < taskRemain[t])
    BY <2>1, <2>3 DEF RCopy, RInv
  <2>. QED
    BY <2>2, <2>3
<1>8. JournalClosed'
  BY <1>2 DEF RInv, JournalClosed
<1>. QED
  <2>1. EntriesSound'
    BY <1>2, <1>6, <1>7 DEF EntriesSound, EntrySound, Written, SoundAfter
  <2>. QED
    BY <1>1, <1>2, <1>3, <1>5, <1>7, <1>8, <2>1 DEF RInv

(* A task starts (lines 814-860) at the offset its journal entry gives,   *)
(* which GetStatus read from sound entries.                                *)
LEMMA RTaskStartStep ==
  ASSUME RInv, NEW t \in Tasks, RTaskStart(t)
  PROVE  RInv'
<1>. DEFINE o == TaskOffset(t)
<1>1. o \in TaskOffsets /\ o \in Nat /\ LengthPerThread \in Nat
  BY TaskArith DEF TaskOffsets
<1>2. /\ ResumeOffset(t) \in Nat
      /\ o <= ResumeOffset(t) /\ ResumeOffset(t) <= o + LengthPerThread
      /\ Written(o, ResumeOffset(t))
  <2>1. CASE status[o] = None
    BY <1>1, <2>1, ExtentNat DEF ResumeOffset, Written
  <2>2. CASE status[o] # None
    <3>1. status[o] \in 0..LengthPerThread /\ Written(o, o + status[o])
      BY <1>1, <2>2 DEF RInv, StatusSound
    <3>. QED
      BY <1>1, <2>2, <3>1 DEF ResumeOffset
  <2>. QED
    BY <2>1, <2>2
<1>3. StartTask(t, ResumeOffset(t)) /\ UNCHANGED jVars
  BY DEF RTaskStart
<1>4. DLCore'
  BY <1>2, <1>3, StartStep DEF RInv
<1>5. file' = file
  BY <1>3, KeepFile
<1>6. dl = "wait" /\ dl' \in {"wait", "crash"}
  BY <1>3 DEF StartTask
<1>. QED
  BY <1>3, <1>4, <1>5, <1>6, QuietStep


----------------------------------------------------------------------------
(* RInv is inductive: every step of main, of a task, of the other session *)
(* users, and every death and restart of the process keeps it.            *)
THEOREM RInvNext == RInv /\ [RNext]_rVars => RInv'
<1>. SUFFICES ASSUME RInv, [RNext]_rVars PROVE RInv'
  OBVIOUS
<1>0. DLCore
  BY DEF RInv
<1>1. CASE RBegin \/ RFinish \/ Restart
  BY <1>1, RBeginStep, RFinishStep, RestartStep
<1>2. CASE (MainMulti \/ Launch \/ OtherStep \/ OtherFail) /\ UNCHANGED jVars
  <2>1. DLCore' /\ file' = file
    BY <1>0, <1>2, MainStep, KeepFile
  <2>2. \/ dl' = dl
        \/ dl \in {"acquire", "wait"} /\ dl' \in {"wait", "crash"}
    BY <1>2 DEF MainMulti, Launch, OtherStep, OtherFail, dlVars
  <2>. QED
    BY <1>2, <2>1, <2>2, QuietStep
<1>3. ASSUME NEW t \in Tasks,
             (Open(t) \/ RetryReturn(t) \/ RetryAcquire(t) \/ TaskExit(t))
             /\ UNCHANGED jVars
      PROVE  RInv'
  <2>1. DLCore' /\ file' = file
    BY <1>0, <1>3, ControlStep, KeepFile
  <2>2. dl' = dl
    BY <1>3 DEF Open, RetryReturn, RetryAcquire, TaskExit
  <2>. QED
    BY <1>3, <2>1, <2>2, QuietStep
<1>4. CASE \E t \in Tasks : RTaskStep(t)
  BY <1>4, <1>3, RTaskStartStep, RCopyStep DEF RTaskStep
<1>5. CASE UNCHANGED rVars
  <2>1. \A a, b : Written(a, b)' = Written(a, b)
    BY <1>5, WrittenSame DEF rVars, allVars, dlVars
  <2>. QED
    BY <1>5, <2>1 DEF rVars, allVars, dlVars, jVars, RInv, DLCore, InPlace,
       TasksIdle, AtLastOffset, EndedWritten, OkAllEnded, StaleOnlyAtFirst,
       EntriesSound, EntrySound, StatusSound, JournalClosed
<1>. QED
  BY <1>1, <1>2, <1>4, <1>5 DEF RNext

(* RInv holds in every state, across any number of deaths of the process. *)
THEOREM RInvariant == RSpec => []RInv
BY RInvInit, RInvNext, PTL DEF RSpec

(* The offsets of a task's range are offsets of the local file.           *)
LEMMA RangeInExtent ==
  ASSUME NEW t \in Tasks, NEW k \in Int,
         TaskOffset(t) <= k, k < TaskOffset(t) + LengthPerThread
  PROVE  k \in Extent
<1>1. NumTasks \in Nat \ {0} /\ LengthPerThread \in Nat /\ t \in 0..(NumTasks - 1)
      /\ BufSize \in Nat
  BY TaskArith, DownloadAssumption DEF Tasks
<1>2. t * LengthPerThread + LengthPerThread <= NumTasks * LengthPerThread
  BY <1>1, Z3
<1>. QED
  BY <1>1, <1>2 DEF TaskOffset, Extent

(***************************************************************************)
(* The journal never claims a byte the local file does not hold, for every *)
(* object length, task count, buffer size and number of process deaths,   *)
(* and whether or not an older file was at localPath: a resumed task      *)
(* skips only bytes that are really there.                                 *)
(***************************************************************************)
LEMMA InvImpliesJournalSound == RInv => JournalSound
<1>. SUFFICES ASSUME RInv, NEW e \in Range(jdisk \o jbuf),
                     NEW k \in e.off..(e.off + e.comp - 1)
              PROVE  file[k] = k
  BY DEF JournalSound
<1>1. /\ jdisk \o jbuf \in Seq(Entry)
      /\ \A i \in 1..Len(jdisk \o jbuf) : EntrySound((jdisk \o jbuf)[i])
  BY ConcatSound DEF RInv, EntriesSound
<1>2. e \in Entry /\ EntrySound(e)
  BY <1>1 DEF Range
<1>3. PICK t \in Tasks : e.off = TaskOffset(t)
  BY <1>2 DEF Entry, TaskOffsets
<1>4. e.comp \in 0..LengthPerThread /\ TaskOffset(t) \in Nat
  BY <1>2, TaskArith DEF Entry
<1>5. k \in Int /\ TaskOffset(t) <= k /\ k < TaskOffset(t) + LengthPerThread
  <2>1. e.off \in Nat /\ e.comp \in Nat /\ e.comp <= LengthPerThread
    BY <1>3, <1>4
  <2>2. e.off <= k /\ k <= e.off + e.comp - 1 /\ k \in Int
    BY <2>1
  <2>. QED
    BY <1>3, <2>1, <2>2, TaskArith
<1>6. k \in Extent
  BY <1>5, RangeInExtent
<1>. QED
  BY <1>2, <1>3, <1>4, <1>6 DEF EntrySound, Written

THEOREM JournalSoundness == RSpec => []JournalSound
BY RInvariant, InvImpliesJournalSound, PTL

(***************************************************************************)
(* Spec section 8, invariant 5, where localPath held no older file: a     *)
(* resumable download that returns nil, after any number of deaths of its *)
(* process, leaves the local file byte-exact and its journal deleted.     *)
(* With an older, longer file there, the run resume_stale_tail shows the  *)
(* statement false (the file is opened without O_TRUNC, line 790).        *)
(***************************************************************************)
LEMMA InvImpliesResumeExact ==
  ASSUME ~StaleLocal
  PROVE  RInv => ResumeExact
<1>. SUFFICES ASSUME RInv, dl = "ok" PROVE ResumeExact
  BY DEF ResumeExact
<1>1. DLInv
  BY DEF RInv, DLInv, StaleOnlyAtFirst
<1>2. DownloadExact
  BY <1>1, InvImpliesDownloadExact
<1>. QED
  BY <1>2 DEF DownloadExact, ResumeExact, RInv, JournalClosed

THEOREM ResumeExactness ==
  ASSUME ~StaleLocal
  PROVE  RSpec => []ResumeExact
<1>1. RInv => ResumeExact
  BY InvImpliesResumeExact
<1>. QED
  BY <1>1, RInvariant, PTL

----------------------------------------------------------------------------
(***************************************************************************)
(* Type correctness across deaths of the process.  The task and session    *)
(* steps are those of the plain download, whose DownloadTypes lemmas need  *)
(* only DLCore; a restart starts a new session (NewIRODSSession) and a new *)
(* call with every task idle and no connection.                            *)
(***************************************************************************)
RTInv ==
  /\ RInv /\ DTPart
  /\ jexists \in BOOLEAN /\ restarts \in 0..MaxRestarts

(* A session as NewIRODSSession creates it satisfies IInv, in every state. *)
LEMMA InitIInvAlways == [](ClientsInit => IInv)
BY InitIInv, PTL

(* The new process's session and call (lines 739-790 run again).           *)
LEMMA RestartPart ==
  ASSUME sockFails \in 0..MaxSocketFails, Restart
  PROVE  DTPart'
<1>1. ClientsInit'
  BY DEF Restart, ClientsInit, Init
<1>2. IInv'
  BY <1>1, InitIInvAlways, PTL
<1>3. Ended' = {} /\ errs' = 0
  BY DEF Restart, CallInitOf, Ended
<1>4. TaskConns'
  BY DEF Restart, CallInitOf, TaskConns, ConnHeld
<1>5. ErrsBound'
  BY <1>3, FS_EmptySet DEF ErrsBound
<1>. QED
  BY <1>2, <1>4, <1>5 DEF DTPart, Restart

(* Main's start of a call (lines 739-810) and its end (lines 1002-1019).   *)
LEMMA RMainPart ==
  ASSUME DTCore, RBegin \/ RFinish
  PROVE  DTPart'
<1>1. TaskConns' /\ ErrsBound' /\ UNCHANGED sockFails
  BY TasksKept DEF DTCore, DTPart, RBegin, RFinish, Finish
<1>2. CASE RBegin
  <2>1. IInv'
    <3>1. CASE FileLength = 0
      BY <1>2, <3>1, IInvKept DEF DTCore, DTPart, RBegin
    <3>2. CASE FileLength # 0
      BY <1>2, <3>2, NumTasksNat, MultiStartIInv, DownloadAssumption
      DEF DTCore, DTPart, RBegin
    <3>. QED
      BY <3>1, <3>2
  <2>. QED
    BY <1>1, <2>1 DEF DTCore, DTPart
<1>3. CASE RFinish
  BY <1>3, QuietPart DEF RFinish
<1>. QED
  BY <1>2, <1>3

(* RTInv is inductive: the steps of the plain download, Main's journal    *)
(* handling and the deaths of the process keep it.                         *)
THEOREM RTInvNext == RTInv /\ [RNext]_rVars => RTInv'
<1>. SUFFICES ASSUME RTInv, [RNext]_rVars PROVE RTInv'
  OBVIOUS
<1>0. DTCore
  BY DEF RTInv, RInv, DTCore
<1>1. RInv'
  BY RInvNext DEF RTInv
<1>2. jexists' \in BOOLEAN /\ restarts' \in 0..MaxRestarts
  <2>1. CASE Restart
    BY <2>1, ResumeAssumption DEF RTInv, Restart
  <2>2. CASE RBegin \/ RFinish
    BY <2>2 DEF RTInv, RBegin, RFinish
  <2>3. CASE ~Restart /\ ~RBegin /\ ~RFinish
    <3>1. UNCHANGED <<jexists, restarts>>
      BY <2>3 DEF RNext, RTaskStep, RTaskStart, RCopy, jVars, rVars
    <3>. QED
      BY <3>1 DEF RTInv
  <2>. QED
    BY <2>1, <2>2, <2>3
<1>3. DTPart'
  <2>1. CASE RBegin \/ RFinish
    BY <1>0, <2>1, RMainPart
  <2>2. CASE Restart
    BY <2>2, RestartPart DEF RTInv, DTPart
  <2>3. CASE (MainMulti \/ Launch \/ OtherStep \/ OtherFail) /\ UNCHANGED jVars
    BY <1>0, <2>3, MainMultiPart, LaunchPart, QuietPart
  <2>4. ASSUME NEW t \in Tasks, RTaskStep(t)
        PROVE  DTPart'
    <3>1. CASE RTaskStart(t)
      BY <1>0, <3>1, StartPart DEF RTaskStart
    <3>2. CASE RCopy(t)
      BY <1>0, <3>2, RequestPart DEF RCopy
    <3>3. CASE Open(t) \/ RetryReturn(t) \/ RetryAcquire(t) \/ TaskExit(t)
      BY <1>0, <3>3, RequestPart, RetryReturnPart, RetryAcquirePart, TaskExitPart
    <3>. QED
      BY <2>4, <3>1, <3>2, <3>3 DEF RTaskStep
  <2>5. CASE UNCHANGED rVars
    <3>1. IInv'
      BY <2>5, IInvKept DEF RTInv, DTPart, rVars, allVars
    <3>. QED
      BY <2>5, <3>1 DEF RTInv, DTPart, TaskConns, ConnHeld, ErrsBound, Ended,
         rVars, allVars, dlVars
  <2>. QED
    BY <2>1, <2>2, <2>3, <2>4, <2>5 DEF RNext
<1>. QED
  BY <1>1, <1>2, <1>3 DEF RTInv

(* RTInv gives every variable of the resumable download its type.          *)
LEMMA RTInvTyped == RTInv => RDTypeOK
<1> SUFFICES ASSUME RTInv PROVE RDTypeOK
  OBVIOUS
<1>1. errs \in 0..NumTasks
  BY EndedFinite, NumTasksNat DEF RTInv, DTPart, ErrsBound, RInv, DLCore
<1>2. status \in [TaskOffsets -> {None} \cup Nat]
  BY DEF RTInv, RInv
<1>. QED
  BY <1>1, <1>2 DEF RTInv, DTPart, IInv, RInv, DLCore, RDTypeOK

(***************************************************************************)
(* DownloadDataObjectParallelResumable is type-correct for every object    *)
(* length, task count, pool and number of process deaths: the session of  *)
(* each new process, the journal, GetStatus's map and the task states keep *)
(* their types, and errChan never holds more than numTasks errors.         *)
(***************************************************************************)
THEOREM ResumeTypeCorrect == RSpec => []RDTypeOK
<1>1. RInit => RTInv
  <2> SUFFICES ASSUME RInit PROVE RTInv
    OBVIOUS
  <2>1. RInv
    BY RInvInit
  <2>2. IInv
    BY InitIInv DEF RInit
  <2>3. Ended = {}
    BY DEF RInit, CallInit, CallInitOf, Ended
  <2>4. ErrsBound
    BY <2>3, FS_EmptySet DEF RInit, CallInit, CallInitOf, ErrsBound
  <2>5. TaskConns
    BY DEF RInit, CallInit, CallInitOf, TaskConns, ConnHeld
  <2>6. /\ jexists \in BOOLEAN /\ restarts \in 0..MaxRestarts
        /\ sockFails \in 0..MaxSocketFails
    <3>1. jexists = FALSE /\ restarts = 0 /\ sockFails = 0
      BY DEF RInit
    <3>2. MaxRestarts \in Nat /\ MaxSocketFails \in Nat
      BY DownloadAssumption, ResumeAssumption
    <3>3. jexists \in BOOLEAN
      BY <3>1
    <3>4. restarts \in 0..MaxRestarts
      BY <3>1, <3>2
    <3>5. sockFails \in 0..MaxSocketFails
      BY <3>1, <3>2
    <3>. QED
      BY <3>3, <3>4, <3>5
  <2>. QED
    BY <2>1, <2>2, <2>4, <2>5, <2>6 DEF RTInv, DTPart
<1>2. RTInv /\ [RNext]_rVars => RTInv'
  BY RTInvNext
<1>3. RTInv => RDTypeOK
  BY RTInvTyped
<1>. QED
  BY <1>1, <1>2, <1>3, PTL DEF RSpec

=============================================================================
