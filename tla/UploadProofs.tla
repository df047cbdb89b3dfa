---------------------------- MODULE UploadProofs ----------------------------
(***************************************************************************)
(* Proofs about UploadDataObjectParallel, for every file length, number of *)
(* tasks and buffer size: UploadInv is inductive, so an upload that        *)
(* returns nil has written the file exactly, and the upload implements the *)
(* abstract Transfer specification.                                        *)
(***************************************************************************)
EXTENDS ParallelUpload, TLAPS

(* Numbers of tasks, lengths and offsets are natural numbers, and there   *)
(* is at least one task.                                                   *)
LEMMA Arith ==
  /\ NumTasks \in Nat \ {0}
  /\ LengthPerThread \in Nat
  /\ \A t \in Tasks : TaskOffset(t) \in Nat
  /\ Extent \subseteq Nat
<1>1. NumTasks \in Nat \ {0}
  BY UploadAssumption DEF NumTasks
<1>2. LengthPerThread \in Nat
  BY <1>1, UploadAssumption DEF LengthPerThread
<1>. QED
  BY <1>1, <1>2 DEF TaskOffset, Tasks, Extent

(* Where a task's part of the file ends is a natural number.              *)
LEMMA RangeEndNat == \A t \in Tasks : RangeEnd(t) \in Nat
BY Arith, UploadAssumption DEF RangeEnd

(* numTasks ranges of lengthPerThread bytes cover the file (lines 389-392). *)
LEMMA RangesCoverFile == FileLength <= NumTasks * LengthPerThread
<1>1. NumTasks \in Nat \ {0}
  BY Arith
<1>2. FileLength \in Nat
  BY UploadAssumption
<1>3. FileLength <= NumTasks * (FileLength \div NumTasks
                                + (IF FileLength % NumTasks > 0 THEN 1 ELSE 0))
  BY <1>1, <1>2, Z3
<1>. QED
  BY <1>3 DEF LengthPerThread

(* Every byte of the file lies in the part of some task's range that lies *)
(* in the file: the ranges of lines 389-401 cover [0, fileLength).         *)
LEMMA Cover ==
  \A k \in 0..(FileLength - 1) : \E t \in Tasks : TaskOffset(t) <= k /\ k < RangeEnd(t)
<1>. SUFFICES ASSUME NEW k \in 0..(FileLength - 1)
              PROVE  \E t \in Tasks : TaskOffset(t) <= k /\ k < RangeEnd(t)
  OBVIOUS
<1>. DEFINE L == LengthPerThread
<1>1. L \in Nat \ {0}
  BY Arith, RangesCoverFile, UploadAssumption
<1>. DEFINE q == k \div L
<1>2. q \in Nat /\ q * L <= k /\ k < q * L + L
  <2>1. k \in Nat
    BY UploadAssumption
  <2>. QED
    BY <1>1, <2>1, Z3
<1>4. q <= NumTasks - 1
  <2>1. SUFFICES ASSUME q >= NumTasks PROVE FALSE
    BY Arith, <1>2
  <2>2. q * L >= NumTasks * L
    BY <1>1, <1>2, <2>1, Arith
  <2>. QED
    BY <1>2, <2>2, Arith, RangesCoverFile, UploadAssumption
<1>. QED
  BY <1>2, <1>4, UploadAssumption DEF Tasks, TaskOffset, RangeEnd

----------------------------------------------------------------------------
(* The invariant holds when UploadDataObjectParallel is called.            *)
THEOREM UploadInvInit == UInit => UploadInv
BY Arith DEF UInit, UploadInv, UTypeOK, InPlace, Running, NotStarted, OkAllDone,
       CopyAt, EndedWritten, None

(* A send on errChan leaves the task past its step with one more error,   *)
(* or blocked with errChan full.                                           *)
LEMMA SendErrFacts ==
  ASSUME NEW t \in Tasks, NEW next, errs \in 0..NumTasks, SendErr(t, next)
  PROVE  \/ errs' = errs + 1 /\ errs' \in 0..NumTasks /\ tpc' = [tpc EXCEPT ![t] = next]
         \/ errs' = errs /\ tpc' = [tpc EXCEPT ![t] = "blocked"]
BY Arith DEF SendErr, ErrCap

(* The caller's steps: lines 215-272 and 403-425.                          *)
LEMMA CallerStep ==
  ASSUME UploadInv, Begin \/ OpenPrimary \/ GetToken \/ Finish
  PROVE  UploadInv'
<1>. USE Arith, RangeEndNat, UploadAssumption
<1>1. CASE Begin
  BY <1>1 DEF UploadInv, InPlace, Running, NotStarted, OkAllDone, CopyAt, EndedWritten,
      Begin, UTypeOK, Written, NextOff, RangeEnd
<1>2. CASE OpenPrimary
  BY <1>2 DEF UploadInv, InPlace, Running, NotStarted, OkAllDone, CopyAt, EndedWritten,
      OpenPrimary, UTypeOK, Written, NextOff, RangeEnd, None
<1>3. CASE GetToken
  BY <1>3 DEF UploadInv, InPlace, Running, NotStarted, OkAllDone, CopyAt, EndedWritten,
      GetToken, UTypeOK, Written, NextOff, RangeEnd
<1>4. CASE Finish
  BY <1>4 DEF UploadInv, InPlace, Running, NotStarted, OkAllDone, CopyAt, EndedWritten,
      Finish, UTypeOK, Written, NextOff, RangeEnd
<1>. QED
  BY <1>1, <1>2, <1>3, <1>4

(* The steps of a task that do not write: lines 286-330 and the deferred  *)
(* calls of lines 285, 295 and 305-311.                                    *)
LEMMA TaskControlStep ==
  ASSUME UploadInv, NEW t \in Tasks,
         TaskAcquire(t) \/ OpenReplica(t) \/ Seek(t) \/ CloseReplica(t)
  PROVE  UploadInv'
<1>. USE Arith, RangeEndNat, UploadAssumption
<1>1. CASE TaskAcquire(t)
  <2>1. CASE tpc' = [tpc EXCEPT ![t] = "replica"] /\ UNCHANGED errs
    BY <1>1, <2>1 DEF UploadInv, InPlace, Running, NotStarted, OkAllDone, CopyAt, EndedWritten,
      TaskAcquire, UTypeOK, Written, NextOff, RangeEnd
  <2>2. CASE IOErrors /\ SendErr(t, "done")
    BY <1>1, <2>2, SendErrFacts DEF UploadInv, InPlace, Running, NotStarted, OkAllDone, CopyAt, EndedWritten,
      TaskAcquire, UTypeOK, Written, NextOff, RangeEnd
  <2>. QED
    BY <1>1, <2>1, <2>2 DEF TaskAcquire
<1>2. CASE OpenReplica(t)
  <2>1. CASE tpc' = [tpc EXCEPT ![t] = "seek"] /\ UNCHANGED errs
    BY <1>2, <2>1 DEF UploadInv, InPlace, Running, NotStarted, OkAllDone, CopyAt, EndedWritten,
      OpenReplica, UTypeOK, Written, NextOff, RangeEnd
  <2>2. CASE IOErrors /\ SendErr(t, "done")
    BY <1>2, <2>2, SendErrFacts DEF UploadInv, InPlace, Running, NotStarted, OkAllDone, CopyAt, EndedWritten,
      OpenReplica, UTypeOK, Written, NextOff, RangeEnd
  <2>. QED
    BY <1>2, <2>1, <2>2 DEF OpenReplica
<1>3. CASE Seek(t)
  <2>1. CASE /\ hpos' = [hpos EXCEPT ![t] = TaskOffset(t)]
             /\ taskRemain' = [taskRemain EXCEPT ![t] = LengthPerThread]
             /\ tpc' = [tpc EXCEPT ![t] = "copy"]
             /\ UNCHANGED errs
    BY <1>3, <2>1 DEF UploadInv, InPlace, Running, NotStarted, OkAllDone, CopyAt, EndedWritten,
      Seek, UTypeOK, Written, NextOff, RangeEnd
  <2>2. CASE IOErrors /\ SendErr(t, "close") /\ UNCHANGED <<hpos, taskRemain>>
    BY <1>3, <2>2, SendErrFacts DEF UploadInv, InPlace, Running, NotStarted, OkAllDone, CopyAt, EndedWritten,
      Seek, UTypeOK, Written, NextOff, RangeEnd
  <2>. QED
    BY <1>3, <2>1, <2>2 DEF Seek
<1>4. CASE CloseReplica(t)
  <2>1. CASE tpc' = [tpc EXCEPT ![t] = "done"] /\ UNCHANGED errs
    BY <1>4, <2>1 DEF UploadInv, InPlace, Running, NotStarted, OkAllDone, CopyAt, EndedWritten,
      CloseReplica, UTypeOK, Written, NextOff, RangeEnd
  <2>2. CASE CloseErrors /\ SendErr(t, "done")
    BY <1>4, <2>2, SendErrFacts DEF UploadInv, InPlace, Running, NotStarted, OkAllDone, CopyAt, EndedWritten,
      CloseReplica, UTypeOK, Written, NextOff, RangeEnd
  <2>. QED
    BY <1>4, <2>1, <2>2 DEF CloseReplica
<1>. QED
  BY <1>1, <1>2, <1>3, <1>4

(***************************************************************************)
(* One iteration of the copy loop, lines 335-386: a write puts file bytes *)
(* off..off+n-1 at the handle's offset, which is off, and n never passes  *)
(* the end of the file; the loop ends at EOF only once the file's part of *)
(* the range is written, or after taskRemain bytes, the whole range.       *)
(***************************************************************************)
LEMMA CopyStep ==
  ASSUME UploadInv, NEW t \in Tasks, Copy(t)
  PROVE  UploadInv'
<1>. USE Arith, RangeEndNat, UploadAssumption
<1>a0. TaskOffset(t) + (LengthPerThread - taskRemain[t]) \in Nat
  BY DEF UploadInv, UTypeOK
<1>a. PICK off \in Nat : off = TaskOffset(t) + (LengthPerThread - taskRemain[t])
  BY <1>a0, Zenon
<1>b0. (IF taskRemain[t] < BufSize THEN taskRemain[t] ELSE BufSize) \in Nat
  BY DEF UploadInv, UTypeOK
<1>b. PICK bufferLen \in Nat :
        bufferLen = IF taskRemain[t] < BufSize THEN taskRemain[t] ELSE BufSize
  BY <1>b0, Zenon
<1>c0. (IF FileLength > off THEN FileLength - off ELSE 0) \in Nat
  OBVIOUS
<1>c. PICK left \in Nat : left = IF FileLength > off THEN FileLength - off ELSE 0
  BY <1>c0, Zenon
<1>d0. (IF bufferLen < left THEN bufferLen ELSE left) \in Nat
  OBVIOUS
<1>d. PICK n \in Nat : n = IF bufferLen < left THEN bufferLen ELSE left
  BY <1>d0, Zenon
<1>0. /\ tpc[t] = "copy" /\ up = "wait"
      /\ hpos[t] = off /\ Written(TaskOffset(t), off)
      /\ taskRemain[t] \in 0..LengthPerThread
  BY <1>a DEF Copy, UploadInv, UTypeOK, Running, CopyAt, NextOff
<1>e. /\ n <= taskRemain[t]
      /\ n > 0 => off + n <= FileLength
      /\ n < bufferLen => off + n >= FileLength
  BY <1>0, <1>a, <1>b, <1>c, <1>d, UploadAssumption
<1>u. UNCHANGED <<up, pconn, phandle, uconn, handle>>
  BY DEF Copy
<1>1. CASE /\ taskRemain[t] <= 0
           /\ tpc' = [tpc EXCEPT ![t] = "close"]
           /\ UNCHANGED <<taskRemain, hpos, remote, errs>>
  <2>1. Written(TaskOffset(t), RangeEnd(t))
    <3>1. RangeEnd(t) <= off
      BY <1>0, <1>1, <1>a DEF RangeEnd
    <3>. SUFFICES ASSUME NEW k \in Extent, TaskOffset(t) <= k, k < RangeEnd(t)
                  PROVE  remote[k] = k
      BY DEF Written
    <3>2. k < off
      BY <3>1
    <3>. QED
      BY <1>0, <3>2 DEF Written
  <2>2. EndedWritten'
    BY <1>1, <2>1 DEF UploadInv, EndedWritten, Written, RangeEnd
  <2>3. CopyAt'
    BY <1>1 DEF UploadInv, CopyAt, Written, NextOff
  <2>4. UTypeOK' /\ InPlace' /\ Running' /\ NotStarted' /\ OkAllDone'
    BY <1>0, <1>1, <1>u DEF UploadInv, UTypeOK, InPlace, Running, NotStarted, OkAllDone
  <2>. QED
    BY <2>2, <2>3, <2>4 DEF UploadInv
<1>2. CASE /\ taskRemain[t] > 0
           /\ remote' = WriteAt(remote, hpos[t], off, n)
           /\ hpos' = [hpos EXCEPT ![t] = @ + n]
           /\ taskRemain' = [taskRemain EXCEPT ![t] = @ - n]
           /\ tpc' = [tpc EXCEPT ![t] = IF n < bufferLen THEN "close" ELSE "copy"]
           /\ UNCHANGED errs
  <2>0. remote \in [Extent -> {None} \cup Nat]
    BY DEF UploadInv, UTypeOK
  <2>1. remote' = [k \in Extent |-> IF off <= k /\ k < off + n THEN k ELSE remote[k]]
    BY <1>0, <1>2, <2>0 DEF WriteAt
  <2>2. InPlace'
    <3>. SUFFICES ASSUME NEW k \in Extent
                  PROVE  remote'[k] = None \/ (remote'[k] = k /\ k < FileLength)
      BY DEF InPlace
    <3>1. CASE off <= k /\ k < off + n
      BY <1>e, <2>1, <3>1
    <3>2. CASE ~(off <= k /\ k < off + n)
      BY <2>1, <3>2 DEF UploadInv, InPlace
    <3>. QED
      BY <3>1, <3>2
  <2>3. UTypeOK'
    <3>1. remote' \in [Extent -> {None} \cup Nat]
      BY <2>0, <2>1
    <3>2. taskRemain' \in [Tasks -> 0..LengthPerThread] /\ hpos' \in [Tasks -> Nat]
      BY <1>0, <1>2, <1>e DEF UploadInv, UTypeOK
    <3>3. tpc' \in [Tasks -> {"idle", "acquire", "replica", "seek", "copy", "close",
                               "done", "blocked"}]
      BY <1>2 DEF UploadInv, UTypeOK
    <3>. QED
      BY <1>2, <1>u, <3>1, <3>2, <3>3 DEF UploadInv, UTypeOK
  <2>4. \A a, b \in Int : Written(a, b) => Written(a, b)'
    <3>. SUFFICES ASSUME NEW a \in Int, NEW b \in Int, Written(a, b),
                         NEW k \in Extent, a <= k, k < b
                  PROVE  remote'[k] = k
      BY DEF Written
    <3>1. remote[k] = k
      BY DEF Written
    <3>. QED
      BY <2>1, <3>1
  <2>5. Written(TaskOffset(t), off + n)'
    <3>. SUFFICES ASSUME NEW k \in Extent, TaskOffset(t) <= k, k < off + n
                  PROVE  remote'[k] = k
      BY DEF Written
    <3>1. CASE k < off
      BY <1>0, <2>1, <3>1 DEF Written
    <3>2. CASE k >= off
      BY <2>1, <3>2
    <3>. QED
      BY <3>1, <3>2
  <2>6. CopyAt'
    <3>. SUFFICES ASSUME NEW u \in Tasks, tpc'[u] = "copy"
                  PROVE  hpos'[u] = NextOff(u)' /\ Written(TaskOffset(u), NextOff(u))'
      BY DEF CopyAt
    <3>1. CASE u = t
      <4>1. NextOff(t)' = off + n /\ hpos'[t] = off + n
        BY <1>0, <1>2, <1>a DEF UploadInv, UTypeOK, NextOff
      <4>. QED
        BY <2>5, <3>1, <4>1
    <3>2. CASE u # t
      <4>1. tpc[u] = "copy"
        BY <1>2, <3>2 DEF UploadInv, UTypeOK
      <4>2. hpos[u] = NextOff(u) /\ Written(TaskOffset(u), NextOff(u))
        BY <4>1 DEF UploadInv, CopyAt
      <4>3. NextOff(u)' = NextOff(u) /\ NextOff(u) \in Int /\ hpos'[u] = hpos[u]
        BY <1>2, <3>2 DEF UploadInv, UTypeOK, NextOff
      <4>. QED
        BY <2>4, <4>2, <4>3
    <3>. QED
      BY <3>1, <3>2
  <2>7. EndedWritten'
    <3>. SUFFICES ASSUME NEW u \in Tasks, tpc'[u] \in {"close", "done"}, errs' = 0
                  PROVE  Written(TaskOffset(u), RangeEnd(u))'
      BY DEF EndedWritten
    <3>1. CASE u = t
      <4>1. n < bufferLen
        BY <1>2, <3>1 DEF UploadInv, UTypeOK
      <4>2. RangeEnd(t) <= off + n
        BY <1>e, <4>1 DEF RangeEnd
      <4>. SUFFICES ASSUME NEW k \in Extent, TaskOffset(t) <= k, k < RangeEnd(t)
                    PROVE  remote'[k] = k
        BY <3>1 DEF Written
      <4>. QED
        BY <2>5, <4>2 DEF Written
    <3>2. CASE u # t
      <4>1. tpc[u] \in {"close", "done"} /\ errs = 0
        BY <1>2, <3>2 DEF UploadInv, UTypeOK
      <4>2. Written(TaskOffset(u), RangeEnd(u))
        BY <4>1 DEF UploadInv, EndedWritten
      <4>. QED
        BY <2>4, <4>2
    <3>. QED
      BY <3>1, <3>2
  <2>8. Running' /\ NotStarted' /\ OkAllDone'
    BY <1>0, <1>2, <1>u DEF UploadInv, UTypeOK, Running, NotStarted, OkAllDone
  <2>. QED
    BY <2>2, <2>3, <2>6, <2>7, <2>8 DEF UploadInv
<1>3. CASE /\ taskRemain[t] > 0 /\ IOErrors
           /\ SendErr(t, "close")
           /\ UNCHANGED <<taskRemain, hpos, remote>>
  BY <1>0, <1>3, <1>u, SendErrFacts DEF UploadInv, UTypeOK, InPlace, Running, NotStarted, OkAllDone, CopyAt, EndedWritten, Written, NextOff, RangeEnd
<1>4. \/ /\ taskRemain[t] <= 0
         /\ tpc' = [tpc EXCEPT ![t] = "close"]
         /\ UNCHANGED <<taskRemain, hpos, remote, errs>>
      \/ /\ taskRemain[t] > 0
         /\ remote' = WriteAt(remote, hpos[t], off, n)
         /\ hpos' = [hpos EXCEPT ![t] = @ + n]
         /\ taskRemain' = [taskRemain EXCEPT ![t] = @ - n]
         /\ tpc' = [tpc EXCEPT ![t] = IF n < bufferLen THEN "close" ELSE "copy"]
         /\ UNCHANGED errs
      \/ /\ taskRemain[t] > 0 /\ IOErrors
         /\ SendErr(t, "close")
         /\ UNCHANGED <<taskRemain, hpos, remote>>
  BY <1>a, <1>b, <1>c, <1>d, Zenon DEF Copy
<1>. QED
  BY <1>1, <1>2, <1>3, <1>4


(* Every step of the caller or of a task, and every stutter, keeps UploadInv. *)
THEOREM UploadInvNext == UploadInv /\ [UNext]_upVars => UploadInv'
<1>. SUFFICES ASSUME UploadInv, [UNext]_upVars PROVE UploadInv'
  OBVIOUS
<1>1. CASE Begin \/ OpenPrimary \/ GetToken \/ Finish
  BY <1>1, CallerStep
<1>2. ASSUME NEW t \in Tasks, TaskStep(t) PROVE UploadInv'
  <2>1. CASE Copy(t)
    BY <2>1, CopyStep
  <2>2. CASE TaskAcquire(t) \/ OpenReplica(t) \/ Seek(t) \/ CloseReplica(t)
    BY <2>2, TaskControlStep
  <2>. QED
    BY <1>2, <2>1, <2>2 DEF TaskStep
<1>3. CASE UNCHANGED upVars
  BY <1>3 DEF upVars, UploadInv, UTypeOK, InPlace, Running, NotStarted, OkAllDone,
      CopyAt, EndedWritten, Written, NextOff, RangeEnd
<1>. QED
  BY <1>1, <1>2, <1>3 DEF UNext

(* UploadInv holds in every state of every behaviour of the upload.        *)
THEOREM UploadInvariant == USpec => []UploadInv
BY UploadInvInit, UploadInvNext, PTL DEF USpec

(* An upload that returns nil leaves the replica exactly the file: the     *)
(* ranges of the tasks cover the file (lines 371-383) and each was written *)
(* to its end, and nothing was written past the file's end.                 *)
LEMMA AllDoneExact ==
  ASSUME UploadInv, errs = 0, \A t \in Tasks : tpc[t] = "done", NEW k \in Extent
  PROVE  remote[k] = IF k < FileLength THEN k ELSE None
<1>. USE Arith, UploadAssumption
<1>1. CASE k < FileLength
  <2>1. k \in 0..(FileLength - 1)
    BY <1>1 DEF Extent
  <2>2. PICK u \in Tasks : TaskOffset(u) <= k /\ k < RangeEnd(u)
    BY <2>1, Cover
  <2>3. Written(TaskOffset(u), RangeEnd(u))
    BY DEF UploadInv, EndedWritten
  <2>. QED
    BY <1>1, <2>2, <2>3 DEF Written
<1>2. CASE ~(k < FileLength)
  BY <1>2 DEF UploadInv, InPlace
<1>. QED
  BY <1>1, <1>2

LEMMA InvImpliesExact == UploadInv => UploadExact
BY AllDoneExact DEF UploadExact, UploadInv, OkAllDone

(* Spec invariant 5 for the parallel upload, for every file length, task *)
(* count and buffer size: success means the replica is the file exactly.  *)
THEOREM UploadExactness == USpec => []UploadExact
BY UploadInvariant, InvImpliesExact, PTL

(* Type correctness of the upload for every file length, task count and   *)
(* buffer size: in particular taskRemain never goes below 0 because each  *)
(* chunk is clamped to it (lines 337-339), and errChan never holds more   *)
(* than numTasks errors (its capacity, line 385).                         *)
THEOREM UploadTypeCorrect == USpec => []UTypeOK
BY UploadInvariant, PTL DEF UploadInv

----------------------------------------------------------------------------
(***************************************************************************)
(* Why the primary handle is closed only after the replicas.  A replica    *)
(* handle is open only from OpenDataObjectWithReplicaToken (line 300) to   *)
(* the deferred CloseDataObjectReplica (line 305), while the task is past  *)
(* the open and has not called Done; a task that blocks on a full errChan  *)
(* after the open keeps its handle open and never calls Done.  The primary *)
(* handle is closed only after a failed GetReplicaAccessInfo, before any   *)
(* task started (line 268), or after Wait() (line 385), with every task    *)
(* done; from then on the caller has returned and no task moves.           *)
(***************************************************************************)
HandlesOpenBusy ==
  \A t \in Tasks : handle[t] = "open" => tpc[t] \in {"seek", "copy", "close", "blocked"}

PrimaryClosedQuiet ==
  phandle = "closed" => up \in {"ok", "err"} /\ \A t \in Tasks : tpc[t] \in {"idle", "done"}

HandleInv == HandlesOpenBusy /\ PrimaryClosedQuiet

(* No replica handle is open when UploadDataObjectParallel is called.     *)
THEOREM HandleInvInit == UInit => HandleInv
BY DEF UInit, HandleInv, HandlesOpenBusy, PrimaryClosedQuiet

(* Every step keeps HandleInv, given the invariant UploadInv.             *)
THEOREM HandleInvNext ==
  UploadInv /\ HandleInv /\ [UNext]_upVars => HandleInv'
<1>. SUFFICES ASSUME UploadInv, HandleInv, [UNext]_upVars PROVE HandleInv'
  OBVIOUS
<1>1. CASE Begin
  BY <1>1 DEF Begin, HandleInv, HandlesOpenBusy, PrimaryClosedQuiet
<1>2. CASE OpenPrimary
  BY <1>2 DEF OpenPrimary, HandleInv, HandlesOpenBusy, PrimaryClosedQuiet
<1>3. CASE GetToken
  BY <1>3 DEF GetToken, HandleInv, HandlesOpenBusy, PrimaryClosedQuiet, UploadInv,
      NotStarted, UTypeOK
<1>4. CASE Finish
  BY <1>4 DEF Finish, HandleInv, HandlesOpenBusy, PrimaryClosedQuiet, UploadInv, UTypeOK
<1>5. ASSUME NEW t \in Tasks, TaskStep(t) PROVE HandleInv'
  <2>1. phandle # "closed"
    BY <1>5 DEF TaskStep, TaskAcquire, OpenReplica, Seek, Copy, CloseReplica,
        HandleInv, PrimaryClosedQuiet
  <2>2. phandle' = phandle
    BY <1>5 DEF TaskStep, TaskAcquire, OpenReplica, Seek, Copy, CloseReplica
  <2>3. HandlesOpenBusy'
    <3>1. CASE TaskAcquire(t)
      BY <3>1 DEF TaskAcquire, SendErr, HandleInv, HandlesOpenBusy, UploadInv, UTypeOK
    <3>2. CASE OpenReplica(t)
      BY <3>2 DEF OpenReplica, SendErr, HandleInv, HandlesOpenBusy, UploadInv, UTypeOK
    <3>3. CASE Seek(t)
      BY <3>3 DEF Seek, SendErr, HandleInv, HandlesOpenBusy, UploadInv, UTypeOK
    <3>4. CASE Copy(t)
      BY <3>4 DEF Copy, SendErr, HandleInv, HandlesOpenBusy, UploadInv, UTypeOK
    <3>5. CASE CloseReplica(t)
      BY <3>5 DEF CloseReplica, SendErr, HandleInv, HandlesOpenBusy, UploadInv, UTypeOK
    <3>. QED
      BY <1>5, <3>1, <3>2, <3>3, <3>4, <3>5 DEF TaskStep
  <2>. QED
    BY <2>1, <2>2, <2>3 DEF HandleInv, PrimaryClosedQuiet
<1>6. CASE UNCHANGED upVars
  BY <1>6 DEF upVars, HandleInv, HandlesOpenBusy, PrimaryClosedQuiet
<1>. QED
  BY <1>1, <1>2, <1>3, <1>4, <1>5, <1>6 DEF UNext

(* HandleInv holds in every state of every behaviour of the upload.       *)
THEOREM HandleInvariant == USpec => []HandleInv
<1>1. USpec => [](UploadInv /\ HandleInv)
  BY UploadInvInit, UploadInvNext, HandleInvInit, HandleInvNext, PTL DEF USpec
<1>. QED
  BY <1>1, PTL

(* Spec section 4.4.2 for every file length, task count and buffer size:  *)
(* the primary handle is closed (lines 268 and 403) only when no replica  *)
(* handle is open, however the tasks' deferred closes interleave.          *)
THEOREM ReplicasClosedFirstThm == USpec => []ReplicasClosedFirst
<1>1. HandleInv => ReplicasClosedFirst
  BY DEF HandleInv, HandlesOpenBusy, PrimaryClosedQuiet, ReplicasClosedFirst
<1>. QED
  BY <1>1, HandleInvariant, PTL


----------------------------------------------------------------------------
(* A copy step only ever puts file bytes at their own offsets, while the  *)
(* caller waits.                                                            *)
LEMMA CopyPuts ==
  ASSUME UploadInv, NEW t \in Tasks, Copy(t)
  PROVE  /\ up = "wait" /\ up' = up
         /\ \A k \in Extent : remote'[k] = remote[k] \/ remote'[k] = k
<1>. USE Arith, UploadAssumption
<1>0. /\ up = "wait" /\ up' = up
      /\ hpos[t] = NextOff(t) /\ NextOff(t) \in Int
      /\ remote \in [Extent -> {None} \cup Nat]
  BY DEF Copy, UploadInv, UTypeOK, Running, CopyAt, NextOff
<1>1. CASE UNCHANGED remote
  BY <1>0, <1>1
<1>2. CASE \E n : remote' = WriteAt(remote, hpos[t], NextOff(t), n)
  <2>1. PICK n : remote' = WriteAt(remote, hpos[t], NextOff(t), n)
    BY <1>2
  <2>. SUFFICES ASSUME NEW k \in Extent PROVE remote'[k] = remote[k] \/ remote'[k] = k
    BY <1>0
  <2>2. remote'[k] = IF hpos[t] <= k /\ k < hpos[t] + n
                     THEN NextOff(t) + (k - hpos[t]) ELSE remote[k]
    BY <1>0, <2>1 DEF WriteAt
  <2>. QED
    BY <1>0, <2>2
<1>. QED
  BY <1>1, <1>2, Zenon DEF Copy, NextOff

(* The steps that change neither the replica nor the caller's state.      *)
LEMMA TaskControlStutters ==
  ASSUME NEW t \in Tasks,
         TaskAcquire(t) \/ OpenReplica(t) \/ Seek(t) \/ CloseReplica(t)
  PROVE  UNCHANGED <<up, remote>>
BY DEF TaskAcquire, OpenReplica, Seek, CloseReplica

(* Each step of the upload is a step of Transfer, or leaves the replica   *)
(* and the outcome as they are.                                             *)
LEMMA StepRefines ==
  ASSUME UploadInv, UploadInv', [UNext]_upVars
  PROVE  [Abs!ANext]_Abs!avars
<1>. USE DEF UPOutcome
<1>1. CASE Begin
  <2>1. CASE up' = "err"
    BY <1>1, <2>1 DEF Begin, Abs!ANext, Abs!Fail
  <2>2. CASE up' # "err"
    BY <1>1, <2>2 DEF Begin, Abs!avars
  <2>. QED
    BY <2>1, <2>2
<1>2. CASE OpenPrimary
  <2>1. CASE up' = "err"
    BY <1>2, <2>1 DEF OpenPrimary, Abs!ANext, Abs!Fail
  <2>2. CASE up' # "err"
    BY <1>2, <2>2 DEF OpenPrimary, Abs!ANext, Abs!Create, Abs!Empty, Abs!Absent, None
  <2>. QED
    BY <2>1, <2>2
<1>3. CASE GetToken
  <2>1. CASE up' = "err"
    BY <1>3, <2>1 DEF GetToken, Abs!ANext, Abs!Fail
  <2>2. CASE up' # "err"
    BY <1>3, <2>2 DEF GetToken, Abs!avars
  <2>. QED
    BY <2>1, <2>2
<1>4. CASE Finish
  <2>1. CASE up' = "err"
    BY <1>4, <2>1 DEF Finish, Abs!ANext, Abs!Fail
  <2>2. CASE up' # "err"
    <3>1. up' = "ok" /\ up = "wait" /\ remote' = remote
      BY <1>4, <2>2 DEF Finish
    <3>2. errs = 0 /\ \A u \in Tasks : tpc[u] = "done"
      BY <1>4, <2>2, Arith DEF Finish, UploadInv, UTypeOK
    <3>3. remote \in [Extent -> {None} \cup Nat]
      BY DEF UploadInv, UTypeOK
    <3>4. remote = Abs!Exact
      BY <3>2, <3>3, AllDoneExact DEF Abs!Exact, Abs!Absent, None
    <3>. QED
      BY <3>1, <3>4 DEF Abs!ANext, Abs!Succeed
  <2>. QED
    BY <2>1, <2>2
<1>5. ASSUME NEW t \in Tasks, Copy(t) PROVE [Abs!ANext]_Abs!avars
  <2>1. up = "wait" /\ up' = up
        /\ \A k \in Extent : remote'[k] = remote[k] \/ remote'[k] = k
    BY <1>5, CopyPuts
  <2>. DEFINE S == {k \in Extent : remote'[k] # remote[k]}
  <2>2. S \in SUBSET Abs!Data
    <3>. SUFFICES ASSUME NEW k \in S PROVE k < FileLength
      BY DEF Abs!Data
    <3>1. remote'[k] = k /\ k \in Nat
      BY <2>1, Arith
    <3>. QED
      BY <3>1 DEF UploadInv, InPlace, None
  <2>3. remote' = [k \in Extent |-> IF k \in S THEN k ELSE remote[k]]
    <3>1. remote' \in [Extent -> {None} \cup Nat]
      BY DEF UploadInv, UTypeOK
    <3>. QED
      BY <2>1, <3>1
  <2>. QED
    BY <2>1, <2>2, <2>3 DEF Abs!ANext, Abs!Put
<1>6. ASSUME NEW t \in Tasks,
             TaskAcquire(t) \/ OpenReplica(t) \/ Seek(t) \/ CloseReplica(t)
      PROVE  [Abs!ANext]_Abs!avars
  BY <1>6, TaskControlStutters DEF Abs!avars
<1>7. CASE UNCHANGED upVars
  BY <1>7 DEF upVars, Abs!avars
<1>. QED
  BY <1>1, <1>2, <1>3, <1>4, <1>5, <1>6, <1>7 DEF UNext, TaskStep

(* UploadDataObjectParallel implements the abstract Transfer: the replica *)
(* is created empty, receives file bytes in place, and nil is returned     *)
(* only when it is the file exactly.                                        *)
THEOREM UploadRefinement == USpec => UPRefinesTransfer
<1>1. UInit => Abs!AInit
  BY DEF UInit, Abs!AInit, Abs!Empty, Abs!Absent, None, UPOutcome
<1>2. [][UNext]_upVars /\ []UploadInv => [][Abs!ANext]_Abs!avars
  <2>1. UploadInv /\ UploadInv' /\ [UNext]_upVars => [Abs!ANext]_Abs!avars
    BY StepRefines
  <2>. QED
    BY <2>1, PTL
<1>. QED
  BY <1>1, <1>2, UploadInvariant, PTL DEF USpec, UPRefinesTransfer, Abs!ASpec

=============================================================================
