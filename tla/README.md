# TLA+ models of the go-irodsclient session and transfer engine

This directory holds TLA+ specifications of the connection-sharing session, the parallel download, the resumable parallel download and the parallel upload in `src/irods/fs/data_object_bulk.go`. It also holds an abstract specification of a bulk transfer (`Transfer`) that each engine is shown to implement, TLC configurations that model-check all of them on small instances, and TLAPS proofs for every value of the constants of the session's main invariant and of the upload's correctness and refinement.

## The system and how its parts interact

| Part | Where | What it does |
|---|---|---|
| Connection | not under `src/`; spec §4.1 | An authenticated channel with a sticky *socket-failed* flag. |
| ConnectionPool | not under `src/`; spec §4.2 | Idle list plus outstanding connections. It is bounded by `MaxCap` and `MaxIdle`. Idle connections expire lazily at `Get`. |
| IRODSSession | lines 1021-1393 | Wraps the pool with a **share map** (`sharedConnections`), transaction hygiene (`PoorMansRollback`, `poormansRollbackFail`) and one mutex. `AcquireConnection` takes from the pool, or shares the least-shared outstanding connection. `AcquireConnectionsMulti` takes up to *n* from the pool, then tops up from the share map. `ReturnConnection` and `DiscardConnection` drop one share; the last share gives the connection back. |
| Transfer engine | lines 22-1020 | Serial and parallel upload and download, and the resumable download. The parallel download partitions the object into `numTasks` ranges, takes a batch of connections from `AcquireConnectionsMulti`, and runs one goroutine per range. On a socket failure a task gives its connection back and acquires another. |
| Resume journal | not under `src/`; spec §3, §4.5 | Per-task progress file of the resumable download: entries `{StartOffset, CompletedLength}` appended after each chunk; the last entry per start offset wins on reading. |
| CLI example | `src/unnamed/part_000` | A `main` that calls one filesystem operation. |

The transfer functions call the session concurrently from many goroutines. The session calls the pool under its mutex. A connection may be held by several goroutines at once when the pool is exhausted.

## Modules

| Module | Models | State | Actions |
|---|---|---|---|
| `ConnectionPool` | pool (spec-modelled) | `connections[c] = [st ∈ {free, idle, out}, failed]` | operators returning the *set* of possible outcomes: `PoolGet`, `PoolGetNew`, `PoolReturn`, `PoolDiscard`, `PoolRelease`, `AvailableConnections`, `OpenConnections`, `PoolInitStates` |
| `Session` | IRODSSession | `shares`, `startNewTransaction`, `poormansRollbackFail`, `mutex`, `multi` (the locals of a running `AcquireConnectionsMulti`) | `Init` (NewIRODSSession with its rollback probe), `AcquireConnection(got)`, `MultiStart` / `MultiPoolGet` / `MultiPoolEnd` / `MultiShare` / `MultiFinish`, `ReturnConnection(c)`, `DiscardConnection(c)`, `Release`, `SocketFail(c)` |
| `SessionClients` | the goroutines using a session | `refs[p][c]`, the references caller `p` holds | `Acquire`, `AcquireMulti`, `MultiStep`, `MultiDone`, `Return`, `Discard`, `Fail`, `ReleaseAll` |
| `ParallelDownload` | DownloadDataObjectParallel, lines 497-729, on the shared session | `dl` (Main's progress), `slice`, per task `pc`, `taskConn`, `lastOffset`, `taskRemain`, `hpos`; the local `file`; `errs` (errChan); `sockFails` | `Begin`, `MainMulti`, `Launch`, `Finish`, per task `TaskStart`, `Open`, `Copy`, `RetryReturn`, `RetryAcquire`, `TaskExit`; other callers' `OtherStep`, `OtherFail` |
| `ResumableDownload` | DownloadDataObjectParallelResumable, lines 732-1020, and the journal (spec-modelled) | those of `ParallelDownload`, plus `jexists`, `jdisk` (entries on disk), `jbuf` (entries not yet flushed), `status` (the journal as read at start), `restarts` | `RBegin`, `RTaskStart` (start at `ResumeOffset`), `RCopy` (`Copy` plus the appended entry), `RFinish` (journal kept on error, deleted on success), `Restart` (process death and a new call on a new session), and the unchanged actions of `ParallelDownload` |
| `ParallelUpload` | UploadDataObjectParallel, lines 209-406 | `up` (the caller), `pconn`/`phandle` (primary connection and handle), per task `tpc`, `uconn`, `handle`, `taskRemain`, `hpos`; the replica `remote`; `errs` (errChan) | `Begin`, `OpenPrimary`, `GetToken`, `Finish`; per task `TaskAcquire`, `OpenReplica`, `Seek`, `Copy`, `CloseReplica` |
| `Transfer` | what every bulk transfer promises (abstract) | `dst`, `outcome` | `Create`, `Put`, `Succeed`, `Fail`, `Resume` |
| `SessionProofs`, `PoolProofs`, `UploadProofs`, `DownloadProofs`, `DownloadTypes`, `ResumeProofs` | proofs | – | lemmas and theorems below |
| `Partition` | the ceiling partition of both parallel engines (`CeilLen`) | – | arithmetic lemmas used by `DownloadProofs` |
| `MCSession`, `MCDownload`, `MCResume` | TLC instances | model values, and the properties that need sums over callers | – |

### How the session model follows the code

- **Each session method is one atomic step**, because it holds `sess.mutex` for its whole body. A step includes every pool call the method makes:
  - `getConnectionFromPool` chains `Get`, the rollback, then `Discard` and `GetNew`;
  - `ReturnConnection` ends with `Discard` or `Return`.

  This is why the pool operators return sets of outcomes: the session can chain them inside one action.
- **The exception is `AcquireConnectionsMulti`.** Its two loops are modelled one iteration per step, with `mutex` held by the caller. No other session step can run while the mutex is held. A loop that never ends appears as a state in which no session step is possible.
- **The identity of a destroyed connection returns to `free` and may be reused.** This is sound because no share or reference survives destruction: `ShareMapAgreement` below proves it.
- **Rollback failure and connection failure are nondeterministic.** Whether a rollback fails is the constant `RollbackMayFail`; whether creating a connection fails is `ConnectMayFail`. Which idle connections have expired is any subset.

### How the download model follows the code

- **The remote object's byte at offset k is the value k.** The local file maps each offset to the remote offset written there, or to `None`. Each remote request on a connection is one step, because the connection lock serializes them.
- **`Open`** is `OpenDataObject` plus the seek when `lastOffset > 0`.
- **`Copy`** is one iteration of the copy loop:
  - a read returns 1 to `bufferLen` bytes, possibly short;
  - EOF is returned only at the end of the object, with or without data;
  - the write goes to `taskOffset + (taskLength - taskRemain)`;
  - the `len(errChan)` early abort follows the write.
  - what the object still holds past the handle is `FileLength - hpos` when the handle is before the end, and 0 otherwise, so a read at or past the end returns no data.
- **Every trial error goes through the `IsSocketFailed` test** (`TrialFailed`). A failed socket leads to `RetryReturn` (ReturnConnection), then to `RetryAcquire` (AcquireConnection). Any other error goes to `errChan`.
- **`TaskStart` reproduces the panic.** `connections[taskID]` panics when the slice is short; `dl = "crash"` then freezes every process.
- **`TaskExit` is the deferred function.** `wg.Done()` happens on the way to `done`, and `ReturnConnection` happens afterwards. `Finish` therefore waits only for `done`.
- **The other callers do not wait for the download.** They acquire, fail, return and discard connections through the same session as in `SessionClients`, so batch and retry connections may be shared with them.
- **Progress callbacks, logging and the resource default are left out.** No property is about them.

### How the resumable download model follows the code

- **Only the local file and the journal outlive the process.** `Restart` (at most `MaxRestarts` times, whenever the call has not returned nil) keeps `file` and `jdisk` plus any prefix of `jbuf` (a torn last entry is dropped by the reader), and starts a new session and a new call. This covers a kill, the panic of line 821, and a user running the call again after an error.
- **`RBegin` is lines 739-810.** An empty object is `os.Create` and success. Otherwise the journal is read (`status`), created or reopened keeping its entries, and the local file is opened with `O_RDWR|O_CREATE` and *not truncated* (line 790).
- **A task starts at `ResumeOffset`**, `StartOffset + CompletedLength` of the last entry for its `taskOffset` (lines 840-847), with `taskRemain` reduced to match.
- **`RCopy` appends `StatusEntry` after the write** (lines 913-926), with `CompletedLength = (taskLength - taskRemain) + bytesRead` computed from `taskRemain` before it is decremented.
- **`RFinish`** closes (flushes) and keeps the journal when errChan is non-empty, and deletes it on success (lines 1002-1019).
- A change of `taskNum` between calls is not modelled: line 774 makes the journal's thread count win, so the partition is the same on every call.

### How the upload model follows the code

- **The local file's byte at offset k is the value k; `remote` maps each remote offset to the file byte there.** Each remote request and each local read is one step.
- **The caller:** `Begin` is the fallbacks to the serial `UploadDataObject` (no parallel support, empty file, one task; the model stops in `"serial"`), a failing `os.Stat` or acquisition, and the unmanaged connection of the primary handle (lines 215-256). `OpenPrimary` opens with `"w+"`, which truncates the replica. `GetToken` gets the replica token and starts the tasks; on failure the primary handle is closed. `Finish` is `Wait`, the primary close, and the return of the first queued error (lines 385-405).
- **A task** acquires its own unmanaged connection, opens its replica handle, opens the local file and seeks the handle to `taskOffset` (a failed or misplaced seek is an error), then copies: a `ReadAt` of `min(bufferLen, bytes left in the file)` bytes at `taskOffset + (taskLength - taskRemain)` and a `Write` at the handle's position. EOF ends the loop. A read or write error ends it and is queued at line 367. A read error after a partial read is modelled as the error alone.
- **The deferred calls run in reverse order** (`CloseReplica`): `CloseDataObjectReplica`, whose error is queued (line 308); `DiscardConnection`, which leaves an unmanaged connection open; then `taskWaitGroup.Done()`.
- **`errChan` has capacity numTasks and nobody reads it before `Wait` returns.** `SendErr` models a send: on a full channel the task is `"blocked"` for ever, before its `Done`.

### The abstract Transfer and the refinements

`Transfer` states what every engine promises. The destination starts empty (`Create` may truncate it again while running). Bytes of the source are `Put` at their own offsets below the source's length, in any order and grouping. `Succeed` only on the exact source, or for an empty one. `Fail` at any time while running. `Resume` after a failure only for a resumable transfer. Each engine instantiates it with its destination and an outcome mapping of its caller state:

- `DLRefinesTransfer`: the download's `file`, with `ok` → ok, `err`/`crash` → failed;
- `RDRefinesTransfer`: the same with `Resumable <- TRUE`; a restart after a failure is `Resume`, and a restart while running is a stutter;
- `UPRefinesTransfer`: the upload's `remote`, with `ok` → ok, `err` → failed.

TLC checks all three on their runs, and `UploadRefinement` proves the upload's for every value of the constants.

The source calls `AcquireConnectionsMulti(numTasks, false)` (line 550) on a method declared with one parameter (line 1247). The model treats it as a call with `numTasks`.

## Runs

| Run | cfg | Expect | What it shows |
|---|---|---|---|
| `session_core` | `MCSession.cfg` | pass | Two callers and a pool of capacity 2 (3 identities, 1 initial, 1 idle max). Batches of up to 3 are requested; rollback and connection creation may fail, which exercises the Discard-then-GetNew failure of `getConnectionFromPool`. Properties: `TypeOK`; `SharedIffOutstanding` (share entry ⇔ outstanding in the pool); `SharesCoverRefs` (no connection is given back while a caller holds it); `PoolBounds`. Deadlock checking is off because of the spin found by `session_multi_spin`; that run checks `MultiReleasesMutex` (the batch call returns). |
| `session_share_leak` | `MCSessionShareLeak.cfg` | violation | `SharesMatchRefs`: once no method is running, the shares equal the references held. Violated. See findings. |
| `session_multi_spin` | `MCSessionMultiSpin.cfg` | violation | `MultiReleasesMutex` with connection failures. Violated. See findings. |
| `download` | `MCDownload.cfg` | pass | A 3-byte object, 2 tasks, 2-byte chunks, so the last range runs past the end and must stop at EOF. One socket failure and other I/O errors may occur, and one other session user is present. Properties: `DLTypeOK`; `WritesInPlace` (every byte written lands at its own offset); `DownloadExact` (success ⇒ byte-exact file, spec §8.4); `DLInv` (the inductive invariant of `DownloadProofs`); `DownloadTerminates` (with the whole batch from the pool and a free slot for every retry, every task ends and Main returns: socket failures are retried on fresh connections, other errors end the task; the pool's capacity of 3 never sends the batch call into its share pass, and the spin and stale-retry cases are the subject of `session_multi_spin` and `download_stale_retry`); `DLRefinesTransfer`. |
| `download_index_panic` | `MCDownloadIndexPanic.cfg` | violation | `NoCrash` with a pool of capacity 2. Violated. |
| `download_stale_retry` | `MCDownloadStaleRetry.cfg` | violation | `FreshAfterRetry` (an action property: the connection a retry obtains is not socket-failed). Violated. |
| `resume` | `MCResume.cfg` | pass | The download of the `download` run made resumable, without other callers, with one socket failure and one process death at any step. Properties: `RDTypeOK`; `JournalSound` (every entry, flushed or not, claims only bytes the local file holds); `ResumeExact` (success ⇒ byte-exact file and journal deleted, across deaths); `RInv` (the inductive invariant of `ResumeProofs`); `RDRefinesTransfer`. About 650,000 states. |
| `resume_stale_tail` | `MCResumeStale.cfg` | violation | `ResumeExact` when `localPath` already holds an older, longer file. Violated. |
| `upload` | `MCUpload.cfg` | pass | A 5-byte file, 2 tasks, 2-byte buffers, every request, read and replica close able to fail. Properties: `UTypeOK`; `ReplicasClosedFirst` (the primary handle is closed only after every replica handle, spec §4.4.2); `UploadExact` (success ⇒ the replica is the file exactly); `UploadInv` (the inductive invariant of the proofs); `UPRefinesTransfer`. |
| `upload_live` | `MCUploadLive.cfg` | pass | `UploadTerminates` when replica closes cannot fail: each task queues at most one error and `Wait` returns. |
| `upload_errchan_block` | `MCUploadBlock.cfg` | violation | `UploadTerminates` when replica closes can fail. Violated. |
| `upload_unmanaged_leak` | `MCUploadLeak.cfg` | violation | `UnmanagedDiscarded` (the upload's connections are closed when it returns, spec §8 scenario 2). Violated. |

Every property of a passing run has a mutant in `PROJECT.json`: a plausible bug in the mapped code that TLC catches with that run.

| Mutant | Property it breaks |
|---|---|
| off-by-one in `connectionsInNeed` | `TypeOK` |
| `ReturnConnection` keeps the entry | `SharedIffOutstanding` |
| no share increment when sharing | `SharesCoverRefs` |
| `Return` ignoring `MaxIdle` | `PoolBounds` |
| an error sent without `return` | `DLTypeOK` |
| no seek after a retry | `WritesInPlace` |
| floor instead of ceiling partition | `DownloadExact` |
| retrying every error | `DownloadTerminates` |
| no seek after a retry | `DLRefinesTransfer` |
| `Open` never seeks to `lastOffset` | `DLInv` |
| resume offset without `StartOffset` | `RInv` |
| resume offset without `StartOffset` | `RDTypeOK` |
| journal entry counted after `taskRemain` is decremented | `JournalSound`, `RDRefinesTransfer` |
| journal kept after success | `ResumeExact` |
| `bufferLen` not clamped to `taskRemain` | `UTypeOK` |
| `Done` before the replica close | `ReplicasClosedFirst` |
| floor partition in the upload | `UploadExact`, `UPRefinesTransfer` |
| replica handle not seeked to `taskOffset` | `UploadInv` |
| errChan one slot smaller | `UploadTerminates` |

### Bounds

- **3 connection identities against `MaxCap` 2.** The pool can fill, an idle connection can be evicted while another is out, and identities are reused. A third identity lets `GetNew` after `Discard` pick another.
- **2 callers.** Sharing needs two holders.
- **Batches up to 3 (more than the capacity)** force the share pass.
- **`MaxShares` 4** is a model bound on share counts. It is needed because the leak makes them grow without limit.
- **For the download, 3 bytes in 2 tasks with 2-byte chunks** exercise:
  - the ceiling partition: ranges [0,2) and [2,4);
  - chunks shorter than the buffer;
  - EOF inside a range.

  One socket failure and arbitrary other errors exercise retry and abort.
- **The resume run** keeps the download's 3 bytes and 2 tasks, with one death (`MaxRestarts` 1): a death can fall between any write and its entry's flush, and a second call then resumes from the journal. More deaths only repeat that case and cost minutes.
- **The upload runs use 5 bytes in 2 tasks with 2-byte buffers.** The ranges are [0,3) and [3,6): each has a full and a short chunk, the second ends at EOF past the file's end, and an unclamped buffer would overrun a range (3 bytes would not show that). Two tasks are enough to fill errChan with two double sends.
- **The passing download run uses `MaxCap` 3.** The batch then gets distinct connections, and the findings below show what happens at capacity 2.

### Fairness

- **`AcquireConnectionsMulti` keeps running** (weak fairness on `MultiStep` and `MultiDone`). A goroutine inside a mutex-held loop is never descheduled for ever. `session_multi_spin` relies on this: the loop is always enabled and still never ends.
- **Main and the download tasks are goroutines that keep running while they can.** Weak fairness applies to each task's steps and to Main's.
- **The upload's caller and each of its tasks keep running** (weak fairness on each), for the same reason. A task blocked on a full errChan is not enabled, so fairness does not unblock it: that is the finding.
- **A process death is never forced** in the resume run; fairness is that of the download.
- **The other callers have no fairness.** Whether they ever return a connection is up to the application.

## Findings

1. **Share leak in `AcquireConnectionsMulti` (line 1296), `session_share_leak`.** The share pass increments the count of a connection already in the batch. The batch is a set, so the caller receives that connection once but it has two shares. After every caller returns what it received, the connection stays in the share map and never goes back to the pool. Spec §4.3 and scenario 6 say the map empties.
2. **`AcquireConnectionsMulti` can spin for ever holding the mutex (line 1292), `session_multi_spin`.** This happens when the pool fails and the share map is empty. `AcquireConnection` fails cleanly in the same situation; the multi variant has no failure path.
3. **Index-out-of-range panic in the parallel download (line 563), `download_index_panic`.** The deduplicated slice is shorter than `numTasks` whenever the batch had to share. The trace: another caller holds `c1`, and the batch gets `c3` from the pool and shares `c3` again, so its slice is `⟨c3⟩`. Task 1 then panics. Spec §4.3 says callers must tolerate fewer connections.
4. **A retry can get the failed connection back (line 690), `download_stale_retry`.** This happens when another caller still shares the connection and the pool is at capacity. `AcquireConnection`'s least-shared choice may return the same failed socket. Spec §4.4.3 and scenario 4 say the retry uses a fresh connection. While the other holder keeps the connection, the retry loop can repeat indefinitely.

5. **A resumed download keeps the tail of an older file (line 790), `resume_stale_tail`.** The local file is opened with `O_RDWR|O_CREATE` and never truncated, so when `localPath` held a longer file the call returns nil with the object's bytes followed by the old tail. Spec §8 invariant 5 says the file is byte-exact.
6. **The upload can hang in `Wait` (line 308), `upload_errchan_block`.** A task can queue its copy error (line 367) and then the error of its deferred `CloseDataObjectReplica`. errChan holds only numTasks errors and is read only after `Wait`, so with two tasks each failing twice the second send blocks before the deferred `Done` (line 283).
7. **The upload never closes its connections (lines 252, 291), `upload_unmanaged_leak`.** `AcquireUnmanagedConnection` gives connections that are not in the share map, and `DiscardConnection` (lines 1351-1369) does nothing for those. Spec §8 scenario 2 says they are discarded.

## Proofs (`SessionProofs.tla`, checked by `tlapm`)

The proofs assume the named assumptions `PoolAssumption`, `SessionAssumption` and `ClientsAssumption`, which TLC also evaluates on every run. In particular, `Conn` must be finite.

- **`TypeCorrect`: `ClientsSpec => []TypeOK`.**
- **`ShareMapAgreement`: `ClientsSpec => []SharedIffOutstanding`.** Both hold for every pool size, initial, idle and maximum capacity, set of callers, `MaxMulti`, `MaxShares`, and every transaction setting.

Both rest on the inductive invariant `IInv == TypeOK /\ MultiInv /\ ShareIffOut`, where:
- `ShareIffOut` is `SharedIffOutstanding` stated with the pool's `Outstanding` set;
- `MultiInv` says that in the pool phase of `AcquireConnectionsMulti`, `Cardinality(got) <= i <= n`.

`MultiInv` is needed because without it, `connectionsInNeed = n - len(connections)` is not known to be a natural number.

`InitIInv` proves `ClientsInit => IInv`. The probe in `NewIRODSSession` gets a connection and gives it back, so nothing is outstanding.

`NextIInv` proves that every step preserves `IInv`. It has one lemma per action: `AcquireIInv`, `AcquireMultiIInv`, `MultiPoolGetIInv`, `MultiPoolEndIInv`, `MultiShareIInv`, `MultiDoneIInv`, `ReturnIInv`, `FailIInv` and `ReleaseIInv`. These rest on lemmas about the pool operators, each stated once:
- `DestroyFacts`, `GetNewFacts`, `GetFacts`, `ReturnFacts`;
- `ReplaceFacts` and `FromPoolFacts` for `getConnectionFromPool`;
- `ShareExistingFacts`, `LastShareFacts`.

The central fact is `OutcomeOK`: a successful pool call adds exactly one new outstanding connection, and a failed one leaves the outstanding set alone.

The session calls themselves have their own lemmas, stated apart from the callers' `refs`: `AcquireConnIInv`, `MultiStartIInv`, `MultiFinishIInv`, `ReturnConnIInv` and `SocketFailIInv`. The caller lemmas above use them, and so does `DownloadTypes` for the download's own calls.

## Proofs (`PoolProofs.tla`, checked by `tlapm`)

- **`PoolBoundsThm`: `ClientsSpec => []PoolBounds`.** This holds for every pool configuration and set of callers. `PoolBounds` is stated in `SessionClients`: at most `MaxCap` connections are open and at most `MaxIdle` are idle.

`Bounded(cs)` states the same two bounds for any pool state. Each pool operator keeps it, with one lemma per operator:
- `DestroyBound`;
- `GetNewBound`, which needs a free slot or no idle connection, as the code's guard gives;
- `GetBound`, which evicts idle connections first;
- `ReplaceBound`: the replacement path of `getConnectionFromPool` discards the failed connection before `GetNew`, and that frees the slot it uses;
- `ReturnBound`, where an idle connection over `MaxIdle` is destroyed;
- `FromPoolBound`, `FailBound` and `GiveBackBound`.

`Bounded` alone is not inductive. `ReturnConnection` may only give back an outstanding connection, and that takes `ShareIffOut` from `IInv`. So the theorem proves `IInv /\ Bounded(connections)` inductive (`NextBound`).

## Proofs (`UploadProofs.tla`, checked by `tlapm`)

These assume only `UploadAssumption`: `FileLength ∈ Nat`, `AutoNumTasks ≥ 1`, `BufSize ≥ 1`, `TaskNum ∈ Int`.

- **`UploadInvariant`: `USpec => []UploadInv`.**
- **`UploadExactness`: `USpec => []UploadExact`.**
- **`UploadRefinement`: `USpec => UPRefinesTransfer`.**

`UploadExact` is not inductive: a state where the caller returns nil says nothing about how the bytes got there. The strengthening `UploadInv` says:
- `InPlace`: the replica holds only file bytes, each at its own offset below the file's length;
- `Running` and `NotStarted`: tasks run only while the caller waits;
- `CopyAt`: a copying task's handle is at `NextOff`, the local offset it reads next, and its range is written up to there (this is what the seek of line 319 and the write after `ReadAt` keep true);
- `EndedWritten`: a task that ended while errChan is empty wrote its range up to the end of the file;
- `OkAllDone`: nil is returned only with every task done and errChan empty.

`UploadInvInit` and `UploadInvNext` prove it initial and inductive, with one lemma per group of actions (`CallerStep`, `TaskControlStep`, `CopyStep`). `CopyStep` does the arithmetic of a chunk: `n ≤ taskRemain`, `n > 0 ⇒ off + n ≤ FileLength`, and a short chunk reaches the end of the file. `UploadExact` follows with `Cover` (the ceiling partition covers `[0, FileLength)`, from `RangesCoverFile`: `FileLength ≤ numTasks * lengthPerThread`). The refinement maps each step (`StepRefines`): `OpenPrimary` is `Create`, a `Copy` is a `Put` of the bytes it changed (`CopyPuts`), `Finish` with nil is `Succeed` (by `AllDoneExact`), every error return is `Fail`, and the other steps are stutters.

- **`ReplicasClosedFirstThm`: `USpec => []ReplicasClosedFirst`.** `ReplicasClosedFirst` is not inductive either: it says nothing about a task that still holds its handle when the caller reaches `Finish`. The strengthening `HandleInv` says:
  - `HandlesOpenBusy`: a replica handle is open only while its task is past `OpenDataObjectWithReplicaToken` and has not called `Done` (`seek`, `copy`, `close`, or `blocked` on a full errChan with the handle still open);
  - `PrimaryClosedQuiet`: once the primary handle is closed, the caller has returned and every task is `idle` or `done`.

  `HandleInvNext` proves it inductive relative to `UploadInv`: the failure of `GetReplicaAccessInfo` needs `NotStarted`, and the type invariant bounds `tpc`. `HandleInvariant` combines the two invariants by PTL.
- **`UploadTypeCorrect`: `USpec => []UTypeOK`.** This follows from `UploadInv`:
  - `taskRemain` stays in `0..lengthPerThread`, because each chunk is clamped to it;
  - errChan holds at most `numTasks` errors.

## Proofs (`DownloadProofs.tla` and `Partition.tla`, checked by `tlapm`)

These assume `DownloadAssumption` and the session's assumptions. `Partition` proves the arithmetic of the ceiling partition for every length and task count: `CeilLenNat`, `CeilLenCovers` (`F ≤ N * ceil(F/N)`), `DivBounds`, and `PartsCover` (every offset below `F` lies in one task's range).

- **`DLInvariant`: `DLSpec => []DLInv`.**
- **`WritesInPlaceThm`: `DLSpec => []WritesInPlace`.**
- **`DownloadExactness`: `DLSpec => []DownloadExact`.**

The inductive invariant is `DLInv == DLCore /\ file ∈ [Extent -> {None} ∪ Nat]`. `DLCore` holds the types of the download's state together with:
- `InPlace`: every byte in the local file is the remote byte of its own offset, below the object's length;
- `TasksIdle`: no task moves before `Launch`;
- `AtLastOffset`: between trials and inside one, `lastOffset` is the next offset to fetch, the task's range is written up to it, and a copying trial's handle is there;
- `EndedWritten`: a task that ended while errChan is empty wrote its range up to the end of the object;
- `OkAllEnded`: success on a non-empty object is returned only with every task ended and errChan empty.

`DLCore` leaves the file's range open so that `ResumeProofs` can reuse it with `Stale` bytes. Each step lemma (`MainStep`, `StartStep`, `ControlStep`, `CopyStep`) proves `DLCore'` and `FileStep`, which says each byte stays, becomes `None`, or becomes a natural number. `FileValsKept` then turns `FileStep` into the file's range for any set of initial values. `AtLastOffset` is needed because a retry re-opens the object at `lastOffset` (lines 612-626): without the seek the next write lands at the wrong offset. `DownloadExact` follows from `DLInv` and `PartsCover`.

## Proofs (`DownloadTypes.tla`, checked by `tlapm`)

- **`DownloadTypeCorrect`: `DLSpec => []DLTypeOK`.** The download runs on a session shared with other callers. `DLTypeOK` includes the session's `TypeOK`, so the proof carries the session invariant `IInv` through the download's own session calls:
  - Main's `AcquireConnectionsMulti`;
  - a task's `ReturnConnection` and `AcquireConnection` on retry;
  - the deferred `ReturnConnection`;
  - the socket failures of its requests.

The inductive invariant is `DTInv == DLInv /\ DTPart`. `DTPart` adds these conjuncts:
- `IInv`;
- `TaskConns`: the slice and every task's connection belong to `Conn`, or are `NoConn`;
- `ConnHeld`: a task in `open`, `copy` or `retry` holds a real connection. Without it, the retry's `ReturnConnection(taskConn)` is not a session step;
- `ErrsBound`: errChan holds at most as many errors as there are ended tasks, because each send is followed by `return`. With `Cardinality(Ended) <= numTasks` (`EndedFinite`), this bounds `errs`;
- the bound on `sockFails`.

There is one lemma per action: `BeginPart`, `MainMultiPart`, `LaunchPart`, `QuietPart`, `StartPart`, `RequestPart` (for `Open` and `Copy`), `RetryReturnPart`, `RetryAcquirePart` and `TaskExitPart`. Each assumes only `DTCore == DLCore /\ DTPart`, so `ResumeProofs` reuses them.

`LaunchPart` shows the slice is a sequence of connections: it is read off a bijection onto the batch. `ErrsStep` and `HeldStep` state once what a task's move does to `ErrsBound` and `ConnHeld`. TLC checked `DTInv` on the `download` constants before the proof (about 110,000 states).

## Proofs (`ResumeProofs.tla`, checked by `tlapm`)

These add `ResumeAssumption` to the assumptions above.

- **`RInvariant`: `RSpec => []RInv`.**
- **`JournalSoundness`: `RSpec => []JournalSound`.**
- **`ResumeExactness`: `~StaleLocal => (RSpec => []ResumeExact)`.**

`RInv` extends `DLCore`, with `Stale` allowed in the file, by these conjuncts:
- `EntriesSound`: every journal entry, on disk or buffered, claims only bytes the file holds;
- `StatusSound`: the journal read at start claims only written bytes;
- `StaleOnlyAtFirst`: `Stale` bytes exist only when the file started stale;
- `JournalClosed`: an empty object never has a journal, and success deletes it.

These survive `Restart`, which keeps the file and a prefix of the journal. That is why a resumed task may start at `ResumeOffset` with its range already written below it. The resume offset is the entry with the largest index for its task offset (`MaxIndex`, proved with `WFMin` over `Nat`).

`ResumeExactness` needs `~StaleLocal`. The run `resume_stale_tail` shows that it is false otherwise: bytes of an older, longer file past the object's end survive a successful call.

- **`ResumeTypeCorrect`: `RSpec => []RDTypeOK`.** The inductive invariant is `RTInv == RInv /\ DTPart`, with the journal flag and the bound on `restarts`. The task and session steps are proved by the lemmas of `DownloadTypes`. `RMainPart` covers `RBegin` and `RFinish`. `RestartPart` covers a death of the process: the new process's session satisfies `ClientsInit'`, and `InitIInvAlways` (`[](ClientsInit => IInv)`, from `InitIInv` by PTL) gives `IInv'`. Every task is idle again and holds no connection. TLC checked `RTInv` on the `resume` constants before the proof (about 650,000 states).

**Only model-checked:**
- The liveness properties (`MultiReleasesMutex`, `DownloadTerminates`, `UploadTerminates`). TLAPS does not handle fairness and `ENABLED` here.
- The refinements `DLRefinesTransfer` and `RDRefinesTransfer`. Their step maps need the whole of `DLInv`/`RInv` plus the abstract `Transfer`'s `Put` for every `WriteAt`. They remain the next proofs to write, and TLC checks them on the `download` and `resume` runs.
- `SharesCoverRefs`, which sums over callers with `SumFunction`. That is a fold defined by `RECURSIVE` operators, which a module with theorems may not reach.

## Not modelled, and the plan

- **Serial transfers (lines 52-205, 409-488)**: one connection and a sequential loop, with no interleaving of their own. The parallel engines' fallback to them ends in `"serial"`.
- **`Release` racing the late `ReturnConnection` of download tasks** (line 566): the owner does not call `Release` while tasks run in the download model.
- **Proofs still to do:** the download refinements step by step, and an action property of the session (for instance that `ReturnConnection` never leaves a share on a connection back in the pool).
- **Left out, with reasons:**
  - `CloseDataObjectReplica` is a single request;
  - the CLI example is sequential I/O;
  - the journal's file format, the wire protocol, timestamps and progress callbacks matter to no property.
