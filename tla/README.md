# knowledge-sync: TLA+ models, model checking and proofs

`knowledge-sync` keeps local trees of Markdown notes and a Google Drive folder
in step.  Durable facts live in one SQLite database; short-lived CLI commands,
one watcher per profile and one worker communicate through it, through lock
files and through a Unix socket.  This directory holds TLA+ modules that model
the control of that system, the TLC configurations that check them on small
instances, and proofs, checked by TLAPS, of the properties that matter most.

## 1. Inventory

### The processes

| Process | Started by | What it does |
|---|---|---|
| CLI command | the operator, launchd (`reconcile-scheduled`) | writes intent, profiles, policies, prune approvals; waits for results |
| watcher, one per profile | launchd | turns fswatch events into durable events, debounces, asks for reconciles |
| worker, a singleton | launchd | claims and executes runs; fast lane, prune lane, derived lane; finalises deletions; serves the live socket |

Every command and process opens the same SQLite file.  A transaction is atomic;
a *handler* is usually several transactions.  The operations `ignore *`,
`prune`, `purge-remote` and `profile enable/disable/remove/migrate` and a worker
pass hold the profile's lock file; recording events, `sync`,
`reconcile-now`, `reconcile-scheduled`, `profile restore` and the compiler's
commands do not.

### The components

| Component | State | Operations | Hard behaviour | What makes it correct | Module |
|---|---|---|---|---|---|
| Durable reconciliation intent (`state/syncstate.go`, `intent.go`, `retry.go`) | `profile_sync_state`, running rows of `sync_runs` | record intent (eight writers), claim, commit success/failure, orphan | intent during a run, retries, crash in a run, one-attempt overrides | success credited to what was claimed; no debt lost; one owner per run; gates kept | `SyncIntent`, `Intent` |
| Pending events (`state/events.go`) | `profile_runtime.source_generation`, `pending_events` | record safe/full, promote, clear versions, delete covered | stale generations, rows recorded between a read and a clear | no event vanishes unserved | `SyncIntent`, `Mirror` |
| Watcher (`watch/watcher.go`, `cli/watch.go`) | debounce window (memory), durable window | record, fire a batch, schedule a reconcile, stop/start | its window is memory; three statements per reconcile | what it reported is durable | `SyncIntent` |
| Worker pass (`cli/worker.go`, `cli/fastupsert.go`) | what it holds of the claimed run | recover, finalise deletions, lock, claim, execute, commit, fast lane | crash at any step, failed writes, stale lists | see intent; no attempt runs for a tombstoned profile | `SyncIntent`, `Mirror` |
| Profile lifecycle (`cli/profile.go`, `state/profiles.go`) | `enabled`, `deletion_requested_at`, `tombstoned` | enable, disable, remove, restore, migrate, forget | deletion against a running attempt; commands of several statements | an accepted deletion is kept and finalised | `SyncIntent` |
| Ignore policy commit (`state/policy.go`, `cli/ignore.go`) | policy rows, intent, refresh markers | commit a snapshot | moves a pending manual request; invalidates prune work | every changed policy is served by a later run | `SyncIntent` (intent), `Mirror` (refresh, ledger) |
| Profile and worker locks (`flock/lock.go`) | a lock file with a pid | acquire, recover a stale file, release | create and write are two steps; two recoverers | one holder, of those whose file nobody removed | `FileLock` |
| Remote leases (`state/leases.go`) | `remote_operation_leases` | wait, promote, renew, release | dead owners, expiry, machines that sleep | at most N operations that are renewed in time per remote; the queue moves | `RemoteLease` |
| Reconciler and transfer (`sync/*.go`) | none durable | scan, preflight, transfer, verify, second scan | files change during a transfer | a reported success covers what it claims: no change is lost | `Mirror` |
| Managed ledger (`state/manifest.go`, `state/policy.go`) | `manifest_*` rows | disappearances, suppression, delete budget | re-creation between proof and delete | only proven deletions are executed, within the budget; ledger and policy agree | `Mirror` |
| Prune (`state/prune*.go`, `cli/prune*.go`) | `prune_requests`, operations, batches | preview, approve, execute, invalidate, discover | approval against policy change and crash | only what was approved under the current policy is removed; the ledger forgets only what is gone | `Prune` |
| Derived lane (`state/compiler.go`, `derived/publisher.go`, `cli/compiler.go`) | compiler rows, generation pins | compile, publish, clean | compile/clean against publication | a pinned generation is not removed; `current` is true of the remote; a desire is served or refused | `Derived` |
| Live hub (`live/*.go`) | subscribers, revisions | subscribe, publish, snapshot | ordering of snapshot and frames, slow readers | frames are numbered upwards, the newest is never dropped, nobody waits for a slow client, waiters and `Stop` end | `LiveHub` |
| Priority job queue (`sched/scheduler.go`) | queues in memory | submit, run in a slot | - | no code calls it: the leases bound concurrency | not modelled |
| Compiler, filters, remote, exec, schema, launchd, rendering | - | pure text, I/O | - | - | not modelled (section 8) |

### The hazards

`PROJECT.json` lists each with its line.  In short: intent recorded while a run
executes; eight writers of one generation, some with a value read earlier; a
worker that dies inside a run; recovery that works on a list read once; the
four statements of `finalizeDeletions` outside any lock; failed writes that
leave a row `running`; the one-attempt delete override matched by equality; two
generation counters advanced by different commands; a fast lane that reads
first and clears after an upload; a command that waits for the worker under the
lock the worker needs; a lock file that exists before its owner's pid is in it;
a lease queue with dead callers; files and a policy that change between a
run's scans, its transfer and its ledger update; deletions proven early and
executed late; prune approvals that outlive their policy, or are given again while
the request runs; a prune pass that dies between a deletion and its checkpoint;
a compile, a clean and a publication of the same generation, each of which may
stop half-way; a desire that changes while an older one is being published; and
a subscription that overlaps with publications, slow clients and the server's
end.

## 2. Modules

**`Intent`** is what a profile promises, on three variables: `want` (the
generation asked for), `done` (the generation some successful execution
covered) and `attempt` (the generations of running attempts).  Intent may grow at any time, an
attempt starts at `want` if `want > done`, success credits the attempt's own
generation, and an attempt may end without effect.  `SyncIntent` and `Mirror` implement
it, with the same columns for `want` and `done`: the one has the control, the other the
data of the same attempts.

**`Slots`** is a resource of which at most `Limit` users have a share at a time, a share
being lost with its user.  `FileLock` implements it with one share, `RemoteLease` with the
configured number; the profile lock as `SyncIntent` uses it, with one share, implements
the same specification.  Several users may lose their shares together (`Lapse`): a machine
that sleeps takes the leases of all its operations.

**`Publication`** is what the derived lane promises to its readers: what a remote namespace
shows changes only during an attempt and only towards what was desired when the attempt
began, in between it is recognisable as incomplete, and it counts as current only if the
attempt ended with it as it is still desired.  `Derived` implements it.

**`SyncIntent`** is the detailed model of one profile: the columns of
`profiles`, `profile_runtime` and `profile_sync_state`, the running rows of
`sync_runs`, `pending_events`, the profile lock, and the program counters and
memory of the worker (`wpc`, `run`, `wgen`, `snap`, `listed`), of the watcher
(`hpc`, `hgen`, `win`, `todo`) and of a CLI command of several transactions
(`cpc`, `cgen`, `asRead`).  A step is one SQL transaction (or one step in a process's
memory), so every interleaving of transactions of the three processes is a
behaviour.

| Code | Model |
|---|---|
| `CreateProfileWithPolicy` | `Init` |
| `recordEvent` | `RecordSafe`, `RecordFull` |
| `fireBatch`, `PromoteToFullReconcile`, `OnReconcile`, `OnBatch` | `FireBatch`, `Promote`, `ScheduleRead/Ensure/Window`, `BatchRecord` |
| `SubmitManualReconcile`, `SubmitScheduledReconcile`, `CommitIgnoreSnapshot` | `SubmitManual`, `SubmitScheduled`, `CommitPolicy` |
| `profile enable/disable/remove/restore/migrate` | `Enable`, `Disable`, `Remove`, `RestoreBegin/End`, `MigrateRead/Begin/Cutover/Submit/Fail/End` |
| `runWorker`, `workerRecover`, `OrphanCurrentRun` | `WorkerStart`, `Recover` |
| `finalizeDeletions` | `FinalizeScan`, `ClearPending`, `TombstoneProfile`, `CancelProfileDeletion`, `FinalizeFail` |
| `runWorkerPass`, `loadOwnedExecutionState` | `PassScan`, `PassLock`, `LoadOwned`, `Unlock` |
| `claimRun` | `ClaimRun`, `NotClaimed` |
| `markDirtyIfChangedProtected` | `SourceClean`, `SourceDirty`, `EnsureDirty` |
| `CommitRunSuccess`, `CommitRunFailure`, `commitFailure` | `CommitRunSuccess`, `CommitRunFailure`, `AbandonRun` |
| `runFastUpsertBatchAt`, `ClearPendingEvents` | `FastList`, `FastBegin`, `FastSkip`, `FastFail`, `FastCommit` |

Data is abstracted to what the properties tell apart: an event is safe or not; a
path is a model value; a timestamp is a timer that counts down to 0; a failure
is one of the three retry classes; an override is a number.  Forced commands
that continue when a launchd job survives, ignored errors, and events recorded
by a watcher of a profile that was removed meanwhile are kept.

A command tests the profile (`requireProfile`) on a row it read before it took the
lock and before the statement that writes, and no later statement repeats the test, so
that `finalizeDeletions` may tombstone the profile in between.  A profile is live at
first, and nothing bounds how long such a command is on its way; so at any moment
there may be one that has passed its test, and the model's writes by
`sync`, `enable`, `disable` and `remove` carry no such test in their guards.  `profile migrate`
writes back every field of the row it read (`UpdateProfileFields`), which is why its
memory holds `enabled` (`asRead`).  One command of several transactions (a restore or a
migration) is under way at a time.

**`MCSyncIntent`** adds the symmetry of run identifiers.  **`SyncIntentProofs`**
holds the theorems.

**`FileLock`** is `flock.Acquire`, `ownerAlive` and `Release`, one action per
system call: open with `O_EXCL`, write the pid, read the pid and signal it,
remove, sleep, the next attempt.  A process is its pid; a dead one may be given
to a new process (`Recycle`), which then looks like the owner of whatever its
predecessor left.  Any number of processes are inside `Acquire` at once; `IOFails` and
`WriteFails` say which calls may fail.  A file is removed by its path, so that a process
may remove the one another process is writing or holding: the history variable
`robbed`, which no action reads, remembers the processes this happened to.
**`FileLockProofs`** holds its theorems.

**`RemoteLease`** is `remote_operation_leases` for one remote: `AcquireRemoteLease`
(`Enter`, `Claim`, `Withdraw`), the renewal goroutine (`Renew`),
`ReleaseRemoteLease` (`Release`), dying callers (`Crash`) and time (`Tick`).  A
row is its `state`, its `lease_until` as a timer and its place among the waiting
rows; an expired row is deleted by the promotion that no longer counts it.  Every caller
passes the same priority, which is left out.  Any lease may run out under its operation,
as it does when the machine sleeps or its renewals fail; the history variable
`overslept` remembers those operations.  Each
lease id is used for one operation, so every operation may be over and the runs
do not look for deadlock.  **`RemoteLeaseProofs`** holds its theorems.

| Code | Model |
|---|---|
| `flock.Acquire` | `Begin`, `Create`, `WritePid`, `RemoveStale`, `Retry`, `GiveUp` |
| `flock.ownerAlive` | `OwnerAlive`, `ReadOwner` |
| `Lock.Release` | `FileLock!Release` |
| `AcquireRemoteLease` | `Enter`, `Claim`, `Withdraw`, `Renew` |
| `tryClaimRemoteLease` | `First`, `FreeSlot`, `Promoted`, `Claim` |
| `ReleaseRemoteLease` | `Delete`, `RemoteLease!Release` |

**`Mirror`** is the data of one profile, under the same processes: the files
(`local`, a version per path, 0 for none), what fswatch has yet to report
(`unseen`), the remote copy, the managed ledger (`row`, `by`), the committed
policy and its refresh, the generations, `pending_events`, and the worker's
program counter and memory (`run`, `batch`).  One step is one scan, one
transaction or one rclone call, and files change between any two of them.  A run
or a fast batch may fail, or its worker die, at each step, after part of a
transfer or of a loop of ledger writes.  **`MCMirror`** gives it two policies, of
which one hides a path; **`MirrorProofs`** holds its theorems.

| Code | Model |
|---|---|
| `recordEvent` | `RecordSafe`, `RecordFull` |
| `fireBatch`, `PromoteToFullReconcile`, `OnReconcile` | `NoticeSource`, `PromoteToFullReconcile`, `EnsureReconcileGeneration` |
| `SubmitManualReconcile`, `SubmitScheduledReconcile`, `CommitIgnoreSnapshot` | `SubmitReconcile`, `CommitPolicy` |
| `ClaimRun` | `Claim` |
| `ScanActiveEntries`, `ClassifyDisappearances` | `Eligible`, `Entries`, `Proven`, `Scan` |
| `PreflightProtected` | `Preflight` |
| `FullSyncProtected`, `DeleteRemotePaths` | `Upload`, `DeleteRemotePath` |
| `markDirtyIfChangedProtected` | `MarkDirtyIfChanged` |
| `ApplyManagedRefresh`, `MarkPolicyRefreshReady`, `ManifestApply` | the actions of these names |
| `CommitRunSuccess`, `commitFailure` | `CommitRunSuccess`, `FailRun` |
| `runFastUpsertBatchPending`, `ManifestUpsert`, `ClearPendingEvents` | `FastList`, `FastUpload`, `FastLedger`, `FastClear`, `FastFail` |

What `Mirror` abstracts: a version stands for size and modification time, so two
contents are never taken for one; the scan that lists a transfer and the transfer
are one step; size limits and symbolic links are part of what is eligible; a
remote with duplicate names is a failed run; the sizes in the ledger's rows are
left out, and with them the catch-up scan of a starting watcher: that fswatch
reports each change in the end is assumed (`unseen`).  Gates, backoff, debounce,
profile lifecycle and run rows are `SyncIntent`'s: here a run may be claimed whenever
there is debt.  Requests ask for more than the source has reached, and anything may come
between `fireBatch`'s read of the generation and its promotion.  The history variable
`overtaken`, which no action reads, remembers the paths whose latest change was recorded
at, or collapsed into, generations that a run covers or has covered already: the next run
or event that looks at such a path takes it out.

**`Prune`** is the explicit deletion of remote files that the ignore policy hides:
the requests of one profile, their frozen targets, the worker's pass over one
request in batches, and as much of the mirror as pruning reads or writes.  Full
runs, fast batches and policy commits appear as single steps (`FullRun`,
`FastBatch`, `CommitPolicy`), since they hold the profile lock as a prune pass
does; `Mirror` has their insides.  Commands come between two passes only, for the same
reason, but a pass may have been broken off at every step.  The history variable
`replaced` remembers the requests whose policy was replaced when they had targets deleted.
**`MCPrune`** gives it a policy that hides nothing and one that hides everything;
**`PruneProofs`** holds its theorems.

| Code | Model |
|---|---|
| `prune preview`, `CreatePrunePreview` | `Suppressed`, `Freeze`, `CreatePrunePreview` |
| `prune discover`, `discoverIgnoredRemoteOrphans` | `Orphans`, `CreatePrunePreviewFromUnmanagedPaths` |
| `prune execute`, `AuthorizePrune` | `Effective`, `AuthorizePrune` |
| `ClaimRetryingPrune`, `ClaimPrune` | `ReclaimPrune`, `ClaimPrune` |
| `runAuthorizedPrune`, `classifyPruneRemotePaths`, `deletePruneBatch` | `ListTargets`, `DeleteBatch`, `Interrupt` |
| `MarkPruneTargetsResultBatch` | `Mark`, `MarkMissing`, `MarkDeleted` |
| `CommitPruneComplete` | `Complete`, `CommitPruneComplete` |

**`Derived`** is the artefact lane: `compile` writes an immutable generation and
moves the root pointer to it, `compiler clean` removes everything, both record a
desire with a revision, and the worker publishes or purges what is desired.  The
compiler lock is a variable; its holder may die at each step, and so may the
worker.  `details` and `manifest` are the remote namespace: a generation, nothing, or
`Mixed` while a transfer is under way or was broken off.  The text a compile
produces is left out: a generation is its number.  `ReadsFail` says whether the
compile's read of the pin may fail, an error the code ignores.  **`DerivedProofs`**
holds its theorems.

| Code | Model |
|---|---|
| `newCompileCmd`, `PublishWithProtected`, `bestEffortGC`, `FinishCompilerRun` | `CompileBegin`, `CompileReadPin`, `RenameStage`, `ReplacePointer`, `Garbage`, `CollectGarbage`, `FinishCompilerRun` |
| `newCompilerCleanCmd`, `MarkCompilerClean`, `FinishCompilerClean` | `MarkCompilerClean`, `CleanReadPin`, `CleanUnlink`, `CleanRemove`, `CleanFinish` |
| a command that dies or fails | `CommandBreaks` |
| `SetProfileEnabled` | `SetProfileEnabled` |
| `RecoverDerivedRuns` | `WorkerStart` |
| `ClaimDerivedRun`, `VerifyGeneration` | `Current`, `Gated`, `ClaimDerivedRun`, `Verify` |
| `Publisher.Publish`, `Publisher.Purge` | `ValidateOwnership`, `StatGeneration`, `SyncBegin/End`, `Check`, `CommitManifest`, `PurgeBegin/End` |
| `FinishDerivedRunSuccess`, `FinishDerivedRunFailure` | `FinishDerivedRunSuccess`, `FailDerivedRun`, `LosePin` |
| `finalizePendingCompilerClean` | `SettleNothing`, `SettleLock`, `SettleUnlink`, `SettleRemove`, `SettleFinish` |

**`LiveHub`** is the worker's status server for one profile and the clients that
wait on it, one action per lock region, database read or socket operation of each
goroutine.  The durable state is a version number; a frame is its number, the count
of publications at the time and the version it was built from.  A subscriber's
slot holds one frame, the socket buffers `Capacity` frames of a client that does
not read.  A client connects once; a reconnection is another member of `Clients`.
A publisher's `publishMu` is held within one step where the code takes and drops it
around straight-line memory operations, and as a variable where it is held across
something that can block (the hand-over).  **`LiveHubProofs`** holds its theorems.

| Code | Model |
|---|---|
| `liveDurableReader.Refresh`, `BuildSnapshot` | `Load`, `Store`, `Build`, `Misses` (a `Refresh` of its own: another load and another store) |
| `PublishDurableRefresh`, `PublishActivity`, `publish`, `Hub.Publish` | `PublisherLoads/Stores/Builds`, `Publish`, `Fan` |
| `handleSubscribe`, `beginSubscribe`, `finishSubscribe` | `Register`, `SubscriberLoads/Stores/Builds`, `Stamp`, `Write`, `LockHandOff`, `HandOff`, `Take`, `Done`, `Leave` |
| `handleInvalidate` | `InvalidateBegins` |
| `Server.Stop` | `Stop`, `CloseConns`, `Stopped` |
| `waitForReady`, `waitStreamReady`, `waitDurableReady` | `Connect`, `Read`, `StreamEnds`, `Refused`, `Poll` |

The components of the worker meet in its pass: profile lock, remote lease, claim,
execution, then the prune and derived lanes.  `SyncIntent` holds the profile lock as a
variable with one owner, which is what `FileLock` promises of processes whose file nobody
else removes: both implement `Slots` with one share (`ImplementsMutex`).  What a
second holder of the lock would do is not modelled.  `SyncIntent` leaves the lease
out, which only delays a pass.  `Prune` and `Derived`
take the same promise: that a lock has one owner, who may die.

## 3. Runs

| Run | Instance | What it shows |
|---|---|---|
| `IntentCore` | two run identifiers, no events; every command; failing writes; generations to 3; one crash | `error` is debt; runs have one owner, a delete override is granted once, no attempt runs for a tombstoned profile, a closed gate stays closed, and `Intent` is implemented |
| `IntentDebtLive` | no events; manual, policy, disable, enable, remove; one crash | every requested generation is served, or the gate closes, or the profile stops being runnable; an accepted deletion is kept and finalised; a run that recovery passed over (`Stranded`) is the one exception to both |
| `IntentEventsLive` | one path; manual, policy; no crash | `ready` is never stored next to debt; only requests go ahead of the source, and a destructive event is debt unless one has; events are consumed |
| `Mirror` | two paths, of which one policy hides one; two changes of files; requests, policy commits and promotions to generation 4; a delete budget of 1; failures at each step | no change of an eligible file is lost, whatever fails, unless it was overtaken; what is on the remote of a file that stays is in the ledger or will be; only proven deletions are executed, within the budget, and only what is deleted is forgotten; ledger and policy agree; `Intent` is implemented |
| `LostAfterManual` | as `Mirror`, to generation 3 | **violation**, section 7 |
| `MigrateBlocks` | migrate, no events, no crash | **violation**, section 7 |
| `FileLock` | three processes, acquisitions that overlap, failing calls, two crashes, recycled pids | for the processes whose file nobody else removed, the lock file implements `Slots` with one share; the file of a dead owner does not stay |
| `RemoteLease` | four operations, limit 2; leases that run out under their operations, failing statements, two crashes | for the operations renewed in time the leases implement `Slots` with two shares; a waiter is served unless an abandoned waiting row is ahead of it |
| `Prune` | two paths, a policy that hides both and one that hides none; two requests, three commits and approvals; default limit 1, batches of 1 | one request at a time; removals were approved, within the limit, and are hidden by the committed policy; the ledger forgets only what is gone, or was deleted under a policy that was replaced since; an approved request is settled unless one of an older policy blocks it |
| `Derived` | three generations, one clean, two faults of the worker, one broken command | the generation under publication and the one the pointer names stay; `current` is true of the remote; the desired generation stays but for the cases `DesiredKept` names; a desire is served or refused; `Publication` is implemented |
| `CleanLosesGeneration` | two generations, one clean, no fault | **violation**, section 7 |
| `LiveHub` | one client, one invalidation, two publications of the worker, two versions of which the second is final; the client's reads may fail | frames are numbered upwards, the newest publication is held until it is delivered, a first frame is fresh, publishers, `Stop` and waiters come to an end |

What a theorem proves for all constants and what another property of a run already
contains is not checked again by the runs: `TypeOK` of every module, `ReadyMeansNoDebt`
in `IntentCore`, `GenerationOrder` and the rest of `IndInv`, `LockInv`,
`MutualExclusion`, `RowBound`, `LeaseHeld` and `OperationBound` (`ImplementsMutex` and
`ImplementsSemaphore` say more), and `ImplementsMutex` of `SyncIntent`.

Each property of a passing run has a mutant in `PROJECT.json`: a definition of
the model changed as a plausible slip in the code would change it, under which
the run finds the property violated.

### Bounds

- `MaxGen` (2 to 4) bounds `source_generation` and `desired_generation`.
  Generation 1 is the initial sync; two further requests are enough for intent
  that arrives during a run, for an override that is overtaken, and for a retry
  against a newer request.
- `MaxCrashes` is 0 or 1: after one crash the state `Recover` meets is already
  the worst one, a running row and a pointer nobody owns.
- `Paths` has one member in `IntentEventsLive`: the rows of `pending_events` are
  independent of each other but for "collapse all", which one row shows.  It is empty in
  `IntentCore` and `IntentDebtLive`, where debt comes from commands; the theorems
  about the invariants of `IntentCore` cover events and commands together.
- `RunIds` has one or two members: at most one run is active (an invariant), and two
  are used where a row that outlives its worker could meet a second claim.
- `DebounceTicks` 1 and `DeadlineTicks` 2 stand for 10 s and 60 s, `MaxBackoff`
  1 for the backoff: what matters is that time passes while they are positive and
  that the deadline is later than the window.
- `FileLock` has three processes (a holder, a recoverer and one that comes
  between them, or two recoverers and a holder) and two crashes (an owner, and its
  recoverer).  `RemoteLease` has twice as many operations as slots, a lease of two ticks
  (renewed in time, expired) and two crashes, enough to fill every slot with dead rows.
- `Mirror`: `MaxVersion` 2 and `MaxChanges` 2 let a file be changed, removed and
  re-created, or both files removed, which is more than the budget of 1 allows.
  `MaxGen` 4 leaves room for the initial sync and three more generations: a
  request that asks ahead, an event that it overtakes, and a second of either; or a
  policy commit and the commit of the policy before, with an event in between.
  There is no deadlock check: files stop changing and all debt may be served.
- `Prune`: two paths and a limit of 1 make a request too large for its default
  limit, two batches, and a pass broken off between them; two requests are one that
  is in flight and one that waits; three commands are an approval, a policy commit
  and either of them again.  What `ForgetsOnlyAbsent` excepts takes four (an approval, two
  commits, and the approval that takes the request up again); the theorem has no such bound.
- `Derived`: the collection keeps the current, the pinned and the newest other
  generation, so that three generations are what it takes to collect one; two
  faults are a crash and a failure of the recovery from it.
- `LiveHub`: one client, since clients share nothing but the locks and the numbers,
  which the worker and the invalidator already contend for; two publications fill the
  slot and replace what is in it; a socket buffer of one frame makes a client that
  stops reading block its goroutine at the second.  There is no deadlock check: the
  server stops and the clients have their answers.
- Commands not in `Requests` are not issued.  The split over runs keeps each of
  them below nine million states; the proofs are about all of them together.

### Fairness

`WorkerStep` is weakly fair: the worker polls every five seconds and launchd
restarts it (`WorkerStart` is part of `WorkerStep`).  `WatcherStep` is weakly fair (a
100 ms ticker) and so are time and the later statements of a command that was
begun.  A transfer that was started ends (`WF(Outcome)`); of infinitely many
transfers some find the source still and succeed (`SF(SourceClean)`,
`SF(CommitRunSuccess)`, `SF(FastCommit)`), without which no synchroniser makes
progress; `SF(FastBegin)` says that an event row becomes due 30 s after it was
first seen, a time the model does not keep.  No fairness is assumed of events,
of new commands, of `enable`, of crashes or of the watcher's restart.

In `FileLock` an `Acquire` that was entered goes on and a held lock is released
(both are straight-line code), some process comes back for the lock (the worker
does in every pass), and errors of the file system do not last for ever, which
is strong fairness of `Create` and of `RemoveStale`.  In `RemoteLease` a waiting
caller polls every 100 ms, an operation ends (transfers have timeouts) and time
passes; nothing is assumed of releases that fail.  `Mirror` has safety properties
only and assumes no fairness.

In `Prune` a request left in flight is taken up in every pass (`WF(ReclaimPrune)`);
the steps of a pass are strongly fair: a pass may be broken off again and again,
but a call that is repeated for ever succeeds in the end.  Nothing is assumed of
approvals, commits and runs.  In `Derived` a command that was begun goes on, the
worker comes back every five seconds, launchd restarts it, and a backoff ends, all
weakly fair; faults are bounded by a constant instead (`MaxFaults`, `MaxBroken`).  A
failure that closes the gate is not bounded, and `DesireServed` admits it.  In
`LiveHub` every goroutine is scheduled, `Stop` goes on once begun, and a waiter
reads and polls; a client may stall for good (`Stall` is not fair, and a stalled
client is not obliged to go on), and nothing is assumed of connections, of changes,
of the worker's publications, or that the server stops.

## 4. Proofs

`SyncIntentProofs` proves, for every set of paths and run identifiers, every
bound, every subset of commands, and whether or not writes fail:

| Theorem | States |
|---|---|
| `Inductive` | `IndInv` always holds |
| `TypeCorrect`, `StateTellsDebt`, `RunsAreOwned`, `OrderKept`, `OverrideTakenOnce`, `TombstonedIsAtRest` | its parts |
| `Refinement` | `SyncIntent` implements `Intent` |
| `DeletionDurable` | without `profile restore`, an accepted deletion is kept |
| `OnlyRequestsAskAhead` | a step that raises `desired` above the source is a manual, scheduled, restore or migrate request |
| `DestructiveIsDebt` | a destructive event is debt, or the intent was ahead of the source already |
| `GateKept` | a terminal gate opens for a manual request or a worker's recovery only |
| `ProfileLockImplements` | worker passes and migrations use the profile lock as `Slots` allows |
| `MigrationWaits` | the generation that `profile migrate` waits for has not succeeded as long as it waits |

The safety invariants are not inductive by themselves.  `ErrorMeansDebt` needs
to know that a running attempt is for a generation not yet served
(`RunsOweDebt`), or a failing run could store `error` next to no debt.
`TombstonedAtRest` needs `QuietFinalise`: what `finalizeDeletions` saw, no
current run, is still so two statements later, because a deleting profile is not
claimable; it says nothing of `enabled`, which a late `enable` or migration may still set
(section 7).  `RunOwnership` carries the worker's memory: inside an execution the
run it holds is the running row.  The proof of `IndInv` splits it in flags
(`FlagStep`), types (`RowStep`) and the relations between columns
(`RelatedStep`), each by one case per action that writes one of its variables,
all other actions being one case.  `Refinement` sorts the steps by what they do
to `want`, `done` and `attempt` (`StepKinds`).  `GateKept` adds that a row runs
only while the state is not `error`; `OnlyRequestsAskAhead` rests on `ReadsOfSource`, that the
memory of the watcher and of the worker never holds a generation above the source.  The last two rest
on `LockHeld`: between lock and unlock the lock names the worker, and from the copy to
the end of the wait the command, so that no run is committed while the command waits.
`MigrationWaits` is the safety side of the run `MigrateBlocks`.

`FileLockProofs` and `RemoteLeaseProofs` prove, for any number of processes,
operations, crashes and slots:

| Theorem | States |
|---|---|
| `LockInvariant` | `LockInv` always holds |
| `Exclusion` | of the processes that hold the lock, at most one was not robbed of its file |
| `LockImplements` | ... and for those the lock file implements `Slots` with one share |
| `RowLimit` | running rows never exceed the limit, also with sleeping machines and failing statements |
| `LeaseKept` | the row of an operation renewed in time is running and has not expired |
| `OperationLimit` | operations renewed in time never exceed the limit |
| `LeaseImplements` | ... and for them the leases implement `Slots` with the configured number of shares |
| `LeaseTyped` | the types of rows, timers and callers |

`MutualExclusion` is not inductive: it needs to know what protects a holder.  `LockInv` adds
that the path names every process that is at work under the lock, with its pid or before
the pid is written, and that was not robbed of it (`WorkerIsNamed`).  There is no premise:
processes may be inside `Acquire` together, writes may fail, and pids are recycled.  What
it comes to is that the gap between `ownerAlive` and `Remove`, with the empty file and
`Release`'s removal by path, is the one way in which two processes come to hold the lock;
section 7 has the behaviours in which they do.  `OperationBound` needs
`LeaseHeld`, that no operation that is renewed in time has lost its row, since the rows are
all that a promotion counts.

`MirrorProofs` proves, for every set of paths, of policies and of budgets and every
bound:

| Theorem | States |
|---|---|
| `MirrorTyped` | `TypeOK` |
| `LedgerAgrees` | `LedgerFollowsPolicy`: a suppressed row names a policy that hides it; after a refresh no hidden path is active |
| `DeletesProven` | `DeletesOnlyProven`: what is removed from the remote was active, missed by the run's first scan, not hidden, and within the budget |
| `ChangesKept` | `OnlyOvertakenLost`: a change is transferred, announced or overtaken |
| `KeptKnown` | `KeptIsKnown`: the copy of a file that stays has its ledger row, or the file is announced or overtaken |
| `ForgetsDeleted` | `ForgetsOnlyDeleted`: an active row is dropped only when the remote copy is gone, or for a file that disappeared after the run had scanned it |
| `MirrorImplements` | `Mirror` implements `Intent` |

`LedgerInv` adds to `LedgerFollowsPolicy` what a run knows (`RunKnows`): the
deletions it still has to execute are active rows that its first scan missed and
the policy, which the profile lock keeps as it was, does not hide; and once it
has refreshed the ledger no hidden path is active until its last write.
`Coverage` is the inductive form of `OnlyOvertakenLost`.  That property looks at
`desired > last`, which a successful run ends: so `Coverage` says, for each path,
what will still be announced or overtaken when the run has credited its target
(`SurvivesRun`: unseen, overtaken, or an event row or debt above the target) and when a fast
batch has cleared its rows (`SurvivesBatch`), and that an eligible path without
that is uploaded once the run is past its transfer.  No step of the watcher or of a command
takes a path out of these sets (`Accounting`): a change that gets a generation at or below
the target, because a request had asked ahead of the source or because its row
collapsed into an older generation, becomes overtaken in that step (`CollapseAccounted`).
`LostAfterManual` shows that the set does not stay empty.  `Knowledge` is the same for
`KeptIsKnown`, with what a fast batch still has to write: a path of the batch stays
accounted for until the batch clears its row.  `ForgetsDeleted` needs `RunDone`: a proven deletion
that is no longer to be executed has been, and when the ledger is written its active rows
are what the first scan saw or proved missing.  `MirrorImplements` needs `TargetOwed`: a
run is for a generation that is not served yet.

`PruneProofs` proves, for every set of paths, policies, allowances and batch size and
every bound:

| Theorem | States |
|---|---|
| `PruneTyped` | `TypeOK`; `approval_required` and `failed` are never stored |
| `OneAtATime` | `OneInFlight` |
| `RemovesAuthorised` | `RemovesOnlyAuthorised` |
| `ForgetsAbsent` | `ForgetsOnlyAbsent` |

`PruneInv` is the types and what is known of the ledger (a suppressed row names a
policy that hides it; once refreshed, no hidden path is active), of a request (its
frozen targets are hidden by its policy, no more than its count, and within its
limit while it is approved) and of a pass (one request is in flight; the pass's
request is running, its policy is committed and refreshed, its memory is a part of
its targets).  `AbsentInv` is what `ForgetsOnlyAbsent` rests on: a target noted as
deleted, of a request that was not replaced since, is absent from the remote, because its
policy is still the committed one and visible paths alone are uploaded.  A policy that is
given up and comes back breaks this (the file was uploaded meanwhile), and the property
excepts just these targets.

`DerivedProofs` proves, for every number of compiles, cleans, faults and broken
commands:

| Theorem | States |
|---|---|
| `DerivedTyped` | `TypeOK` |
| `PointerAlwaysValid` | `PointerValid` |
| `CurrentTruth` | `CurrentIsTrue` |
| `PinKept` | `PinnedGenerationKept`, if the compile's read of the pin does not fail |
| `DesiredStays` | `DesiredKept` |
| `DerivedImplements` | `Derived` implements `Publication` |

`DerivedInv` is the types, who holds the compiler lock where (`LockInv`), that each
revision was paid for by a compile or a clean (`RevInv`), and what a command and the
worker have done so far (`JobInv`, `RunInv`): between the rename and the end of a
compile the pointer's generation is on the disk, and a removal follows the unlink.
`RemoteInv` adds what a publication has made of the remote, and that nothing is
`current` while the worker transfers.  `PinInv` adds that a command which is past its
read of the pin, while a publication runs, has read the publication's own generation:
the claim holds the compiler lock, so that a command reads either before the claim
and ends before it, or after it and sees the pin.  `ReadsFail = TRUE` takes that
away, and then the collection may remove the generation that is being transferred.
`DerivedImplements` maps `shown` to the details if the manifest names them, else to a mixture,
and needs `CurrentKnown`: what is stored as `current` is what a claim would find to be
so, so that no attempt begins on top of it.  Every step of a transfer is then one of
`Publication`'s, and a death is its `Fail` or changes nothing that a reader sees.

`LiveHubProofs` proves, for every number of clients, invalidations, publications and
versions and every capacity of a socket:

| Theorem | States |
|---|---|
| `HubInvariant` | `HubInv` always holds |
| `HubTyped` | `TypeOK` |
| `NumbersIncrease` | `SeqIncreases` |
| `NewestKept` | `LatestHeld` |
| `FirstFrameFresh` | `InitialFresh` |

`HubInv` says, besides the types, what a subscription may hold where its goroutine is
(`Place`: nothing is in the slot of a subscriber that is not ready, nothing is kept aside
for one that is, a frame is held exactly during a write) and orders the numbers place by
place: read, in the socket, being written, in the slot, none above `seq` (`Numbered`).  A
frame kept aside has no place in that order, as its number may be smaller than that of the
first frame; the hand-over gives it a new one.  `NewestKept` follows the last publication
from place to place (`HasLast`), and needs `Numbered` to tell a frame from none.
`FirstFrameFresh` adds where a first frame comes from (`Source`): while nobody is about to store a
state older than the subscription, no step makes the cache older than it.  The steps of
one client leave the other subscriptions alone (`ElsewhereStill`), so that each lemma
looks at the client's own steps and at the publishers'.

The assumptions are those named in the modules: `Paths` and `Ops` are finite,
`NoRun` is not a run identifier and `NoFile` not a file, allowances are numbers,
ticks, limits and bounds are positive.

Only model-checked: the liveness properties (they need fairness and `ENABLED`) and
the runs that show a violation.

## 5. What comes next

1. Compositions: `Mirror` under the control of `SyncIntent`, which `Intent` joins today by
   its three variables only, and one worker pass over all
   lanes with the promises of `FileLock` and `RemoteLease` as assumptions.
2. The catch-up scan of a starting watcher against the sizes and times of ledger
   rows (section 7 says what to expect).
3. The prune lane as an attempt on an abstract set of removable files, in the way `Derived`
   implements `Publication`.

## 6. Reading a counterexample

In `SyncIntent`, `wpc`, `hpc` and `cpc` say where the three processes are; the remaining
variables are columns.  In `Mirror`, `pc` says where the worker is in a run or a fast batch; in `Prune`, where a
pass is (`idle` between passes).  In `Derived`, `cpc` is the command and `wpc` the worker; 0 is no
generation and `MaxGenerations + 1` a mixture.  In `LiveHub`, `pc` are the publishers, `hpc` the
subscriptions' goroutines and `wait` the clients.
`desired > last` is debt.  A timer at 0 has expired, at
-1 it is NULL.

## 7. Where code and documents disagree

The first three have a run, of the same name, that shows them.

- **LostAfterManual.** A manual request, and the hourly scheduled one, asks for
  `desired + 1` and leaves `source_generation` behind.  Once it was served, the
  next event's generation is not above `last_success_generation`: a destructive
  event makes no debt and leaves no row, and an event recorded during the run is
  cleared with it.  The change waits for the next full run.
- **CleanLosesGeneration.** A clean that meets a pinned generation, or dies, leaves
  `local_clean_state` at `committing`.  A compile does not clear it.  The worker then
  finishes the clean although a generation is desired again, and removes it: its
  publication fails for good until the next compile.  The compiler plan excludes "desired
  generation 仍指向已删除目录" after every crash point of a clean.
- **MigrateBlocks.** `profile migrate` waits for a run while it holds the profile lock that
  the worker needs to claim it.  The worker passes over the locked profile, and the wait ends
  only when the worker's socket is gone.  `cli/profile.go` announces "one successful
  sync/reconcile against new destination".

The next four are found by changing a run as described.

- *A forgotten remote file.* A run that fails after its transfer, or a fast batch before
  its ledger write, leaves a file on the remote that the ledger does not know.  If the
  file is removed before the next run, its row is never written and nothing deletes it
  remotely.  The same happens to a file removed between a run's transfer and its
  `ManifestApply`.  (`KeptIsKnown` is about the files that stay.)  The ignore plan wants every managed remote file to remain "durably
  known across policy suppression and fast uploads" (`DurablyKnown` fails on `Mirror`).
- *A run orphaned while disabled.* `workerRecover` visits only enabled profiles without
  a deletion request; a run that a crash left behind on another one keeps
  `current_run_id` for ever, also after it was enabled.  The same filter leaves a deletion
  that was requested after the crash unfinalised.  (`GenerationReached` and
  `DeletionFinalised` fail on `IntentDebtLive` without the disjunct `Stranded`.)
- *Two holders of a lock.* `Acquire` creates the file and writes its pid in two
  calls; an `Acquire` that reads in between finds no pid, takes the file for stale, removes
  it and acquires too.  Two recoverers race in the same way between `ownerAlive`
  and `Remove`, and `Release` removes whatever is at the path (on `FileLock`,
  `MutualExclusion` and `ImplementsMutex` fail with `Holders` in place of `Keepers`).
- *An abandoned waiter.* Only running rows expire.  A waiting row whose caller died,
  or whose release failed, is first in the queue for ever, and later callers of
  the same remote wait without end (`EveryWaiterServed` fails on `RemoteLease`; `WaiterServed`
  excepts those behind such a row).

Met while modelling, without a run of their own:

- `OrphanCurrentRun` recomputes `state` from the debt for every active profile when
  the worker starts and so leaves `error`: the claim no longer sees the terminal
  gate or the backoff, although the initial-sync plan lets gates survive a restart
  (`TerminalGateKept` excepts `Recover` for this).
- `fireBatch` reads the generation and `PromoteToFullReconcile` then deletes all
  event rows, those of events recorded in between included; if a run with a
  target above the generation read is under way, nothing announces them any more.
  They are `overtaken` in `Mirror`.
- `finalizeDeletions` tombstones without the profile's lock, and the tests of
  `requireProfile` come before the lock and the write.  A profile may so be tombstoned and
  enabled: remove, `enable` reads the row, the worker tombstones, `enable` writes
  `enabled = 1`.  `TombstoneProfile`'s comment says "marks a profile deleted (soft delete),
  clearing enabled" (`state/profiles.go:257`).  `activeProfilesFor` and a starting `watch` look at the
  tombstone too, so that no attempt runs for it (`TombstonedAtRest`).
- `profile migrate` writes back `enabled` as it read it before the lock: it undoes a
  `disable` or an `enable` that came in between, without touching the launchd jobs.
- A proven deletion whose `rclone deletefile` succeeded in a run that failed later
  is proven again, and fails each time, the remote file being gone.
- A suppressed row of a file that was deleted, then let through by a new policy, and
  re-created before its first run becomes active again; created after it, the fast
  lane uploads it and keeps the row suppressed.
- `ClassifyDisappearances` looks for a pending destructive event; no such row is
  ever left, because recording one deletes all rows.

- `recordEvent` refreshes `state` whatever generation it ensures: below the last
  success it stores `syncing` with nothing owed and nothing running.
- `reconcile_deadline_at` is written by every destructive event and read by no
  claim: a stream of events defers the run as long as it lasts.
- A scheduled request raises `desired_generation` above the manual one, whose
  override no claim will honour; after that generation was served,
  `CommitIgnoreSnapshot` attaches the override to a new one.
- `finalizeDeletions` writes the tombstone and clears the request in two statements
  without the profile's lock; a restore and a new remove in between lose the new
  request.
- A lock file whose owner died and whose pid was given to another process, or
  whose removal failed while its owner lives on, refuses everybody as long as
  that process lives.
- A machine that sleeps past a lease finds its row gone when it wakes; the
  operation goes on, beside the one promoted meanwhile (`overslept`).
- Every caller of `AcquireRemoteLease` passes priority 1; the repair plan lets a
  waiting fast upload go ahead of a waiting full reconciliation.

Prune:

- A request whose policy was replaced while it was in flight stays `running`, is looked at
  in every pass and blocks every queued one; the ignore plan (line 900) says such a request
  becomes `stale` (`ApprovedIsAlwaysSettled` fails; `ApprovedIsSettled` excepts it as `Stuck`).
- A row suppressed under one policy keeps that policy's hash under a later one that hides it too:
  neither `prune preview` (which compares hashes) nor `prune discover` (which skips known rows)
  finds the file.
- `AuthorizePrune` looks at no state: a running or retrying request that is approved again is queued
  again, and what it had found missing is counted twice in `missing_count`.
- A policy that comes back after another one was in force finds its old request in flight, with
  targets noted as deleted that were uploaded again meanwhile; completion drops their ledger rows
  (`ForgetsOnlyAbsent` fails without its exception and with `MaxCommands = 4`).

Derived:

- A publication that fails half-way after a purge leaves details on the remote while `remote_state`
  is still `absent`; a clean then counts as served at once, and the namespace stays as it is.
- `compile --wait` of a generation fails when an earlier generation's failure was terminal, and waits
  its 24 hours when a later compile supersedes it.
- `FinishDerivedRunFailure` stores `failed` although the desire has changed meanwhile, if the claim of
  the new desire has not come yet.
- A compile that cannot be recorded leaves a generation; two of them make the collection
  remove the desired one (`Unrecorded` in `DesiredKept`).
- A failed last statement of a run leaves its pin, and no claim is made until the worker is
  restarted (`Wedged`).
- A purge that crashes leaves `syncing`, since a purge pins nothing for the recovery to find; a
  clean that died when the remote was already absent is never finalised, since no run ends.
- Disabling and enabling a profile turns `current` into `pending` for good: no claim is made for what is
  already there.
- A failed read of the compiler state is ignored by `compile`, whose collection then knows no pin
  (`ReadsFail`).

Live status:

- Terminal failures, disabling and deletion are not published, although a comment of
  `cli/wait.go` counts on it: a waiter on a stream does not end when a run fails for good.
- A frame built from an older cache may be published with a higher number; an older `Refresh` may
  overwrite a newer one's result, although `live/server.go` calls it atomic; errors of `Refresh` are
  ignored.
- `LoadDurableSnapshot` reads the profile and the sync state in two statements.
- `waitDurableReady` never tries the socket again, although its comment says so, and an
  interrupt during `waitForReady` may close its stop channel twice.
- A disabled profile whose state is `ready` ends a wait on the stream and not one on the
  database.

The watcher's start, which is not modelled:

- The catch-up scan compares files with ledger rows whose sizes and times were read
  after the upload.  A change made between an upload and its row, while no watcher runs, is
  taken for known; `cli/watch.go` says the scan recovers "changes made while the watcher was
  stopped".
- The scan takes suppressed rows for deleted files, at each start.
- When fswatch dies, `readLoop` ends and the watcher goes on without it; an event that cannot
  be recorded is only logged.

## 8. Not modelled

The compiler's text (parsing, scoring, rendering), path filters, rclone
execution and output parsing, schema text, backup, configuration, launchd and
rendering: they have no control that a model could say more about than a test
does, or are pure I/O.  Their failures enter as failed runs and failed writes.
`sched/scheduler.go` has control, a queue of jobs with worker slots, but no code
uses it.  Of the modelled components, what is still left out is named in the `note`
of `PROJECT.json`'s components: the watcher's flag classification and catch-up scan,
the telemetry of a running transfer, the interactive waits other than
`waitForReady`, the removal of empty directories after a prune.  The lanes are
modelled one by one; what joins them is the lock each of them holds.
