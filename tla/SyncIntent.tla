------------------------------ MODULE SyncIntent ------------------------------
(***************************************************************************)
(* The durable reconciliation intent of ONE profile and the three kinds of *)
(* process that act on it through the SQLite store:                        *)
(*                                                                         *)
(*   - the worker   (internal/cli/worker.go, fastupsert.go), a singleton   *)
(*                  that claims and executes runs;                         *)
(*   - the watcher  (internal/watch/watcher.go, internal/cli/watch.go),    *)
(*                  which turns file events into durable facts;            *)
(*   - CLI commands (internal/cli/{sync,reconcile,profile,ignore}.go).     *)
(*                                                                         *)
(* One SQL transaction is one step.  A handler that uses several           *)
(* transactions is several steps, and what it holds in memory between them *)
(* is a variable (hgen, wgen, run, snap, todo).                            *)
(***************************************************************************)
EXTENDS Integers, FiniteSets

CONSTANTS
  Paths,           \* relative paths the watcher may report
  RunIds,          \* identifiers newRunID may draw
  NoRun,           \* current_run_id IS NULL
  Allowances,      \* values of --allow-deletes (0: none given)
  Requests,        \* the CLI commands that are issued, a subset of Commands
  DebounceTicks,   \* reconcile_not_before_at is now + 10 s
  DeadlineTicks,   \* reconcile_deadline_at is now + 60 s
  MaxBackoff,      \* bound on a retry delay, in ticks
  MaxGen,          \* bound on every generation counter
  MaxCrashes,      \* bound on worker crashes
  StoreFails       \* may a write of the worker fail (SQLITE_BUSY, disk full)?

Commands == {"manual", "scheduled", "restore", "policy", "disable", "enable",
             "remove", "migrate"}

ASSUME PathsAssumption == IsFiniteSet(Paths)
ASSUME RunIdsAssumption == NoRun \notin RunIds
ASSUME AllowancesAssumption == Allowances \subseteq Nat
ASSUME RequestsAssumption == Requests \subseteq Commands
ASSUME TicksAssumption ==
  /\ DebounceTicks \in Nat \ {0}
  /\ DeadlineTicks \in Nat \ {0}
  /\ DebounceTicks < DeadlineTicks
  /\ MaxBackoff \in Nat \ {0}
ASSUME BoundsAssumption ==
  MaxGen \in Nat \ {0} /\ MaxCrashes \in Nat /\ StoreFails \in BOOLEAN

VARIABLES
  \* profiles
  enabled, deleting, tomb,
  \* profile_runtime
  source,
  \* profile_sync_state: the intent, the public state and its gates
  desired, last, current, state, rc, retryAt, limited, notBefore, deadline,
  manual,
  \* sync_runs: the rows whose status is 'running'
  running,
  \* pending_events: path |-> source_generation
  pending,
  \* the profile's operation lock
  lock,
  \* the worker process: program counter and memory
  wpc, run, wgen, snap, listed, crashes,
  \* the watcher process: program counter and memory
  hpc, hgen, win, todo,
  \* a CLI command of several transactions
  cpc, cgen, asRead

profileVars == <<enabled, deleting, tomb>>
gateVars    == <<rc, retryAt, limited>>
windowVars  == <<notBefore, deadline>>
syncVars    == <<desired, last, current, state, gateVars, windowVars, manual>>
workerVars  == <<wpc, run, wgen, snap, listed, crashes>>
watcherVars == <<hpc, hgen, win, todo>>
cliVars     == <<cpc, cgen, asRead>>

vars == <<profileVars, source, syncVars, running, pending, lock, workerVars,
          watcherVars, cliVars>>

NoGen    == 0        \* a generation column that is NULL: COALESCE(_, 0)
Unset    == -1       \* a timestamp column that is NULL
NoManual == [gen |-> NoGen, allow |-> 0]
NoEvents == [p \in {} |-> NoGen]

LimitedCap == 3      \* an unclassified failure is retried three times

States   == {"initializing", "syncing", "ready", "error"}
Classes  == {"retryable", "limited", "terminal"}
Workers  == {"down", "recover", "final", "clearing", "tombing", "cancelling",
             "idle", "locking", "owned", "claiming", "executing", "dirty",
             "committing", "lane", "checking", "uploading", "unlock"}
Watchers == {"down", "idle", "promoting", "reading", "ensuring", "debouncing",
             "recording"}

Generations == 0..MaxGen
Runs        == [id : RunIds, target : Generations, allow : Allowances \cup {0}]

\* A run held in the worker's memory; the worker holds none outside a run.
Idle == [id |-> NoRun, target |-> NoGen, allow |-> 0]

Max2(a, b)    == IF a > b THEN a ELSE b
AtLeastOne(g) == Max2(g, 1)

HasDebt  == desired > last
Runnable == enabled /\ ~deleting /\ ~tomb

Without(f, S) == [p \in DOMAIN f \ S |-> f[p]]
With(f, p, g) == [q \in DOMAIN f \cup {p} |-> IF q = p THEN g ELSE f[q]]

-----------------------------------------------------------------------------
(* Column updates shared by the statements of internal/state.              *)

\* Mutation: recording intent reopens an error gate.
PendingStateReopens == IF last = NoGen THEN "initializing" ELSE "syncing"

\* The CASE expression that refreshes `state` whenever intent is recorded: an
\* error gate is never clobbered, a profile that never succeeded initialises.
PendingState ==
  IF state = "error" THEN "error"
  ELSE IF last = NoGen THEN "initializing" ELSE "syncing"

\* desired_generation = MAX(desired_generation, g), with the state refresh.
Cover(g) == desired' = Max2(desired, g) /\ state' = PendingState

\* The durable destructive window: not-before moves forward, the deadline is set
\* once.
OpenWindow ==
  /\ notBefore' = DebounceTicks
  /\ deadline' = IF deadline = Unset THEN DeadlineTicks ELSE deadline

\* The generation a request that wants one more opportunity asks for.
NextOpportunity == Max2(desired + 1, Max2(source, last + 1))

\* state after the gates were wiped, from the remaining debt alone.
DebtState ==
  IF HasDebt THEN IF last = NoGen THEN "initializing" ELSE "syncing"
  ELSE "ready"

-----------------------------------------------------------------------------
(* CreateProfileWithPolicy: generation one is the initial-sync epoch.      *)

Init ==
  /\ enabled = TRUE /\ deleting = FALSE /\ tomb = FALSE
  /\ source = 1
  /\ desired = 1 /\ last = NoGen /\ current = NoRun /\ state = "initializing"
  /\ rc = "none" /\ retryAt = Unset /\ limited = 0
  /\ notBefore = Unset /\ deadline = Unset
  /\ manual = NoManual
  /\ running = {}
  /\ pending = NoEvents
  /\ lock = "free"
  /\ wpc = "down" /\ run = Idle /\ wgen = NoGen /\ snap = NoEvents
  /\ listed = FALSE /\ crashes = 0
  /\ hpc = "idle" /\ hgen = NoGen /\ win = {} /\ todo = {}
  /\ cpc = "idle" /\ cgen = NoGen /\ asRead = FALSE

-----------------------------------------------------------------------------
(* Recording events.  The producer is the watcher's read loop, which also  *)
(* remembers the path in its debounce window, or `sync-now` and the        *)
(* catch-up scan, which do not.                                            *)

\* A live watcher records for whatever row exists and keeps a window; a command
\* keeps none.
Produce(p) ==
  \/ hpc # "down" /\ win' = win \cup {p}
  \/ UNCHANGED win

\* recordEvent for a create or modify: a durable row, never reconcile debt.
UpsertEvent(p) ==
  /\ source < MaxGen
  /\ source' = source + 1
  /\ pending' = With(pending, p, source + 1)

RecordSafe(p) ==
  /\ Produce(p)
  /\ UpsertEvent(p)
  /\ UNCHANGED <<profileVars, syncVars, running, lock, workerVars, hpc, hgen,
                 todo, cliVars>>

\* Mutation: the generation is read before it is bumped.
RecordFullStale(p) ==
  /\ Produce(p)
  /\ source < MaxGen
  /\ source' = source + 1
  /\ Cover(source)
  /\ OpenWindow
  /\ pending' = NoEvents
  /\ UNCHANGED <<profileVars, last, current, gateVars, manual, running, lock,
                 workerVars, hpc, hgen, todo, cliVars>>

\* recordEvent for anything else: no row, a full reconcile at the new
\* generation, and every detailed row is collapsed into it.
RecordFull(p) ==
  /\ Produce(p)
  /\ source < MaxGen
  /\ source' = source + 1
  /\ Cover(source + 1)
  /\ OpenWindow
  /\ pending' = NoEvents
  /\ UNCHANGED <<profileVars, last, current, gateVars, manual, running, lock,
                 workerVars, hpc, hgen, todo, cliVars>>

-----------------------------------------------------------------------------
(* The watcher: fireBatch on a due debounce window.                        *)

\* fireBatch takes the window and reads the pending rows.  More than 500 rows,
\* or more than 5% of the manifest, promotes (any non-empty set may exceed a
\* small manifest); no row of the window but debt asks for a reconcile; the
\* rows of the window are recorded again by OnBatch.
FireBatch ==
  /\ hpc = "idle" /\ win # {}
  /\ win' = {}
  /\ \/ /\ DOMAIN pending # {}
        /\ hpc' = "promoting" /\ hgen' = source
        /\ UNCHANGED todo
     \/ /\ win \cap DOMAIN pending = {}
        /\ hpc' = (IF HasDebt THEN "reading" ELSE "idle")
        /\ UNCHANGED <<hgen, todo>>
     \/ /\ win \cap DOMAIN pending # {}
        /\ hpc' = "recording" /\ todo' = win \cap DOMAIN pending
        /\ UNCHANGED hgen
  /\ UNCHANGED <<profileVars, source, syncVars, running, pending, lock,
                 workerVars, cliVars>>

\* PromoteToFullReconcile at the generation read before.
Promote ==
  /\ hpc = "promoting"
  /\ Cover(AtLeastOne(hgen))
  /\ OpenWindow
  /\ pending' = NoEvents
  /\ hpc' = "reading"
  /\ UNCHANGED <<profileVars, source, last, current, gateVars, manual, running,
                 lock, workerVars, hgen, win, todo, cliVars>>

\* Mutation: the watcher asks for one more opportunity, not for what it read.
ScheduleReadNext ==
  /\ hpc = "reading" /\ NextOpportunity <= MaxGen
  /\ hgen' = NextOpportunity
  /\ hpc' = "ensuring"
  /\ UNCHANGED <<profileVars, source, syncVars, running, pending, lock,
                 workerVars, win, todo, cliVars>>

\* OnReconcile: GetRuntime, then ScheduleDestructiveReconcile's two statements.
ScheduleRead ==
  /\ hpc = "reading"
  /\ hgen' = source
  /\ hpc' = "ensuring"
  /\ UNCHANGED <<profileVars, source, syncVars, running, pending, lock,
                 workerVars, win, todo, cliVars>>

\* EnsureReconcileGeneration.
ScheduleEnsure ==
  /\ hpc = "ensuring"
  /\ Cover(AtLeastOne(hgen))
  /\ hpc' = "debouncing"
  /\ UNCHANGED <<profileVars, source, last, current, gateVars, windowVars,
                 manual, running, pending, lock, workerVars, hgen, win, todo,
                 cliVars>>

ScheduleWindow ==
  /\ hpc = "debouncing"
  /\ OpenWindow
  /\ hpc' = "idle"
  /\ UNCHANGED <<profileVars, source, desired, last, current, state, gateVars,
                 manual, running, pending, lock, workerVars, hgen, win, todo,
                 cliVars>>

\* OnBatch: one RecordEvent per path of the batch that still exists.
BatchRecord(p) ==
  /\ hpc = "recording" /\ p \in todo
  /\ \/ UpsertEvent(p)
     \/ UNCHANGED <<source, pending>>
  /\ todo' = todo \ {p}
  /\ hpc' = (IF todo = {p} THEN "idle" ELSE "recording")
  /\ UNCHANGED <<profileVars, syncVars, running, lock, workerVars, hgen, win,
                 cliVars>>

\* The watcher process ends; its window and its batch are memory.
WatcherStop ==
  /\ hpc # "down"
  /\ hpc' = "down" /\ win' = {} /\ todo' = {}
  /\ UNCHANGED <<profileVars, source, syncVars, running, pending, lock,
                 workerVars, hgen, cliVars>>

\* `watch` starts for a profile that is enabled and not tombstoned.
WatcherStart ==
  /\ hpc = "down" /\ enabled /\ ~tomb
  /\ hpc' = "idle"
  /\ UNCHANGED <<profileVars, source, syncVars, running, pending, lock,
                 workerVars, hgen, win, todo, cliVars>>

-----------------------------------------------------------------------------
(* CLI commands.                                                           *)
(*                                                                         *)
(* Every command but `restore` begins with requireProfile, which refuses a *)
(* tombstoned profile; `sync`, `reconcile-now` and `remove` also refuse a  *)
(* requested deletion.  Those tests are made on a row read before the lock *)
(* and before the statement that writes, and no statement makes them       *)
(* again: the profile may be tombstoned in between.  A profile is created  *)
(* live, so at any moment there can be a command that passed its tests and *)
(* has not written yet, and the writes below carry none of those tests in  *)
(* their guards.                                                           *)

\* SubmitManualReconcile: reopen every gate, ask for one more opportunity and
\* replace the one-attempt metadata.
SubmitManualTx(allow) ==
  /\ NextOpportunity <= MaxGen
  /\ rc' = "none" /\ retryAt' = Unset /\ limited' = 0
  /\ notBefore' = Unset /\ deadline' = Unset
  /\ Cover(NextOpportunity)
  /\ manual' = [gen |-> NextOpportunity, allow |-> allow]

\* `sync` and `reconcile-now --allow-deletes`.
SubmitManual(allow) ==
  /\ "manual" \in Requests
  /\ SubmitManualTx(allow)
  /\ UNCHANGED <<profileVars, source, last, current, running, pending, lock,
                 workerVars, watcherVars, cliVars>>

\* `reconcile-scheduled`, the hourly launchd job.
SubmitScheduled ==
  /\ "scheduled" \in Requests
  /\ NextOpportunity <= MaxGen
  /\ Cover(NextOpportunity)
  /\ UNCHANGED <<profileVars, source, last, current, gateVars, windowVars,
                 manual, running, pending, lock, workerVars, watcherVars,
                 cliVars>>

\* CommitIgnoreSnapshot of a changed policy, under the profile lock and with a
\* test of the tombstone in its transaction: a generation above every marker, and a
\* pending manual intent moves with it.
PolicyGeneration == Max2(source, Max2(desired, last)) + 1

CommitPolicy ==
  /\ "policy" \in Requests
  /\ ~tomb /\ lock = "free"
  /\ PolicyGeneration <= MaxGen
  /\ source' = PolicyGeneration
  /\ Cover(PolicyGeneration)
  /\ manual' = (IF manual.gen = NoGen THEN manual
                ELSE [manual EXCEPT !.gen = PolicyGeneration])
  /\ UNCHANGED <<profileVars, last, current, gateVars, windowVars, running,
                 pending, lock, workerVars, watcherVars, cliVars>>

\* `profile disable`: stop the jobs, then clear the flag.
Disable ==
  /\ "disable" \in Requests
  /\ lock = "free"
  /\ enabled' = FALSE
  /\ hpc' = "down" /\ win' = {} /\ todo' = {}
  /\ UNCHANGED <<deleting, tomb, source, syncVars, running, pending, lock,
                 workerVars, hgen, cliVars>>

\* `profile enable`: set the flag and start the jobs, whatever the deletion
\* request and the tombstone say by now; the watcher it starts looks again.
Enable ==
  /\ "enable" \in Requests
  /\ lock = "free"
  /\ enabled' = TRUE
  /\ hpc' = (IF hpc = "down" /\ ~tomb THEN "idle" ELSE hpc)
  /\ UNCHANGED <<deleting, tomb, source, syncVars, running, pending, lock,
                 workerVars, hgen, win, todo, cliVars>>

\* `profile remove`: a durable request; --force goes on when a job survives.
Remove ==
  /\ "remove" \in Requests
  /\ lock = "free"
  /\ enabled' = FALSE /\ deleting' = TRUE
  /\ \/ hpc' = "down" /\ win' = {} /\ todo' = {}
     \/ UNCHANGED <<hpc, win, todo>>
  /\ UNCHANGED <<tomb, source, syncVars, running, pending, lock, workerVars,
                 hgen, cliVars>>

\* `profile restore` of a tombstoned profile: RestoreProfile, then
\* RequestReconcile, without the lock.
RestoreBegin ==
  /\ "restore" \in Requests
  /\ tomb /\ cpc = "idle"
  /\ tomb' = FALSE /\ deleting' = FALSE
  /\ cpc' = "restoring"
  /\ UNCHANGED <<enabled, source, syncVars, running, pending, lock, workerVars,
                 watcherVars, cgen, asRead>>

RestoreEnd ==
  /\ cpc = "restoring"
  /\ LET g == Max2(source, last + 1)
     IN  g <= MaxGen /\ Cover(g)
  /\ cpc' = "idle"
  /\ UNCHANGED <<profileVars, source, last, current, gateVars, windowVars,
                 manual, running, pending, lock, workerVars, watcherVars, cgen,
                 asRead>>

\* `profile migrate`: requireProfile reads the row, `enabled` included ...
MigrateRead ==
  /\ "migrate" \in Requests
  /\ ~tomb /\ cpc = "idle"
  /\ asRead' = enabled /\ cpc' = "opened"
  /\ UNCHANGED <<profileVars, source, syncVars, running, pending, lock,
                 workerVars, watcherVars, cgen>>

\* ... then withProfileLock goes around the copy, the cutover and the wait for one
\* reconciliation of the new destination.
MigrateBegin ==
  /\ cpc = "opened" /\ lock = "free"
  /\ lock' = "cli" /\ cpc' = "copying"
  /\ UNCHANGED <<profileVars, source, syncVars, running, pending, workerVars,
                 watcherVars, cgen, asRead>>

\* UpdateProfileFields writes every field of the row as it was read.
MigrateCutover ==
  /\ cpc = "copying"
  /\ enabled' = asRead
  /\ cpc' = "cutover"
  /\ UNCHANGED <<deleting, tomb, source, syncVars, running, pending, lock,
                 workerVars, watcherVars, cgen, asRead>>

\* runReconcile(wait = true).
MigrateSubmit ==
  /\ cpc = "cutover"
  /\ SubmitManualTx(0)
  /\ cpc' = "waiting" /\ cgen' = NextOpportunity
  /\ UNCHANGED <<profileVars, source, last, current, running, pending, lock,
                 workerVars, watcherVars, asRead>>

\* `profile migrate` returns, and gives back the lock if it has it.
MigrateReturn ==
  /\ lock' = (IF cpc = "opened" THEN lock ELSE "free")
  /\ cpc' = "idle" /\ asRead' = FALSE
  /\ UNCHANGED <<profileVars, source, syncVars, running, pending, workerVars,
                 watcherVars, cgen>>

\* The lock is held by another, or the copy, its verification or a write fails.
MigrateFail ==
  /\ cpc \in {"opened", "copying", "cutover"}
  /\ MigrateReturn

\* waitForGeneration returns: the generation succeeded, the profile is blocked
\* by a terminal error, or - only while no worker serves the live socket - the
\* 24-hour deadline of the SQLite fallback passed.
MigrateEnd ==
  /\ cpc = "waiting"
  /\ \/ last >= cgen
     \/ state = "error" /\ rc = "terminal"
     \/ wpc = "down"
  /\ MigrateReturn

-----------------------------------------------------------------------------
(* The worker process.                                                     *)

\* Everything a pass that only moves the program counter leaves alone.
Goto(from, to) ==
  /\ wpc = from /\ wpc' = to
  /\ UNCHANGED <<profileVars, source, syncVars, running, pending, run, wgen,
                 snap, listed, crashes, watcherVars, cliVars>>

\* runWorker: singleton ownership, then workerRecover lists its profiles.
WorkerStart ==
  /\ wpc = "down"
  /\ wpc' = "recover" /\ listed' = Runnable
  /\ UNCHANGED <<profileVars, source, syncVars, running, pending, lock, run,
                 wgen, snap, crashes, watcherVars, cliVars>>

\* Mutation: only the pointer is cleared.
OrphanPointerOnly ==
  /\ UNCHANGED running
  /\ current' = NoRun
  /\ state' = DebtState

\* OrphanCurrentRun of a listed profile: its running rows fail, the pointer is
\* cleared and the public state is recomputed from the debt.
OrphanCurrentRun ==
  /\ running' = {}
  /\ current' = NoRun
  /\ state' = DebtState

\* workerRecover: a profile that was not listed, or whose transaction failed, is
\* passed over.
Recover ==
  /\ wpc = "recover" /\ wpc' = "final"
  /\ \/ listed /\ OrphanCurrentRun
     \/ (listed => StoreFails) /\ UNCHANGED <<running, current, state>>
  /\ UNCHANGED <<profileVars, source, desired, last, gateVars, windowVars,
                 manual, pending, lock, run, wgen, snap, listed, crashes,
                 watcherVars, cliVars>>

\* The process dies.  Its memory is gone and its lock file is stale, which the
\* next Acquire recovers.
WorkerCrash ==
  /\ wpc # "down" /\ crashes < MaxCrashes
  /\ wpc' = "down" /\ crashes' = crashes + 1
  /\ run' = Idle /\ wgen' = NoGen /\ snap' = NoEvents /\ listed' = FALSE
  /\ lock' = (IF lock = "worker" THEN "free" ELSE lock)
  /\ UNCHANGED <<profileVars, source, syncVars, running, pending, watcherVars,
                 cliVars>>

\* Mutation: deletion does not wait for the active run.
FinalizeScanEager ==
  /\ Goto("final", IF deleting /\ ~tomb THEN "clearing" ELSE "idle")
  /\ UNCHANGED lock

\* Mutation: deletion waits until nothing is owed.
FinalizeScanPatient ==
  /\ Goto("final", IF deleting /\ ~tomb /\ current = NoRun /\ ~HasDebt
                   THEN "clearing" ELSE "idle")
  /\ UNCHANGED lock

\* finalizeDeletions: DeletingProfiles and GetSyncState, then three statements
\* without the profile lock.
FinalizeScan ==
  /\ Goto("final", IF deleting /\ ~tomb /\ current = NoRun
                   THEN "clearing" ELSE "idle")
  /\ UNCHANGED lock

ClearPending ==
  /\ wpc = "clearing" /\ wpc' = "tombing"
  /\ pending' = NoEvents
  /\ UNCHANGED <<profileVars, source, syncVars, running, lock, run, wgen, snap,
                 listed, crashes, watcherVars, cliVars>>

\* Mutation: the request is cancelled before the tombstone is written.
TombstoneLast ==
  /\ wpc = "tombing" /\ wpc' = "cancelling"
  /\ deleting' = FALSE
  /\ UNCHANGED <<enabled, tomb, source, syncVars, running, pending, lock, run,
                 wgen, snap, listed, crashes, watcherVars, cliVars>>

TombstoneProfile ==
  /\ wpc = "tombing" /\ wpc' = "cancelling"
  /\ enabled' = FALSE /\ tomb' = TRUE
  /\ UNCHANGED <<deleting, source, syncVars, running, pending, lock, run, wgen,
                 snap, listed, crashes, watcherVars, cliVars>>

CancelProfileDeletion ==
  /\ wpc = "cancelling" /\ wpc' = "idle"
  /\ deleting' = FALSE
  /\ UNCHANGED <<enabled, tomb, source, syncVars, running, pending, lock, run,
                 wgen, snap, listed, crashes, watcherVars, cliVars>>

\* A statement of finalizeDeletions fails: the pass ends there.
FinalizeFail ==
  /\ StoreFails
  /\ wpc \in {"clearing", "tombing", "cancelling"} /\ wpc' = "idle"
  /\ UNCHANGED <<profileVars, source, syncVars, running, pending, lock, run,
                 wgen, snap, listed, crashes, watcherVars, cliVars>>

\* runWorkerPass: activeProfilesFor, acquireProfileLock and
\* loadOwnedExecutionState.
PassScan ==
  /\ Goto("idle", IF Runnable THEN "locking" ELSE "final")
  /\ UNCHANGED lock

PassLock ==
  \/ Goto("locking", "owned") /\ lock = "free" /\ lock' = "worker"
  \/ Goto("locking", "final") /\ lock # "free" /\ UNCHANGED lock

\* Not runnable any more, or a failed read: the pass gives the lock back.
LoadOwned ==
  /\ \/ Goto("owned", "claiming") /\ Runnable
     \/ Goto("owned", "unlock") /\ (Runnable => StoreFails)
  /\ UNCHANGED lock

Unlock ==
  /\ Goto("unlock", "final")
  /\ lock' = "free"

-----------------------------------------------------------------------------
(* Claiming, executing and committing a run.                               *)

\* The one-attempt metadata applies to a claim of exactly its generation.
ManualCovers == manual.gen = desired

GateBlocked ==
  /\ state = "error"
  /\ \/ rc = "terminal"
     \/ rc \in {"retryable", "limited"} /\ retryAt > 0

Deferred == ~ManualCovers /\ notBefore > 0

Claimable ==
  /\ Runnable /\ current = NoRun
  /\ HasDebt /\ ~GateBlocked /\ ~Deferred

\* Mutation: the manual metadata is read and not consumed.
ClaimRunKeepingManual(id) ==
  /\ wpc = "claiming" /\ Claimable
  /\ \A r \in running : r.id # id
  /\ LET r == [id |-> id, target |-> desired,
               allow |-> IF ManualCovers THEN manual.allow ELSE 0]
     IN  run' = r /\ running' = running \cup {r}
  /\ current' = id
  /\ state' = (IF last = NoGen THEN "initializing" ELSE "syncing")
  /\ notBefore' = Unset /\ deadline' = Unset
  /\ wpc' = "executing"
  /\ UNCHANGED <<profileVars, source, desired, last, gateVars, manual, pending,
                 lock, wgen, snap, listed, crashes, watcherVars, cliVars>>

\* claimRun: insert the run row at the desired generation, consume the manual
\* metadata it used, point the profile at it and close the debounce window.
ClaimRun(id) ==
  /\ wpc = "claiming" /\ Claimable
  /\ \A r \in running : r.id # id
  /\ LET r == [id |-> id, target |-> desired,
               allow |-> IF ManualCovers THEN manual.allow ELSE 0]
     IN  run' = r /\ running' = running \cup {r}
  /\ manual' = (IF ManualCovers THEN NoManual ELSE manual)
  /\ current' = id
  /\ state' = (IF last = NoGen THEN "initializing" ELSE "syncing")
  /\ notBefore' = Unset /\ deadline' = Unset
  /\ wpc' = "executing"
  /\ UNCHANGED <<profileVars, source, desired, last, gateVars, pending, lock,
                 wgen, snap, listed, crashes, watcherVars, cliVars>>

NotClaimed ==
  /\ ~Claimable /\ Goto("claiming", "lane")
  /\ UNCHANGED lock

\* markDirtyIfChangedProtected: the second scan of the source agrees with the
\* first, or BumpGeneration and EnsureReconcileGeneration record more intent.
SourceClean ==
  /\ Goto("executing", "committing")
  /\ UNCHANGED lock

SourceDirty ==
  /\ wpc = "executing" /\ source < MaxGen
  /\ source' = source + 1 /\ wgen' = source + 1
  /\ wpc' = "dirty"
  /\ UNCHANGED <<profileVars, syncVars, running, pending, lock, run, snap,
                 listed, crashes, watcherVars, cliVars>>

EnsureDirty ==
  /\ wpc = "dirty"
  /\ Cover(AtLeastOne(wgen))
  /\ wgen' = NoGen
  /\ wpc' = "committing"
  /\ UNCHANGED <<profileVars, source, last, current, gateVars, windowVars,
                 manual, running, pending, lock, run, snap, listed, crashes,
                 watcherVars, cliVars>>

Finished == {r \in running : r.id # run.id}

\* What a successful commit leaves behind, given the generation it credits and
\* the public state it stores.
SucceedThrough(g, st) ==
  /\ wpc = "committing"
  /\ running' = Finished
  /\ last' = g
  /\ current' = NoRun
  /\ rc' = "none" /\ retryAt' = Unset /\ limited' = 0
  /\ state' = st
  /\ pending' = Without(pending, {p \in DOMAIN pending :
                                    pending[p] <= run.target})
  /\ run' = Idle
  /\ wpc' = "unlock"
  /\ UNCHANGED <<profileVars, source, desired, windowVars, manual, lock, wgen,
                 snap, listed, crashes, watcherVars, cliVars>>

\* Mutation: success is credited to whatever is wanted by now.
CommitRunSuccessThroughDesired == SucceedThrough(desired, "ready")

\* Mutation: the remaining debt is not looked at.
CommitRunSuccessReady == SucceedThrough(Max2(last, run.target), "ready")

\* CommitRunSuccess: success counts through the run's target only, and the
\* events it covers are deleted.
CommitRunSuccess ==
  LET covered == Max2(last, run.target)
  IN  SucceedThrough(covered,
                     IF desired <= covered THEN "ready" ELSE "syncing")

\* The durable gate of a failure: a backoff, or closed.  An unclassified
\* failure turns terminal once its retries are used up.
FailedAs(class) ==
  \/ /\ class = "retryable"
     /\ rc' = "retryable" /\ retryAt' \in 1..MaxBackoff
     /\ UNCHANGED limited
  \/ /\ class = "limited" /\ limited < LimitedCap
     /\ rc' = "limited" /\ retryAt' \in 1..MaxBackoff
     /\ limited' = limited + 1
  \/ /\ class = "terminal" \/ (class = "limited" /\ limited >= LimitedCap)
     /\ rc' = "terminal" /\ retryAt' = Unset
     /\ UNCHANGED limited

\* Mutation: a failed attempt gives up the generations it was to serve.
CommitRunFailureForgetting(class) ==
  /\ wpc \in {"executing", "dirty", "committing"}
  /\ FailedAs(class)
  /\ running' = Finished
  /\ current' = NoRun
  /\ desired' = last
  /\ state' = "error"
  /\ run' = Idle /\ wgen' = NoGen
  /\ wpc' = "unlock"
  /\ UNCHANGED <<profileVars, source, last, windowVars, manual, pending, lock,
                 snap, listed, crashes, watcherVars, cliVars>>

\* commitFailure and CommitRunFailure, from any step of the execution.
CommitRunFailure(class) ==
  /\ wpc \in {"executing", "dirty", "committing"}
  /\ FailedAs(class)
  /\ running' = Finished
  /\ current' = NoRun
  /\ state' = "error"
  /\ run' = Idle /\ wgen' = NoGen
  /\ wpc' = "unlock"
  /\ UNCHANGED <<profileVars, source, desired, last, windowVars, manual,
                 pending, lock, snap, listed, crashes, watcherVars, cliVars>>

\* A write of the execution fails: the error is returned with no commit, or
\* commitFailure ignores that its own commit failed.
AbandonRun ==
  /\ StoreFails
  /\ wpc \in {"executing", "dirty", "committing"}
  /\ run' = Idle /\ wgen' = NoGen
  /\ wpc' = "unlock"
  /\ UNCHANGED <<profileVars, source, syncVars, running, pending, lock, snap,
                 listed, crashes, watcherVars, cliVars>>

-----------------------------------------------------------------------------
(* The fast lane: runFastUpsertBatchAt.                                    *)

FastList ==
  /\ wpc = "lane" /\ wpc' = "checking"
  /\ snap' = pending
  /\ UNCHANGED <<profileVars, source, syncVars, running, pending, lock, run,
                 wgen, listed, crashes, watcherVars, cliVars>>

\* Debt and an active run win over the batch.
FastEligible == ~HasDebt /\ current = NoRun /\ DOMAIN snap # {}

FastBegin ==
  /\ FastEligible /\ Goto("checking", "uploading")
  /\ UNCHANGED lock

LeaveLane(from) ==
  /\ wpc = from /\ wpc' = "unlock"
  /\ snap' = NoEvents
  /\ UNCHANGED <<profileVars, source, syncVars, running, lock, run, wgen,
                 listed, crashes, watcherVars, cliVars>>

\* Nothing to do, or the batch is not due yet.
FastSkip == LeaveLane("checking") /\ UNCHANGED pending

\* The upload or the ledger write fails: the events stay for a later pass.
FastFail == LeaveLane("uploading") /\ UNCHANGED pending

\* Mutation: only versions older than the snapshot's are cleared.
FastCommitOlder ==
  /\ LeaveLane("uploading")
  /\ pending' = Without(pending, {p \in DOMAIN snap \cap DOMAIN pending :
                                    pending[p] < snap[p]})

\* ClearPendingEvents: exactly the versions of the snapshot.
FastCommit ==
  /\ LeaveLane("uploading")
  /\ pending' = Without(pending, {p \in DOMAIN snap \cap DOMAIN pending :
                                    pending[p] <= snap[p]})

-----------------------------------------------------------------------------
(* Time.  A timer counts down to 0, "now has reached it".                  *)

Elapse(t) == IF t > 0 THEN t - 1 ELSE t

Tick ==
  /\ retryAt > 0 \/ notBefore > 0 \/ deadline > 0
  /\ retryAt' = Elapse(retryAt)
  /\ notBefore' = Elapse(notBefore)
  /\ deadline' = Elapse(deadline)
  /\ UNCHANGED <<profileVars, source, desired, last, current, state, rc,
                 limited, manual, running, pending, lock, workerVars,
                 watcherVars, cliVars>>

-----------------------------------------------------------------------------

EventNext   == \E p \in Paths : RecordSafe(p) \/ RecordFull(p)
WatcherStep == \/ FireBatch \/ Promote
               \/ ScheduleRead \/ ScheduleEnsure \/ ScheduleWindow
               \/ \E p \in Paths : BatchRecord(p)
WatcherNext == WatcherStep \/ WatcherStop \/ WatcherStart
CommandNext ==
  \/ \E a \in Allowances : SubmitManual(a)
  \/ SubmitScheduled \/ CommitPolicy
  \/ Disable \/ Enable \/ Remove
  \/ RestoreBegin \/ RestoreEnd
  \/ MigrateRead \/ MigrateBegin \/ MigrateCutover \/ MigrateSubmit
  \/ MigrateFail \/ MigrateEnd

\* What the worker does by itself ...
WorkerStep ==
  \/ WorkerStart \/ Recover
  \/ FinalizeScan \/ ClearPending \/ TombstoneProfile \/ CancelProfileDeletion
  \/ FinalizeFail
  \/ PassScan \/ PassLock \/ LoadOwned \/ Unlock
  \/ (\E id \in RunIds : ClaimRun(id)) \/ NotClaimed
  \/ EnsureDirty
  \/ FastList \/ FastSkip \/ FastBegin
\* ... and the outcomes of the transfers it started.
Outcome ==
  \/ SourceClean \/ SourceDirty \/ CommitRunSuccess
  \/ (\E c \in Classes : CommitRunFailure(c)) \/ AbandonRun
  \/ FastFail \/ FastCommit

Next == \/ EventNext \/ WatcherNext \/ CommandNext
        \/ WorkerStep \/ Outcome \/ WorkerCrash
        \/ Tick

Spec == Init /\ [][Next]_vars

(***************************************************************************)
(* Fairness.  The worker polls every five seconds and launchd restarts it; *)
(* the debouncer ticks every 100 ms; time passes; a command that was begun *)
(* goes on.  A started transfer ends, and of infinitely many transfers     *)
(* some succeed on a source that holds still: that is the environment's    *)
(* part of the promise.  An event row becomes due (first_seen plus 30 s),  *)
(* so of infinitely many looks at it some find it due.                     *)
(***************************************************************************)
Fairness ==
  /\ WF_vars(WorkerStep) /\ WF_vars(WatcherStep) /\ WF_vars(Tick)
  /\ WF_vars(RestoreEnd) /\ WF_vars(MigrateEnd)
  /\ WF_vars(MigrateFail \/ MigrateBegin \/ MigrateCutover \/ MigrateSubmit)
  /\ WF_vars(Outcome)
  /\ SF_vars(SourceClean) /\ SF_vars(CommitRunSuccess)
  /\ SF_vars(FastBegin) /\ SF_vars(FastCommit)

LiveSpec == Spec /\ Fairness

-----------------------------------------------------------------------------
(* Properties.                                                             *)

FlagTypeOK ==
  /\ enabled \in BOOLEAN /\ deleting \in BOOLEAN /\ tomb \in BOOLEAN
  /\ listed \in BOOLEAN /\ asRead \in BOOLEAN

ProfileTypeOK ==
  /\ source \in Generations /\ desired \in Generations /\ last \in Generations
  /\ current \in RunIds \cup {NoRun}
  /\ state \in States

GateTypeOK ==
  /\ rc \in Classes \cup {"none"}
  /\ retryAt \in Unset..MaxBackoff
  /\ limited \in 0..LimitedCap
  /\ notBefore \in Unset..DebounceTicks
  /\ deadline \in Unset..DeadlineTicks

RunTypeOK ==
  /\ manual \in [gen : Generations, allow : Allowances \cup {0}]
  /\ running \subseteq Runs

EventTypeOK ==
  /\ DOMAIN pending \subseteq Paths /\ DOMAIN snap \subseteq Paths
  /\ \A p \in DOMAIN pending : pending[p] \in Generations
  /\ \A p \in DOMAIN snap : snap[p] \in Generations

ProcessTypeOK ==
  /\ lock \in {"free", "worker", "cli"}
  /\ wpc \in Workers /\ wgen \in Generations
  /\ crashes \in 0..MaxCrashes
  /\ hpc \in Watchers /\ hgen \in Generations
  /\ win \subseteq Paths /\ todo \subseteq Paths
  /\ cpc \in {"idle", "restoring", "opened", "copying", "cutover", "waiting"}
  /\ cgen \in Generations

RowTypeOK ==
  ProfileTypeOK /\ GateTypeOK /\ RunTypeOK /\ EventTypeOK /\ ProcessTypeOK

\* Every row, timer and program counter has its type: in particular the limited
\* failures stop at their cap and a debounce window is never longer than its
\* delay.
TypeOK == FlagTypeOK /\ RowTypeOK

\* "`ready` is never reported while a known newer desired generation remains
\* unsatisfied": whichever of the eight writers of desired_generation, of the
\* commits and of the recovery wrote last.
ReadyMeansNoDebt == state = "ready" => ~HasDebt

\* An error gate never outlives the debt it blocks: `error` means work is owed,
\* so a retry or a manual request always has something to claim.
ErrorMeansDebt == state = "error" => HasDebt

\* profile_sync_state.current_run_id and sync_runs agree: at most one running
\* row, which is the one the profile points at, through every crash, recovery
\* and abandoned run; and a worker inside an execution still owns that row.
RunOwnership ==
  /\ running = {} => current = NoRun
  /\ \A r \in running : r.id = current
  /\ \A r, s \in running : r = s
  /\ wpc \in {"executing", "dirty", "committing"} => run \in running

\* Success and execution never get ahead of intent.
GenerationOrder ==
  /\ last <= desired
  /\ \A r \in running : r.target <= desired /\ r.target >= 1
  /\ manual.gen <= desired

\* `reconcile-now --allow-deletes` authorises one claimed attempt: while a run
\* holds an override, no metadata that could grant it again to a retry of the
\* same generation is left behind.
OverrideOneAttempt ==
  \A r \in running : r.allow > 0 => manual.gen # r.target

\* A tombstoned profile is at rest: no attempt is recorded as running for it and
\* none executes, although finalizeDeletions works without the profile lock and
\* commands that passed requireProfile before may still submit, enable, migrate or
\* request deletion after it.
TombstonedAtRest ==
  tomb => running = {} /\ wpc \notin {"executing", "dirty", "committing"}

\* The columns of profile_sync_state and the running rows keep the promise of
\* Intent through every event, command, failure, crash and recovery: success
\* is credited to the target captured at claim time and to nothing newer.
Promise == INSTANCE Intent
             WITH want <- desired, done <- last,
                  attempt <- {r.target : r \in running}

ImplementsIntent == Promise!Spec

\* A running row is always for generations not yet served, and nothing runs
\* while a deletion is being finalised.
RunsOweDebt  == \A r \in running : last < r.target
QuietFinalise == wpc \in {"clearing", "tombing"} => current = NoRun

\* What a process read stays behind what it read: a generation that the watcher
\* or the worker remembers from the source is one the source had.
ReadsOfSource == source >= 1 /\ hgen <= source /\ wgen <= source

\* The inductive strengthening of the invariants above: ErrorMeansDebt needs
\* RunsOweDebt (a failing run leaves its own debt), TombstonedAtRest needs
\* QuietFinalise (what finalizeDeletions saw still holds two statements later) and
\* AheadOnRequest needs ReadsOfSource.
IndInv ==
  /\ TypeOK
  /\ ReadyMeansNoDebt /\ ErrorMeansDebt
  /\ RunOwnership /\ GenerationOrder /\ RunsOweDebt
  /\ OverrideOneAttempt
  /\ QuietFinalise /\ TombstonedAtRest
  /\ ReadsOfSource

\* "Profile deletion intent is durable": on a live profile nothing takes an
\* accepted deletion request back, whichever commands interleave with the three
\* statements of finalizeDeletions.
DeletionKept == [][deleting /\ ~tomb => deleting']_vars

\* Who works under the profile lock: the worker from the lock to the unlock of a
\* pass, `profile migrate` from its copy to the end of its wait.
InPass    == {"owned", "claiming", "executing", "dirty", "committing", "lane",
              "checking", "uploading", "unlock"}
Migrating == cpc \in {"copying", "cutover", "waiting"}
LockUsers == {u \in {"worker", "cli"} :
                IF u = "worker" THEN wpc \in InPass ELSE Migrating}

\* "A PID-aware per-profile mutex": on every way into and out of a pass and a
\* migration, failing statements and crashes included, one of them at a time is at
\* work on the profile.
ProfileLock == INSTANCE Slots
                 WITH Users <- {"worker", "cli"}, Limit <- 1, using <- LockUsers

ImplementsMutex == ProfileLock!Spec

GateClosed == state = "error" /\ rc = "terminal"

\* "Terminal failures close the automatic claim gate": while the worker stays
\* up, only an explicit manual request opens it again, and no event, schedule,
\* policy commit, watcher decision or late commit does.
TerminalGateKept ==
  [][GateClosed /\ ~GateClosed' => manual'.gen > desired \/ Recover]_vars

\* Only a request that asks for one more opportunity raises the intent above the
\* source: the watcher's and the worker's writes, whose generation was read some
\* statements before, and a policy commit never do, so that nothing but such a
\* request can make a run take credit for changes that are still to come.
AsksAhead ==
  (\E a \in Allowances : SubmitManual(a)) \/ SubmitScheduled \/ RestoreEnd
    \/ MigrateSubmit

AheadOnRequest ==
  [][desired' > desired => desired' <= source' \/ AsksAhead]_vars

\* A destructive event leaves something to claim, except while the intent is
\* already ahead of the source, where its generation may be one that an earlier
\* success was credited with.
DestructiveEventIsDebt ==
  [][\A p \in Paths : RecordFull(p) => HasDebt' \/ desired > source]_vars

\* A row still running that no execution owns: its worker died, and workerRecover of
\* the next one passed over the profile, which was disabled or being deleted.  The
\* pointer keeps every pass from claiming and from finalising until a later restart.
Stranded == running # {} /\ run = Idle /\ wpc \notin {"down", "recover"}

\* The generation a request of this moment would wait for is reached, whatever is
\* asked next, or the profile stops being runnable, or a terminal failure asks for
\* the operator; a stranded attempt is the one thing that withholds it.
GenerationReached ==
  \A g \in 1..MaxGen :
     desired >= g ~> (last >= g \/ ~Runnable \/ GateClosed \/ Stranded)

\* A recorded event is consumed: uploaded, or covered by a full reconcile.
EventsServed ==
  DOMAIN pending # {} ~> (DOMAIN pending = {} \/ ~Runnable \/ GateClosed)

\* An accepted deletion is finalised, through a worker crash and whatever is asked
\* of the profile meanwhile; a stranded attempt is the one thing that withholds it.
DeletionFinalised == deleting ~> (tomb \/ Stranded)

\* "One successful sync/reconcile against the new destination": what `profile
\* migrate` waits for comes, unless the worker may not or cannot run it.
MigrationReconciled ==
  cpc = "waiting" ~> (last >= cgen \/ ~Runnable \/ GateClosed)
==============================================================================
