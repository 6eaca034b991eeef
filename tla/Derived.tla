-------------------------------- MODULE Derived --------------------------------
(***************************************************************************)
(* The compiler's generations of ONE profile and their derived namespace on *)
(* the remote (internal/state/compiler.go, compiler/generation.go,          *)
(* derived/publisher.go, cli/compiler.go, cli/worker.go runDerivedPass).    *)
(*                                                                         *)
(* `compile' writes an immutable generation, replaces the root pointer,    *)
(* collects old generations and records the new desire; `compiler clean'   *)
(* removes everything and records that absence is desired.  Both hold the  *)
(* compiler lock, whose holder may die.  The worker claims the present desire *)
(* under that lock, pins the generation, and publishes or purges without it. *)
(***************************************************************************)
EXTENDS Integers, FiniteSets

CONSTANTS
  MaxGenerations,   \* bound on compiles
  MaxCleans,        \* bound on cleans
  MaxFaults,        \* bound on the worker's crashes, lost statements and transient
                    \* failures
  MaxBroken,        \* bound on commands that die or fail half-way
  ReadsFail         \* TRUE: compile may fail to read the pin, which it ignores

ASSUME SwitchAssumption == ReadsFail \in BOOLEAN
ASSUME BoundsAssumption ==
  MaxGenerations \in Nat /\ MaxCleans \in Nat /\ MaxFaults \in Nat /\ MaxBroken \in Nat

VARIABLES
  gens, pointer,        \* generations/ and the root MANIFEST.json
  mode, want, rev,      \* desired_derived_mode, _generation_id, _revision
  dstate,               \* derived_state
  pin,                  \* active_publish_generation_id
  rstate, published,    \* remote_state, remote_published_generation_id
  gate, gateKey,        \* derived_retry_classification, _target_key
  clean,                \* local_clean_state
  enabled,              \* profiles.enabled
  details, manifest, sidecar,   \* the derived namespace and its owner's mark
  lock,                 \* who holds the compiler lock
  cpc, job,             \* the command: where it is, its generation and pin
  wpc, run,             \* the worker: where it is, its claimed run
  made, cleans, faults, broken

diskVars   == <<gens, pointer>>
wantVars   == <<mode, want, rev>>
gateVars   == <<gate, gateKey>>
stateVars  == <<rstate, published, pin, gateVars>>
remoteVars == <<details, manifest, sidecar>>
cmdVars    == <<cpc, job>>
workerVars == <<wpc, run>>
counters   == <<made, cleans, faults, broken>>

vars == <<diskVars, wantVars, dstate, stateVars, clean, enabled, remoteVars, lock,
          cmdVars, workerVars, counters>>

Gens  == 1..MaxGenerations   \* in the order of their modification times
None  == 0
Mixed == MaxGenerations + 1  \* details of which a part was transferred or deleted

NoJob == [gen |-> None, keep |-> None]
NoRun == [kind |-> "none", gen |-> None, key |-> <<"none", None, 0>>]
NoKey == NoRun.key

Init ==
  /\ gens = {} /\ pointer = None
  /\ mode = "absent" /\ want = None /\ rev = 0 /\ dstate = "pending"
  /\ pin = None /\ rstate = "unknown" /\ published = None
  /\ gate = "none" /\ gateKey = NoKey /\ clean = "none" /\ enabled = TRUE
  /\ details = None /\ manifest = None /\ sidecar = FALSE
  /\ lock = "free" /\ cpc = "idle" /\ job = NoJob /\ wpc = "down" /\ run = NoRun
  /\ made = 0 /\ cleans = 0 /\ faults = 0 /\ broken = 0

-----------------------------------------------------------------------------
(* compile, under the compiler lock.                                       *)

\* StartCompilerRun, and compiler.Compile, which keeps nothing outside memory.
CompileBegin ==
  /\ cpc = "idle" /\ lock = "free" /\ made < MaxGenerations
  /\ lock' = "command" /\ cpc' = "compiled"
  /\ made' = made + 1 /\ job' = [gen |-> made + 1, keep |-> None]
  /\ UNCHANGED <<diskVars, wantVars, dstate, stateVars, clean, enabled, remoteVars,
                 workerVars, cleans, faults, broken>>

\* The pin is read once, before the generation is written.
CompileReadPin ==
  /\ cpc = "compiled"
  /\ \E p \in {pin} \cup (IF ReadsFail THEN {None} ELSE {}) :
        job' = [job EXCEPT !.keep = p]
  /\ cpc' = "stage"
  /\ UNCHANGED <<diskVars, wantVars, dstate, stateVars, clean, enabled, remoteVars,
                 lock, workerVars, counters>>

\* Mutation: the pointer names the generation before it is in place.
PointFirst ==
  /\ cpc = "stage"
  /\ pointer' = job.gen /\ cpc' = "staged"
  /\ UNCHANGED <<gens, wantVars, dstate, stateVars, clean, enabled, remoteVars, lock,
                 job, workerVars, counters>>

\* The staged directory is renamed into generations/.
RenameStage ==
  /\ cpc = "stage"
  /\ gens' = gens \cup {job.gen} /\ cpc' = "staged"
  /\ UNCHANGED <<pointer, wantVars, dstate, stateVars, clean, enabled, remoteVars,
                 lock, job, workerVars, counters>>

\* atomicReplace of the root pointer.
ReplacePointer ==
  /\ cpc = "staged"
  /\ pointer' = job.gen /\ cpc' = "collect"
  /\ UNCHANGED <<gens, wantVars, dstate, stateVars, clean, enabled, remoteVars, lock,
                 job, workerVars, counters>>

\* Mutation: nothing but the current and the pinned generation is kept.
GarbageAll == gens \ {job.gen, job.keep}

\* bestEffortGC keeps the current, the pinned and the newest other generation.
Garbage ==
  LET others == gens \ {job.gen, job.keep}
  IN  {g \in others : \E newer \in others : g < newer}

\* Errors of the collection are ignored.
CollectGarbage ==
  /\ cpc = "collect"
  /\ \E gone \in SUBSET Garbage : gens' = gens \ gone
  /\ cpc' = "record"
  /\ UNCHANGED <<pointer, wantVars, dstate, stateVars, clean, enabled, remoteVars,
                 lock, job, workerVars, counters>>

\* The new desire, which takes the place of every older one.
Desire(m, g) ==
  mode' = m /\ want' = g /\ rev' = rev + 1 /\ dstate' = "pending"

FinishCompilerRun ==
  /\ cpc = "record"
  /\ Desire("generation", job.gen)
  /\ lock' = "free" /\ cpc' = "idle" /\ job' = NoJob
  /\ UNCHANGED <<diskVars, stateVars, clean, enabled, remoteVars, workerVars, counters>>

-----------------------------------------------------------------------------
(* compiler clean, under the compiler lock.                                *)

MarkCompilerClean ==
  /\ cpc = "idle" /\ lock = "free" /\ cleans < MaxCleans
  /\ Desire("absent", None) /\ clean' = "committing"
  /\ lock' = "command" /\ cpc' = "marked" /\ cleans' = cleans + 1
  /\ UNCHANGED <<diskVars, stateVars, enabled, remoteVars, job, workerVars, made,
                 faults, broken>>

\* Mutation: a clean trusts its own lock, and reads no pin.
CleanReadNothing ==
  /\ cpc = "marked" /\ cpc' = "unlink"
  /\ UNCHANGED <<diskVars, wantVars, dstate, stateVars, clean, enabled, remoteVars,
                 lock, job, workerVars, counters>>

CleanReadPin ==
  /\ cpc = "marked"
  /\ job' = [job EXCEPT !.keep = pin] /\ cpc' = "unlink"
  /\ UNCHANGED <<diskVars, wantVars, dstate, stateVars, clean, enabled, remoteVars,
                 lock, workerVars, counters>>

CleanUnlink ==
  /\ cpc = "unlink"
  /\ pointer' = None /\ cpc' = "remove"
  /\ UNCHANGED <<gens, wantVars, dstate, stateVars, clean, enabled, remoteVars, lock,
                 job, workerVars, counters>>

CleanRemove ==
  /\ cpc = "remove"
  /\ gens' = gens \cap {job.keep} /\ cpc' = "removed"
  /\ UNCHANGED <<pointer, wantVars, dstate, stateVars, clean, enabled, remoteVars,
                 lock, job, workerVars, counters>>

\* FinishCompilerClean, unless a pinned generation was left.
CleanFinish ==
  /\ cpc = "removed"
  /\ clean' = IF job.keep = None THEN "none" ELSE clean
  /\ lock' = "free" /\ cpc' = "idle" /\ job' = NoJob
  /\ UNCHANGED <<diskVars, wantVars, dstate, stateVars, enabled, remoteVars,
                 workerVars, counters>>

\* The command dies, or a call or a statement of it fails, in the middle of a
\* removal too.
CommandBreaks ==
  /\ cpc # "idle" /\ broken < MaxBroken /\ broken' = broken + 1
  /\ \E gone \in SUBSET (CASE cpc = "collect" -> Garbage
                           [] cpc = "remove"  -> gens \ {job.keep}
                           [] OTHER           -> {}) : gens' = gens \ gone
  /\ lock' = "free" /\ cpc' = "idle" /\ job' = NoJob
  /\ UNCHANGED <<pointer, wantVars, dstate, stateVars, clean, enabled, remoteVars,
                 workerVars, made, cleans, faults>>

-----------------------------------------------------------------------------
(* profile disable and enable hold the profile lock, as the worker's pass does. *)

SetProfileEnabled ==
  /\ wpc \in {"idle", "down"}
  /\ enabled' = ~enabled
  /\ dstate' = IF enabled THEN "blocked_disabled"
               ELSE IF dstate = "blocked_disabled" THEN "pending" ELSE dstate
  /\ UNCHANGED <<diskVars, wantVars, stateVars, clean, remoteVars, lock, cmdVars,
                 workerVars, counters>>

-----------------------------------------------------------------------------
(* The worker.                                                             *)

\* RecoverDerivedRuns: pins of a dead worker are released.
WorkerStart ==
  /\ wpc = "down" /\ wpc' = "idle"
  /\ IF pin = None THEN UNCHANGED <<dstate, pin, gateVars>>
     ELSE /\ pin' = None /\ gate' = "none" /\ gateKey' = NoKey
          /\ dstate' = IF dstate = "syncing" THEN "pending" ELSE dstate
  /\ UNCHANGED <<diskVars, wantVars, rstate, published, clean, enabled, remoteVars,
                 lock, cmdVars, run, counters>>

TargetKey == <<mode, want, rev>>

\* The remote is as desired, for all that the database knows.
Current ==
  \/ mode = "absent" /\ rstate = "absent"
  \/ mode = "generation" /\ rstate = "generation" /\ published = want

\* Mutation: a gate holds back every desire, not its own alone.
GatedAny == gate \in {"backoff", "terminal"}

\* The last failure of this very desire was terminal or is too recent.
Gated == gateKey = TargetKey /\ gate \in {"backoff", "terminal"}

\* ClaimDerivedRun.  A purge pins nothing.
ClaimDerivedRun ==
  /\ wpc = "idle" /\ lock = "free"
  /\ enabled /\ rev > 0 /\ pin = None /\ ~Current /\ ~Gated
  /\ run' = [kind |-> IF mode = "absent" THEN "purge" ELSE "publish",
             gen |-> want, key |-> TargetKey]
  /\ dstate' = "syncing" /\ pin' = want
  /\ gate' = "none" /\ gateKey' = TargetKey
  /\ lock' = "worker" /\ wpc' = "claimed"
  /\ UNCHANGED <<diskVars, wantVars, rstate, published, clean, enabled, remoteVars,
                 cmdVars, counters>>

FinishDerivedRunFailure(class) ==
  /\ pin' = None
  /\ IF gateKey \in {run.key, NoKey}
     THEN dstate' = "failed" /\ gate' = class /\ gateKey' = run.key
     ELSE UNCHANGED <<dstate, gateVars>>
  /\ UNCHANGED <<diskVars, wantVars, rstate, published, clean, enabled, sidecar,
                 cmdVars, made, cleans, broken>>

\* VerifyGeneration, still under the lock: a generation that is not there fails
\* the run for good.
Verify ==
  /\ wpc = "claimed" /\ lock' = "free"
  /\ IF run.kind = "publish" /\ run.gen \notin gens
     THEN /\ FinishDerivedRunFailure("terminal")
          /\ wpc' = "idle" /\ run' = NoRun
          /\ UNCHANGED <<details, manifest, faults>>
     ELSE /\ wpc' = "own"
          /\ UNCHANGED <<diskVars, wantVars, dstate, stateVars, clean, enabled,
                         remoteVars, cmdVars, run, counters>>

unchangedInTransfer ==
  UNCHANGED <<diskVars, wantVars, dstate, stateVars, clean, enabled, lock, cmdVars,
              run, counters>>

Empty == details = None /\ manifest = None

\* validateOwnership: publishing claims an empty namespace; a purge that finds it
\* empty, with or without a mark, has nothing to do.
ValidateOwnership ==
  /\ wpc = "own" /\ (sidecar \/ Empty)
  /\ IF run.kind = "publish"
     THEN sidecar' = TRUE /\ wpc' = "stat"
     ELSE sidecar' = sidecar /\ wpc' = IF Empty THEN "done" ELSE "purge"
  /\ UNCHANGED <<details, manifest>> /\ unchangedInTransfer

StatGeneration ==
  /\ wpc = "stat" /\ run.gen \in gens
  /\ wpc' = "sync"
  /\ UNCHANGED remoteVars /\ unchangedInTransfer

\* The detail sync, which takes a while.
SyncBegin ==
  /\ wpc = "sync"
  /\ details' = IF details = run.gen THEN details ELSE Mixed
  /\ wpc' = "syncing"
  /\ UNCHANGED <<manifest, sidecar>> /\ unchangedInTransfer

SyncEnd ==
  /\ wpc = "syncing" /\ run.gen \in gens
  /\ details' = run.gen /\ wpc' = "check"
  /\ UNCHANGED <<manifest, sidecar>> /\ unchangedInTransfer

Check ==
  /\ wpc = "check" /\ run.gen \in gens /\ details = run.gen
  /\ wpc' = "commit"
  /\ UNCHANGED remoteVars /\ unchangedInTransfer

\* MANIFEST.json is copied last.
CommitManifest ==
  /\ wpc = "commit"
  /\ manifest' = run.gen /\ wpc' = "done"
  /\ UNCHANGED <<details, sidecar>> /\ unchangedInTransfer

PurgeBegin ==
  /\ wpc = "purge"
  /\ details' = Mixed /\ manifest' \in {manifest, None}
  /\ wpc' = "purging"
  /\ UNCHANGED sidecar /\ unchangedInTransfer

PurgeEnd ==
  /\ wpc = "purging"
  /\ details' = None /\ manifest' = None /\ wpc' = "done"
  /\ UNCHANGED sidecar /\ unchangedInTransfer

Transfer == {"own", "stat", "sync", "syncing", "check", "commit", "purge", "purging"}

\* A call fails, the copy of the manifest perhaps after its effect; where the pass
\* ends a clean may be left to finish.
FailDerivedRun(class) ==
  /\ wpc \in Transfer
  /\ IF class = "backoff" THEN faults < MaxFaults /\ faults' = faults + 1
     ELSE faults' = faults
  /\ manifest' \in {manifest} \cup (IF wpc = "commit" THEN {run.gen} ELSE {})
  /\ details' = details
  /\ FinishDerivedRunFailure(class)
  /\ wpc' = "settle" /\ run' = NoRun /\ lock' = lock

\* Mutation: what was published counts, whatever is desired by now.
Finished == dstate' = "current"

FinishedState ==
  dstate' = IF \/ run.kind = "purge" /\ mode = "absent"
               \/ run.kind = "publish" /\ mode = "generation" /\ want = run.gen
            THEN "current" ELSE "pending"

FinishDerivedRunSuccess ==
  /\ wpc = "done"
  /\ FinishedState
  /\ rstate' = IF run.kind = "purge" THEN "absent" ELSE "generation"
  /\ published' = run.gen
  /\ pin' = None /\ gate' = "none" /\ gateKey' = NoKey
  /\ wpc' = "settle" /\ run' = NoRun
  /\ UNCHANGED <<diskVars, wantVars, clean, enabled, remoteVars, lock, cmdVars,
                 counters>>

\* The last statement of a run fails: its pin stays until the worker is restarted.
LosePin ==
  /\ wpc \in Transfer \cup {"done"} \/ (wpc = "claimed" /\ run.gen \notin gens)
  /\ faults < MaxFaults /\ faults' = faults + 1
  /\ wpc' = "idle" /\ run' = NoRun /\ lock' = IF wpc = "claimed" THEN "free" ELSE lock
  /\ UNCHANGED <<diskVars, wantVars, dstate, stateVars, clean, enabled, remoteVars,
                 cmdVars, made, cleans, broken>>

\* finalizePendingCompilerClean: nothing to do, or the lock is somebody else's.
SettleNothing ==
  /\ wpc = "settle" /\ (clean = "none" \/ pin # None \/ lock # "free")
  /\ wpc' = "idle"
  /\ UNCHANGED <<diskVars, wantVars, dstate, stateVars, clean, enabled, remoteVars,
                 lock, cmdVars, run, counters>>

SettleLock ==
  /\ wpc = "settle" /\ lock = "free" /\ clean = "committing" /\ pin = None
  /\ lock' = "worker" /\ wpc' = "unlink"
  /\ UNCHANGED <<diskVars, wantVars, dstate, stateVars, clean, enabled, remoteVars,
                 cmdVars, run, counters>>

SettleUnlink ==
  /\ wpc = "unlink"
  /\ pointer' = None /\ wpc' = "remove"
  /\ UNCHANGED <<gens, wantVars, dstate, stateVars, clean, enabled, remoteVars, lock,
                 cmdVars, run, counters>>

SettleRemove ==
  /\ wpc = "remove"
  /\ gens' = {} /\ wpc' = "removed"
  /\ UNCHANGED <<pointer, wantVars, dstate, stateVars, clean, enabled, remoteVars,
                 lock, cmdVars, run, counters>>

SettleFinish ==
  /\ wpc = "removed"
  /\ clean' = "none" /\ lock' = "free" /\ wpc' = "idle"
  /\ UNCHANGED <<diskVars, wantVars, dstate, stateVars, enabled, remoteVars, cmdVars,
                 run, counters>>

\* The worker dies, or its clean-up fails; a removal may be half done.
Interrupt ==
  /\ wpc \notin {"down", "idle"} /\ faults < MaxFaults /\ faults' = faults + 1
  /\ wpc' \in IF wpc \in {"unlink", "remove", "removed"} THEN {"down", "idle"}
              ELSE {"down"}
  /\ \E gone \in SUBSET (IF wpc = "remove" THEN gens ELSE {}) : gens' = gens \ gone
  /\ run' = NoRun /\ lock' = IF lock = "worker" THEN "free" ELSE lock
  /\ UNCHANGED <<pointer, wantVars, dstate, stateVars, clean, enabled, remoteVars,
                 cmdVars, made, cleans, broken>>

\* Time: derived_next_retry_at has passed.
BackoffOver ==
  /\ gate = "backoff" /\ gate' = "due"
  /\ UNCHANGED <<diskVars, wantVars, dstate, rstate, published, pin, gateKey, clean,
                 enabled, remoteVars, lock, cmdVars, workerVars, counters>>

-----------------------------------------------------------------------------

Command == \/ CompileBegin \/ CompileReadPin \/ RenameStage \/ ReplacePointer
           \/ CollectGarbage \/ FinishCompilerRun
           \/ MarkCompilerClean \/ CleanReadPin \/ CleanUnlink \/ CleanRemove
           \/ CleanFinish

Publish == StatGeneration \/ SyncBegin \/ SyncEnd \/ Check \/ CommitManifest
Purge   == PurgeBegin \/ PurgeEnd

Settle == SettleNothing \/ SettleLock \/ SettleUnlink \/ SettleRemove \/ SettleFinish

WorkerStep ==
  \/ WorkerStart \/ ClaimDerivedRun \/ Verify \/ ValidateOwnership
  \/ Publish \/ Purge
  \/ \E class \in {"backoff", "terminal"} : FailDerivedRun(class)
  \/ FinishDerivedRunSuccess \/ Settle

Next ==
  \/ Command \/ CommandBreaks \/ SetProfileEnabled
  \/ WorkerStep \/ LosePin \/ Interrupt \/ BackoffOver

\* A command that was begun goes on; the worker comes back for every profile and
\* launchd restarts it; time passes.
Fairness ==
  /\ WF_vars(Command /\ cpc # "idle") /\ WF_vars(WorkerStep) /\ WF_vars(BackoffOver)

Spec     == Init /\ [][Next]_vars
LiveSpec == Spec /\ Fairness

-----------------------------------------------------------------------------

TypeOK ==
  /\ gens \in SUBSET Gens /\ pointer \in Gens \cup {None}
  /\ mode \in {"absent", "generation"} /\ want \in Gens \cup {None}
  /\ (mode = "generation") = (want # None)
  /\ rev \in 0..(MaxGenerations + MaxCleans)
  /\ dstate \in {"pending", "syncing", "current", "failed", "blocked_disabled"}
  /\ pin \in Gens \cup {None}
  /\ rstate \in {"unknown", "absent", "generation"} /\ published \in Gens \cup {None}
  /\ gate \in {"none", "due", "backoff", "terminal"}
  /\ gateKey \in {"none", "absent", "generation"} \X (Gens \cup {None}) \X Nat
  /\ clean \in {"none", "committing"} /\ enabled \in BOOLEAN
  /\ details \in Gens \cup {None, Mixed} /\ manifest \in Gens \cup {None}
  /\ sidecar \in BOOLEAN
  /\ lock \in {"free", "command", "worker"}
  /\ cpc \in {"idle", "compiled", "stage", "staged", "collect", "record",
              "marked", "unlink", "remove", "removed"}
  /\ job \in [gen : Gens \cup {None}, keep : Gens \cup {None}]
  /\ wpc \in Transfer \cup {"down", "idle", "claimed", "done", "settle",
                            "unlink", "remove", "removed"}
  /\ run \in [kind : {"none", "publish", "purge"}, gen : Gens \cup {None},
              key : {"none", "absent", "generation"} \X (Gens \cup {None}) \X Nat]
  /\ made \in 0..MaxGenerations /\ cleans \in 0..MaxCleans
  /\ faults \in 0..MaxFaults /\ broken \in 0..MaxBroken

\* "in-flight pin": no compile, collection, clean or finalisation removes a
\* generation from under the worker that publishes it, whoever dies.
PinnedGenerationKept ==
  run.kind = "publish" /\ wpc \in Transfer \cup {"done"}
    => run.gen \in gens /\ pin = run.gen

\* "root pointer never names a partial generation": at every moment, also after a
\* crash between two removals or between rename and replace.
PointerValid == pointer # None => pointer \in gens

\* What the database calls current is what is on the remote: a complete generation
\* with its manifest, the desired one, or nothing at all.
CurrentIsTrue ==
  dstate = "current" =>
    IF mode = "absent" THEN Empty ELSE details = want /\ manifest = want

\* A compile that could not be recorded left a generation newer than the desired one.
Unrecorded == \E g \in gens \ {job.gen} : g > want

\* The generation the database desires leaves the disk only by the late finish of
\* a clean, and by collections after compiles that could not be recorded.
DesiredKept ==
  [][(want \in gens) => \/ want \in gens' \/ mode = "absent"
                        \/ clean = "committing" \/ Unrecorded]_vars

\* "desired generation never names a removed directory".
DesiredOnDisk == mode = "generation" => want \in gens

\* A pin whose run is over: no claim is made until the worker is restarted.
Wedged == pin # None /\ run = NoRun

\* A desire is served, or fails for good by itself, whatever failures earlier
\* desires left behind: again and again the remote is as desired, or the profile is
\* disabled, or a lost pin is in the way.
DesireServed ==
  []<>(\/ rev = 0 \/ Current \/ ~enabled \/ Wedged
       \/ gate = "terminal" /\ gateKey = TargetKey)

\* What a reader who compares the manifest with the details finds on the remote.
Shown == IF details = manifest THEN details ELSE Mixed

\* "MANIFEST last", and what the database says of it: however compiles, cleans,
\* failures and deaths interleave with the worker's transfers, reader and database
\* see an execution of Publication.
Promise == INSTANCE Publication
             WITH Targets <- Gens \cup {None}, Nothing <- None, desire <- want,
                  attempt <- IF run = NoRun THEN {} ELSE {run.gen},
                  shown <- Shown, current <- dstate = "current"

ImplementsPublication == Promise!Spec
================================================================================
