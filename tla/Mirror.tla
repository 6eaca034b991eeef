-------------------------------- MODULE Mirror --------------------------------
(***************************************************************************)
(* The data of ONE profile: its files, the remote copy, the managed ledger *)
(* (table manifest), the committed ignore policy and the pending events,   *)
(* and what a full reconciliation (internal/cli/worker.go, internal/sync)  *)
(* and the fast lane (internal/cli/fastupsert.go) do to them while the     *)
(* files go on changing.                                                   *)
(*                                                                         *)
(* SyncIntent has the control of the same processes: gates, debounce, run  *)
(* rows, the commands that move generations.  Here a run is claimed        *)
(* whenever there is debt, and it may fail, or its worker die, at any step.*)
(***************************************************************************)
EXTENDS Integers, FiniteSets

CONSTANTS
  Paths,
  Policies,     \* policy hashes
  Ignores,      \* what the snapshot with a hash ignores
  NoPolicy,     \* refreshed_policy_hash, suppressed_policy_hash IS NULL
  Limits,       \* delete budgets a claim may capture
  MaxVersion,   \* bound on the versions of a file (size and mtime)
  MaxChanges,   \* bound on the changes of files
  MaxGen        \* bound on generations

ASSUME PathsAssumption == IsFiniteSet(Paths)
ASSUME PolicyAssumption ==
  /\ NoPolicy \notin Policies
  /\ Ignores \in [Policies -> SUBSET Paths]
ASSUME LimitsAssumption == Limits \subseteq Nat
ASSUME BoundsAssumption ==
  MaxVersion \in Nat \ {0} /\ MaxChanges \in Nat /\ MaxGen \in Nat \ {0}

VARIABLES
  local, changes,          \* files: path |-> version; how often they changed
  unseen,                  \* what fswatch has yet to report of a path
  remote,                  \* the remote copy: path |-> version
  row, by,                 \* manifest: state and suppressed_policy_hash
  policy, refresh, refreshed,   \* profile_ignore_policy
  source, desired, last,   \* generations
  noticed,                 \* the source generation fireBatch has read
  events,                  \* pending_events: path |-> source_generation
  overtaken,               \* history: see Overtake
  pc, run, batch           \* the worker: program counter and memory

fileVars   == <<local, changes>>
ledgerVars == <<row, by>>
policyVars == <<policy, refresh, refreshed>>
genVars    == <<source, desired, last>>
workerVars == <<pc, run, batch>>

eventVars  == <<unseen, noticed, events, overtaken>>

vars == <<fileVars, eventVars, remote, ledgerVars, policyVars, genVars,
          workerVars>>

Absent   == 0                  \* no file
NoGen    == 0                  \* no generation, no event row
Versions == Absent..MaxVersion
Nothing  == [p \in Paths |-> NoGen]

\* What a run holds in memory: the generation it covers, its delete budget, the
\* first scan, the deletions it proved and those still to be executed, and the
\* fingerprint of the preflight.
NoRun == [target |-> NoGen, limit |-> 0, active |-> {}, proven |-> {},
          todo |-> {}, print |-> Nothing]

Running == {"scanning", "preflight", "uploading", "deleting", "checking",
            "refreshing", "readying", "applying", "committing"}
InFast  == {"fast", "ledgering", "clearing"}

Max2(a, b) == IF a > b THEN a ELSE b

Init ==
  /\ local \in [Paths -> {Absent, 1}] /\ changes = 0
  /\ unseen = [p \in Paths |-> "no"]
  /\ remote = [p \in Paths |-> Absent]
  /\ row = [p \in Paths |-> "none"]
  /\ by = [p \in Paths |-> NoPolicy]
  /\ policy \in Policies /\ refresh = "pending" /\ refreshed = NoPolicy
  /\ source = 1 /\ desired = 1 /\ last = NoGen /\ noticed = NoGen
  /\ events = Nothing /\ overtaken = {}
  /\ pc = "idle" /\ run = NoRun /\ batch = Nothing

-----------------------------------------------------------------------------
(* Files and events.                                                       *)

\* The highest generation a run covers, or has covered.
Covered == IF pc \in Running THEN run.target ELSE last

\* A history variable, read by no action: the paths whose present version was
\* recorded at generations that are covered already, because a request had asked
\* for more than the source had reached.  Recording S as debt up to g, which
\* collapses the rows, overtakes S and the rows that the run, if there is one, has
\* not been claimed to cover, unless it leaves debt.
Overtake(S, g) ==
  overtaken' = IF Max2(desired, g) > Covered THEN overtaken
               ELSE overtaken \cup S \cup
                    {p \in Paths : /\ events[p] # NoGen
                                   /\ pc \in Running => events[p] > run.target}

\* Somebody writes, creates or removes a file.  A removal stays visible in the
\* flags of the report until it is recorded, also if the file comes back.
Change(p, v) ==
  /\ changes < MaxChanges /\ v # local[p]
  /\ local' = [local EXCEPT ![p] = v]
  /\ changes' = changes + 1
  /\ unseen' = [unseen EXCEPT ![p] = IF v = Absent THEN "removed"
                                     ELSE IF @ = "no" THEN "changed" ELSE @]
  /\ overtaken' = overtaken \ {p}
  /\ UNCHANGED <<remote, ledgerVars, policyVars, genVars, noticed, events,
                 workerVars>>

\* The watcher records a create or modify: a row and no debt.  A run that covers the
\* row's generation deletes it, also when its scans came before the change.
RecordSafe(p) ==
  /\ unseen[p] = "changed" /\ source < MaxGen
  /\ unseen' = [unseen EXCEPT ![p] = "no"]
  /\ source' = source + 1
  /\ events' = [events EXCEPT ![p] = source + 1]
  /\ overtaken' = IF pc \in Running /\ source + 1 <= run.target
                  THEN overtaken \cup {p} ELSE overtaken
  /\ UNCHANGED <<fileVars, remote, ledgerVars, policyVars, desired, last,
                 workerVars, noticed>>

\* ... or anything else, a save by rename included: debt, and all rows collapse.
RecordFull(p) ==
  /\ unseen[p] # "no" /\ source < MaxGen
  /\ unseen' = [unseen EXCEPT ![p] = "no"]
  /\ source' = source + 1 /\ desired' = Max2(desired, source + 1)
  /\ events' = Nothing /\ Overtake({p}, source + 1)
  /\ UNCHANGED <<fileVars, remote, ledgerVars, policyVars, last, workerVars,
                 noticed>>

\* fireBatch, for a large batch, reads the source generation and then makes it
\* debt, PromoteToFullReconcile: all rows collapse, also those recorded since.
NoticeSource ==
  /\ events # Nothing /\ noticed # source
  /\ noticed' = source
  /\ UNCHANGED <<fileVars, unseen, remote, ledgerVars, policyVars, genVars,
                 events, overtaken, workerVars>>

PromoteToFullReconcile ==
  /\ noticed # NoGen /\ noticed' = NoGen
  /\ desired' = Max2(desired, noticed)
  /\ events' = Nothing /\ Overtake({}, noticed)
  /\ UNCHANGED <<fileVars, unseen, remote, ledgerVars, policyVars, source, last,
                 workerVars>>

\* OnReconcile, ScheduleDestructiveReconcile: debt up to a generation read before.
EnsureReconcileGeneration(g) ==
  /\ desired < g /\ desired' = g
  /\ UNCHANGED <<fileVars, eventVars, remote, ledgerVars, policyVars, source, last,
                 workerVars>>

\* SubmitManualReconcile and SubmitScheduledReconcile: one more generation, whatever
\* the source has reached.
SubmitReconcile ==
  /\ desired' = Max2(desired + 1, Max2(source, last + 1)) /\ desired' <= MaxGen
  /\ UNCHANGED <<fileVars, eventVars, remote, ledgerVars, policyVars, source, last,
                 workerVars>>

NextGeneration == Max2(source, Max2(desired, last)) + 1

\* Mutation: the refresh of the policy before counts for the new one.
CommitKeepingRefresh(q) ==
  /\ pc = "idle" /\ q # policy
  /\ NextGeneration <= MaxGen
  /\ source' = NextGeneration /\ desired' = NextGeneration
  /\ policy' = q /\ refresh' = "pending" /\ refreshed' = refreshed
  /\ UNCHANGED <<fileVars, eventVars, remote, ledgerVars, last, workerVars>>

\* CommitIgnoreSnapshot, under the profile lock.
CommitPolicy(q) ==
  /\ pc = "idle" /\ q # policy
  /\ NextGeneration <= MaxGen
  /\ source' = NextGeneration /\ desired' = NextGeneration
  /\ policy' = q /\ refresh' = "pending" /\ refreshed' = NoPolicy
  /\ UNCHANGED <<fileVars, eventVars, remote, ledgerVars, last, workerVars>>

-----------------------------------------------------------------------------
(* A full reconciliation.                                                  *)

Ignored(p) == p \in Ignores[policy]

\* ScanActiveEntries: what the policy lets through of what is on disk.
Eligible == {p \in Paths : local[p] # Absent /\ ~Ignored(p)}
Entries  == [p \in Paths |-> IF p \in Eligible THEN local[p] ELSE Absent]

Uploaded(S) == [p \in Paths |-> IF p \in S THEN local[p] ELSE remote[p]]

Claim(limit) ==
  /\ pc = "idle" /\ desired > last
  /\ run' = [NoRun EXCEPT !.target = desired, !.limit = limit]
  /\ pc' = "scanning"
  /\ UNCHANGED <<fileVars, eventVars, remote, ledgerVars, policyVars, genVars,
                 batch>>

ActiveRows == {p \in Paths : row[p] = "active"}

\* Mutation: whatever disappeared was deleted, ignored or not.
ProvenAnyway == ActiveRows \ Eligible

\* ClassifyDisappearances.  Destructive events leave no row (RecordFull), so
\* that what a row could prove is never proved.
Proven == {p \in ActiveRows \ Eligible : ~Ignored(p)}

Scan ==
  /\ pc = "scanning"
  /\ run' = [run EXCEPT !.active = Eligible, !.proven = Proven, !.todo = Proven]
  /\ refresh' = IF refreshed = policy THEN refresh ELSE "running"
  /\ pc' = "preflight"
  /\ UNCHANGED <<fileVars, eventVars, remote, ledgerVars, policy, refreshed,
                 genVars, batch>>

\* Two scans with the dry-run between them; they differ, or more deletions are
\* proven than the budget allows: the run fails.
Preflight ==
  /\ pc = "preflight" /\ Cardinality(run.proven) <= run.limit
  /\ run' = [run EXCEPT !.print = Entries]
  /\ pc' = "uploading"
  /\ UNCHANGED <<fileVars, eventVars, remote, ledgerVars, policyVars, genVars,
                 batch>>

\* rclone sync of the files a scan of its own finds; other remote files stay.  What
\* was overtaken is transferred too, unless this run is to delete it.
Upload ==
  /\ pc = "uploading"
  /\ remote' = Uploaded(Eligible) /\ overtaken' = overtaken \cap run.todo
  /\ pc' = IF run.todo = {} THEN "checking" ELSE "deleting"
  /\ UNCHANGED <<fileVars, unseen, noticed, events, ledgerVars, policyVars, genVars, run,
                 batch>>

\* Mutation: a deletion that fails is passed over.
DeleteOrSkip(p) ==
  /\ pc = "deleting" /\ p \in run.todo
  /\ remote' \in {remote, [remote EXCEPT ![p] = Absent]}
  /\ run' = [run EXCEPT !.todo = @ \ {p}]
  /\ pc' = IF run.todo = {p} THEN "checking" ELSE "deleting"
  /\ UNCHANGED <<fileVars, eventVars, ledgerVars, policyVars, genVars, batch>>

\* rclone deletefile, one proven deletion at a time.  It fails, and the run with
\* it, when there is no such remote file.
DeleteRemotePath(p) ==
  /\ pc = "deleting" /\ p \in run.todo /\ remote[p] # Absent
  /\ remote' = [remote EXCEPT ![p] = Absent]
  /\ run' = [run EXCEPT !.todo = @ \ {p}]
  /\ pc' = IF run.todo = {p} THEN "checking" ELSE "deleting"
  /\ UNCHANGED <<fileVars, eventVars, ledgerVars, policyVars, genVars, batch>>

\* markDirtyIfChangedProtected, and on to the policy refresh if one is owed.
MarkDirtyIfChanged ==
  /\ pc = "checking"
  /\ \/ Entries = run.print /\ UNCHANGED <<source, desired>>
     \/ /\ Entries # run.print /\ source < MaxGen
        /\ source' = source + 1 /\ desired' = Max2(desired, source + 1)
  /\ pc' = IF refreshed = policy THEN "applying" ELSE "refreshing"
  /\ UNCHANGED <<fileVars, eventVars, remote, ledgerVars, policyVars, last,
                 run, batch>>

\* ApplyManagedRefresh, by what the first scan saw.
ApplyManagedRefresh ==
  /\ pc = "refreshing"
  /\ LET hidden == ActiveRows \ (run.active \cup run.proven)
         back   == {p \in run.active : row[p] = "suppressed"}
     IN  /\ row' = [p \in Paths |-> IF p \in hidden THEN "suppressed"
                                    ELSE IF p \in back THEN "active" ELSE row[p]]
         /\ by' = [p \in Paths |-> IF p \in hidden THEN policy
                                   ELSE IF p \in back THEN NoPolicy ELSE by[p]]
  /\ pc' = "readying"
  /\ UNCHANGED <<fileVars, eventVars, remote, policyVars, genVars, run, batch>>

MarkPolicyRefreshReady ==
  /\ pc = "readying"
  /\ refresh' = "ready" /\ refreshed' = policy
  /\ pc' = "applying"
  /\ UNCHANGED <<fileVars, eventVars, remote, ledgerVars, policy, genVars, run,
                 batch>>

\* ManifestApply, by what a last scan sees: suppressed rows survive it.
ManifestApply ==
  /\ pc = "applying"
  /\ row' = [p \in Paths |-> IF row[p] = "suppressed" THEN "suppressed"
                             ELSE IF p \in Eligible THEN "active" ELSE "none"]
  /\ pc' = "committing"
  /\ UNCHANGED <<fileVars, eventVars, remote, by, policyVars, genVars, run,
                 batch>>

\* Mutation: success counts for what is wanted by then.
CommitThroughDesired ==
  /\ pc = "committing"
  /\ last' = desired
  /\ events' = [p \in Paths |-> IF events[p] <= run.target THEN NoGen
                                ELSE events[p]]
  /\ pc' = "idle" /\ run' = NoRun
  /\ UNCHANGED <<fileVars, unseen, noticed, overtaken, remote, ledgerVars, policyVars,
                 source, desired, batch>>

\* CommitRunSuccess: events up to the target are covered.
CommitRunSuccess ==
  /\ pc = "committing"
  /\ last' = Max2(last, run.target)
  /\ events' = [p \in Paths |-> IF events[p] <= run.target THEN NoGen
                                ELSE events[p]]
  /\ pc' = "idle" /\ run' = NoRun
  /\ UNCHANGED <<fileVars, unseen, noticed, overtaken, remote, ledgerVars, policyVars,
                 source, desired, batch>>

\* A run fails, or its worker dies, after part of the transfer if it is in one.
FailRun ==
  /\ pc \in Running
  /\ remote' \in IF pc = "uploading" THEN {Uploaded(S) : S \in SUBSET Eligible}
                                     ELSE {remote}
  /\ pc' = "idle" /\ run' = NoRun
  /\ UNCHANGED <<fileVars, eventVars, ledgerVars, policyVars, genVars, batch>>

-----------------------------------------------------------------------------
(* The fast lane: batch holds the versions of the rows it has read.        *)

InBatch == {p \in Paths : batch[p] # NoGen}

FastList ==
  /\ pc = "idle" /\ desired <= last /\ events # Nothing
  /\ batch' = events
  /\ pc' = "fast"
  /\ UNCHANGED <<fileVars, eventVars, remote, ledgerVars, policyVars, genVars,
                 run>>

\* The eligible ones are uploaded (run.active holds them), the others discarded.
FastUpload ==
  /\ pc = "fast"
  /\ remote' = Uploaded(InBatch \cap Eligible)
  /\ run' = [run EXCEPT !.active = InBatch \cap Eligible]
  /\ pc' = "ledgering"
  /\ UNCHANGED <<fileVars, eventVars, ledgerVars, policyVars, genVars, batch>>

\* Mutation: rows are updated, and none is inserted.
UpsertedKnown(S) == row

\* ManifestUpsert of those that still exist, keeping the state of a row.
Upserted(S) ==
  [p \in Paths |-> IF p \in S /\ local[p] # Absent /\ row[p] = "none"
                   THEN "active" ELSE row[p]]

FastLedger ==
  /\ pc = "ledgering"
  /\ row' = Upserted(run.active)
  /\ pc' = "clearing"
  /\ UNCHANGED <<fileVars, eventVars, remote, by, policyVars, genVars, run,
                 batch>>

\* Mutation: a row is cleared whatever version it has now.
ClearAnyVersion ==
  /\ pc = "clearing"
  /\ events' = [p \in Paths |-> IF p \in InBatch THEN NoGen ELSE events[p]]
  /\ pc' = "idle" /\ batch' = Nothing /\ run' = NoRun
  /\ UNCHANGED <<fileVars, unseen, noticed, overtaken, remote, ledgerVars, policyVars,
                 genVars>>

\* ClearPendingEvents: only the versions that were read.
FastClear ==
  /\ pc = "clearing"
  /\ events' = [p \in Paths |-> IF events[p] <= batch[p] THEN NoGen
                                ELSE events[p]]
  /\ pc' = "idle" /\ batch' = Nothing /\ run' = NoRun
  /\ UNCHANGED <<fileVars, unseen, noticed, overtaken, remote, ledgerVars, policyVars,
                 genVars>>

\* rclone, the ledger or the worker fails, part of the way.
FastFail ==
  /\ pc \in InFast
  /\ remote' \in IF pc = "fast"
                 THEN {Uploaded(S) : S \in SUBSET (InBatch \cap Eligible)}
                 ELSE {remote}
  /\ row' \in IF pc = "ledgering" THEN {Upserted(S) : S \in SUBSET run.active}
                                  ELSE {row}
  /\ pc' = "idle" /\ batch' = Nothing /\ run' = NoRun
  /\ UNCHANGED <<fileVars, eventVars, by, policyVars, genVars>>

-----------------------------------------------------------------------------

Attempt == \/ Scan \/ Preflight \/ Upload \/ (\E p \in Paths : DeleteRemotePath(p))
           \/ MarkDirtyIfChanged \/ ApplyManagedRefresh
           \/ MarkPolicyRefreshReady \/ ManifestApply \/ CommitRunSuccess

Fast == FastUpload \/ FastLedger \/ FastClear

Next ==
  \/ \E p \in Paths : RecordSafe(p) \/ RecordFull(p)
                      \/ \E v \in Versions : Change(p, v)
  \/ NoticeSource \/ PromoteToFullReconcile \/ SubmitReconcile
  \/ \E g \in 1..source : EnsureReconcileGeneration(g)
  \/ \E q \in Policies : CommitPolicy(q)
  \/ \E limit \in Limits : Claim(limit)
  \/ Attempt \/ FailRun
  \/ FastList \/ Fast \/ FastFail

Spec == Init /\ [][Next]_vars

-----------------------------------------------------------------------------

TypeOK ==
  /\ local \in [Paths -> Versions] /\ changes \in 0..MaxChanges
  /\ unseen \in [Paths -> {"no", "changed", "removed"}]
  /\ remote \in [Paths -> Versions]
  /\ row \in [Paths -> {"none", "active", "suppressed"}]
  /\ by \in [Paths -> Policies \cup {NoPolicy}]
  /\ policy \in Policies /\ refreshed \in Policies \cup {NoPolicy}
  /\ refresh \in {"pending", "running", "ready"}
  /\ source \in 1..MaxGen /\ desired \in 1..MaxGen /\ last \in 0..desired
  /\ noticed \in 0..source
  /\ overtaken \subseteq Paths
  /\ events \in [Paths -> 0..source] /\ batch \in [Paths -> 0..source]
  /\ pc \in {"idle"} \cup Running \cup InFast
  /\ run \in [target : 0..desired, limit : Limits \cup {0},
              active : SUBSET Paths, proven : SUBSET Paths, todo : SUBSET Paths,
              print : [Paths -> Versions]]

\* A file the remote has not got in its present version is still to be reported, has
\* its event, or there is debt.
Announced(p) == unseen[p] # "no" \/ events[p] # NoGen \/ desired > last

\* No change is lost but an overtaken one.
OnlyOvertakenLost ==
  \A p \in Eligible : remote[p] = local[p] \/ Announced(p) \/ p \in overtaken

\* No change is lost at all: what the code does not keep (LostAfterManual.cfg).
NoLostChange == \A p \in Eligible : remote[p] = local[p] \/ Announced(p)

\* "Ordinary reconciliation converges ... legitimate local deletions without
\* deleting suppressed content": what a step removes from the remote is a managed
\* file that the run's first scan missed and the policy does not hide, and the
\* run removes no more than its budget.
DeletesOnlyProven ==
  [][\A p \in Paths : remote[p] # Absent /\ remote'[p] = Absent =>
        /\ row[p] = "active" /\ p \notin run.active /\ ~Ignored(p)
        /\ Cardinality(run.proven) <= run.limit]_vars

\* A managed file is forgotten when its remote copy is gone: a deletion that failed,
\* or whose run did, keeps its row, so that the next run proves it again.  Only a
\* file that was there at the run's first scan and disappeared after it is
\* forgotten together with its copy.
ForgetsOnlyDeleted ==
  [][\A p \in Paths : row[p] = "active" /\ row'[p] = "none" =>
        remote[p] = Absent \/ p \in run.active]_vars

\* The ledger and the policy agree: a suppressed row names a policy that hides
\* its path, and after the refresh no hidden path has an active row.
LedgerFollowsPolicy ==
  /\ \A p \in Paths : row[p] = "suppressed" =>
        by[p] \in Policies /\ p \in Ignores[by[p]]
  /\ refreshed = policy => \A p \in ActiveRows : ~Ignored(p)

\* "every managed remote file remains durably known across policy suppression and
\* fast uploads": of a file that stays, a copy on the remote has its ledger row, or is
\* still announced, and the run or batch to come writes it, whichever of them failed
\* between transfer and ledger.  Only an overtaken file is waited for in vain.
KeptIsKnown ==
  \A p \in Eligible :
     remote[p] # Absent => row[p] # "none" \/ Announced(p) \/ p \in overtaken

Quiet ==
  /\ pc = "idle" /\ desired <= last /\ noticed = NoGen
  /\ \A p \in Paths : unseen[p] = "no" /\ events[p] = NoGen

\* "every managed remote file remains durably known across policy suppression
\* and fast uploads": at rest the ledger has a row for each file on the remote the
\* policy does not hide (the hidden ones prune-orphans finds), or nothing will ever
\* delete it.
DurablyKnown ==
  Quiet => \A p \in Paths : remote[p] # Absent /\ ~Ignored(p) => row[p] # "none"

\* What happens to the files, the remote and the ledger is one execution of the
\* intent that SyncIntent keeps: a run covers the generation it claimed, whatever
\* is recorded while its scans, transfer and ledger writes are under way.
Promise == INSTANCE Intent
             WITH want <- desired, done <- last,
                  attempt <- IF pc \in Running THEN {run.target} ELSE {}

ImplementsIntent == Promise!Spec
================================================================================
