--------------------------------- MODULE Prune ---------------------------------
(***************************************************************************)
(* Prune requests of ONE profile (internal/state/prune*.go, internal/cli/  *)
(* prune*.go): explicit deletion of remote files the ignore policy hides.  *)
(*                                                                         *)
(* A preview freezes a set of paths under the committed policy, an operator *)
(* authorises it, the worker deletes it in batches with a durable checkpoint *)
(* after each.  All of that, policy commits and full runs hold the profile *)
(* lock, so that a command meets a prune pass only between two of its      *)
(* passes: when it has ended, failed, or its worker has died.              *)
(*                                                                         *)
(* Of Mirror's variables this module keeps the ones that pruning reads or  *)
(* writes.  refresh_state is `ready' just when `refreshed' is the policy.  *)
(***************************************************************************)
EXTENDS Integers, FiniteSets

CONSTANTS
  Paths,
  Policies, Ignores, NoPolicy,   \* as in Mirror
  DefaultMaxDelete,   \* profiles.max_delete
  Allowances,         \* values of --allow-deletes, 0 for the default
  BatchSize,          \* pruneDeleteBatchSize
  MaxRequests,        \* bound on requests
  MaxCommands         \* bound on policy commits and approvals

ASSUME PathsAssumption == IsFiniteSet(Paths)
ASSUME PolicyAssumption ==
  /\ NoPolicy \notin Policies
  /\ Ignores \in [Policies -> SUBSET Paths]
ASSUME LimitAssumption ==
  /\ DefaultMaxDelete \in Nat /\ Allowances \subseteq Nat
  /\ BatchSize \in Nat \ {0}
ASSUME BoundsAssumption == MaxRequests \in Nat /\ MaxCommands \in Nat

VARIABLES
  remote,              \* paths with a file on the remote
  row, by,             \* manifest: state and suppressed_policy_hash
  policy, refreshed,   \* profile_ignore_policy
  made, req,           \* prune_requests, in the order of created_at
  commands,            \* how many policies were committed, requests approved
  target,              \* prune_targets: request |-> path |-> state
  replaced,            \* history: requests whose policy was replaced when they had
                       \* targets deleted.  No action reads it.
  pc, work             \* the worker's prune pass

mirrorVars  == <<remote, row, by>>
policyVars  == <<policy, refreshed>>
requestVars == <<made, req, target, replaced, commands>>
workerVars  == <<pc, work>>

vars == <<mirrorVars, policyVars, requestVars, workerVars>>

Ids == 1..MaxRequests

\* approval_required and failed are states no statement stores.
States   == {"previewed", "pending", "running", "retrying", "completed",
             "stale", "superseded"}
InFlight == {"running", "retrying"}
Unmade   == [state |-> "none", policy |-> NoPolicy, count |-> 0, limit |-> 0]
Untargeted == [p \in Paths |-> "none"]

\* What a pass holds in memory: its request, the paths it found missing and
\* those it found, and the batch it is deleting.
NoWork == [id |-> 0, missing |-> {}, found |-> {}, batch |-> {}]

Init ==
  /\ remote = {} /\ row = [p \in Paths |-> "none"]
  /\ by = [p \in Paths |-> NoPolicy]
  /\ policy \in Policies /\ refreshed = NoPolicy
  /\ made = 0 /\ req = [r \in Ids |-> Unmade]
  /\ target = [r \in Ids |-> Untargeted] /\ commands = 0 /\ replaced = {}
  /\ pc = "idle" /\ work = NoWork

Made    == 1..made
Fresh   == refreshed = policy
Hidden  == Ignores[policy]
Visible == Paths \ Hidden
Rows(s) == {p \in Paths : row[p] = s}
Of(s)   == {r \in Made : req[r].state \in s}
IsOldest(r, R) == r \in R /\ \A q \in R : r <= q
Targets(r, s) == {p \in Paths : target[r][p] = s}

SetState(r, s) == req' = [req EXCEPT ![r].state = s]

-----------------------------------------------------------------------------
(* What changes the mirror under the profile lock: Mirror has the steps.   *)

\* A full run that listed `seen', uploaded `sent' and found `kept' at its end; it
\* ends at `stop', successful or not.  It deletes the active rows' files that
\* disappeared and that the policy does not hide.
FullRun(seen, sent, kept, stop) ==
  LET proven    == (Rows("active") \ seen) \ Hidden
      hide      == ~Fresh /\ stop # "transfer"
      nowHidden == Rows("active") \ (seen \cup proven)
      back      == seen \cap Rows("suppressed")
      row1 == [p \in Paths |-> IF hide /\ p \in nowHidden THEN "suppressed"
                               ELSE IF hide /\ p \in back THEN "active"
                               ELSE row[p]]
  IN  /\ pc = "idle"
      /\ \/ stop = "transfer" /\ \E gone \in SUBSET proven :
                                    remote' = (remote \cup sent) \ gone
         \/ stop # "transfer" /\ remote' = (remote \cup sent) \ proven
      /\ by' = [p \in Paths |-> IF hide /\ p \in nowHidden THEN policy
                                ELSE IF hide /\ p \in back THEN NoPolicy
                                ELSE by[p]]
      /\ row' = [p \in Paths |->
                   IF stop # "end" \/ row1[p] = "suppressed" THEN row1[p]
                   ELSE IF p \in kept THEN "active" ELSE "none"]
      /\ refreshed' = IF stop \in {"ready", "end"} THEN policy ELSE refreshed
      /\ UNCHANGED <<policy, requestVars, workerVars>>

\* A batch of the fast lane uploads, and records some or all of what it uploaded.
FastBatch(sent, kept) ==
  /\ pc = "idle" /\ Fresh
  /\ remote' = remote \cup sent
  /\ row' = [p \in Paths |-> IF p \in kept /\ row[p] = "none" THEN "active"
                             ELSE row[p]]
  /\ UNCHANGED <<by, policyVars, requestVars, workerVars>>

\* CommitIgnoreSnapshot: requests that no worker has begun are stale.
CommitPolicy(q) ==
  /\ pc = "idle" /\ q # policy
  /\ commands < MaxCommands /\ commands' = commands + 1
  /\ policy' = q /\ refreshed' = NoPolicy
  /\ req' = [r \in Ids |-> IF /\ req[r].policy # q
                              /\ req[r].state \in {"previewed", "pending"}
                           THEN [req[r] EXCEPT !.state = "stale"] ELSE req[r]]
  /\ replaced' = replaced \cup {r \in Made : /\ req[r].policy # q
                                            /\ Targets(r, "deleted") # {}}
  /\ UNCHANGED <<mirrorVars, made, target, workerVars>>

-----------------------------------------------------------------------------
(* Commands.                                                               *)

\* Freeze a set of paths; an older preview is superseded.
Freeze(paths) ==
  /\ pc = "idle" /\ Fresh /\ made < MaxRequests
  /\ made' = made + 1
  /\ req' = [r \in Ids |->
       IF r = made + 1 THEN [state |-> "previewed", policy |-> policy,
                             count |-> Cardinality(paths), limit |-> 0]
       ELSE IF req[r].state = "previewed"
       THEN [req[r] EXCEPT !.state = "superseded"] ELSE req[r]]
  /\ target' = [target EXCEPT ![made + 1] =
                  [p \in Paths |-> IF p \in paths THEN "pending" ELSE "none"]]
  /\ UNCHANGED <<mirrorVars, policyVars, replaced, commands, workerVars>>

Suppressed == {p \in Rows("suppressed") : by[p] = policy}

\* prune preview: what this policy suppressed.
CreatePrunePreview == Freeze(Suppressed)

Orphans == {p \in remote : row[p] = "none" /\ p \in Hidden}

\* prune discover: ignored files on the remote that the ledger does not know.
CreatePrunePreviewFromUnmanagedPaths == Freeze(Orphans)

Effective(allow) == IF allow = 0 THEN DefaultMaxDelete ELSE allow

\* prune execute: whatever the request's state and policy.
AuthorizePrune(r, allow) ==
  /\ pc = "idle" /\ r \in Made /\ commands < MaxCommands
  /\ req[r].count <= Effective(allow)
  /\ req' = [req EXCEPT ![r].state = "pending", ![r].limit = Effective(allow)]
  /\ commands' = commands + 1
  /\ UNCHANGED <<mirrorVars, policyVars, made, target, replaced, workerVars>>

-----------------------------------------------------------------------------
(* The worker: runAuthorizedPrune.                                         *)

Matches(r) == req[r].policy = policy /\ Fresh

\* Mutation: only failures are retried, not what a dead worker left.
ReclaimRetrying ==
  /\ pc = "idle"
  /\ \E r \in Ids :
         /\ IsOldest(r, Of({"retrying"})) /\ SetState(r, "running")
         /\ IF Matches(r)
            THEN pc' = "listing" /\ work' = [NoWork EXCEPT !.id = r]
            ELSE UNCHANGED workerVars
  /\ UNCHANGED <<mirrorVars, policyVars, made, target, replaced, commands>>

\* ClaimRetryingPrune: a request a dead worker or a failure left behind comes
\* first.  If the policy is another one by now, it stays as it is.
ReclaimPrune ==
  /\ pc = "idle"
  /\ \E r \in Ids :
         /\ IsOldest(r, Of(InFlight)) /\ SetState(r, "running")
         /\ IF Matches(r)
            THEN pc' = "listing" /\ work' = [NoWork EXCEPT !.id = r]
            ELSE UNCHANGED workerVars
  /\ UNCHANGED <<mirrorVars, policyVars, made, target, replaced, commands>>

\* Mutation: the claim does not look at the policy.
ClaimAnyPolicy ==
  /\ pc = "idle" /\ Of(InFlight) = {}
  /\ \E r \in Ids :
         /\ IsOldest(r, Of({"pending"})) /\ SetState(r, "running")
         /\ pc' = "listing" /\ work' = [NoWork EXCEPT !.id = r]
  /\ UNCHANGED <<mirrorVars, policyVars, made, target, replaced, commands>>

\* Mutation: a queued request does not wait for the one in flight.
ClaimBeside ==
  /\ pc = "idle"
  /\ \E r \in Ids :
         /\ IsOldest(r, Of({"pending"})) /\ SetState(r, "running")
         /\ pc' = "listing" /\ work' = [NoWork EXCEPT !.id = r]
  /\ UNCHANGED <<mirrorVars, policyVars, made, target, replaced, commands>>

\* ClaimPrune: the oldest queued request, if its policy is committed and ready.
\* Targets that an earlier execution found missing are looked at again.
ClaimPrune ==
  /\ pc = "idle" /\ Of(InFlight) = {}
  /\ \E r \in Ids :
       /\ IsOldest(r, Of({"pending"}))
       /\ IF Matches(r)
          THEN /\ SetState(r, "running")
               /\ target' = [target EXCEPT ![r] =
                    [p \in Paths |-> IF @[p] = "missing" THEN "pending" ELSE @[p]]]
               /\ pc' = "listing" /\ work' = [NoWork EXCEPT !.id = r]
          ELSE SetState(r, "stale") /\ UNCHANGED <<target, workerVars>>
  /\ UNCHANGED <<mirrorVars, policyVars, made, replaced, commands>>

\* classifyPruneRemotePaths.
ListTargets ==
  /\ pc = "listing"
  /\ LET open == Targets(work.id, "pending")
     IN  work' = [work EXCEPT !.missing = open \ remote, !.found = open \cap remote]
  /\ pc' = "missing"
  /\ UNCHANGED <<mirrorVars, policyVars, requestVars>>

Mark(r, S, s) ==
  target' = [target EXCEPT ![r] =
    [p \in Paths |-> IF p \in S /\ @[p] \notin {"deleted", "missing"} THEN s
                     ELSE @[p]]]

Unsuppressed(S) ==
  [p \in Paths |-> IF p \in S /\ row[p] = "suppressed" THEN "none" ELSE row[p]]

\* MarkPruneTargetsResultBatch of the missing ones lets go of their ledger rows.
MarkMissing ==
  /\ pc = "missing"
  /\ Mark(work.id, work.missing, "missing")
  /\ row' = Unsuppressed(work.missing)
  /\ work' = [work EXCEPT !.missing = {}]
  /\ pc' = "deleting"
  /\ UNCHANGED <<remote, by, policyVars, made, req, replaced, commands>>

Batches == {B \in SUBSET work.found :
              \/ Cardinality(B) = BatchSize
              \/ B = work.found /\ Cardinality(B) < BatchSize}

\* deletePruneBatch.
DeleteBatch ==
  /\ pc = "deleting" /\ work.found # {}
  /\ \E B \in Batches : /\ remote' = remote \ B
                        /\ work' = [work EXCEPT !.batch = B]
  /\ pc' = "marking"
  /\ UNCHANGED <<row, by, policyVars, requestVars>>

\* The checkpoint: MarkPruneTargetsResultBatch of the batch.
MarkDeleted ==
  /\ pc = "marking"
  /\ Mark(work.id, work.batch, "deleted")
  /\ work' = [work EXCEPT !.found = @ \ work.batch, !.batch = {}]
  /\ pc' = "deleting"
  /\ UNCHANGED <<mirrorVars, policyVars, made, req, replaced, commands>>

Complete(gone) ==
  /\ row' = Unsuppressed(gone)
  /\ SetState(work.id, "completed")
  /\ target' = [target EXCEPT ![work.id] = Untargeted]
  /\ pc' = "idle" /\ work' = NoWork
  /\ UNCHANGED <<remote, by, policyVars, made, replaced, commands>>

\* Mutation: the rows of all targets go, as soon as a batch was checkpointed.
CompleteEarly ==
  /\ pc = "deleting"
  /\ Complete({p \in Paths : target[work.id][p] # "none"})

\* cleanupPruneEmptyDirs, which touches no file, and CommitPruneComplete.
CommitPruneComplete ==
  /\ pc = "deleting" /\ work.found = {}
  /\ Complete(Targets(work.id, "deleted"))

\* The worker dies or a statement fails: the request stays running.  A call of
\* rclone fails, a batch part of the way: the request is retried.
Interrupt ==
  /\ pc # "idle"
  /\ \E S \in IF pc = "deleting" THEN {{}} \cup UNION {SUBSET B : B \in Batches}
                                 ELSE {{}} : remote' = remote \ S
  /\ \/ UNCHANGED req
     \/ pc \in {"listing", "deleting"} /\ SetState(work.id, "retrying")
  /\ pc' = "idle" /\ work' = NoWork
  /\ UNCHANGED <<row, by, policyVars, made, target, replaced, commands>>

-----------------------------------------------------------------------------

Stops == {"transfer", "refreshed", "ready", "end"}

Pass == ListTargets \/ MarkMissing \/ DeleteBatch \/ MarkDeleted
        \/ CommitPruneComplete

Next ==
  \/ \E seen \in SUBSET Visible, sent \in SUBSET Visible, stop \in Stops :
        \E kept \in IF stop = "end" THEN SUBSET Visible ELSE {{}} :
           FullRun(seen, sent, kept, stop)
  \/ \E sent \in SUBSET Visible : \E kept \in SUBSET sent : FastBatch(sent, kept)
  \/ \E q \in Policies : CommitPolicy(q)
  \/ CreatePrunePreview \/ CreatePrunePreviewFromUnmanagedPaths
  \/ \E r \in Ids, allow \in Allowances : AuthorizePrune(r, allow)
  \/ ReclaimPrune \/ ClaimPrune \/ Pass \/ Interrupt

\* The worker comes back for every profile; a call of rclone that is repeated
\* without end succeeds in the end, and so does a statement.
Fairness ==
  /\ WF_vars(ReclaimPrune) /\ SF_vars(ClaimPrune)
  /\ SF_vars(ListTargets) /\ SF_vars(MarkMissing) /\ SF_vars(DeleteBatch)
  /\ SF_vars(MarkDeleted) /\ SF_vars(CommitPruneComplete)

Spec     == Init /\ [][Next]_vars
LiveSpec == Spec /\ Fairness

-----------------------------------------------------------------------------

TypeOK ==
  /\ remote \in SUBSET Paths
  /\ row \in [Paths -> {"none", "active", "suppressed"}]
  /\ by \in [Paths -> Policies \cup {NoPolicy}]
  /\ policy \in Policies /\ refreshed \in Policies \cup {NoPolicy}
  /\ made \in 0..MaxRequests /\ commands \in 0..MaxCommands
  /\ req \in [Ids -> [state : States \cup {"none"}, policy : Policies \cup {NoPolicy},
                      count : Nat, limit : Nat]]
  /\ target \in [Ids -> [Paths -> {"none", "pending", "deleted", "missing"}]]
  /\ replaced \subseteq Ids
  /\ pc \in {"idle", "listing", "missing", "deleting", "marking"}
  /\ work \in [id : Ids \cup {0}, missing : SUBSET Paths, found : SUBSET Paths,
               batch : SUBSET Paths]

\* "only pending/running/retrying requests are executed, never a re-derived
\* candidate set": what a pass removes from the remote is a target of its request,
\* no active object, hidden by the committed and refreshed policy, which is the one
\* of the approval, and the frozen set is within the limit.  Other removals are
\* those of full runs, of active rows.
RemovesOnlyAuthorised ==
  [][\A p \in remote \ remote' :
        IF pc = "idle" THEN row[p] = "active" /\ ~(p \in Hidden)
        ELSE /\ target[work.id][p] # "none" /\ row[p] # "active"
             /\ p \in Hidden /\ Matches(work.id)
             /\ Cardinality({t \in Paths : target[work.id][t] # "none"})
                  <= req[work.id].limit]_vars

\* One request of a profile is executed at a time, and the worker's pass is at it.
OneInFlight ==
  /\ Cardinality(Of(InFlight)) <= 1
  /\ pc # "idle" => Of(InFlight) = {work.id}

\* "All targets confirmed absent": a pass lets the ledger go of a suppressed object
\* only when it is gone from the remote, also if the request was interrupted or
\* approved again.  A target is not looked at again once it is deleted; what the
\* property excepts is the one that another policy, committed between the deletion
\* and the completion, may have let be uploaded again.
ForgetsOnlyAbsent ==
  [][\A p \in Paths : pc # "idle" /\ row'[p] # row[p] =>
        \/ p \notin remote
        \/ work.id \in replaced /\ target[work.id][p] = "deleted"]_vars

\* A request in flight whose policy is no longer the committed one: it stays in
\* flight, and no queued request is claimed.
Stuck == \E r \in Of(InFlight) : ~Matches(r)

\* "Otherwise mark request `stale`": an approved request is executed to its end or
\* refused, unless a refresh or an older request is in its way.
ApprovedIsSettled ==
  \A r \in Ids : req[r].state \in {"pending", "running", "retrying"}
     ~> req[r].state \in {"completed", "stale"} \/ Stuck

\* The same without the exception.
ApprovedIsAlwaysSettled ==
  \A r \in Ids : req[r].state \in {"pending", "running", "retrying"}
     ~> req[r].state \in {"completed", "stale"}
================================================================================
