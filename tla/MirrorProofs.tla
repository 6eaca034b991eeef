----------------------------- MODULE MirrorProofs -----------------------------
(***************************************************************************)
(* Proofs about Mirror, for any files, policies and budgets: its types, the *)
(* agreement of ledger and policy, what a run may delete, and that no change *)
(* is lost, and no copy on the remote unknown to the ledger, but where a     *)
(* request had asked past the change.                                       *)
(***************************************************************************)
EXTENDS Mirror, FiniteSetTheorems, TLAPS

LEMMA MaxFacts ==
  ASSUME NEW a \in Int, NEW b \in Int
  PROVE  Max2(a, b) \in {a, b} /\ Max2(a, b) >= a /\ Max2(a, b) >= b
BY DEF Max2

LEMMA NothingTyped == Nothing \in [Paths -> {0}]
BY DEF Nothing, NoGen

LEMMA NoRunTyped ==
  /\ NoRun.target = 0 /\ NoRun.limit = 0 /\ NoRun.active = {}
  /\ NoRun.proven = {} /\ NoRun.todo = {} /\ NoRun.print = Nothing
  /\ NoRun \in [target : {0}, limit : {0}, active : SUBSET Paths,
                proven : SUBSET Paths, todo : SUBSET Paths,
                print : [Paths -> Versions]]
BY NothingTyped, BoundsAssumption DEF NoRun, NoGen, Versions, Absent

LEMMA EntriesTyped ==
  ASSUME TypeOK
  PROVE  /\ Entries \in [Paths -> Versions]
         /\ \A S : Uploaded(S) \in [Paths -> Versions]
         /\ \A S : Upserted(S) \in [Paths -> {"none", "active", "suppressed"}]
BY BoundsAssumption DEF TypeOK, Entries, Uploaded, Upserted, Versions, Absent

LEMMA OvertakeTyped ==
  ASSUME TypeOK, NEW S \in SUBSET Paths, NEW g, Overtake(S, g)
  PROVE  overtaken' \subseteq Paths
BY DEF TypeOK, Overtake

-----------------------------------------------------------------------------
(* Types.  The three groups of Next change the same few variables each.    *)

LEMMA EventTypes ==
  ASSUME TypeOK, NEW p \in Paths,
         RecordSafe(p) \/ RecordFull(p) \/ \E v \in Versions : Change(p, v)
  PROVE  TypeOK'
<1> USE BoundsAssumption DEF TypeOK, Running, InFast, fileVars, eventVars,
        ledgerVars, policyVars, genVars, workerVars
<1>1. CASE RecordSafe(p)
  <2>1. /\ source' \in 1..MaxGen /\ source' >= source
        /\ events' \in [Paths -> 0..source'] /\ batch' \in [Paths -> 0..source']
        /\ noticed' \in 0..source'
    BY <1>1 DEF RecordSafe
  <2> QED
    BY <1>1, <2>1 DEF RecordSafe
<1>2. CASE RecordFull(p)
  <2>1. /\ source' \in 1..MaxGen /\ source' >= source
        /\ desired' \in 1..MaxGen /\ desired' >= desired
    BY <1>2, MaxFacts DEF RecordFull
  <2>2. /\ batch' \in [Paths -> 0..source'] /\ noticed' \in 0..source'
    BY <1>2, <2>1 DEF RecordFull
  <2>4. events' \in [Paths -> 0..source']
    <3>1. 0 \in 0..source'
      BY <2>1
    <3> QED
      BY <1>2, <3>1 DEF RecordFull, Nothing, NoGen
  <2>3. run' = run /\ run'.target \in 0..desired' /\ last' \in 0..desired'
    BY <1>2, <2>1 DEF RecordFull
  <2>5. overtaken' \subseteq Paths
    BY <1>2, OvertakeTyped DEF RecordFull
  <2> QED
    BY <1>2, <2>1, <2>2, <2>3, <2>4, <2>5 DEF RecordFull
<1>3. CASE \E v \in Versions : Change(p, v)
  BY <1>3 DEF Change
<1> QED
  BY <1>1, <1>2, <1>3

\* More desired generations, and nothing else but the events.
LEMMA IntentTypes ==
  ASSUME TypeOK, desired' \in 1..MaxGen, desired' >= desired,
         source' \in 1..MaxGen, source' >= source,
         events' \in {events, Nothing}, noticed' \in 0..source',
         overtaken' \subseteq Paths,
         policy' \in Policies, refresh' \in {"pending", "running", "ready"},
         refreshed' \in Policies \cup {NoPolicy},
         UNCHANGED <<fileVars, unseen, remote, ledgerVars, last, workerVars>>
  PROVE  TypeOK'
<1> USE BoundsAssumption DEF TypeOK, Running, InFast, fileVars, ledgerVars,
        workerVars
<1>1. /\ events' \in [Paths -> 0..source'] /\ batch' \in [Paths -> 0..source']
  BY NothingTyped
<1>2. run' = run /\ run'.target \in 0..desired' /\ last' \in 0..desired'
  OBVIOUS
<1> QED
  BY <1>1, <1>2

LEMMA RequestTypes ==
  ASSUME TypeOK,
         \/ NoticeSource \/ PromoteToFullReconcile \/ SubmitReconcile
         \/ \E g \in 1..source : EnsureReconcileGeneration(g)
         \/ \E q \in Policies : CommitPolicy(q)
  PROVE  TypeOK'
<1> USE BoundsAssumption DEF TypeOK, fileVars, eventVars, ledgerVars, policyVars,
        genVars, workerVars
<1>1. CASE NoticeSource
  BY <1>1, IntentTypes DEF NoticeSource
<1>2. CASE PromoteToFullReconcile
  <2>1. desired' \in 1..MaxGen /\ desired' >= desired
    BY <1>2, MaxFacts DEF PromoteToFullReconcile, NoGen
  <2>2. overtaken' \subseteq Paths
    BY <1>2, OvertakeTyped DEF PromoteToFullReconcile
  <2> QED
    BY <1>2, <2>1, <2>2, IntentTypes DEF PromoteToFullReconcile, NoGen
<1>3. CASE SubmitReconcile
  <2>1. desired' \in 1..MaxGen /\ desired' >= desired
    <3> DEFINE m == Max2(source, last + 1)
    <3>1. m \in Int
      BY MaxFacts
    <3> HIDE DEF m
    <3>2. Max2(desired + 1, m) \in Int /\ Max2(desired + 1, m) >= desired + 1
      BY <3>1, MaxFacts
    <3> QED
      BY <1>3, <3>1, <3>2 DEF SubmitReconcile, m
  <2> QED
    BY <1>3, <2>1, IntentTypes DEF SubmitReconcile
<1>4. ASSUME NEW g \in 1..source, EnsureReconcileGeneration(g) PROVE TypeOK'
  BY <1>4, IntentTypes DEF EnsureReconcileGeneration
<1>5. ASSUME NEW q \in Policies, CommitPolicy(q) PROVE TypeOK'
  <2>1. /\ NextGeneration \in 1..MaxGen /\ NextGeneration >= source
        /\ NextGeneration >= desired
    <3> DEFINE m == Max2(desired, last)
    <3>1. m \in Int /\ m >= desired
      BY MaxFacts
    <3> HIDE DEF m
    <3>2. Max2(source, m) \in Int /\ Max2(source, m) >= source /\ Max2(source, m) >= m
      BY <3>1, MaxFacts
    <3>3. NextGeneration = Max2(source, m) + 1
      BY DEF NextGeneration, m
    <3> QED
      BY <1>5, <3>1, <3>2, <3>3 DEF CommitPolicy
  <2>2. noticed' \in 0..source'
    BY <1>5, <2>1 DEF CommitPolicy
  <2> QED
    BY <1>5, <2>1, <2>2, IntentTypes DEF CommitPolicy
<1> QED
  BY <1>1, <1>2, <1>3, <1>4, <1>5

RunType(d) ==
  [target : 0..d, limit : Limits \cup {0}, active : SUBSET Paths,
   proven : SUBSET Paths, todo : SUBSET Paths, print : [Paths -> Versions]]

LEMMA RunTypes ==
  ASSUME TypeOK,
         Attempt \/ FailRun \/ \E limit \in Limits : Claim(limit)
  PROVE  TypeOK'
<1> USE BoundsAssumption DEF TypeOK, Running, InFast, fileVars, eventVars,
        ledgerVars, policyVars, genVars, workerVars
<1>1. ASSUME NEW limit \in Limits, Claim(limit) PROVE TypeOK'
  <2>1. run' \in RunType(desired)
    <3>1. Nothing \in [Paths -> Versions]
      BY NoRunTyped
    <3>2. run' = [target |-> desired, limit |-> limit, active |-> {},
                  proven |-> {}, todo |-> {}, print |-> Nothing]
      BY <1>1 DEF Claim, NoRun
    <3> QED
      BY <3>1, <3>2 DEF RunType
  <2> QED
    BY <1>1, <2>1 DEF Claim, RunType
<1>2. CASE Scan
  <2>1. run' \in RunType(desired)
    BY <1>2 DEF Scan, RunType, Eligible, Proven, ActiveRows
  <2> QED
    BY <1>2, <2>1 DEF Scan, RunType
<1>3. CASE Preflight
  <2>1. run' \in RunType(desired)
    BY <1>3, EntriesTyped DEF Preflight, RunType
  <2> QED
    BY <1>3, <2>1 DEF Preflight, RunType
<1>4. CASE Upload
  BY <1>4, EntriesTyped DEF Upload
<1>5. ASSUME NEW p \in Paths, DeleteRemotePath(p) PROVE TypeOK'
  <2>1. run' \in RunType(desired)
    BY <1>5 DEF DeleteRemotePath, RunType
  <2> QED
    BY <1>5, <2>1 DEF DeleteRemotePath, RunType, Versions, Absent
<1>6. CASE MarkDirtyIfChanged
  <2>1. /\ source' \in 1..MaxGen /\ source' >= source
        /\ desired' \in 1..MaxGen /\ desired' >= desired
    BY <1>6, MaxFacts DEF MarkDirtyIfChanged
  <2>2. /\ events' \in [Paths -> 0..source'] /\ batch' \in [Paths -> 0..source']
        /\ noticed' \in 0..source' /\ last' \in 0..desired'
    BY <1>6, <2>1 DEF MarkDirtyIfChanged
  <2>3. run' = run /\ run'.target \in 0..desired'
    BY <1>6, <2>1 DEF MarkDirtyIfChanged
  <2> QED
    BY <1>6, <2>1, <2>2, <2>3 DEF MarkDirtyIfChanged
<1>7. CASE ApplyManagedRefresh
  BY <1>7 DEF ApplyManagedRefresh
<1>8. CASE MarkPolicyRefreshReady
  BY <1>8 DEF MarkPolicyRefreshReady
<1>9. CASE ManifestApply
  BY <1>9 DEF ManifestApply
<1>10. CASE CommitRunSuccess
  <2>1. last' \in 0..desired
    BY <1>10, MaxFacts DEF CommitRunSuccess
  <2>2. events' \in [Paths -> 0..source]
    BY <1>10 DEF CommitRunSuccess, NoGen
  <2>3. run' \in RunType(desired)
    BY <1>10, NoRunTyped DEF CommitRunSuccess, RunType
  <2> QED
    BY <1>10, <2>1, <2>2, <2>3 DEF CommitRunSuccess, RunType
<1>11. CASE FailRun
  <2>1. remote' \in [Paths -> Versions]
    BY <1>11, EntriesTyped DEF FailRun
  <2>2. run' \in RunType(desired)
    BY <1>11, NoRunTyped DEF FailRun, RunType
  <2> QED
    BY <1>11, <2>1, <2>2 DEF FailRun, RunType
<1> QED
  BY <1>1, <1>2, <1>3, <1>4, <1>5, <1>6, <1>7, <1>8, <1>9, <1>10, <1>11
     DEF Attempt

LEMMA FastTypes ==
  ASSUME TypeOK, FastList \/ Fast \/ FastFail
  PROVE  TypeOK'
<1> USE BoundsAssumption DEF TypeOK, Running, InFast, fileVars, eventVars,
        ledgerVars, policyVars, genVars, workerVars
<1>1. CASE FastList
  BY <1>1 DEF FastList
<1>2. CASE FastUpload
  <2>1. run' \in RunType(desired)
    BY <1>2 DEF FastUpload, RunType, InBatch, Eligible
  <2> QED
    BY <1>2, <2>1, EntriesTyped DEF FastUpload, RunType
<1>3. CASE FastLedger
  BY <1>3, EntriesTyped DEF FastLedger
<1>4. CASE FastClear
  <2>1. /\ events' \in [Paths -> 0..source] /\ batch' \in [Paths -> 0..source]
    BY <1>4, NothingTyped DEF FastClear, NoGen
  <2>2. run' \in RunType(desired)
    BY <1>4, NoRunTyped DEF FastClear, RunType
  <2> QED
    BY <1>4, <2>1, <2>2 DEF FastClear, RunType
<1>5. CASE FastFail
  <2>1. /\ remote' \in [Paths -> Versions]
        /\ row' \in [Paths -> {"none", "active", "suppressed"}]
    BY <1>5, EntriesTyped DEF FastFail
  <2>2. batch' \in [Paths -> 0..source]
    BY <1>5, NothingTyped DEF FastFail
  <2>3. run' \in RunType(desired)
    BY <1>5, NoRunTyped DEF FastFail, RunType
  <2> QED
    BY <1>5, <2>1, <2>2, <2>3 DEF FastFail, RunType
<1> QED
  BY <1>1, <1>2, <1>3, <1>4, <1>5 DEF Fast

\* Every row, file and program counter has its type.
THEOREM MirrorTyped == Spec => []TypeOK
<1>1. Init => TypeOK
  BY NothingTyped, NoRunTyped, BoundsAssumption
     DEF Init, TypeOK, Versions, Absent, NoGen
<1>2. TypeOK /\ [Next]_vars => TypeOK'
  <2> SUFFICES ASSUME TypeOK, [Next]_vars PROVE TypeOK'
    OBVIOUS
  <2>1. CASE UNCHANGED vars
    BY <2>1 DEF vars, TypeOK, fileVars, eventVars, ledgerVars, policyVars,
                genVars, workerVars
  <2> QED
    BY <2>1, EventTypes, RequestTypes, RunTypes, FastTypes DEF Next
<1> QED
  BY <1>1, <1>2, PTL DEF Spec

-----------------------------------------------------------------------------
(* What a run knows, and the ledger.                                       *)

\* What the scans of a run have shown stays true of the rows while the profile
\* lock keeps the policy.
RunKnows ==
  /\ pc = "idle" => run = NoRun
  /\ \A p \in run.active \cup run.proven : ~Ignored(p)
  /\ run.todo \subseteq run.proven
  /\ pc \in {"preflight", "uploading", "deleting"} =>
        run.proven \subseteq ActiveRows \ run.active
  /\ pc \in {"uploading", "deleting"} => Cardinality(run.proven) <= run.limit
  /\ pc \in {"preflight", "uploading", "deleting", "checking", "refreshing"} =>
        \A p \in ActiveRows : p \in run.active \cup run.proven \/ Ignored(p)
  /\ pc = "readying" => \A p \in ActiveRows : ~Ignored(p)

LedgerInv == RunKnows /\ LedgerFollowsPolicy

\* Steps that leave the rows, the policy and the worker alone.
LEMMA LedgerUntouched ==
  ASSUME LedgerInv, UNCHANGED <<ledgerVars, policyVars, pc, run>>
  PROVE  LedgerInv'
BY DEF LedgerInv, RunKnows, LedgerFollowsPolicy, ActiveRows, Ignored, ledgerVars,
       policyVars

LEMMA LedgerEnvironment ==
  ASSUME LedgerInv,
         \/ \E p \in Paths : RecordSafe(p) \/ RecordFull(p)
                             \/ \E v \in Versions : Change(p, v)
         \/ NoticeSource \/ PromoteToFullReconcile \/ SubmitReconcile
         \/ \E g \in 1..source : EnsureReconcileGeneration(g)
         \/ FastList \/ UNCHANGED vars
  PROVE  LedgerInv'
<1> USE DEF fileVars, eventVars, policyVars, genVars, workerVars
<1>1. CASE \/ \E p \in Paths : RecordSafe(p) \/ RecordFull(p)
                                \/ \E v \in Versions : Change(p, v)
           \/ NoticeSource \/ PromoteToFullReconcile \/ SubmitReconcile
           \/ \E g \in 1..source : EnsureReconcileGeneration(g)
           \/ UNCHANGED vars
  <2>1. UNCHANGED <<ledgerVars, policyVars, pc, run>>
    BY <1>1 DEF RecordSafe, RecordFull, Change, NoticeSource,
       PromoteToFullReconcile, SubmitReconcile, EnsureReconcileGeneration,
       vars
  <2> QED
    BY <2>1, LedgerUntouched
<1>2. CASE FastList
  BY <1>2 DEF FastList, LedgerInv, RunKnows, LedgerFollowsPolicy, ActiveRows,
              Ignored, ledgerVars
<1> QED
  BY <1>1, <1>2

LEMMA LedgerCommit ==
  ASSUME TypeOK, LedgerInv, NEW q \in Policies, CommitPolicy(q)
  PROVE  LedgerInv'
<1>1. /\ pc = "idle" /\ pc' = "idle" /\ run' = NoRun /\ run = NoRun
      /\ row' = row /\ by' = by /\ refreshed' = NoPolicy /\ policy' = q
  BY DEF CommitPolicy, LedgerInv, RunKnows, ledgerVars, workerVars
<1>2. RunKnows'
  BY <1>1, NoRunTyped DEF RunKnows
<1>3. LedgerFollowsPolicy'
  BY <1>1, PolicyAssumption DEF LedgerInv, LedgerFollowsPolicy
<1> QED
  BY <1>2, <1>3 DEF LedgerInv

\* The end of a run or a batch, with the rows as they are or one fast upsert on.
LEMMA LedgerEnd ==
  ASSUME LedgerInv, pc' = "idle", run' = NoRun, UNCHANGED <<ledgerVars, policyVars>>
  PROVE  LedgerInv'
<1>1. RunKnows'
  BY NoRunTyped DEF RunKnows
<1>2. LedgerFollowsPolicy'
  BY DEF LedgerInv, LedgerFollowsPolicy, ActiveRows, Ignored, ledgerVars,
         policyVars
<1> QED
  BY <1>1, <1>2 DEF LedgerInv

LEMMA LedgerFast ==
  ASSUME TypeOK, LedgerInv, Fast \/ FastFail
  PROVE  LedgerInv'
<1> USE DEF policyVars, ledgerVars
<1>1. CASE FastUpload
  <2>1. /\ run'.active = InBatch \cap Eligible /\ run'.proven = run.proven
        /\ run'.todo = run.todo /\ pc' = "ledgering"
    BY <1>1 DEF FastUpload, TypeOK
  <2>2. UNCHANGED <<row, by, policy, refreshed>>
    BY <1>1 DEF FastUpload
  <2> QED
    BY <2>1, <2>2 DEF LedgerInv, RunKnows, LedgerFollowsPolicy, ActiveRows,
                      Ignored, Eligible
<1>2. ASSUME NEW S \in SUBSET run.active, row' = Upserted(S),
             UNCHANGED <<by, policy, refreshed>>
      PROVE  LedgerFollowsPolicy'
  BY <1>2 DEF LedgerInv, RunKnows, LedgerFollowsPolicy, ActiveRows, Ignored,
              Upserted
<1>3. CASE FastLedger
  <2>1. LedgerFollowsPolicy'
    BY <1>2, <1>3 DEF FastLedger
  <2>2. pc' = "clearing" /\ run' = run /\ policy' = policy
    BY <1>3 DEF FastLedger
  <2> QED
    BY <2>1, <2>2 DEF LedgerInv, RunKnows, Ignored
<1>4. CASE FastClear
  BY <1>4, LedgerEnd DEF FastClear
<1>5. CASE FastFail
  <2>1. pc' = "idle" /\ run' = NoRun /\ UNCHANGED <<by, policy, refresh, refreshed>>
    BY <1>5 DEF FastFail
  <2>2. CASE row' = row
    BY <2>1, <2>2, LedgerEnd
  <2>3. CASE row' # row
    <3>1. PICK S \in SUBSET run.active : row' = Upserted(S)
      BY <1>5, <2>3 DEF FastFail
    <3>2. LedgerFollowsPolicy'
      BY <1>2, <2>1, <3>1
    <3>3. RunKnows'
      BY <2>1, NoRunTyped DEF RunKnows
    <3> QED
      BY <3>2, <3>3 DEF LedgerInv
  <2> QED
    BY <2>2, <2>3
<1> QED
  BY <1>1, <1>3, <1>4, <1>5 DEF Fast

LEMMA LedgerRun ==
  ASSUME TypeOK, LedgerInv,
         Attempt \/ FailRun \/ \E limit \in Limits : Claim(limit)
  PROVE  LedgerInv'
<1> USE DEF policyVars, ledgerVars
<1>1. ASSUME NEW limit \in Limits, Claim(limit) PROVE LedgerInv'
  <2>1. /\ run'.active = {} /\ run'.proven = {} /\ run'.todo = {}
        /\ pc' = "scanning"
    BY <1>1 DEF Claim, NoRun
  <2>2. UNCHANGED <<row, by, policy, refreshed>>
    BY <1>1 DEF Claim
  <2> QED
    BY <2>1, <2>2 DEF LedgerInv, RunKnows, LedgerFollowsPolicy, ActiveRows, Ignored
<1>2. CASE Scan
  <2>1. /\ run'.active = Eligible /\ run'.proven = Proven /\ run'.todo = Proven
        /\ pc' = "preflight"
    BY <1>2 DEF Scan, TypeOK
  <2>2. UNCHANGED <<row, by, policy, refreshed>>
    BY <1>2 DEF Scan
  <2> QED
    BY <2>1, <2>2 DEF LedgerInv, RunKnows, LedgerFollowsPolicy, ActiveRows,
                      Ignored, Eligible, Proven
<1>3. CASE Preflight
  <2>1. /\ run'.active = run.active /\ run'.proven = run.proven
        /\ run'.todo = run.todo /\ run'.limit = run.limit
        /\ pc = "preflight" /\ pc' = "uploading"
        /\ Cardinality(run.proven) <= run.limit
    BY <1>3 DEF Preflight, TypeOK
  <2>2. UNCHANGED <<row, by, policy, refreshed>>
    BY <1>3 DEF Preflight
  <2> QED
    BY <2>1, <2>2 DEF LedgerInv, RunKnows, LedgerFollowsPolicy, ActiveRows, Ignored
<1>4. CASE Upload
  BY <1>4 DEF Upload, LedgerInv, RunKnows, LedgerFollowsPolicy, ActiveRows, Ignored
<1>5. ASSUME NEW p \in Paths, DeleteRemotePath(p) PROVE LedgerInv'
  <2>1. /\ run'.active = run.active /\ run'.proven = run.proven
        /\ run'.todo \subseteq run.todo /\ run'.limit = run.limit
        /\ pc = "deleting" /\ pc' \in {"deleting", "checking"}
    BY <1>5 DEF DeleteRemotePath, TypeOK
  <2>2. UNCHANGED <<row, by, policy, refreshed>>
    BY <1>5 DEF DeleteRemotePath
  <2> QED
    BY <2>1, <2>2 DEF LedgerInv, RunKnows, LedgerFollowsPolicy, ActiveRows, Ignored
<1>6. CASE MarkDirtyIfChanged
  BY <1>6 DEF MarkDirtyIfChanged, LedgerInv, RunKnows, LedgerFollowsPolicy,
              ActiveRows, Ignored
<1>7. CASE ApplyManagedRefresh
  <2>1. /\ pc = "refreshing" /\ pc' = "readying"
        /\ UNCHANGED <<run, policy, refreshed>>
    BY <1>7 DEF ApplyManagedRefresh
  <2>2. \A p \in Paths : row'[p] = "active" => ~Ignored(p)
    BY <1>7 DEF ApplyManagedRefresh, LedgerInv, RunKnows, ActiveRows
  <2>3. ASSUME NEW p \in Paths, row'[p] = "suppressed"
        PROVE  by'[p] \in Policies /\ p \in Ignores[by'[p]]
    <3>1. CASE row[p] = "active" /\ p \notin run.active \cup run.proven
      <4>1. by'[p] = policy /\ Ignored(p)
        BY <1>7, <3>1 DEF ApplyManagedRefresh, LedgerInv, RunKnows, ActiveRows
      <4> QED
        BY <4>1 DEF Ignored, TypeOK
    <3>2. CASE ~(row[p] = "active" /\ p \notin run.active \cup run.proven)
      <4>1. by'[p] = by[p] /\ row[p] = "suppressed"
        BY <1>7, <2>3, <3>2 DEF ApplyManagedRefresh, ActiveRows
      <4> QED
        BY <4>1 DEF LedgerInv, LedgerFollowsPolicy
    <3> QED
      BY <3>1, <3>2
  <2>4. LedgerFollowsPolicy'
    BY <2>1, <2>2, <2>3 DEF LedgerFollowsPolicy, ActiveRows, Ignored
  <2>5. RunKnows'
    BY <2>1, <2>2 DEF LedgerInv, RunKnows, ActiveRows, Ignored
  <2> QED
    BY <2>4, <2>5 DEF LedgerInv
<1>8. CASE MarkPolicyRefreshReady
  BY <1>8 DEF MarkPolicyRefreshReady, LedgerInv, RunKnows, LedgerFollowsPolicy,
              ActiveRows, Ignored
<1>9. CASE ManifestApply
  <2>1. \A p \in Paths : /\ row'[p] = "active" => ~Ignored(p)
                         /\ row'[p] = "suppressed" => row[p] = "suppressed"
    BY <1>9 DEF ManifestApply, Eligible
  <2> QED
    BY <1>9, <2>1 DEF ManifestApply, LedgerInv, RunKnows, LedgerFollowsPolicy,
                      ActiveRows, Ignored
<1>10. CASE CommitRunSuccess
  BY <1>10, LedgerEnd DEF CommitRunSuccess
<1>11. CASE FailRun
  BY <1>11, LedgerEnd DEF FailRun
<1> QED
  BY <1>1, <1>2, <1>3, <1>4, <1>5, <1>6, <1>7, <1>8, <1>9, <1>10, <1>11
     DEF Attempt

LEMMA LedgerInvariant == Spec => []LedgerInv
<1>1. Init => LedgerInv
  BY NoRunTyped, PolicyAssumption
     DEF Init, LedgerInv, RunKnows, LedgerFollowsPolicy, ActiveRows
<1>2. TypeOK /\ LedgerInv /\ [Next]_vars => LedgerInv'
  BY LedgerEnvironment, LedgerCommit, LedgerFast, LedgerRun DEF Next
<1> QED
  BY <1>1, <1>2, MirrorTyped, PTL DEF Spec

\* Through failed refreshes, returning policies, and files that come and go, a
\* suppressed row names a policy that hides its path, and the rows the committed
\* policy was applied to hold no hidden path as active.
THEOREM LedgerAgrees == Spec => []LedgerFollowsPolicy
BY LedgerInvariant, PTL DEF LedgerInv

\* What a step may remove from the remote.
RemovesOnlyProven ==
  \A p \in Paths : remote[p] # Absent /\ remote'[p] = Absent =>
     /\ row[p] = "active" /\ p \notin run.active /\ ~Ignored(p)
     /\ Cardinality(run.proven) <= run.limit

LEMMA RemovalStep ==
  ASSUME TypeOK, LedgerInv, [Next]_vars
  PROVE  RemovesOnlyProven
<1>1. ASSUME NEW p \in Paths, DeleteRemotePath(p) PROVE RemovesOnlyProven
  <2>1. p \in run.proven /\ pc = "deleting"
    BY <1>1 DEF DeleteRemotePath, LedgerInv, RunKnows
  <2>2. /\ row[p] = "active" /\ p \notin run.active /\ ~Ignored(p)
        /\ Cardinality(run.proven) <= run.limit
    BY <2>1 DEF LedgerInv, RunKnows, ActiveRows
  <2>3. \A q \in Paths \ {p} : remote'[q] = remote[q]
    BY <1>1 DEF DeleteRemotePath, TypeOK
  <2> QED
    BY <2>2, <2>3 DEF RemovesOnlyProven
<1>2. ASSUME NEW S \in SUBSET Eligible, remote' = Uploaded(S)
      PROVE  RemovesOnlyProven
  BY <1>2 DEF RemovesOnlyProven, Uploaded, Eligible
<1>3. CASE Upload \/ FailRun \/ FastUpload \/ FastFail
  <2>1. remote' = remote \/ \E S \in SUBSET Eligible : remote' = Uploaded(S)
    BY <1>3 DEF Upload, FailRun, FastUpload, FastFail
  <2> QED
    BY <1>2, <2>1 DEF RemovesOnlyProven
<1>4. CASE remote' = remote
  BY <1>4 DEF RemovesOnlyProven
<1> USE DEF Attempt, Fast
<1>5. ASSUME ~(Upload \/ FailRun \/ FastUpload \/ FastFail),
             ~(\E p \in Paths : DeleteRemotePath(p))
      PROVE  remote' = remote
  BY <1>5 DEF Next, RecordSafe, RecordFull, Change, NoticeSource,
     PromoteToFullReconcile, SubmitReconcile, EnsureReconcileGeneration,
     CommitPolicy, Claim, Scan, Preflight, MarkDirtyIfChanged,
     ApplyManagedRefresh, MarkPolicyRefreshReady, ManifestApply,
     CommitRunSuccess, FastList, FastLedger, FastClear, vars
<1> QED
  BY <1>1, <1>3, <1>4, <1>5

\* However files, policy and runs interleave, and whatever fails: only proven
\* local deletions reach the remote, within the budget of their run.
THEOREM DeletesProven == Spec => DeletesOnlyProven
<1>1. TypeOK /\ LedgerInv /\ [Next]_vars => [RemovesOnlyProven]_vars
  BY RemovalStep
<1>2. DeletesOnlyProven <=> [][RemovesOnlyProven]_vars
  BY DEF DeletesOnlyProven, RemovesOnlyProven
<1> QED
  BY <1>1, <1>2, MirrorTyped, LedgerInvariant, PTL DEF Spec

-----------------------------------------------------------------------------
(* What a run has done when it writes the ledger.                          *)

\* The deletions that are no longer to be executed have been, and when the ledger
\* is written its active rows are what the first scan saw or proved.
RunDone ==
  /\ pc \in {"preflight", "uploading"} => run.todo = run.proven
  /\ pc = "deleting" => \A p \in run.proven \ run.todo : remote[p] = Absent
  /\ pc \in {"checking", "refreshing", "readying", "applying"} =>
        \A p \in run.proven : remote[p] = Absent
  /\ pc \in {"readying", "applying"} => ActiveRows \subseteq run.active \cup run.proven

\* Outside a run there is nothing to show, and what leaves the rows, the remote
\* and the worker alone keeps it.
LEMMA DoneElsewhere ==
  ASSUME RunDone,
         \/ pc' \in {"idle", "scanning", "committing"} \cup InFast
         \/ UNCHANGED <<pc, run, row, remote>>
  PROVE  RunDone'
BY DEF RunDone, InFast, ActiveRows

LEMMA DoneRun ==
  ASSUME TypeOK, LedgerInv, RunDone, Attempt
  PROVE  RunDone'
<1> USE DEF ledgerVars
<1>1. CASE Scan
  <2>1. pc' = "preflight" /\ run'.proven = Proven /\ run'.todo = Proven
    BY <1>1 DEF Scan, TypeOK
  <2> QED
    BY <2>1 DEF RunDone
<1>2. CASE Preflight
  <2>1. /\ pc = "preflight" /\ pc' = "uploading"
        /\ run'.proven = run.proven /\ run'.todo = run.todo
    BY <1>2 DEF Preflight, TypeOK
  <2> QED
    BY <2>1 DEF RunDone
<1>3. CASE Upload
  <2>1. run.todo = run.proven /\ run' = run
    BY <1>3 DEF Upload, RunDone
  <2>2. CASE run.todo = {}
    BY <1>3, <2>1, <2>2 DEF Upload, RunDone
  <2>3. CASE run.todo # {}
    BY <1>3, <2>1, <2>3 DEF Upload, RunDone
  <2> QED
    BY <2>2, <2>3
<1>4. ASSUME NEW p \in Paths, DeleteRemotePath(p) PROVE RunDone'
  <2>1. /\ run'.proven = run.proven /\ run'.todo = run.todo \ {p}
        /\ pc' \in {"deleting", "checking"}
        /\ pc' = "checking" => run'.todo = {}
    BY <1>4 DEF DeleteRemotePath, TypeOK
  <2>2. \A q \in run.proven \ run'.todo : remote'[q] = Absent
    <3> SUFFICES ASSUME NEW q \in run.proven, q \notin run'.todo
                 PROVE  remote'[q] = Absent
      OBVIOUS
    <3>1. q \in Paths /\ remote \in [Paths -> Versions]
      BY DEF TypeOK
    <3>2. pc = "deleting" /\ remote' = [remote EXCEPT ![p] = Absent]
      BY <1>4 DEF DeleteRemotePath
    <3>3. CASE q = p
      BY <3>1, <3>2, <3>3
    <3>4. CASE q # p
      <4>1. q \notin run.todo
        BY <2>1, <3>4
      <4> QED
        BY <3>1, <3>2, <3>4, <4>1 DEF RunDone
    <3> QED
      BY <3>3, <3>4
  <2> QED
    BY <2>1, <2>2 DEF RunDone
<1>5. CASE MarkDirtyIfChanged
  <2>1. /\ pc = "checking" /\ UNCHANGED <<run, row, remote, policy>>
        /\ pc' = IF refreshed = policy THEN "applying" ELSE "refreshing"
    BY <1>5 DEF MarkDirtyIfChanged, policyVars
  <2>2. refreshed = policy => ActiveRows \subseteq run.active \cup run.proven
    BY <2>1 DEF LedgerInv, RunKnows, LedgerFollowsPolicy
  <2> QED
    BY <2>1, <2>2 DEF RunDone, ActiveRows
<1>6. CASE ApplyManagedRefresh
  <2>1. pc = "refreshing" /\ pc' = "readying" /\ UNCHANGED <<run, remote>>
    BY <1>6 DEF ApplyManagedRefresh
  <2>2. ActiveRows' \subseteq run.active \cup run.proven
    BY <1>6 DEF ApplyManagedRefresh, ActiveRows
  <2> QED
    BY <2>1, <2>2 DEF RunDone
<1>7. CASE MarkPolicyRefreshReady
  BY <1>7 DEF MarkPolicyRefreshReady, RunDone, ActiveRows
<1>8. CASE ManifestApply
  BY <1>8, DoneElsewhere DEF ManifestApply
<1>9. CASE CommitRunSuccess
  BY <1>9, DoneElsewhere DEF CommitRunSuccess
<1> QED
  BY <1>1, <1>2, <1>3, <1>4, <1>5, <1>6, <1>7, <1>8, <1>9 DEF Attempt

LEMMA DoneStep ==
  ASSUME TypeOK, LedgerInv, RunDone, [Next]_vars
  PROVE  RunDone'
<1>1. CASE Attempt
  BY <1>1, DoneRun
<1>2. ASSUME ~Attempt
      PROVE  \/ pc' \in {"idle", "scanning", "committing"} \cup InFast
             \/ UNCHANGED <<pc, run, row, remote>>
  BY <1>2 DEF Next, RecordSafe, RecordFull, Change, NoticeSource,
     PromoteToFullReconcile, SubmitReconcile, EnsureReconcileGeneration,
     CommitPolicy, Claim, FailRun, Fast, FastList, FastUpload, FastLedger,
     FastClear, FastFail, InFast, vars, ledgerVars, workerVars
<1> QED
  BY <1>1, <1>2, DoneElsewhere

\* Who takes rows out of the ledger.
LEMMA ForgetStep ==
  ASSUME TypeOK, RunDone, [Next]_vars,
         NEW p \in Paths, row[p] = "active", row'[p] = "none"
  PROVE  remote[p] = Absent \/ p \in run.active
<1>1. CASE ManifestApply
  <2>1. p \in run.active \cup run.proven
    BY <1>1 DEF ManifestApply, RunDone, ActiveRows
  <2> QED
    BY <1>1, <2>1 DEF ManifestApply, RunDone
<1>2. ASSUME ~ManifestApply PROVE row'[p] # "none"
  <2>1. CASE ApplyManagedRefresh
    BY <2>1 DEF ApplyManagedRefresh
  <2>2. CASE FastLedger \/ FastFail
    <3>1. row' = row \/ \E S : row' = Upserted(S)
      BY <2>2 DEF FastLedger, FastFail
    <3> QED
      BY <3>1 DEF Upserted
  <2>3. CASE ~(ApplyManagedRefresh \/ FastLedger \/ FastFail)
    <3>1. row' = row
      BY <1>2, <2>3 DEF Next, RecordSafe, RecordFull, Change, NoticeSource,
         PromoteToFullReconcile, SubmitReconcile, EnsureReconcileGeneration,
         CommitPolicy, Claim, FailRun, Attempt, Scan, Preflight, Upload,
         DeleteRemotePath, MarkDirtyIfChanged, MarkPolicyRefreshReady,
         CommitRunSuccess, Fast, FastList, FastUpload, FastClear, vars,
         ledgerVars
    <3> QED
      BY <3>1
  <2> QED
    BY <2>1, <2>2, <2>3
<1> QED
  BY <1>1, <1>2

\* Whatever fails between the scan of a run and its last write, and whatever is
\* created or removed meanwhile: the ledger drops the row of a managed file only
\* when its copy is gone, or when the file disappeared after the first scan.
THEOREM ForgetsDeleted == Spec => ForgetsOnlyDeleted
<1>1. Init => RunDone
  BY DEF Init, RunDone
<1>2. TypeOK /\ LedgerInv /\ RunDone /\ [Next]_vars => RunDone'
  BY DoneStep
<1>3. TypeOK /\ RunDone /\ [Next]_vars =>
        [\A p \in Paths : row[p] = "active" /\ row'[p] = "none" =>
            remote[p] = Absent \/ p \in run.active]_vars
  BY ForgetStep
<1> QED
  BY <1>1, <1>2, <1>3, MirrorTyped, LedgerInvariant, PTL
     DEF Spec, ForgetsOnlyDeleted

-----------------------------------------------------------------------------
(* Mirror implements Intent.                                               *)

\* A run is for generations that are not served yet.
TargetOwed == pc \in Running => last < run.target

LEMMA OwedStep ==
  ASSUME TypeOK, TargetOwed, [Next]_vars
  PROVE  TargetOwed'
<1> USE DEF TypeOK, TargetOwed, Running
<1>1. ASSUME NEW limit \in Limits, Claim(limit) PROVE TargetOwed'
  <2>1. last' = last /\ last < desired /\ run'.target = desired
    BY <1>1 DEF Claim, NoRun, genVars
  <2> QED
    BY <2>1
<1>2. CASE Attempt /\ ~CommitRunSuccess
  <2>1. pc \in Running /\ last' = last /\ run'.target = run.target
    BY <1>2 DEF Attempt, Scan, Preflight, Upload, DeleteRemotePath,
       MarkDirtyIfChanged, ApplyManagedRefresh, MarkPolicyRefreshReady,
       ManifestApply, genVars
  <2> QED
    BY <2>1
<1>3. CASE \/ CommitRunSuccess \/ FailRun \/ FastList \/ Fast \/ FastFail
           \/ \E q \in Policies : CommitPolicy(q)
  <2>1. pc' \notin Running
    BY <1>3 DEF CommitRunSuccess, FailRun, FastList, Fast, FastUpload,
       FastLedger, FastClear, FastFail, CommitPolicy, workerVars
  <2> QED
    BY <2>1
<1>4. CASE \/ \E p \in Paths : RecordSafe(p) \/ RecordFull(p)
                               \/ \E v \in Versions : Change(p, v)
           \/ NoticeSource \/ PromoteToFullReconcile \/ SubmitReconcile
           \/ \E g \in 1..source : EnsureReconcileGeneration(g)
           \/ UNCHANGED vars
  <2>1. UNCHANGED <<pc, run, last>>
    BY <1>4 DEF RecordSafe, RecordFull, Change, NoticeSource,
       PromoteToFullReconcile, SubmitReconcile, EnsureReconcileGeneration,
       vars, workerVars, genVars
  <2> QED
    BY <2>1
<1> QED
  BY <1>1, <1>2, <1>3, <1>4 DEF Next, Attempt

\* The generations and the attempt, as Intent sees them.
Attempted == IF pc \in Running THEN {run.target} ELSE {}

LEMMA PromiseStep ==
  ASSUME TypeOK, TargetOwed, [Next]_vars
  PROVE  [Promise!Next]_(Promise!vars)
<1> SUFFICES Promise!Next \/ UNCHANGED <<desired, last, Attempted>>
  BY DEF Promise!vars, Attempted
<1>0. desired \in Int /\ last \in Int /\ source \in Int /\ noticed \in Int
  BY DEF TypeOK
<1>1. ASSUME UNCHANGED <<last, Attempted>>, desired' >= desired, desired' \in Int
      PROVE  Promise!Next \/ UNCHANGED <<desired, last, Attempted>>
  BY <1>0, <1>1 DEF Promise!Next, Promise!Request, Attempted
<1>2. CASE \/ \E p \in Paths : RecordSafe(p) \/ RecordFull(p)
                               \/ \E v \in Versions : Change(p, v)
           \/ NoticeSource \/ PromoteToFullReconcile \/ SubmitReconcile
           \/ \E g \in 1..source : EnsureReconcileGeneration(g)
           \/ \E q \in Policies : CommitPolicy(q)
           \/ UNCHANGED vars
  <2>1. UNCHANGED <<last, pc, run>>
    BY <1>2 DEF RecordSafe, RecordFull, Change, NoticeSource,
       PromoteToFullReconcile, SubmitReconcile, EnsureReconcileGeneration,
       CommitPolicy, vars, workerVars, genVars
  <2>2. desired' >= desired /\ desired' \in Int
    <3>1. CASE \/ \E p \in Paths : RecordFull(p)
               \/ PromoteToFullReconcile
      <4>1. PICK g \in {source + 1, noticed} : desired' = Max2(desired, g)
        BY <3>1 DEF RecordFull, PromoteToFullReconcile
      <4> QED
        BY <1>0, <4>1, MaxFacts
    <3>2. CASE SubmitReconcile
      <4> DEFINE m == Max2(source, last + 1)
      <4>1. m \in Int
        BY <1>0, MaxFacts
      <4> HIDE DEF m
      <4>2. Max2(desired + 1, m) \in Int /\ Max2(desired + 1, m) >= desired + 1
        BY <1>0, <4>1, MaxFacts
      <4>3. desired' = Max2(desired + 1, m)
        BY <3>2 DEF SubmitReconcile, m
      <4> QED
        BY <1>0, <4>2, <4>3
    <3>3. ASSUME NEW g \in 1..source, EnsureReconcileGeneration(g)
          PROVE  desired' >= desired /\ desired' \in Int
      BY <1>0, <3>3 DEF EnsureReconcileGeneration
    <3>4. ASSUME NEW q \in Policies, CommitPolicy(q)
          PROVE  desired' >= desired /\ desired' \in Int
      <4> DEFINE m == Max2(desired, last)
      <4>1. m \in Int /\ m >= desired
        BY <1>0, MaxFacts
      <4> HIDE DEF m
      <4>2. Max2(source, m) \in Int /\ Max2(source, m) >= m
        BY <1>0, <4>1, MaxFacts
      <4>3. desired' = Max2(source, m) + 1
        BY <3>4 DEF CommitPolicy, NextGeneration, m
      <4> QED
        BY <1>0, <4>1, <4>2, <4>3
    <3>5. CASE \/ \E p \in Paths : RecordSafe(p) \/ \E v \in Versions : Change(p, v)
               \/ NoticeSource \/ UNCHANGED vars
      BY <1>0, <3>5 DEF RecordSafe, Change, NoticeSource, vars, genVars
    <3> QED
      BY <1>2, <3>1, <3>2, <3>3, <3>4, <3>5
  <2> QED
    BY <1>1, <2>1, <2>2 DEF Attempted
<1>3. ASSUME NEW limit \in Limits, Claim(limit) PROVE Promise!Begin
  <2>1. /\ pc \notin Running /\ pc' \in Running /\ run'.target = desired
        /\ last < desired /\ UNCHANGED <<desired, last>>
    BY <1>0, <1>3 DEF Claim, NoRun, Running, genVars
  <2> QED
    BY <2>1 DEF Promise!Begin
<1>4. CASE Attempt /\ ~MarkDirtyIfChanged /\ ~CommitRunSuccess
  <2>1. /\ pc \in Running /\ pc' \in Running /\ run'.target = run.target
        /\ UNCHANGED <<desired, last>>
    BY <1>4 DEF TypeOK, Attempt, Scan, Preflight, Upload, DeleteRemotePath,
       ApplyManagedRefresh, MarkPolicyRefreshReady, ManifestApply, genVars,
       Running
  <2> QED
    BY <2>1 DEF Attempted
<1>5. CASE MarkDirtyIfChanged
  <2>1. UNCHANGED <<last, Attempted>>
    BY <1>5 DEF MarkDirtyIfChanged, Attempted, Running
  <2>2. desired' >= desired /\ desired' \in Int
    BY <1>0, <1>5, MaxFacts DEF MarkDirtyIfChanged
  <2> QED
    BY <1>1, <2>1, <2>2
<1>6. CASE CommitRunSuccess
  <2>1. pc \in Running /\ pc' \notin Running /\ desired' = desired
    BY <1>6 DEF CommitRunSuccess, Running
  <2>2. last' = run.target
    BY <1>6, <2>1 DEF CommitRunSuccess, TargetOwed, Max2, TypeOK
  <2> QED
    BY <2>1, <2>2 DEF Promise!Next, Promise!Succeed
<1>7. CASE FailRun
  <2>1. /\ pc \in Running /\ pc' \notin Running
        /\ UNCHANGED <<desired, last>>
    BY <1>7 DEF FailRun, Running, genVars
  <2> QED
    BY <2>1 DEF Promise!Next, Promise!Fail
<1>8. CASE FastList \/ Fast \/ FastFail
  <2>1. /\ pc \notin Running /\ pc' \notin Running
        /\ UNCHANGED <<desired, last>>
    BY <1>8 DEF Fast, FastList, FastUpload, FastLedger, FastClear, FastFail,
       Running, InFast, genVars
  <2> QED
    BY <2>1 DEF Attempted
<1> QED
  BY <1>2, <1>3, <1>4, <1>5, <1>6, <1>7, <1>8 DEF Next, Promise!Next, Attempt

\* The mirror of any files under any policies executes the promise of Intent: a
\* success is credited to the generation its run claimed, and what is asked for
\* during the run, its own second scan included, stays wanted.
THEOREM MirrorImplements == Spec => ImplementsIntent
<1>1. Init => Promise!Init
  BY DEF Init, Promise!Init, Running, NoGen
<1>2. Init => TargetOwed
  BY DEF Init, TargetOwed, Running
<1>3. TypeOK /\ TargetOwed /\ [Next]_vars => TargetOwed'
  BY OwedStep
<1>4. TypeOK /\ TargetOwed /\ [Next]_vars => [Promise!Next]_(Promise!vars)
  BY PromiseStep
<1> QED
  BY <1>1, <1>2, <1>3, <1>4, MirrorTyped, PTL
     DEF Spec, ImplementsIntent, Promise!Spec

-----------------------------------------------------------------------------
(* A change is lost only when a request had asked past it.                  *)

AfterUpload == {"deleting", "checking", "refreshing", "readying", "applying",
                "committing"}

\* What the success of the present run, or the end of the present batch, leaves
\* announced or overtaken.
SurvivesRun(p) ==
  unseen[p] # "no" \/ events[p] > run.target \/ desired > run.target
                   \/ p \in overtaken
SurvivesBatch(p) ==
  unseen[p] # "no" \/ events[p] > batch[p] \/ desired > last \/ p \in overtaken
Accounted(p) == Announced(p) \/ p \in overtaken

Coverage ==
  /\ pc \in Running => last < run.target
  /\ pc \in {"preflight", "uploading", "deleting"} =>
        \A p \in run.todo \cap Eligible : SurvivesRun(p)
  /\ pc \in AfterUpload =>
        \A p \in Eligible : remote[p] = local[p] \/ SurvivesRun(p)
  /\ pc \in {"ledgering", "clearing"} =>
        \A p \in Eligible : remote[p] = local[p] \/ SurvivesBatch(p)
  /\ OnlyOvertakenLost

\* A step that changes neither the remote nor the ledger, after which changed files
\* are unseen and what was accounted for still is.
Accounting ==
  /\ UNCHANGED <<remote, row, policy, pc, run, batch, last>>
  /\ \A p \in Paths : local'[p] = local[p] \/ unseen'[p] # "no"
  /\ pc \in Running => \A p \in Paths : SurvivesRun(p) => SurvivesRun(p)'
  /\ pc \notin Running => \A p \in Paths : SurvivesBatch(p) => SurvivesBatch(p)'
  /\ \A p \in Paths : Accounted(p) => Accounted(p)'

LEMMA CoverageKept ==
  ASSUME TypeOK, Coverage, Accounting
  PROVE  Coverage'
<1> USE DEF Accounting
<1>1. \A p \in Paths : unseen'[p] # "no" =>
         SurvivesRun(p)' /\ SurvivesBatch(p)' /\ Accounted(p)'
  BY DEF SurvivesRun, SurvivesBatch, Announced, Accounted
<1>2. \A p \in Paths : local'[p] = local[p] => (p \in Eligible' <=> p \in Eligible)
  BY DEF Eligible, Ignored
<1>3. Eligible' \subseteq Paths
  BY DEF Eligible
<1>4. pc \in {"preflight", "uploading", "deleting"} =>
        \A p \in run.todo \cap Eligible' : SurvivesRun(p)'
  BY <1>1, <1>2, <1>3 DEF Coverage, Running
<1>5. pc \in AfterUpload =>
        \A p \in Eligible' : remote[p] = local'[p] \/ SurvivesRun(p)'
  BY <1>1, <1>2, <1>3 DEF Coverage, AfterUpload, Running
<1>6. pc \in {"ledgering", "clearing"} =>
        \A p \in Eligible' : remote[p] = local'[p] \/ SurvivesBatch(p)'
  BY <1>1, <1>2, <1>3 DEF Coverage, Running
<1>7. OnlyOvertakenLost'
  BY <1>1, <1>2, <1>3 DEF Coverage, OnlyOvertakenLost, Accounted
<1> QED
  BY <1>4, <1>5, <1>6, <1>7 DEF Coverage

\* The generations, as integers.
LEMMA Ordered ==
  ASSUME TypeOK
  PROVE  /\ source \in Int /\ desired \in Int /\ last \in Int
         /\ run.target \in Int /\ run.target <= desired /\ last <= desired
         /\ 0 <= last /\ 0 <= run.target /\ noticed \in Int
         /\ \A p \in Paths : /\ events[p] \in Int /\ 0 <= events[p]
                              /\ events[p] <= source
                              /\ batch[p] \in Int /\ 0 <= batch[p]
                              /\ batch[p] <= source
BY DEF TypeOK

\* The rows collapse: what they announced is debt, covered by the run, or overtaken.
LEMMA CollapseAccounted ==
  ASSUME TypeOK, Coverage, NEW S \in SUBSET Paths, NEW g \in Int,
         UNCHANGED <<local, remote, row, policy, pc, run, batch, last>>,
         desired' = Max2(desired, g), events' = Nothing, Overtake(S, g),
         \A q \in Paths \ S : unseen'[q] = unseen[q]
  PROVE  Accounting
<1> USE Ordered DEF Accounting
<1>1. /\ \A q \in Paths : events'[q] = 0
      /\ desired' \in Int /\ desired' >= desired
  BY MaxFacts DEF Nothing, NoGen
<1>2. CASE desired' > Covered
  <2>1. desired' > last /\ (pc \in Running => desired' > run.target)
    BY <1>1, <1>2 DEF Covered, Coverage
  <2> QED
    BY <1>1, <2>1 DEF SurvivesRun, SurvivesBatch, Accounted, Announced
<1>3. CASE ~(desired' > Covered)
  <2>1. /\ S \subseteq overtaken' /\ overtaken \subseteq overtaken'
        /\ \A q \in Paths : /\ events[q] # 0
                            /\ pc \in Running => events[q] > run.target
                            => q \in overtaken'
    BY <1>3 DEF Overtake, NoGen
  <2>2. pc \in Running => \A q \in Paths : SurvivesRun(q) => SurvivesRun(q)'
    BY <1>1, <2>1 DEF SurvivesRun
  <2>3. pc \notin Running =>
           \A q \in Paths : SurvivesBatch(q) => SurvivesBatch(q)'
    BY <1>1, <2>1 DEF SurvivesBatch
  <2>4. pc \in Running => desired' > last
    BY <1>1 DEF Coverage
  <2>5. \A q \in Paths : Accounted(q) => Accounted(q)'
    BY <1>1, <2>1, <2>4 DEF Accounted, Announced, NoGen
  <2> QED
    BY <2>2, <2>3, <2>5
<1> QED
  BY <1>2, <1>3

LEMMA EventsAccounted ==
  ASSUME TypeOK, Coverage, NEW p \in Paths,
         RecordSafe(p) \/ RecordFull(p) \/ \E v \in Versions : Change(p, v)
  PROVE  Accounting
<1> USE Ordered DEF genVars, policyVars, workerVars, fileVars, ledgerVars
<1>1. CASE RecordSafe(p)
  <2>1. /\ UNCHANGED <<remote, row, policy, pc, run, batch, last, local, desired>>
        /\ source' = source + 1 /\ events'[p] = source + 1
        /\ \A q \in Paths \ {p} : events'[q] = events[q] /\ unseen'[q] = unseen[q]
        /\ overtaken \subseteq overtaken'
        /\ pc \in Running /\ source + 1 <= run.target => p \in overtaken'
    BY <1>1 DEF RecordSafe, TypeOK
  <2>2. source + 1 > batch[p] /\ source + 1 # 0
    BY DEF TypeOK
  <2>3. pc \in Running => \A q \in Paths : SurvivesRun(q) => SurvivesRun(q)'
    BY <2>1 DEF SurvivesRun
  <2>4. \A q \in Paths : SurvivesBatch(q) => SurvivesBatch(q)'
    BY <2>1, <2>2 DEF SurvivesBatch
  <2>5. \A q \in Paths : Accounted(q) => Accounted(q)'
    BY <2>1, <2>2 DEF Accounted, Announced, NoGen
  <2> QED
    BY <2>1, <2>3, <2>4, <2>5 DEF Accounting
<1>2. CASE RecordFull(p)
  <2>1. /\ UNCHANGED <<remote, row, policy, pc, run, batch, last, local>>
        /\ desired' = Max2(desired, source + 1) /\ events' = Nothing
        /\ Overtake({p}, source + 1)
        /\ \A q \in Paths \ {p} : unseen'[q] = unseen[q]
    BY <1>2 DEF RecordFull, TypeOK
  <2> QED
    BY <2>1, CollapseAccounted
<1>3. ASSUME NEW v \in Versions, Change(p, v) PROVE Accounting
  <2>1. /\ UNCHANGED <<remote, row, policy, pc, run, batch, last, source, desired, events>>
        /\ unseen'[p] # "no" /\ overtaken' = overtaken \ {p}
        /\ \A q \in Paths \ {p} : local'[q] = local[q] /\ unseen'[q] = unseen[q]
    BY <1>3 DEF Change, TypeOK
  <2>2. \A q \in Paths : /\ SurvivesRun(q) => SurvivesRun(q)'
                         /\ SurvivesBatch(q) => SurvivesBatch(q)'
                         /\ Accounted(q) => Accounted(q)'
    BY <2>1 DEF SurvivesRun, SurvivesBatch, Accounted, Announced
  <2> QED
    BY <2>1, <2>2 DEF Accounting
<1> QED
  BY <1>1, <1>2, <1>3

LEMMA RequestsAccounted ==
  ASSUME TypeOK, Coverage,
         \/ NoticeSource \/ PromoteToFullReconcile \/ SubmitReconcile
         \/ \E g \in 1..source : EnsureReconcileGeneration(g)
  PROVE  Accounting
<1> USE Ordered DEF genVars, policyVars, workerVars, fileVars, eventVars, ledgerVars
<1>1. CASE PromoteToFullReconcile
  <2>1. /\ UNCHANGED <<local, remote, row, policy, pc, run, batch, last, unseen>>
        /\ desired' = Max2(desired, noticed) /\ events' = Nothing
        /\ Overtake({}, noticed)
    BY <1>1 DEF PromoteToFullReconcile
  <2> QED
    BY <2>1, CollapseAccounted
<1>2. CASE \/ NoticeSource \/ SubmitReconcile
           \/ \E g \in 1..source : EnsureReconcileGeneration(g)
  <2>1. UNCHANGED <<remote, row, policy, pc, run, batch, last, local, unseen, events,
                    overtaken>>
    BY <1>2 DEF NoticeSource, SubmitReconcile, EnsureReconcileGeneration
  <2>2. desired' >= desired /\ desired' \in Int
    <3>1. CASE SubmitReconcile
      <4> DEFINE m == Max2(source, last + 1)
      <4>1. m \in Int
        BY MaxFacts
      <4> HIDE DEF m
      <4>2. Max2(desired + 1, m) \in Int /\ Max2(desired + 1, m) >= desired + 1
        BY <4>1, MaxFacts
      <4> QED
        BY <3>1, <4>1, <4>2 DEF SubmitReconcile, m
    <3> QED
      BY <1>2, <3>1 DEF NoticeSource, EnsureReconcileGeneration
  <2>3. \A q \in Paths : /\ SurvivesRun(q) => SurvivesRun(q)'
                         /\ SurvivesBatch(q) => SurvivesBatch(q)'
                         /\ Accounted(q) => Accounted(q)'
    BY <2>1, <2>2 DEF SurvivesRun, SurvivesBatch, Accounted, Announced
  <2> QED
    BY <2>1, <2>3 DEF Accounting
<1> QED
  BY <1>1, <1>2

LEMMA CoveragePolicy ==
  ASSUME TypeOK, Coverage, NEW q \in Policies, CommitPolicy(q)
  PROVE  Coverage'
<1>1. pc' = "idle" /\ last' = last /\ desired' = NextGeneration
  BY DEF CommitPolicy, workerVars
<1>2. NextGeneration \in Int /\ NextGeneration > last
  BY Ordered DEF NextGeneration, Max2
<1>3. OnlyOvertakenLost'
  BY <1>1, <1>2 DEF OnlyOvertakenLost, Announced, Eligible
<1> QED
  BY <1>1, <1>3 DEF Coverage, AfterUpload, Running

\* While a run executes there is debt, so that only its own promises matter.
LEMMA CoverageInRun ==
  ASSUME TypeOK, Coverage, pc \in Running, pc' \in Running,
         UNCHANGED <<local, policy, last>>,
         run'.target = run.target, desired' \in Int, desired' >= desired,
         pc' \in {"preflight", "uploading", "deleting"} =>
            \A p \in run'.todo \cap Eligible : SurvivesRun(p)',
         pc' \in AfterUpload =>
            \A p \in Eligible : remote'[p] = local[p] \/ SurvivesRun(p)'
  PROVE  Coverage'
<1> USE Ordered
<1>1. Eligible' = Eligible
  BY DEF Eligible, Ignored
<1>2. OnlyOvertakenLost'
  BY <1>1 DEF Coverage, OnlyOvertakenLost, Announced
<1>3. pc' \notin {"ledgering", "clearing"} /\ last' < run'.target
  BY DEF Running, Coverage
<1> QED
  BY <1>1, <1>2, <1>3 DEF Coverage

\* What survives the run survives a step that takes nothing away.
LEMMA SurvivesKept ==
  ASSUME TypeOK, UNCHANGED <<events, unseen, overtaken>>, run'.target = run.target,
         desired' \in Int, desired' >= desired
  PROVE  \A p : SurvivesRun(p) => SurvivesRun(p)'
BY Ordered DEF SurvivesRun

LEMMA CoverageRun ==
  ASSUME TypeOK, Coverage,
         Attempt \/ FailRun \/ \E limit \in Limits : Claim(limit)
  PROVE  Coverage'
<1> USE Ordered DEF genVars, policyVars, fileVars, eventVars, ledgerVars
<1>1. ASSUME NEW limit \in Limits, Claim(limit) PROVE Coverage'
  <2>1. /\ pc' = "scanning" /\ run'.target = desired /\ last < desired
        /\ UNCHANGED <<desired, last>>
    BY <1>1 DEF Claim, NoRun
  <2>2. OnlyOvertakenLost'
    BY <2>1 DEF OnlyOvertakenLost, Announced
  <2> QED
    BY <2>1, <2>2 DEF Coverage, AfterUpload
<1>2. CASE Scan
  <2>1. /\ pc = "scanning" /\ pc' = "preflight" /\ run'.target = run.target
        /\ run'.todo \cap Eligible = {}
    BY <1>2 DEF Scan, TypeOK, Proven
  <2> QED
    BY <1>2, <2>1, CoverageInRun DEF Scan, Running, AfterUpload
<1>3. CASE Preflight
  <2>1. /\ pc = "preflight" /\ pc' = "uploading" /\ run'.target = run.target
        /\ run'.todo = run.todo
    BY <1>3 DEF Preflight, TypeOK
  <2> QED
    BY <1>3, <2>1, CoverageInRun, SurvivesKept
       DEF Preflight, Running, AfterUpload, Coverage
<1>4. CASE Upload
  <2>1. \A p \in Eligible : remote'[p] = local[p]
    BY <1>4 DEF Upload, Uploaded, Eligible
  <2>2. \A p \in run.todo \cap Eligible : SurvivesRun(p)
    BY <1>4 DEF Upload, Coverage
  <2>3. \A p \in run'.todo \cap Eligible : SurvivesRun(p)'
    BY <1>4, <2>2 DEF Upload, SurvivesRun
  <2> QED
    BY <1>4, <2>1, <2>3, CoverageInRun DEF Upload, Running
<1>5. ASSUME NEW p \in Paths, DeleteRemotePath(p) PROVE Coverage'
  <2>1. /\ pc = "deleting" /\ pc' \in {"deleting", "checking"}
        /\ run'.target = run.target /\ run'.todo \subseteq run.todo
        /\ p \in run.todo
        /\ \A q \in Paths \ {p} : remote'[q] = remote[q]
    BY <1>5 DEF DeleteRemotePath, TypeOK
  <2>2. \A q : SurvivesRun(q) => SurvivesRun(q)'
    BY <1>5, <2>1, SurvivesKept DEF DeleteRemotePath
  <2>3. \A q \in Eligible : remote'[q] = local[q] \/ SurvivesRun(q)
    BY <2>1 DEF Coverage, AfterUpload, Eligible
  <2>4. \A q \in run'.todo \cap Eligible : SurvivesRun(q)
    BY <2>1 DEF Coverage
  <2> QED
    BY <1>5, <2>1, <2>2, <2>3, <2>4, CoverageInRun DEF DeleteRemotePath, Running
<1>6. CASE MarkDirtyIfChanged
  <2>1. desired' \in Int /\ desired' >= desired
    BY <1>6, MaxFacts DEF MarkDirtyIfChanged
  <2>2. /\ pc = "checking" /\ pc' \in {"applying", "refreshing"}
        /\ UNCHANGED <<run, remote>>
    BY <1>6 DEF MarkDirtyIfChanged
  <2> QED
    BY <1>6, <2>1, <2>2, CoverageInRun, SurvivesKept
       DEF MarkDirtyIfChanged, Running, AfterUpload, Coverage
<1>7. CASE ApplyManagedRefresh \/ MarkPolicyRefreshReady \/ ManifestApply
  <2>1. /\ pc \in {"refreshing", "readying", "applying"}
        /\ pc' \in {"readying", "applying", "committing"}
        /\ UNCHANGED <<run, remote, local, policy, last, desired, events, unseen,
                       overtaken>>
    BY <1>7 DEF ApplyManagedRefresh, MarkPolicyRefreshReady, ManifestApply
  <2> QED
    BY <2>1, CoverageInRun, SurvivesKept DEF Running, AfterUpload, Coverage
<1>8. CASE CommitRunSuccess
  <2>1. /\ pc = "committing" /\ pc' = "idle"
        /\ UNCHANGED <<local, remote, policy, desired, unseen, overtaken>>
        /\ events' = [q \in Paths |-> IF events[q] <= run.target THEN NoGen
                                      ELSE events[q]]
    BY <1>8 DEF CommitRunSuccess
  <2>2. last' = run.target
    BY <1>8, <2>1 DEF CommitRunSuccess, Coverage, Running, Max2
  <2>3. \A q \in Paths : SurvivesRun(q) => Accounted(q)'
    BY <2>1, <2>2 DEF SurvivesRun, Accounted, Announced, NoGen
  <2>4. OnlyOvertakenLost'
    BY <2>1, <2>3 DEF Coverage, AfterUpload, OnlyOvertakenLost, Accounted,
                      Eligible, Ignored
  <2> QED
    BY <2>1, <2>4 DEF Coverage, AfterUpload, Running
<1>9. CASE FailRun
  <2>1. pc \in Running /\ pc' = "idle" /\ UNCHANGED <<desired, last>>
    BY <1>9 DEF FailRun
  <2>2. OnlyOvertakenLost'
    BY <2>1 DEF Coverage, OnlyOvertakenLost, Announced
  <2> QED
    BY <2>1, <2>2 DEF Coverage, AfterUpload, Running
<1> QED
  BY <1>1, <1>2, <1>3, <1>4, <1>5, <1>6, <1>7, <1>8, <1>9 DEF Attempt

LEMMA CoverageFast ==
  ASSUME TypeOK, Coverage, FastList \/ Fast \/ FastFail
  PROVE  Coverage'
<1> USE Ordered DEF genVars, policyVars, fileVars, eventVars
\* Uploads only help.
<1>1. ASSUME NEW S \in SUBSET Eligible, remote' = Uploaded(S),
             UNCHANGED <<local, policy, desired, last, events, unseen, overtaken>>
      PROVE  OnlyOvertakenLost'
  BY <1>1 DEF Coverage, OnlyOvertakenLost, Announced, Uploaded, Eligible, Ignored
<1>2. CASE FastList
  BY <1>2 DEF FastList, Coverage, OnlyOvertakenLost, Announced, Eligible, Ignored,
              AfterUpload, Running
<1>3. CASE FastUpload
  <2>1. /\ pc' = "ledgering" /\ remote' = Uploaded(InBatch \cap Eligible)
        /\ UNCHANGED <<local, policy, desired, last, events, unseen, overtaken,
                       batch>>
    BY <1>3 DEF FastUpload
  <2>2. OnlyOvertakenLost'
    BY <1>1, <2>1
  <2>3. \A p \in Eligible : remote'[p] = local[p] \/ SurvivesBatch(p)
    <3>1. \A p \in InBatch \cap Eligible : remote'[p] = local[p]
      BY <2>1 DEF Uploaded, Eligible
    <3>2. ASSUME NEW p \in Eligible, p \notin InBatch
          PROVE  remote'[p] = local[p] \/ SurvivesBatch(p)
      <4>1. p \in Paths /\ batch[p] = 0 /\ remote'[p] = remote[p]
        BY <2>1, <3>2 DEF InBatch, Eligible, Uploaded, NoGen
      <4>2. remote[p] = local[p] \/ Accounted(p)
        BY DEF Coverage, OnlyOvertakenLost, Accounted
      <4> QED
        BY <4>1, <4>2 DEF Accounted, Announced, SurvivesBatch, NoGen
    <3> QED
      BY <3>1, <3>2
  <2>4. \A p \in Eligible' : remote'[p] = local'[p] \/ SurvivesBatch(p)'
    BY <2>1, <2>3 DEF SurvivesBatch, Eligible, Ignored
  <2> QED
    BY <2>1, <2>2, <2>4 DEF Coverage, AfterUpload, Running
<1>4. CASE FastLedger
  <2>1. /\ pc = "ledgering" /\ pc' = "clearing"
        /\ UNCHANGED <<local, remote, policy, desired, last, events, unseen,
                       overtaken, batch>>
    BY <1>4 DEF FastLedger
  <2> QED
    BY <2>1 DEF Coverage, OnlyOvertakenLost, Announced, SurvivesBatch, Eligible,
                Ignored, AfterUpload, Running
<1>5. CASE FastClear
  <2>1. /\ pc = "clearing" /\ pc' = "idle"
        /\ UNCHANGED <<local, remote, policy, desired, last, unseen, overtaken>>
        /\ events' = [q \in Paths |-> IF events[q] <= batch[q] THEN NoGen
                                      ELSE events[q]]
    BY <1>5 DEF FastClear
  <2>2. \A q \in Paths : SurvivesBatch(q) => Accounted(q)'
    BY <2>1 DEF SurvivesBatch, Accounted, Announced, NoGen
  <2>3. OnlyOvertakenLost'
    BY <2>1, <2>2 DEF Coverage, OnlyOvertakenLost, Accounted, Eligible, Ignored
  <2> QED
    BY <2>1, <2>3 DEF Coverage, AfterUpload, Running
<1>6. CASE FastFail
  <2>1. /\ pc' = "idle"
        /\ UNCHANGED <<local, policy, desired, last, events, unseen, overtaken>>
        /\ remote' = remote \/ \E S \in SUBSET Eligible : remote' = Uploaded(S)
    BY <1>6 DEF FastFail
  <2>2. CASE remote' = remote
    BY <2>1, <2>2 DEF Coverage, OnlyOvertakenLost, Announced, Eligible, Ignored,
                      AfterUpload, Running
  <2>3. CASE \E S \in SUBSET Eligible : remote' = Uploaded(S)
    BY <1>1, <2>1, <2>3 DEF Coverage, AfterUpload, Running
  <2> QED
    BY <2>1, <2>2, <2>3
<1> QED
  BY <1>2, <1>3, <1>4, <1>5, <1>6 DEF Fast

LEMMA CoverageAlways == Spec => []Coverage
<1>1. Init => Coverage
  BY DEF Init, Coverage, OnlyOvertakenLost, Announced, AfterUpload, Running,
         Nothing, NoGen
<1>2. TypeOK /\ Coverage /\ [Next]_vars => Coverage'
  <2> SUFFICES ASSUME TypeOK, Coverage, [Next]_vars PROVE Coverage'
    OBVIOUS
  <2>1. CASE UNCHANGED vars
    BY <2>1 DEF vars, fileVars, eventVars, policyVars, genVars, workerVars,
       Coverage, OnlyOvertakenLost, Announced, SurvivesRun, SurvivesBatch,
       Eligible, Ignored
  <2> QED
    BY <2>1, EventsAccounted, RequestsAccounted, CoverageKept, CoveragePolicy,
       CoverageRun, CoverageFast DEF Next
<1> QED
  BY <1>1, <1>2, MirrorTyped, PTL DEF Spec

\* A file whose present version the remote has not got is still to be reported, in
\* the queue, or owed a run, unless a request had asked past the generation that its
\* change got: through overlapping runs, fast batches, promotions that come late,
\* requests ahead of the source, policies, failures and crashes.
THEOREM ChangesKept == Spec => []OnlyOvertakenLost
<1>1. Coverage => OnlyOvertakenLost
  BY DEF Coverage
<1> QED
  BY <1>1, CoverageAlways, PTL

-----------------------------------------------------------------------------
(* The ledger knows what is on the remote, or will be told.                 *)

Logged(p) == remote[p] # Absent => row[p] # "none"

Knowledge ==
  /\ pc = "committing" => \A p \in Eligible : Logged(p) \/ SurvivesRun(p)
  /\ pc = "ledgering" =>
        \A p \in Eligible \ run.active : Logged(p) \/ SurvivesBatch(p)
  /\ pc = "clearing" => \A p \in Eligible : Logged(p) \/ SurvivesBatch(p)
  /\ pc \in InFast => \A p \in InBatch : Accounted(p)
  /\ KeptIsKnown

\* The steps of the environment.
LEMMA KnowledgeKept ==
  ASSUME TypeOK, Knowledge, Accounting
  PROVE  Knowledge'
<1> USE DEF Accounting
<1>1. \A p \in Paths : unseen'[p] # "no" =>
         SurvivesRun(p)' /\ SurvivesBatch(p)' /\ Accounted(p)'
  BY DEF SurvivesRun, SurvivesBatch, Announced, Accounted
<1>2. \A p \in Paths : local'[p] = local[p] => (p \in Eligible' <=> p \in Eligible)
  BY DEF Eligible, Ignored
<1>3. Eligible' \subseteq Paths
  BY DEF Eligible
<1>4. \A p : Logged(p)' <=> Logged(p)
  BY DEF Logged
<1>5. pc = "committing" => \A p \in Eligible' : Logged(p)' \/ SurvivesRun(p)'
  BY <1>1, <1>2, <1>3, <1>4 DEF Knowledge, Running
<1>6. pc = "ledgering" =>
        \A p \in Eligible' \ run.active : Logged(p)' \/ SurvivesBatch(p)'
  BY <1>1, <1>2, <1>3, <1>4 DEF Knowledge, Running
<1>7. pc = "clearing" => \A p \in Eligible' : Logged(p)' \/ SurvivesBatch(p)'
  BY <1>1, <1>2, <1>3, <1>4 DEF Knowledge, Running
<1>8. KeptIsKnown'
  <2>1. \A p \in Eligible : Logged(p) \/ Accounted(p)
    BY DEF Knowledge, KeptIsKnown, Logged, Accounted
  <2>2. \A p \in Eligible' : Logged(p)' \/ Accounted(p)'
    BY <1>1, <1>2, <1>3, <1>4, <2>1
  <2> QED
    BY <2>2 DEF KeptIsKnown, Logged, Accounted
<1>9. pc \in InFast => \A p \in InBatch' : Accounted(p)'
  BY DEF Knowledge, InBatch
<1> QED
  BY <1>5, <1>6, <1>7, <1>8, <1>9 DEF Knowledge

\* Debt announces every path.
LEMMA DebtAnnounces ==
  ASSUME desired' > last'
  PROVE  KeptIsKnown'
BY DEF KeptIsKnown, Announced

LEMMA KnowledgePolicy ==
  ASSUME TypeOK, NEW q \in Policies, CommitPolicy(q)
  PROVE  Knowledge'
<1>1. pc' = "idle" /\ last' = last /\ desired' = NextGeneration
  BY DEF CommitPolicy, workerVars
<1>2. NextGeneration > last
  BY Ordered DEF NextGeneration, Max2
<1> QED
  BY <1>1, <1>2, DebtAnnounces DEF Knowledge, InFast

LEMMA KnowledgeRun ==
  ASSUME TypeOK, Coverage, Knowledge,
         Attempt \/ FailRun \/ \E limit \in Limits : Claim(limit)
  PROVE  Knowledge'
<1> USE Ordered DEF genVars, policyVars, fileVars, eventVars, ledgerVars, InFast
<1>1. ASSUME NEW limit \in Limits, Claim(limit) PROVE Knowledge'
  BY <1>1, DebtAnnounces DEF Claim, Knowledge
<1>2. CASE \/ Scan \/ Preflight \/ Upload \/ \E p \in Paths : DeleteRemotePath(p)
           \/ MarkDirtyIfChanged \/ ApplyManagedRefresh \/ MarkPolicyRefreshReady
  <2>1. /\ pc \in Running /\ last' = last
        /\ pc' \notin {"committing", "fast", "ledgering", "clearing"}
    BY <1>2 DEF Scan, Preflight, Upload, DeleteRemotePath, MarkDirtyIfChanged,
                ApplyManagedRefresh, MarkPolicyRefreshReady, Running
  <2>2. desired' \in Int /\ desired' >= desired
    BY <1>2, MaxFacts DEF Scan, Preflight, Upload, DeleteRemotePath,
                MarkDirtyIfChanged, ApplyManagedRefresh, MarkPolicyRefreshReady
  <2>3. desired' > last'
    BY <2>1, <2>2 DEF Coverage
  <2> QED
    BY <2>1, <2>3, DebtAnnounces DEF Knowledge
<1>3. CASE ManifestApply
  <2>1. /\ pc = "applying" /\ pc' = "committing" /\ Eligible' = Eligible
        /\ UNCHANGED <<desired, last>>
    BY <1>3 DEF ManifestApply, Eligible, Ignored
  <2>2. \A p \in Eligible : row'[p] # "none"
    BY <1>3 DEF ManifestApply, Eligible
  <2>3. desired' > last'
    BY <2>1 DEF Coverage, Running
  <2> QED
    BY <2>1, <2>2, <2>3, DebtAnnounces DEF Knowledge, Logged
<1>4. CASE CommitRunSuccess
  <2>1. /\ pc = "committing" /\ pc' = "idle"
        /\ UNCHANGED <<local, remote, row, policy, desired, unseen, overtaken>>
        /\ events' = [q \in Paths |-> IF events[q] <= run.target THEN NoGen
                                      ELSE events[q]]
    BY <1>4 DEF CommitRunSuccess
  <2>2. last' = run.target
    BY <1>4, <2>1 DEF CommitRunSuccess, Coverage, Running, Max2
  <2>3. \A q \in Paths : SurvivesRun(q) => Accounted(q)'
    BY <2>1, <2>2 DEF SurvivesRun, Accounted, Announced, NoGen
  <2>4. KeptIsKnown'
    BY <2>1, <2>3 DEF Knowledge, KeptIsKnown, Logged, Accounted, Eligible, Ignored
  <2> QED
    BY <2>1, <2>4 DEF Knowledge
<1>5. CASE FailRun
  <2>1. pc \in Running /\ pc' = "idle" /\ UNCHANGED <<desired, last>>
    BY <1>5 DEF FailRun
  <2>2. desired' > last'
    BY <2>1 DEF Coverage
  <2> QED
    BY <2>1, <2>2, DebtAnnounces DEF Knowledge
<1> QED
  BY <1>1, <1>2, <1>3, <1>4, <1>5 DEF Attempt

LEMMA KnowledgeFast ==
  ASSUME TypeOK, Coverage, Knowledge, FastList \/ Fast \/ FastFail
  PROVE  Knowledge'
<1> USE Ordered DEF genVars, policyVars, fileVars, eventVars, ledgerVars
<1>0. \A p \in Eligible : Logged(p) \/ Accounted(p)
  BY DEF Knowledge, KeptIsKnown, Logged, Accounted
<1>1. CASE FastList
  <2>1. /\ pc' = "fast" /\ batch' = events /\ events' = events
        /\ KeptIsKnown' /\ InBatch' \subseteq Paths
    BY <1>1 DEF FastList, Knowledge, KeptIsKnown, Announced, Eligible, Ignored,
                InBatch
  <2>2. \A p \in InBatch' : Accounted(p)'
    BY <2>1 DEF InBatch, Accounted, Announced
  <2> QED
    BY <2>1, <2>2 DEF Knowledge
<1>2. CASE FastUpload
  <2>1. /\ pc = "fast" /\ pc' = "ledgering"
        /\ remote' = Uploaded(InBatch \cap Eligible)
        /\ run'.active = InBatch \cap Eligible
        /\ UNCHANGED <<local, row, policy, desired, last, events, unseen, overtaken,
                       batch>>
    BY <1>2 DEF FastUpload, TypeOK
  <2>2. Eligible' = Eligible /\ InBatch' = InBatch
    BY <2>1 DEF Eligible, Ignored, InBatch
  <2>3. \A p : Accounted(p)' <=> Accounted(p)
    BY <2>1 DEF Accounted, Announced
  <2>4. \A p \in InBatch : Accounted(p)
    BY <2>1 DEF Knowledge, InFast
  <2>5. ASSUME NEW p \in Eligible, p \notin InBatch
        PROVE  Logged(p)' \/ (Accounted(p) /\ SurvivesBatch(p)')
    <3>1. p \in Paths /\ batch[p] = 0 /\ remote'[p] = remote[p]
      BY <2>1, <2>5 DEF InBatch, Eligible, Uploaded, NoGen
    <3> QED
      BY <1>0, <2>1, <3>1 DEF Accounted, Announced, SurvivesBatch, Logged, NoGen
  <2>6. KeptIsKnown'
    BY <2>2, <2>3, <2>4, <2>5 DEF KeptIsKnown, Logged, Accounted
  <2> QED
    BY <2>1, <2>2, <2>3, <2>4, <2>5, <2>6 DEF Knowledge
<1>3. CASE FastLedger
  <2>1. /\ pc = "ledgering" /\ pc' = "clearing" /\ row' = Upserted(run.active)
        /\ UNCHANGED <<local, remote, policy, desired, last, events, unseen,
                       overtaken, batch>>
    BY <1>3 DEF FastLedger
  <2>2. /\ Eligible' = Eligible /\ InBatch' = InBatch
        /\ \A p : (Accounted(p)' <=> Accounted(p))
                  /\ (SurvivesBatch(p)' <=> SurvivesBatch(p))
    BY <2>1 DEF Eligible, Ignored, InBatch, Accounted, Announced, SurvivesBatch
  <2>3. /\ \A p \in Eligible \cap run.active : row'[p] # "none"
        /\ \A p \in Paths : row[p] # "none" => row'[p] # "none"
    BY <2>1 DEF Upserted, Eligible
  <2>4. \A p \in Eligible : Logged(p)' \/ SurvivesBatch(p)
    BY <2>1, <2>3 DEF Knowledge, Logged, Eligible
  <2>5. \A p \in Eligible : Logged(p)' \/ Accounted(p)
    BY <1>0, <2>1, <2>3 DEF Logged, Eligible
  <2>6. KeptIsKnown'
    BY <2>2, <2>5 DEF KeptIsKnown, Logged, Accounted
  <2>7. \A p \in InBatch : Accounted(p)
    BY <2>1 DEF Knowledge, InFast
  <2> QED
    BY <2>1, <2>2, <2>4, <2>6, <2>7 DEF Knowledge
<1>4. CASE FastClear
  <2>1. /\ pc = "clearing" /\ pc' = "idle"
        /\ UNCHANGED <<local, remote, row, policy, desired, last, unseen, overtaken>>
        /\ events' = [q \in Paths |-> IF events[q] <= batch[q] THEN NoGen
                                      ELSE events[q]]
    BY <1>4 DEF FastClear
  <2>2. \A q \in Paths : SurvivesBatch(q) => Accounted(q)'
    BY <2>1 DEF SurvivesBatch, Accounted, Announced, NoGen
  <2>3. KeptIsKnown'
    BY <2>1, <2>2 DEF Knowledge, KeptIsKnown, Logged, Accounted, Eligible, Ignored
  <2> QED
    BY <2>1, <2>3 DEF Knowledge, InFast
<1>5. CASE FastFail
  <2>1. /\ pc \in InFast /\ pc' = "idle"
        /\ UNCHANGED <<local, policy, desired, last, events, unseen, overtaken>>
    BY <1>5 DEF FastFail
  <2>2. /\ Eligible' = Eligible
        /\ \A p : Accounted(p)' <=> Accounted(p)
    BY <2>1 DEF Eligible, Ignored, Accounted, Announced
  <2>3. \A p \in Paths : p \notin InBatch => remote'[p] = remote[p]
    BY <1>5 DEF FastFail, Uploaded
  <2>4. \A p \in Paths : row[p] # "none" => row'[p] # "none"
    BY <1>5 DEF FastFail, Upserted
  <2>5. \A p \in InBatch : Accounted(p)
    BY <2>1 DEF Knowledge
  <2>6. \A p \in Eligible : Logged(p)' \/ Accounted(p)
    BY <1>0, <2>3, <2>4, <2>5 DEF Logged, Eligible
  <2>7. KeptIsKnown'
    BY <2>2, <2>6 DEF KeptIsKnown, Logged, Accounted
  <2> QED
    BY <2>1, <2>7 DEF Knowledge, InFast
<1> QED
  BY <1>1, <1>2, <1>3, <1>4, <1>5 DEF Fast

\* Of a file that stays, whatever copy the remote has got is in the ledger, or an
\* event or debt will put it there, or a request had asked past its change: also
\* after a transfer whose ledger write failed, in a run or in the fast lane.
THEOREM KeptKnown == Spec => []KeptIsKnown
<1>1. Init => Knowledge
  BY DEF Init, Knowledge, KeptIsKnown, InFast, Eligible
<1>2. TypeOK /\ Coverage /\ Knowledge /\ [Next]_vars => Knowledge'
  <2> SUFFICES ASSUME TypeOK, Coverage, Knowledge, [Next]_vars PROVE Knowledge'
    OBVIOUS
  <2>1. CASE UNCHANGED vars
    BY <2>1 DEF vars, fileVars, eventVars, policyVars, genVars, workerVars,
       ledgerVars, Knowledge, KeptIsKnown, Announced, Accounted, Logged, SurvivesRun,
       SurvivesBatch, Eligible, Ignored, InBatch
  <2> QED
    BY <2>1, EventsAccounted, RequestsAccounted, KnowledgeKept, KnowledgePolicy,
       KnowledgeRun, KnowledgeFast DEF Next
<1>3. Knowledge => KeptIsKnown
  BY DEF Knowledge
<1> QED
  BY <1>1, <1>2, <1>3, MirrorTyped, CoverageAlways, PTL DEF Spec
================================================================================
