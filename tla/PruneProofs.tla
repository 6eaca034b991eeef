----------------------------- MODULE PruneProofs -----------------------------
(***************************************************************************)
(* Proofs about Prune, for any paths, policies, limits and batch size: its *)
(* types, what a pass may remove, that one request is in flight, and what  *)
(* the ledger may forget.                                                  *)
(***************************************************************************)
EXTENDS Prune, FiniteSetTheorems, TLAPS

Frozen(r) == {p \in Paths : target[r][p] # "none"}

\* The ledger under the policy.
LedgerInv ==
  /\ Fresh => \A p \in Rows("active") : p \notin Hidden
  /\ \A p \in Rows("suppressed") : by[p] \in Policies /\ p \in Ignores[by[p]]

\* What is known of a request: its paths are hidden by its policy and no more
\* than it says; approved, they are within its limit.
RequestInv ==
  \A r \in Ids :
    /\ r \in Made => req[r].state \in States /\ req[r].policy \in Policies
    /\ r \notin Made => req[r].state = "none" /\ Frozen(r) = {}
    /\ Frozen(r) # {} => Frozen(r) \subseteq Ignores[req[r].policy]
    /\ Cardinality(Frozen(r)) <= req[r].count
    /\ req[r].state \in {"pending", "running", "retrying"}
         => req[r].count <= req[r].limit

\* What a pass knows while it holds the profile lock.
PassInv ==
  /\ \A r \in Of(InFlight), q \in Of(InFlight) : r = q
  /\ pc # "idle" =>
       /\ work.id \in Made /\ req[work.id].state = "running" /\ Matches(work.id)
       /\ work.found \subseteq Frozen(work.id)
       /\ work.batch \subseteq Frozen(work.id)
       /\ work.missing \subseteq Frozen(work.id)

PruneInv == TypeOK /\ LedgerInv /\ RequestInv /\ PassInv

\* What is noted as deleted under the present policy, no other having been committed
\* since, or was found missing, is gone.
AbsentInv ==
  /\ \A r \in Made \ replaced, p \in Paths :
       target[r][p] = "deleted" => req[r].policy = policy /\ p \notin remote
  /\ pc = "missing" => work.missing \cap remote = {}
  /\ pc = "marking" => work.batch \cap remote = {}

-----------------------------------------------------------------------------

LEMMA FrozenFinite ==
  ASSUME NEW S \in SUBSET Paths
  PROVE  IsFiniteSet(S) /\ Cardinality(S) \in Nat
BY PathsAssumption, FS_Subset, FS_CardinalityType

LEMMA MadeIds ==
  ASSUME TypeOK
  PROVE  Made \subseteq Ids
BY BoundsAssumption DEF TypeOK, Made, Ids

LEMMA Started == Init => PruneInv /\ AbsentInv
<1> SUFFICES ASSUME Init PROVE PruneInv /\ AbsentInv
  OBVIOUS
<1>1. TypeOK
  BY BoundsAssumption
  DEF Init, TypeOK, NoWork, Unmade, Untargeted, Ids, States
<1>2. LedgerInv
  BY <1>1 DEF Init, LedgerInv, Rows, Fresh
<1>3. \A r \in Ids : Frozen(r) = {}
  BY DEF Init, Frozen, Untargeted
<1>4. Cardinality({}) = 0
  BY FS_EmptySet
<1>5. Made = {} /\ Of(InFlight) = {}
  BY DEF Init, Made, Of
<1>6. RequestInv
  BY <1>3, <1>4, <1>5 DEF Init, RequestInv, Unmade
<1>7. PassInv /\ AbsentInv
  BY <1>5 DEF Init, PassInv, AbsentInv
<1> QED
  BY <1>1, <1>2, <1>6, <1>7 DEF PruneInv

-----------------------------------------------------------------------------
(* Steps of full runs and of the fast lane change the mirror alone.        *)

LEMMA RequestsKept ==
  ASSUME RequestInv, UNCHANGED <<made, req, target>>
  PROVE  RequestInv'
BY DEF RequestInv, Made, Frozen

LEMMA PassKept ==
  ASSUME PassInv, UNCHANGED <<made, req, target, policyVars, workerVars>>
  PROVE  PassInv'
BY DEF PassInv, Of, Made, Frozen, Matches, Fresh, policyVars, workerVars

LEMMA FullRunKeeps ==
  ASSUME PruneInv, NEW seen \in SUBSET Visible,
         NEW sent \in SUBSET Visible, NEW kept \in SUBSET Visible,
         NEW stop \in Stops, FullRun(seen, sent, kept, stop)
  PROVE  PruneInv' /\ (AbsentInv => AbsentInv')
<1> DEFINE proven    == (Rows("active") \ seen) \ Hidden
           hide      == ~Fresh /\ stop # "transfer"
           nowHidden == Rows("active") \ (seen \cup proven)
           back      == seen \cap Rows("suppressed")
           row1 == [p \in Paths |-> IF hide /\ p \in nowHidden THEN "suppressed"
                                    ELSE IF hide /\ p \in back THEN "active"
                                    ELSE row[p]]
<1>1. /\ pc = "idle" /\ UNCHANGED <<policy, requestVars, workerVars>>
      /\ remote' \subseteq remote \cup sent
      /\ by' = [p \in Paths |-> IF hide /\ p \in nowHidden THEN policy
                                ELSE IF hide /\ p \in back THEN NoPolicy
                                ELSE by[p]]
      /\ row' = [p \in Paths |->
                   IF stop # "end" \/ row1[p] = "suppressed" THEN row1[p]
                   ELSE IF p \in kept THEN "active" ELSE "none"]
      /\ refreshed' = IF stop \in {"ready", "end"} THEN policy ELSE refreshed
  BY DEF FullRun
<1>2. Visible \cap Hidden = {} /\ Visible \subseteq Paths
  BY DEF Visible
<1> HIDE DEF hide
<1>3. TypeOK'
  <2>1. row' \in [Paths -> {"none", "active", "suppressed"}]
    BY <1>1 DEF PruneInv, TypeOK
  <2>2. by' \in [Paths -> Policies \cup {NoPolicy}]
    BY <1>1 DEF PruneInv, TypeOK
  <2>3. remote' \in SUBSET Paths
    BY <1>1, <1>2 DEF PruneInv, TypeOK
  <2> QED
    BY <1>1, <2>1, <2>2, <2>3 DEF PruneInv, TypeOK, requestVars, workerVars
<1>4. LedgerInv'
  <2>1. Hidden' = Hidden
    BY <1>1 DEF Hidden
  <2>2. ASSUME NEW p \in Paths, row'[p] = "active", Fresh'
        PROVE  p \notin Hidden
    <3>1. CASE stop = "end"
      <4>1. p \in kept
        BY <1>1, <2>2, <3>1
      <4> QED
        BY <4>1, <1>2
    <3>2. CASE stop # "end"
      <4>0. row'[p] = row1[p]
        BY <1>1, <3>2
      <4>1. CASE hide
        <5>1. p \in back \/ (row[p] = "active" /\ p \notin nowHidden)
          BY <4>0, <4>1, <2>2 DEF Rows
        <5>2. CASE p \in back
          BY <5>2, <1>2
        <5>3. CASE row[p] = "active" /\ p \notin nowHidden
          BY <5>3, <1>2 DEF Rows
        <5> QED
          BY <5>1, <5>2, <5>3
      <4>2. CASE ~hide
        <5>1. row[p] = "active"
          BY <4>0, <4>2, <2>2
        <5>2. Fresh
          BY <1>1, <2>2, <3>2, <4>2 DEF hide, Fresh, Stops
        <5> QED
          BY <5>1, <5>2 DEF PruneInv, LedgerInv, Rows
      <4> QED
        BY <4>1, <4>2
    <3> QED
      BY <3>1, <3>2
  <2>3. ASSUME NEW p \in Paths, row'[p] = "suppressed"
        PROVE  by'[p] \in Policies /\ p \in Ignores[by'[p]]
    <3>0. row1[p] = "suppressed"
      BY <1>1, <2>3
    <3>1. CASE hide /\ p \in nowHidden
      <4>1. by'[p] = policy /\ p \in Hidden
        BY <1>1, <3>1 DEF Rows
      <4> QED
        BY <4>1 DEF Hidden, PruneInv, TypeOK
    <3>2. CASE ~(hide /\ p \in nowHidden)
      <4>1. row[p] = "suppressed" /\ ~(hide /\ p \in back)
        BY <3>0, <3>2
      <4>2. by'[p] = by[p]
        BY <1>1, <3>2, <4>1
      <4> QED
        BY <4>1, <4>2 DEF PruneInv, LedgerInv, Rows
    <3> QED
      BY <3>1, <3>2
  <2> QED
    BY <2>1, <2>2, <2>3 DEF LedgerInv, Rows
<1>5. RequestInv'
  BY <1>1, RequestsKept DEF PruneInv, requestVars
<1>6. PassInv'
  BY <1>1 DEF PruneInv, PassInv, requestVars, workerVars, Of, Made
<1>7. AbsentInv => AbsentInv'
  <2> SUFFICES ASSUME AbsentInv PROVE AbsentInv'
    OBVIOUS
  <2>1. ASSUME NEW r \in Made \ replaced, NEW p \in Paths,
               target[r][p] = "deleted"
        PROVE  req[r].policy = policy /\ p \notin remote'
    <3>0. req[r].policy = policy /\ p \notin remote
      BY <2>1 DEF AbsentInv
    <3>1. p \in Frozen(r) /\ r \in Ids
      BY <2>1, MadeIds DEF Frozen, PruneInv
    <3>2. p \in Hidden
      BY <3>0, <3>1 DEF PruneInv, RequestInv, Hidden
    <3> QED
      BY <1>1, <1>2, <3>0, <3>2
  <2> QED
    BY <1>1, <2>1 DEF AbsentInv, Made, requestVars, workerVars
<1> QED
  BY <1>3, <1>4, <1>5, <1>6, <1>7 DEF PruneInv

LEMMA FastBatchKeeps ==
  ASSUME PruneInv, NEW sent \in SUBSET Visible,
         NEW kept \in SUBSET sent, FastBatch(sent, kept)
  PROVE  PruneInv' /\ (AbsentInv => AbsentInv')
<1>1. Visible \cap Hidden = {} /\ Visible \subseteq Paths
  BY DEF Visible
<1>2. TypeOK'
  BY <1>1 DEF FastBatch, PruneInv, TypeOK, policyVars, requestVars, workerVars
<1>3. LedgerInv'
  BY <1>1 DEF FastBatch, PruneInv, LedgerInv, Rows, Fresh, Hidden, TypeOK, policyVars
<1>4. RequestInv' /\ PassInv'
  BY RequestsKept, PassKept DEF FastBatch, PruneInv, requestVars
<1>5. AbsentInv => AbsentInv'
  <2> SUFFICES ASSUME AbsentInv PROVE AbsentInv'
    OBVIOUS
  <2>1. ASSUME NEW r \in Made \ replaced, NEW p \in Paths,
               target[r][p] = "deleted"
        PROVE  req[r].policy = policy /\ p \notin remote'
    <3>0. req[r].policy = policy /\ p \notin remote
      BY <2>1 DEF AbsentInv
    <3>1. p \in Frozen(r) /\ r \in Ids
      BY <2>1, MadeIds DEF Frozen, PruneInv
    <3>2. p \in Hidden
      BY <3>0, <3>1 DEF PruneInv, RequestInv, Hidden
    <3> QED
      BY <1>1, <3>0, <3>2 DEF FastBatch
  <2> QED
    BY <2>1 DEF AbsentInv, Made, FastBatch, policyVars, requestVars, workerVars
<1> QED
  BY <1>2, <1>3, <1>4, <1>5 DEF PruneInv

-----------------------------------------------------------------------------
(* Commands.                                                               *)

LEMMA CommitKeeps ==
  ASSUME PruneInv, NEW q \in Policies, CommitPolicy(q)
  PROVE  PruneInv' /\ (AbsentInv => AbsentInv')
<1>1. /\ pc = "idle" /\ policy' = q /\ refreshed' = NoPolicy
      /\ UNCHANGED <<mirrorVars, made, target, workerVars>>
      /\ replaced' = replaced \cup {r \in Made : /\ req[r].policy # q
                                                /\ Targets(r, "deleted") # {}}
      /\ \A r \in Ids : /\ req'[r].policy = req[r].policy
                        /\ req'[r].count = req[r].count
                        /\ req'[r].limit = req[r].limit
                        /\ \/ req'[r].state = req[r].state
                           \/ req[r].state \in {"previewed", "pending"}
                              /\ req'[r].state = "stale"
  BY DEF CommitPolicy, PruneInv, TypeOK
<1>2. TypeOK'
  <2>1. req' \in [Ids -> [state : States \cup {"none"},
                          policy : Policies \cup {NoPolicy},
                          count : Nat, limit : Nat]]
    <3>1. /\ req' = [r \in Ids |-> IF /\ req[r].policy # q
                                    /\ req[r].state \in {"previewed", "pending"}
                                 THEN [req[r] EXCEPT !.state = "stale"] ELSE req[r]]
          /\ "stale" \in States
      BY DEF CommitPolicy, States
    <3>2. req \in [Ids -> [state : States \cup {"none"},
                           policy : Policies \cup {NoPolicy},
                           count : Nat, limit : Nat]]
      BY DEF PruneInv, TypeOK
    <3> QED
      BY <3>1, <3>2
  <2>2. commands' \in 0..MaxCommands
    BY BoundsAssumption DEF CommitPolicy, PruneInv, TypeOK
  <2>3. replaced' \subseteq Ids
    BY <1>1, MadeIds DEF PruneInv, TypeOK
  <2> QED
    BY <1>1, <2>1, <2>2, <2>3 DEF PruneInv, TypeOK, mirrorVars, workerVars
<1>3. LedgerInv'
  BY <1>1, PolicyAssumption
  DEF PruneInv, LedgerInv, Fresh, Rows, mirrorVars
<1>4. RequestInv'
  BY <1>1 DEF PruneInv, RequestInv, Made, Frozen, States
<1>5. PassInv'
  <2>1. Of(InFlight)' \subseteq Of(InFlight)
    BY <1>1, MadeIds DEF Of, InFlight, Made, PruneInv
  <2> QED
    BY <1>1, <2>1 DEF PruneInv, PassInv, workerVars
<1>6. AbsentInv => AbsentInv'
  <2>1. ASSUME NEW r \in Made, r \notin replaced', NEW p \in Paths,
               target[r][p] = "deleted"
        PROVE  r \notin replaced /\ req'[r].policy = q
    <3>1. p \in Targets(r, "deleted") /\ r \in Ids
      BY <2>1, MadeIds DEF Targets, PruneInv
    <3> QED
      BY <1>1, <2>1, <3>1
  <2> QED
    BY <1>1, <2>1 DEF AbsentInv, Made, mirrorVars, workerVars
<1> QED
  BY <1>2, <1>3, <1>4, <1>5, <1>6 DEF PruneInv

LEMMA FreezeKeeps ==
  ASSUME PruneInv, NEW S \in SUBSET Hidden, Freeze(S)
  PROVE  PruneInv' /\ (AbsentInv => AbsentInv')
<1>0. PICK new \in Ids : new = made + 1
  BY BoundsAssumption DEF Freeze, Ids, PruneInv, TypeOK
<1>1. Hidden \subseteq Paths /\ S \subseteq Paths
  BY PolicyAssumption DEF Hidden, PruneInv, TypeOK
<1>2. new \in Ids /\ new \notin Made /\ made \in Nat /\ made' = new
  BY <1>0, BoundsAssumption DEF Freeze, Made, PruneInv, TypeOK
<1>3. Made' = Made \cup {new} /\ Made' \subseteq Ids
  <2>1. Made' = 1..new /\ Made = 1..made
    BY <1>2 DEF Made
  <2>2. 1..new = 1..made \cup {new}
    BY <1>0, <1>2
  <2> QED
    BY <2>1, <2>2, <1>2, MadeIds DEF PruneInv
<1>4. /\ pc = "idle" /\ UNCHANGED <<mirrorVars, policyVars, replaced, commands, workerVars>>
      /\ target' = [target EXCEPT ![new] =
                      [p \in Paths |-> IF p \in S THEN "pending" ELSE "none"]]
      /\ req' = [r \in Ids |->
           IF r = new THEN [state |-> "previewed", policy |-> policy,
                            count |-> Cardinality(S), limit |-> 0]
           ELSE IF req[r].state = "previewed"
           THEN [req[r] EXCEPT !.state = "superseded"] ELSE req[r]]
  BY <1>0 DEF Freeze
<1>5. Cardinality(S) \in Nat
  BY <1>1, FrozenFinite
<1>6. TypeOK'
  <2>1. req' \in [Ids -> [state : States \cup {"none"},
                          policy : Policies \cup {NoPolicy},
                          count : Nat, limit : Nat]]
    <3> DEFINE Row == [state : States \cup {"none"},
                       policy : Policies \cup {NoPolicy},
                       count : Nat, limit : Nat]
    <3>0. policy \in Policies /\ "previewed" \in States
      BY DEF PruneInv, TypeOK, States
    <3>1. [state |-> "previewed", policy |-> policy,
           count |-> Cardinality(S), limit |-> 0] \in Row
      <4>1. Cardinality(S) \in Nat /\ "previewed" \in States \cup {"none"}
            /\ policy \in Policies \cup {NoPolicy} /\ 0 \in Nat
        BY <1>5, <3>0
      <4> QED
        BY <4>1, Zenon
    <3>2. ASSUME NEW r \in Ids
          PROVE  req[r] \in Row /\ [req[r] EXCEPT !.state = "superseded"] \in Row
      <4>1. req[r] \in Row
        BY DEF PruneInv, TypeOK
      <4> QED
        BY <4>1 DEF States
    <3> HIDE DEF Row
    <3>3. req' \in [Ids -> Row]
      BY <1>4, <3>1, <3>2
    <3> QED
      BY <3>3 DEF Row
  <2>2. target' \in [Ids -> [Paths -> {"none", "pending", "deleted", "missing"}]]
    BY <1>2, <1>4 DEF PruneInv, TypeOK
  <2>3. made' \in 0..MaxRequests
    BY <1>2, BoundsAssumption DEF Freeze
  <2> QED
    BY <1>4, <2>1, <2>2, <2>3 DEF PruneInv, TypeOK, mirrorVars, policyVars, workerVars
<1>7. LedgerInv'
  BY <1>4 DEF PruneInv, LedgerInv, Rows, Fresh, Hidden, mirrorVars, policyVars
<1>8. Frozen(new)' = S /\ \A r \in Ids \ {new} : Frozen(r)' = Frozen(r)
  <2>1. target'[new] = [p \in Paths |-> IF p \in S THEN "pending" ELSE "none"]
    BY <1>2, <1>4 DEF PruneInv, TypeOK
  <2>2. \A r \in Ids \ {new} : target'[r] = target[r]
    BY <1>4 DEF PruneInv, TypeOK
  <2>3. Frozen(new)' = S
    BY <1>1, <2>1 DEF Frozen
  <2> QED
    BY <2>2, <2>3 DEF Frozen
<1>9. /\ req'[new] = [state |-> "previewed", policy |-> policy,
                      count |-> Cardinality(S), limit |-> 0]
      /\ \A r \in Ids \ {new} :
           /\ req'[r].policy = req[r].policy /\ req'[r].count = req[r].count
           /\ req'[r].limit = req[r].limit
           /\ \/ req'[r].state = req[r].state
              \/ req[r].state = "previewed" /\ req'[r].state = "superseded"
  BY <1>2, <1>4 DEF PruneInv, TypeOK
<1>10. RequestInv'
  <2>1. policy \in Policies /\ Hidden = Ignores[policy]
    BY DEF PruneInv, TypeOK, Hidden
  <2>2. ASSUME NEW r \in Ids
        PROVE  /\ r \in Made' => req'[r].state \in States /\ req'[r].policy \in Policies
               /\ r \notin Made' => req'[r].state = "none" /\ Frozen(r)' = {}
               /\ Frozen(r)' # {} => Frozen(r)' \subseteq Ignores[req'[r].policy]
               /\ Cardinality(Frozen(r)') <= req'[r].count
               /\ req'[r].state \in {"pending", "running", "retrying"}
                    => req'[r].count <= req'[r].limit
    <3>1. CASE r = new
      <4>1. /\ req'[r].state = "previewed" /\ req'[r].policy = policy
            /\ req'[r].count = Cardinality(S) /\ Frozen(r)' = S
        BY <1>8, <1>9, <3>1
      <4>2. r \in Made' /\ Cardinality(S) <= Cardinality(S)
        BY <1>3, <1>5, <3>1
      <4> QED
        BY <4>1, <4>2, <2>1 DEF States
    <3>2. CASE r # new
      BY <1>3, <1>8, <1>9, <3>2 DEF PruneInv, RequestInv, States
    <3> QED
      BY <3>1, <3>2
  <2> QED
    BY <2>2 DEF RequestInv
<1>11. PassInv'
  <2>1. Of(InFlight)' \subseteq Of(InFlight)
    BY <1>3, <1>9 DEF Of, InFlight
  <2> QED
    BY <1>4, <2>1 DEF PruneInv, PassInv, workerVars
<1>12. AbsentInv => AbsentInv'
  <2> SUFFICES ASSUME AbsentInv PROVE AbsentInv'
    OBVIOUS
  <2>1. ASSUME NEW r \in Made' \ replaced, NEW p \in Paths,
               target'[r][p] = "deleted"
        PROVE  req'[r].policy = policy /\ p \notin remote
    <3>1. r # new
      BY <2>1, <1>2, <1>4 DEF PruneInv, TypeOK
    <3> QED
      BY <3>1, <2>1, <1>3, <1>4, <1>9 DEF AbsentInv, PruneInv, TypeOK
  <2> QED
    BY <1>4, <2>1 DEF AbsentInv, mirrorVars, policyVars, workerVars
<1> QED
  BY <1>6, <1>7, <1>10, <1>11, <1>12 DEF PruneInv

LEMMA PreviewKeeps ==
  ASSUME PruneInv,
         CreatePrunePreview \/ CreatePrunePreviewFromUnmanagedPaths
  PROVE  PruneInv' /\ (AbsentInv => AbsentInv')
<1>1. Suppressed \subseteq Hidden
  BY DEF Suppressed, Hidden, PruneInv, LedgerInv
<1>2. Orphans \subseteq Hidden
  BY DEF Orphans
<1> QED
  BY <1>1, <1>2, FreezeKeeps
  DEF CreatePrunePreview, CreatePrunePreviewFromUnmanagedPaths

\* Steps that change the state of one request and, perhaps, its limit.
LEMMA OneRequest ==
  ASSUME PruneInv, NEW r \in Made, NEW s \in States, NEW l \in Nat,
         req' = [req EXCEPT ![r].state = s, ![r].limit = l],
         s \in {"pending", "running", "retrying"} => req[r].count <= l,
         UNCHANGED made,
         \A q \in Ids : Frozen(q)' = Frozen(q) \/ Frozen(q)' = {}
  PROVE  /\ RequestInv'
         /\ req' \in [Ids -> [state : States \cup {"none"},
                              policy : Policies \cup {NoPolicy},
                              count : Nat, limit : Nat]]
<1>1. r \in Ids
  BY MadeIds DEF PruneInv
<1>2. req' \in [Ids -> [state : States \cup {"none"},
                        policy : Policies \cup {NoPolicy},
                        count : Nat, limit : Nat]]
  <2> DEFINE Row == [state : States \cup {"none"},
                     policy : Policies \cup {NoPolicy}, count : Nat, limit : Nat]
  <2>1. req \in [Ids -> Row]
    BY DEF PruneInv, TypeOK
  <2>2. [req[r] EXCEPT !.state = s, !.limit = l] \in Row
    BY <1>1, <2>1
  <2>3. req' = [req EXCEPT ![r] = [req[r] EXCEPT !.state = s, !.limit = l]]
    BY <1>1, <2>1
  <2> HIDE DEF Row
  <2>4. req' \in [Ids -> Row]
    BY <1>1, <2>1, <2>2, <2>3
  <2> QED
    BY <2>4 DEF Row
<1>3. /\ req'[r].state = s /\ req'[r].limit = l
      /\ \A q \in Ids : /\ req'[q].policy = req[q].policy
                        /\ req'[q].count = req[q].count
                        /\ q # r => req'[q] = req[q]
  BY <1>1 DEF PruneInv, TypeOK
<1>4. Cardinality({}) = 0
  BY FS_EmptySet
<1>5. ASSUME NEW q \in Ids
      PROVE  /\ q \in Made => req'[q].state \in States /\ req'[q].policy \in Policies
             /\ q \notin Made => req'[q].state = "none" /\ Frozen(q)' = {}
             /\ Frozen(q)' # {} => Frozen(q)' \subseteq Ignores[req'[q].policy]
             /\ Cardinality(Frozen(q)') <= req'[q].count
             /\ req'[q].state \in {"pending", "running", "retrying"}
                  => req'[q].count <= req'[q].limit
  <2>0. /\ req'[q].count \in Nat /\ req'[q].count = req[q].count
        /\ req'[q].policy = req[q].policy
    BY <1>2, <1>3
  <2>1. /\ q \in Made => req[q].state \in States /\ req[q].policy \in Policies
        /\ q \notin Made => req[q].state = "none" /\ Frozen(q) = {}
        /\ Frozen(q) # {} => Frozen(q) \subseteq Ignores[req[q].policy]
        /\ Cardinality(Frozen(q)) <= req[q].count
        /\ req[q].state \in {"pending", "running", "retrying"}
             => req[q].count <= req[q].limit
    BY DEF PruneInv, RequestInv
  <2>4. /\ Frozen(q)' # {} => Frozen(q)' \subseteq Ignores[req'[q].policy]
        /\ Cardinality(Frozen(q)') <= req'[q].count
        /\ q \notin Made => Frozen(q)' = {}
    <3>1. CASE Frozen(q)' = Frozen(q)
      BY <2>0, <2>1, <3>1
    <3>2. CASE Frozen(q)' = {}
      BY <2>0, <1>4, <3>2
    <3> QED
      BY <3>1, <3>2
  <2>2. CASE q = r
    BY <1>3, <2>0, <2>1, <2>2, <2>4
  <2>3. CASE q # r
    BY <1>3, <2>0, <2>1, <2>3, <2>4
  <2> QED
    BY <2>2, <2>3
<1> QED
  BY <1>2, <1>5 DEF RequestInv, Made

LEMMA AuthorizeKeeps ==
  ASSUME PruneInv, NEW r \in Ids, NEW allow \in Allowances,
         AuthorizePrune(r, allow)
  PROVE  PruneInv' /\ (AbsentInv => AbsentInv')
<1>1. Effective(allow) \in Nat /\ r \in Made
  BY LimitAssumption DEF Effective, AuthorizePrune
<1>2. /\ pc = "idle" /\ req[r].count <= Effective(allow)
      /\ req' = [req EXCEPT ![r].state = "pending", ![r].limit = Effective(allow)]
      /\ UNCHANGED <<mirrorVars, policyVars, made, target, replaced, workerVars>>
  BY DEF AuthorizePrune
<1>3. "pending" \in States
  BY DEF States
<1>4. \A q \in Ids : Frozen(q)' = Frozen(q)
  BY <1>2 DEF Frozen
<1>5. /\ RequestInv'
      /\ req' \in [Ids -> [state : States \cup {"none"},
                           policy : Policies \cup {NoPolicy},
                           count : Nat, limit : Nat]]
  BY <1>1, <1>2, <1>3, <1>4, OneRequest
<1>6. TypeOK'
  <2>1. commands' \in 0..MaxCommands
    BY BoundsAssumption DEF AuthorizePrune, PruneInv, TypeOK
  <2> QED
    BY <1>2, <1>5, <2>1 DEF PruneInv, TypeOK, mirrorVars, policyVars, workerVars
<1>7. LedgerInv'
  BY <1>2 DEF PruneInv, LedgerInv, Rows, Fresh, Hidden, mirrorVars, policyVars
<1>8. PassInv'
  <2>1. \A q \in Made : req'[q].state = req[q].state \/ req'[q].state = "pending"
    BY <1>2, MadeIds DEF PruneInv, TypeOK
  <2>2. Of(InFlight)' \subseteq Of(InFlight)
    BY <1>2, <2>1 DEF Of, InFlight, Made
  <2> QED
    BY <1>2, <2>2 DEF PruneInv, PassInv, workerVars
<1>9. AbsentInv => AbsentInv'
  <2>1. \A q \in Made : req'[q].policy = req[q].policy
    BY <1>2, MadeIds DEF PruneInv, TypeOK
  <2> QED
    BY <1>2, <2>1 DEF AbsentInv, Made, mirrorVars, policyVars, workerVars
<1> QED
  BY <1>5, <1>6, <1>7, <1>8, <1>9 DEF PruneInv

-----------------------------------------------------------------------------
(* The worker.                                                             *)

LEMMA ReclaimKeeps ==
  ASSUME PruneInv, ReclaimPrune
  PROVE  PruneInv' /\ (AbsentInv => AbsentInv')
<1>1. PICK r \in Ids :
        /\ r \in Of(InFlight) /\ req' = [req EXCEPT ![r].state = "running"]
        /\ IF Matches(r) THEN pc' = "listing" /\ work' = [NoWork EXCEPT !.id = r]
                         ELSE UNCHANGED workerVars
  BY DEF ReclaimPrune, IsOldest, SetState
<1>2. /\ pc = "idle"
      /\ UNCHANGED <<mirrorVars, policyVars, made, target, replaced, commands>>
  BY DEF ReclaimPrune
<1>3. r \in Made /\ req[r].state \in InFlight
  BY <1>1 DEF Of
<1>4. /\ req'[r].state = "running"
      /\ \A q \in Ids : /\ req'[q].policy = req[q].policy
                        /\ q # r => req'[q] = req[q]
  BY <1>1 DEF PruneInv, TypeOK
<1>5. /\ RequestInv'
      /\ req' \in [Ids -> [state : States \cup {"none"},
                           policy : Policies \cup {NoPolicy},
                           count : Nat, limit : Nat]]
  <2>1. req' = [req EXCEPT ![r].state = "running", ![r].limit = req[r].limit]
    BY <1>1 DEF PruneInv, TypeOK
  <2>2. req[r].limit \in Nat /\ req[r].count <= req[r].limit
    BY <1>3 DEF PruneInv, RequestInv, TypeOK, InFlight
  <2>3. \A q \in Ids : Frozen(q)' = Frozen(q)
    BY <1>2 DEF Frozen
  <2>4. "running" \in States /\ UNCHANGED made
    BY <1>2 DEF States
  <2>5. \A q \in Ids : Frozen(q)' = Frozen(q) \/ Frozen(q)' = {}
    BY <2>3, Zenon
  <2> QED
    BY <1>3, <2>1, <2>2, <2>4, <2>5, OneRequest
<1>6. TypeOK'
  <2>1. /\ pc' \in {"idle", "listing"}
        /\ work' \in [id : Ids \cup {0}, missing : SUBSET Paths,
                      found : SUBSET Paths, batch : SUBSET Paths]
    BY <1>1, <1>2 DEF PruneInv, TypeOK, NoWork, workerVars
  <2> QED
    BY <1>2, <1>5, <2>1 DEF PruneInv, TypeOK, mirrorVars, policyVars
<1>7. LedgerInv'
  BY <1>2 DEF PruneInv, LedgerInv, Rows, Fresh, Hidden, mirrorVars, policyVars
<1>8. PassInv'
  <2>1. Of(InFlight)' \subseteq Of(InFlight)
    BY <1>2, <1>3, <1>4, MadeIds DEF Of, InFlight, Made, PruneInv
  <2>2. CASE Matches(r)
    <3>1. Matches(r)' /\ work' = [NoWork EXCEPT !.id = r]
      BY <1>1, <1>2, <1>4, <2>2 DEF Matches, Fresh, policyVars
    <3>2. /\ work'.id = r /\ work'.found = {} /\ work'.batch = {}
          /\ work'.missing = {}
      BY <3>1 DEF NoWork
    <3> QED
      BY <1>2, <1>3, <1>4, <2>1, <3>1, <3>2 DEF PruneInv, PassInv, Made
  <2>3. CASE ~Matches(r)
    BY <1>1, <1>2, <2>1, <2>3 DEF PruneInv, PassInv, workerVars
  <2> QED
    BY <2>2, <2>3
<1>9. AbsentInv => AbsentInv'
  <2>1. pc' \in {"idle", "listing"}
    BY <1>1, <1>2 DEF workerVars
  <2> QED
    BY <1>2, <1>4, <2>1, MadeIds
    DEF AbsentInv, Made, mirrorVars, policyVars, PruneInv
<1> QED
  BY <1>5, <1>6, <1>7, <1>8, <1>9 DEF PruneInv

LEMMA ClaimKeeps ==
  ASSUME PruneInv, ClaimPrune
  PROVE  PruneInv' /\ (AbsentInv => AbsentInv')
<1>1. PICK r \in Ids :
        /\ r \in Of({"pending"})
        /\ IF Matches(r)
           THEN /\ req' = [req EXCEPT ![r].state = "running"]
                /\ target' = [target EXCEPT ![r] =
                     [p \in Paths |-> IF @[p] = "missing" THEN "pending" ELSE @[p]]]
                /\ pc' = "listing" /\ work' = [NoWork EXCEPT !.id = r]
           ELSE /\ req' = [req EXCEPT ![r].state = "stale"]
                /\ UNCHANGED <<target, workerVars>>
  BY DEF ClaimPrune, IsOldest, SetState
<1>2. /\ pc = "idle" /\ Of(InFlight) = {}
      /\ UNCHANGED <<mirrorVars, policyVars, made, replaced, commands>>
  BY DEF ClaimPrune
<1>3. r \in Made /\ req[r].state = "pending"
  BY <1>1 DEF Of
<1>4. /\ req'[r].state = IF Matches(r) THEN "running" ELSE "stale"
      /\ \A q \in Ids : /\ req'[q].policy = req[q].policy
                        /\ q # r => req'[q] = req[q]
  BY <1>1 DEF PruneInv, TypeOK
<1>5. /\ target' \in [Ids -> [Paths -> {"none", "pending", "deleted", "missing"}]]
      /\ \A q \in Ids, p \in Paths :
           /\ target'[q][p] = "deleted" <=> target[q][p] = "deleted"
           /\ target'[q][p] = "none" <=> target[q][p] = "none"
  <2>0. target \in [Ids -> [Paths -> {"none", "pending", "deleted", "missing"}]]
    BY DEF PruneInv, TypeOK
  <2>1. CASE Matches(r)
    <3>1. target' = [target EXCEPT ![r] =
            [p \in Paths |-> IF target[r][p] = "missing" THEN "pending"
                             ELSE target[r][p]]]
      BY <1>1, <2>1
    <3>2. target' \in [Ids -> [Paths -> {"none", "pending", "deleted", "missing"}]]
      BY <2>0, <3>1
    <3>3. \A q \in Ids, p \in Paths :
            target'[q][p] = IF q = r /\ target[q][p] = "missing" THEN "pending"
                            ELSE target[q][p]
      BY <2>0, <3>1
    <3> QED
      BY <3>2, <3>3
  <2>2. CASE ~Matches(r)
    BY <1>1, <2>0, <2>2
  <2> QED
    BY <2>1, <2>2
<1>6. \A q \in Ids : Frozen(q)' = Frozen(q)
  BY <1>5 DEF Frozen
<1>7. /\ RequestInv'
      /\ req' \in [Ids -> [state : States \cup {"none"},
                           policy : Policies \cup {NoPolicy},
                           count : Nat, limit : Nat]]
  <2> DEFINE s == IF Matches(r) THEN "running" ELSE "stale"
  <2>1. req' = [req EXCEPT ![r].state = s, ![r].limit = req[r].limit]
    BY <1>1 DEF PruneInv, TypeOK
  <2>2. req[r].limit \in Nat /\ req[r].count <= req[r].limit
    BY <1>3 DEF PruneInv, RequestInv, TypeOK
  <2>3. s \in States
    BY DEF States
  <2> HIDE DEF s
  <2> QED
    BY <1>2, <1>3, <1>6, <2>1, <2>2, <2>3, OneRequest
<1>8. TypeOK'
  <2>1. work' \in [id : Ids \cup {0}, missing : SUBSET Paths, found : SUBSET Paths,
                   batch : SUBSET Paths]
        /\ pc' \in {"idle", "listing", "missing", "deleting", "marking"}
    BY <1>1 DEF PruneInv, TypeOK, NoWork, workerVars
  <2> QED
    BY <1>2, <1>5, <1>7, <2>1 DEF PruneInv, TypeOK, mirrorVars, policyVars
<1>9. LedgerInv'
  BY <1>2 DEF PruneInv, LedgerInv, Rows, Fresh, Hidden, mirrorVars, policyVars
<1>10. PassInv'
  <2>1. Of(InFlight)' \subseteq {r}
    BY <1>2, <1>4, MadeIds DEF Of, Made, PruneInv
  <2>2. CASE Matches(r)
    <3>1. Matches(r)' /\ work' = [NoWork EXCEPT !.id = r]
      BY <1>1, <1>2, <1>4, <2>2 DEF Matches, Fresh, policyVars
    <3>2. /\ work'.id = r /\ work'.found = {} /\ work'.batch = {}
          /\ work'.missing = {}
      BY <3>1 DEF NoWork
    <3> QED
      BY <1>2, <1>3, <1>4, <2>1, <2>2, <3>1, <3>2 DEF PassInv, Made
  <2>3. CASE ~Matches(r)
    BY <1>1, <1>2, <2>1, <2>3 DEF PassInv, workerVars
  <2> QED
    BY <2>2, <2>3
<1>11. AbsentInv => AbsentInv'
  <2>1. pc' \in {"idle", "listing"}
    BY <1>1, <1>2 DEF workerVars
  <2> QED
    BY <1>2, <1>4, <1>5, <2>1, MadeIds
    DEF AbsentInv, Made, mirrorVars, policyVars, PruneInv
<1> QED
  BY <1>7, <1>8, <1>9, <1>10, <1>11 DEF PruneInv

\* What a marking does to the targets.
LEMMA MarkFacts ==
  ASSUME TypeOK, NEW r \in Ids, NEW S \in SUBSET Frozen(r),
         NEW s \in {"deleted", "missing"}, Mark(r, S, s)
  PROVE  /\ target' \in [Ids -> [Paths -> {"none", "pending", "deleted", "missing"}]]
         /\ \A q \in Ids : Frozen(q)' = Frozen(q)
         /\ \A q \in Ids, p \in Paths :
              target'[q][p] # target[q][p] => q = r /\ p \in S /\ target'[q][p] = s
<1>1. target' \in [Ids -> [Paths -> {"none", "pending", "deleted", "missing"}]]
  BY DEF Mark, TypeOK
<1>2. \A q \in Ids, p \in Paths :
        target'[q][p] # target[q][p] => q = r /\ p \in S /\ target'[q][p] = s
  BY DEF Mark, TypeOK
<1>3. \A q \in Ids : Frozen(q)' = Frozen(q)
  <2>1. \A q \in Ids, p \in Paths : target'[q][p] = "none" <=> target[q][p] = "none"
    BY <1>2 DEF Frozen
  <2> QED
    BY <2>1 DEF Frozen
<1> QED
  BY <1>1, <1>2, <1>3

LEMMA UnsuppressedFacts ==
  ASSUME TypeOK, LedgerInv, NEW S, row' = Unsuppressed(S),
         UNCHANGED <<by, policyVars>>
  PROVE  /\ row' \in [Paths -> {"none", "active", "suppressed"}]
         /\ LedgerInv'
<1>1. row' \in [Paths -> {"none", "active", "suppressed"}]
  BY DEF Unsuppressed, TypeOK
<1>2. Rows("active")' = Rows("active") /\ Rows("suppressed")' \subseteq Rows("suppressed")
  BY DEF Unsuppressed, Rows, TypeOK
<1> QED
  BY <1>1, <1>2 DEF LedgerInv, Fresh, Hidden, policyVars

\* A step of the pass that leaves the requests' rows alone keeps the request running.
LEMMA StillRunning ==
  ASSUME PruneInv, pc # "idle", UNCHANGED <<policyVars, made, req>>,
         \A q \in Ids : Frozen(q)' = Frozen(q),
         work'.id = work.id, work'.found \subseteq Frozen(work.id),
         work'.batch \subseteq Frozen(work.id),
         work'.missing \subseteq Frozen(work.id)
  PROVE  RequestInv' /\ PassInv'
<1>1. work.id \in Ids /\ work.id \in Made /\ req[work.id].state = "running"
      /\ Matches(work.id)
  BY MadeIds DEF PruneInv, PassInv
<1>2. RequestInv'
  BY DEF PruneInv, RequestInv, Made
<1>3. Of(InFlight)' = Of(InFlight) /\ Made' = Made
  BY DEF Of, Made
<1>4. Matches(work.id)'
  BY <1>1 DEF Matches, Fresh, policyVars
<1>5. Frozen(work.id)' = Frozen(work.id)
  <2>1. PICK r \in Ids : r = work.id
    BY <1>1
  <2>2. Frozen(r)' = Frozen(r)
    OBVIOUS
  <2>3. Frozen(work.id)' = Frozen(r)'
    BY <2>1 DEF Frozen
  <2> QED
    BY <2>1, <2>2, <2>3
<1> QED
  BY <1>1, <1>2, <1>3, <1>4, <1>5 DEF PruneInv, PassInv

LEMMA ListKeeps ==
  ASSUME PruneInv, ListTargets
  PROVE  PruneInv' /\ (AbsentInv => AbsentInv')
<1>1. /\ pc = "listing" /\ pc' = "missing"
      /\ UNCHANGED <<mirrorVars, policyVars, requestVars>>
      /\ work' = [work EXCEPT !.missing = Targets(work.id, "pending") \ remote,
                              !.found = Targets(work.id, "pending") \cap remote]
  BY DEF ListTargets
<1>2. Targets(work.id, "pending") \subseteq Frozen(work.id)
  BY DEF Targets, Frozen
<1>3. /\ work'.id = work.id /\ work'.batch = work.batch
      /\ work'.found \subseteq Frozen(work.id)
      /\ work'.missing \subseteq Frozen(work.id) /\ work'.missing \cap remote = {}
  BY <1>1, <1>2 DEF PruneInv, TypeOK
<1>4. \A q \in Ids : Frozen(q)' = Frozen(q)
  BY <1>1 DEF Frozen, requestVars
<1>5. RequestInv' /\ PassInv'
  BY <1>1, <1>3, <1>4, StillRunning DEF PruneInv, PassInv, requestVars
<1>6. TypeOK'
  BY <1>1 DEF PruneInv, TypeOK, Targets, mirrorVars, policyVars, requestVars
<1>7. LedgerInv'
  BY <1>1 DEF PruneInv, LedgerInv, Rows, Fresh, Hidden, mirrorVars, policyVars
<1>8. AbsentInv => AbsentInv'
  BY <1>1, <1>3 DEF AbsentInv, Made, mirrorVars, policyVars, requestVars
<1> QED
  BY <1>5, <1>6, <1>7, <1>8 DEF PruneInv

LEMMA MissingKeeps ==
  ASSUME PruneInv, MarkMissing
  PROVE  PruneInv' /\ (AbsentInv => AbsentInv')
<1>1. /\ pc = "missing" /\ pc' = "deleting"
      /\ Mark(work.id, work.missing, "missing") /\ row' = Unsuppressed(work.missing)
      /\ work' = [work EXCEPT !.missing = {}]
      /\ UNCHANGED <<remote, by, policyVars, made, req, replaced, commands>>
  BY DEF MarkMissing
<1>2. /\ work'.id = work.id /\ work'.batch = work.batch
      /\ work'.found = work.found /\ work'.missing = {}
  BY <1>1 DEF PruneInv, TypeOK
<1>3. work.id \in Ids /\ work.missing \subseteq Frozen(work.id)
  BY <1>1, MadeIds DEF PruneInv, PassInv
<1>4. /\ target' \in [Ids -> [Paths -> {"none", "pending", "deleted", "missing"}]]
      /\ \A q \in Ids : Frozen(q)' = Frozen(q)
      /\ \A q \in Ids, p \in Paths :
           target'[q][p] # target[q][p] => target'[q][p] = "missing"
  BY <1>1, <1>3, MarkFacts DEF PruneInv
<1>5. RequestInv' /\ PassInv'
  BY <1>1, <1>2, <1>4, StillRunning DEF PruneInv, PassInv
<1>6. row' \in [Paths -> {"none", "active", "suppressed"}] /\ LedgerInv'
  BY <1>1, UnsuppressedFacts DEF PruneInv
<1>7. TypeOK'
  BY <1>1, <1>4, <1>6 DEF PruneInv, TypeOK, policyVars
<1>8. AbsentInv => AbsentInv'
  BY <1>1, <1>4, MadeIds DEF AbsentInv, Made, policyVars, PruneInv
<1> QED
  BY <1>5, <1>6, <1>7, <1>8 DEF PruneInv

LEMMA DeleteKeeps ==
  ASSUME PruneInv, DeleteBatch
  PROVE  PruneInv' /\ (AbsentInv => AbsentInv')
<1>1. PICK B \in Batches : /\ remote' = remote \ B
                           /\ work' = [work EXCEPT !.batch = B]
  BY DEF DeleteBatch
<1>2. /\ pc = "deleting" /\ pc' = "marking"
      /\ UNCHANGED <<row, by, policyVars, requestVars>>
  BY DEF DeleteBatch
<1>3. /\ work'.id = work.id /\ work'.batch = B /\ B \subseteq work.found
      /\ work'.found = work.found /\ work'.missing = work.missing
  BY <1>1 DEF PruneInv, TypeOK, Batches
<1>4. \A q \in Ids : Frozen(q)' = Frozen(q)
  BY <1>2 DEF Frozen, requestVars
<1>5. RequestInv' /\ PassInv'
  BY <1>2, <1>3, <1>4, StillRunning DEF PruneInv, PassInv, requestVars
<1>6. TypeOK'
  BY <1>1, <1>2, <1>3 DEF PruneInv, TypeOK, policyVars, requestVars
<1>7. LedgerInv'
  BY <1>2 DEF PruneInv, LedgerInv, Rows, Fresh, Hidden, policyVars
<1>8. AbsentInv => AbsentInv'
  BY <1>1, <1>2, <1>3 DEF AbsentInv, Made, policyVars, requestVars
<1> QED
  BY <1>5, <1>6, <1>7, <1>8 DEF PruneInv

LEMMA DeletedKeeps ==
  ASSUME PruneInv, MarkDeleted
  PROVE  PruneInv' /\ (AbsentInv => AbsentInv')
<1>1. /\ pc = "marking" /\ pc' = "deleting"
      /\ Mark(work.id, work.batch, "deleted")
      /\ work' = [work EXCEPT !.found = @ \ work.batch, !.batch = {}]
      /\ UNCHANGED <<mirrorVars, policyVars, made, req, replaced, commands>>
  BY DEF MarkDeleted
<1>2. /\ work'.id = work.id /\ work'.batch = {}
      /\ work'.found = work.found \ work.batch /\ work'.missing = work.missing
  BY <1>1 DEF PruneInv, TypeOK
<1>3. work.id \in Ids /\ work.batch \subseteq Frozen(work.id)
  BY <1>1, MadeIds DEF PruneInv, PassInv
<1>4. /\ target' \in [Ids -> [Paths -> {"none", "pending", "deleted", "missing"}]]
      /\ \A q \in Ids : Frozen(q)' = Frozen(q)
      /\ \A q \in Ids, p \in Paths :
           target'[q][p] # target[q][p] => p \in work.batch
  BY <1>1, <1>3, MarkFacts DEF PruneInv
<1>5. RequestInv' /\ PassInv'
  BY <1>1, <1>2, <1>4, StillRunning DEF PruneInv, PassInv
<1>6. TypeOK'
  BY <1>1, <1>4 DEF PruneInv, TypeOK, mirrorVars, policyVars
<1>7. LedgerInv'
  BY <1>1 DEF PruneInv, LedgerInv, Rows, Fresh, Hidden, mirrorVars, policyVars
<1>8. AbsentInv => AbsentInv'
  <2>1. \A q \in Ids \ {work.id} : target'[q] = target[q]
    BY <1>1 DEF Mark, PruneInv, TypeOK
  <2>2. req[work.id].policy = policy
    BY <1>1 DEF PruneInv, PassInv, Matches
  <2> QED
    BY <1>1, <1>4, <2>1, <2>2, MadeIds
       DEF AbsentInv, Made, mirrorVars, policyVars, PruneInv
<1> QED
  BY <1>5, <1>6, <1>7, <1>8 DEF PruneInv

LEMMA CompleteKeeps ==
  ASSUME PruneInv, CommitPruneComplete
  PROVE  PruneInv' /\ (AbsentInv => AbsentInv')
<1>1. /\ pc = "deleting" /\ row' = Unsuppressed(Targets(work.id, "deleted"))
      /\ req' = [req EXCEPT ![work.id].state = "completed"]
      /\ target' = [target EXCEPT ![work.id] = Untargeted]
      /\ pc' = "idle" /\ work' = NoWork
      /\ UNCHANGED <<remote, by, policyVars, made, replaced, commands>>
  BY DEF CommitPruneComplete, Complete, SetState
<1>2. work.id \in Ids /\ work.id \in Made /\ req[work.id].limit \in Nat
  BY <1>1, MadeIds DEF PruneInv, PassInv, TypeOK
<1>3. /\ target' \in [Ids -> [Paths -> {"none", "pending", "deleted", "missing"}]]
      /\ \A q \in Ids, p \in Paths : target'[q][p] \in {"none", target[q][p]}
      /\ \A q \in Ids : Frozen(q)' = Frozen(q) \/ Frozen(q)' = {}
  <2>1. \A q \in Ids : target'[q] = IF q = work.id THEN Untargeted ELSE target[q]
    BY <1>1 DEF PruneInv, TypeOK
  <2>2. \A q \in Ids : Frozen(q)' = Frozen(q) \/ Frozen(q)' = {}
    BY <2>1 DEF Frozen, Untargeted
  <2> QED
    BY <1>1, <2>1, <2>2 DEF PruneInv, TypeOK, Untargeted
<1>4. /\ RequestInv'
      /\ req' \in [Ids -> [state : States \cup {"none"},
                           policy : Policies \cup {NoPolicy},
                           count : Nat, limit : Nat]]
  <2>1. PICK r \in Made : r = work.id
    BY <1>2
  <2>2. req' = [req EXCEPT ![r].state = "completed", ![r].limit = req[r].limit]
    BY <1>1, <2>1, <1>2 DEF PruneInv, TypeOK
  <2>3. req[r].limit \in Nat
    BY <1>2, <2>1
  <2> QED
    BY <1>1, <1>3, <2>2, <2>3, OneRequest DEF States
<1>5. row' \in [Paths -> {"none", "active", "suppressed"}] /\ LedgerInv'
  BY <1>1, UnsuppressedFacts DEF PruneInv
<1>6. TypeOK'
  BY <1>1, <1>3, <1>4, <1>5 DEF PruneInv, TypeOK, policyVars, NoWork
<1>7. \A q \in Ids : /\ req'[q].policy = req[q].policy
                     /\ req'[q].state \in {req[q].state, "completed"}
  BY <1>1 DEF PruneInv, TypeOK
<1>8. PassInv'
  <2>1. Of(InFlight)' \subseteq Of(InFlight)
    BY <1>1, <1>7, MadeIds DEF Of, InFlight, Made, PruneInv
  <2> QED
    BY <1>1, <2>1 DEF PruneInv, PassInv
<1>9. AbsentInv => AbsentInv'
  BY <1>1, <1>3, <1>7, MadeIds DEF AbsentInv, Made, policyVars, PruneInv
<1> QED
  BY <1>4, <1>5, <1>6, <1>8, <1>9 DEF PruneInv

LEMMA InterruptKeeps ==
  ASSUME PruneInv, Interrupt
  PROVE  PruneInv' /\ (AbsentInv => AbsentInv')
<1>1. /\ pc # "idle" /\ pc' = "idle" /\ work' = NoWork
      /\ remote' \subseteq remote
      /\ UNCHANGED <<row, by, policyVars, made, target, replaced, commands>>
      /\ \/ UNCHANGED req
         \/ req' = [req EXCEPT ![work.id].state = "retrying"]
  BY DEF Interrupt, SetState
<1>2. PICK r \in Made : r = work.id
  BY <1>1 DEF PruneInv, PassInv
<1>3. r \in Ids /\ req[r].state = "running"
  BY <1>1, <1>2, MadeIds DEF PruneInv, PassInv
<1>4. \A q \in Ids : Frozen(q)' = Frozen(q)
  BY <1>1 DEF Frozen
<1>5. PICK s \in {"running", "retrying"} :
        req' = [req EXCEPT ![r].state = s, ![r].limit = req[r].limit]
  <2>1. CASE UNCHANGED req
    <3>1. req' = [req EXCEPT ![r].state = "running", ![r].limit = req[r].limit]
      BY <1>3, <2>1 DEF PruneInv, TypeOK
    <3> QED
      BY <3>1
  <2>2. CASE req' = [req EXCEPT ![work.id].state = "retrying"]
    <3>1. req' = [req EXCEPT ![r].state = "retrying", ![r].limit = req[r].limit]
      BY <1>2, <1>3, <2>2 DEF PruneInv, TypeOK
    <3> QED
      BY <3>1
  <2> QED
    BY <1>1, <2>1, <2>2
<1>6. /\ RequestInv'
      /\ req' \in [Ids -> [state : States \cup {"none"},
                           policy : Policies \cup {NoPolicy},
                           count : Nat, limit : Nat]]
  <2>1. req[r].limit \in Nat /\ req[r].count <= req[r].limit /\ s \in States
    BY <1>3 DEF PruneInv, RequestInv, TypeOK, States
  <2> QED
    BY <1>1, <1>4, <1>5, <2>1, OneRequest
<1>7. \A q \in Ids : /\ req'[q].policy = req[q].policy
                     /\ q # r => req'[q].state = req[q].state
  BY <1>5 DEF PruneInv, TypeOK
<1>8. TypeOK'
  BY <1>1, <1>6 DEF PruneInv, TypeOK, policyVars, NoWork
<1>9. LedgerInv'
  BY <1>1 DEF PruneInv, LedgerInv, Rows, Fresh, Hidden, policyVars
<1>10. PassInv'
  <2>1. Of(InFlight)' \subseteq Of(InFlight)
    BY <1>1, <1>3, <1>7, MadeIds DEF Of, InFlight, Made, PruneInv
  <2> QED
    BY <1>1, <2>1 DEF PruneInv, PassInv
<1>11. AbsentInv => AbsentInv'
  BY <1>1, <1>7, MadeIds DEF AbsentInv, Made, policyVars, PruneInv
<1> QED
  BY <1>6, <1>8, <1>9, <1>10, <1>11 DEF PruneInv

-----------------------------------------------------------------------------
(* Theorems.                                                               *)

LEMMA StutterKeeps ==
  ASSUME PruneInv, UNCHANGED vars
  PROVE  PruneInv' /\ (AbsentInv => AbsentInv')
<1>1. TypeOK' /\ LedgerInv'
  BY DEF PruneInv, TypeOK, LedgerInv, Rows, Fresh, Hidden, vars, mirrorVars,
         policyVars, requestVars, workerVars
<1>2. RequestInv' /\ PassInv'
  BY RequestsKept, PassKept DEF PruneInv, vars, requestVars
<1>3. AbsentInv => AbsentInv'
  BY DEF AbsentInv, Made, vars, mirrorVars, policyVars, requestVars, workerVars
<1> QED
  BY <1>1, <1>2, <1>3 DEF PruneInv

\* Every step; what is noted as gone stays gone until another policy is committed.
LEMMA StepKeeps ==
  ASSUME PruneInv, [Next]_vars
  PROVE  PruneInv' /\ (AbsentInv => AbsentInv')
<1>1. ASSUME NEW seen \in SUBSET Visible, NEW sent \in SUBSET Visible,
             NEW stop \in Stops,
             NEW kept \in IF stop = "end" THEN SUBSET Visible ELSE {{}},
             FullRun(seen, sent, kept, stop)
      PROVE  PruneInv' /\ (AbsentInv => AbsentInv')
  <2>1. kept \in SUBSET Visible
    BY <1>1
  <2> QED
    BY <1>1, <2>1, FullRunKeeps
<1>2. ASSUME NEW sent \in SUBSET Visible, NEW kept \in SUBSET sent,
             FastBatch(sent, kept)
      PROVE  PruneInv' /\ (AbsentInv => AbsentInv')
  BY <1>2, FastBatchKeeps
<1>3. CASE \E q \in Policies : CommitPolicy(q)
  BY <1>3, CommitKeeps
<1>4. CASE CreatePrunePreview \/ CreatePrunePreviewFromUnmanagedPaths
  BY <1>4, PreviewKeeps
<1>5. CASE \E r \in Ids, allow \in Allowances : AuthorizePrune(r, allow)
  BY <1>5, AuthorizeKeeps
<1>6. CASE ReclaimPrune \/ ClaimPrune \/ Pass \/ Interrupt
  BY <1>6, ReclaimKeeps, ClaimKeeps, ListKeeps, MissingKeeps, DeleteKeeps,
     DeletedKeeps, CompleteKeeps, InterruptKeeps DEF Pass
<1>7. CASE UNCHANGED vars
  BY <1>7, StutterKeeps
<1> QED
  BY <1>1, <1>2, <1>3, <1>4, <1>5, <1>6, <1>7 DEF Next

\* A step that removes files from the remote removes what the request, the policy
\* and the limit allow.
LEMMA StepAuthorised ==
  ASSUME PruneInv, Next, NEW p \in remote \ remote'
  PROVE  IF pc = "idle" THEN row[p] = "active" /\ ~(p \in Hidden)
         ELSE /\ target[work.id][p] # "none" /\ row[p] # "active"
              /\ p \in Hidden /\ Matches(work.id)
              /\ Cardinality({t \in Paths : target[work.id][t] # "none"})
                   <= req[work.id].limit
<1>1. ASSUME NEW seen \in SUBSET Visible, NEW sent \in SUBSET Visible,
             NEW stop \in Stops,
             NEW kept \in IF stop = "end" THEN SUBSET Visible ELSE {{}},
             FullRun(seen, sent, kept, stop)
      PROVE  pc = "idle" /\ row[p] = "active" /\ ~(p \in Hidden)
  BY <1>1 DEF FullRun, Rows
<1>2. ASSUME pc # "idle", p \in work.found
      PROVE  /\ target[work.id][p] # "none" /\ row[p] # "active"
             /\ p \in Hidden /\ Matches(work.id)
             /\ Cardinality({t \in Paths : target[work.id][t] # "none"})
                  <= req[work.id].limit
  <2>1. /\ work.id \in Ids /\ req[work.id].state = "running"
        /\ Matches(work.id) /\ p \in Frozen(work.id)
    BY <1>2, MadeIds DEF PruneInv, PassInv
  <2>2. p \in Hidden /\ p \in Paths
    BY <2>1 DEF PruneInv, RequestInv, Matches, Hidden, Frozen
  <2>3. row[p] # "active"
    BY <2>1, <2>2 DEF PruneInv, LedgerInv, Matches, Rows
  <2>4. Cardinality(Frozen(work.id)) \in Nat
    BY FrozenFinite DEF Frozen
  <2>5. Cardinality(Frozen(work.id)) <= req[work.id].limit
    BY <2>1, <2>4 DEF PruneInv, RequestInv, TypeOK
  <2> QED
    BY <2>1, <2>2, <2>3, <2>5 DEF Frozen
<1>3. CASE DeleteBatch
  <2>1. pc # "idle" /\ p \in work.found
    BY <1>3 DEF DeleteBatch, Batches
  <2> QED
    BY <1>2, <2>1
<1>4. CASE Interrupt
  <2>1. pc # "idle" /\ p \in work.found
    BY <1>4 DEF Interrupt, Batches
  <2> QED
    BY <1>2, <2>1
<1>5. ASSUME NEW sent \in SUBSET Visible, NEW kept \in SUBSET sent,
             FastBatch(sent, kept)
      PROVE  FALSE
  BY <1>5 DEF FastBatch
<1>6. CASE \/ \E q \in Policies : CommitPolicy(q)
           \/ CreatePrunePreview \/ CreatePrunePreviewFromUnmanagedPaths
           \/ \E r \in Ids, allow \in Allowances : AuthorizePrune(r, allow)
  BY <1>6 DEF CommitPolicy, CreatePrunePreview,
     CreatePrunePreviewFromUnmanagedPaths, Freeze, AuthorizePrune, mirrorVars
<1>7. CASE \/ ReclaimPrune \/ ClaimPrune \/ ListTargets \/ MarkMissing
           \/ MarkDeleted \/ CommitPruneComplete
  BY <1>7 DEF ReclaimPrune, ClaimPrune, ListTargets, MarkMissing, MarkDeleted,
     CommitPruneComplete, Complete, mirrorVars
<1> QED
  BY <1>1, <1>3, <1>4, <1>5, <1>6, <1>7 DEF Next, Pass

\* A pass changes a row only of a path that is not on the remote, or that was
\* deleted before the policy was replaced.
LEMMA StepForgets ==
  ASSUME PruneInv, AbsentInv, Next, NEW p \in Paths, pc # "idle", row'[p] # row[p]
  PROVE  \/ p \notin remote
         \/ work.id \in replaced /\ target[work.id][p] = "deleted"
<1>1. ASSUME NEW S, row' = Unsuppressed(S)
      PROVE  p \in S
  BY <1>1 DEF Unsuppressed, PruneInv, TypeOK
<1>2. CASE MarkMissing
  <2>1. p \in work.missing
    BY <1>1, <1>2 DEF MarkMissing
  <2>2. work.missing \cap remote = {}
    BY <1>2 DEF MarkMissing, AbsentInv
  <2> QED
    BY <2>1, <2>2
<1>3. CASE CommitPruneComplete
  <2>1. p \in Targets(work.id, "deleted")
    BY <1>1, <1>3 DEF CommitPruneComplete, Complete
  <2>2. work.id \in Made
    BY DEF PruneInv, PassInv
  <2> QED
    BY <2>1, <2>2 DEF Targets, AbsentInv
<1>4. CASE ListTargets \/ DeleteBatch \/ MarkDeleted \/ Interrupt
  BY <1>4 DEF ListTargets, DeleteBatch, MarkDeleted, Interrupt, mirrorVars
<1> QED
  BY <1>2, <1>3, <1>4 DEF Next, Pass, FullRun, FastBatch, CommitPolicy,
     CreatePrunePreview, CreatePrunePreviewFromUnmanagedPaths, Freeze,
     AuthorizePrune, ReclaimPrune, ClaimPrune

LEMMA PruneAlways == Spec => []PruneInv
<1>1. Init => PruneInv
  BY Started
<1>2. PruneInv /\ [Next]_vars => PruneInv'
  BY StepKeeps
<1> QED
  BY <1>1, <1>2, PTL DEF Spec

\* The types: in particular, `approval_required' and `failed' are never stored.
THEOREM PruneTyped == Spec => []TypeOK
BY PruneAlways, PTL DEF PruneInv

\* A pass executes the one request that is in flight.
THEOREM OneAtATime == Spec => []OneInFlight
<1>1. PruneInv => OneInFlight
  <2> SUFFICES ASSUME PruneInv PROVE OneInFlight
    OBVIOUS
  <2>1. ASSUME NEW r \in Of(InFlight) PROVE Of(InFlight) = {r}
    BY DEF PruneInv, PassInv
  <2>2. Cardinality(Of(InFlight)) <= 1
    <3>1. CASE Of(InFlight) = {}
      BY <3>1, FS_EmptySet
    <3>2. CASE Of(InFlight) # {}
      <4>1. PICK r \in Of(InFlight) : TRUE
        BY <3>2
      <4> QED
        BY <4>1, <2>1, FS_Singleton
    <3> QED
      BY <3>1, <3>2
  <2>3. pc # "idle" => work.id \in Of(InFlight)
    BY DEF PruneInv, PassInv, Of, InFlight
  <2> QED
    BY <2>1, <2>2, <2>3 DEF OneInFlight
<1> QED
  BY <1>1, PruneAlways, PTL

\* Whatever the policies, the limits, the batch size and the order of steps, what
\* leaves the remote was approved, is hidden by the committed policy and is no
\* active object.
THEOREM RemovesAuthorised == Spec => RemovesOnlyAuthorised
<1> DEFINE Authorised ==
      \A p \in remote \ remote' :
        IF pc = "idle" THEN row[p] = "active" /\ ~(p \in Hidden)
        ELSE /\ target[work.id][p] # "none" /\ row[p] # "active"
             /\ p \in Hidden /\ Matches(work.id)
             /\ Cardinality({t \in Paths : target[work.id][t] # "none"})
                  <= req[work.id].limit
<1>1. PruneInv /\ [Next]_vars => [Authorised]_vars
  BY StepAuthorised
<1> QED
  BY <1>1, PruneAlways, PTL DEF Spec, RemovesOnlyAuthorised

\* The ledger lets go only of objects that are gone, through interruptions, second
\* approvals and policy commits; what is excepted is a target whose deletion was
\* checkpointed before another policy was committed.
THEOREM ForgetsAbsent == Spec => ForgetsOnlyAbsent
<1> DEFINE Forgets ==
      \A p \in Paths : pc # "idle" /\ row'[p] # row[p] =>
        \/ p \notin remote
        \/ work.id \in replaced /\ target[work.id][p] = "deleted"
<1>1. Init => PruneInv /\ AbsentInv
  BY Started
<1>2. PruneInv /\ AbsentInv /\ [Next]_vars => (PruneInv /\ AbsentInv)'
  BY StepKeeps
<1>3. PruneInv /\ AbsentInv /\ [Next]_vars => [Forgets]_vars
  BY StepForgets
<1> QED
  BY <1>1, <1>2, <1>3, PTL DEF Spec, ForgetsOnlyAbsent
================================================================================
