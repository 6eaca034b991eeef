---------------------------- MODULE RemoteLeaseProofs ----------------------------
(***************************************************************************)
(* Proofs about RemoteLease: the bounds on rows and on operations, for any *)
(* set of operations, whatever fails, dies or sleeps.                      *)
(***************************************************************************)
EXTENDS RemoteLease, FiniteSetTheorems, TLAPS

\* Every row of remote_operation_leases, timer and caller has its type, in every
\* reachable state (state/leases.go).
THEOREM LeaseTyped == Spec => []TypeOK
<1>1. Init => TypeOK
  BY LeaseAssumption, CrashAssumption DEF Init, TypeOK, Working
<1>2. TypeOK /\ [Next]_vars => TypeOK'
  <2> SUFFICES ASSUME TypeOK, [Next]_vars PROVE TypeOK'
    OBVIOUS
  <2> USE LeaseAssumption, CrashAssumption DEF TypeOK, Working
  <2>1. ASSUME NEW o \in Ops, Enter(o) PROVE TypeOK'
    BY <2>1 DEF Enter
  <2>2. ASSUME NEW o \in Ops, Claim(o) PROVE TypeOK'
    BY <2>2 DEF Claim, Promoted
  <2>3. ASSUME NEW o \in Ops, Withdraw(o) \/ Release(o) PROVE TypeOK'
    BY <2>3 DEF Withdraw, Release, Delete
  <2>4. ASSUME NEW o \in Ops, Renew(o) PROVE TypeOK'
    BY <2>4 DEF Renew
  <2>5. ASSUME NEW o \in Ops, Crash(o) PROVE TypeOK'
    BY <2>5 DEF Crash
  <2>6. CASE Tick
    BY <2>6 DEF Tick, Running, Expired
  <2>7. CASE UNCHANGED vars
    BY <2>7 DEF vars
  <2> QED
    BY <2>1, <2>2, <2>3, <2>4, <2>5, <2>6, <2>7 DEF Next
<1> QED
  BY <1>1, <1>2, PTL DEF Spec

\* Fewer running rows keep the bound.
LEMMA FewerRows ==
  ASSUME RowBound, Running' \subseteq Running
  PROVE  RowBound'
<1>1. IsFiniteSet(Running)
  BY OpsAssumption, FS_Subset DEF Running
<1>2. Cardinality(Running') <= Cardinality(Running)
  BY <1>1, FS_Subset
<1>3. /\ Cardinality(Running) \in Nat /\ Cardinality(Running') \in Nat
      /\ MaxConcurrent \in Nat
  BY <1>1, FS_Subset, FS_CardinalityType, LimitAssumption
<1> QED
  BY <1>2, <1>3 DEF RowBound

\* A promotion counts the rows it keeps before it adds one.
LEMMA ClaimBounded ==
  ASSUME TypeOK, NEW o \in Ops, Claim(o)
  PROVE  RowBound'
<1> DEFINE kept == Running \ Expired
<1>1. IsFiniteSet(kept)
  BY OpsAssumption, FS_Subset DEF Running
<1>2. o \notin kept /\ Running' = kept \cup {o}
  BY DEF Claim, First, Waiting, Promoted, Running, Expired, TypeOK
<1>3. Cardinality(Running') = Cardinality(kept) + 1
  BY <1>1, <1>2, FS_AddElement
<1>4. Cardinality(kept) < MaxConcurrent
  BY DEF Claim, FreeSlot
<1>5. Cardinality(kept) \in Nat /\ MaxConcurrent \in Nat
  BY <1>1, FS_CardinalityType, LimitAssumption
<1> HIDE DEF kept
<1> QED
  BY <1>3, <1>4, <1>5 DEF RowBound

LEMMA RowBoundStep == TypeOK /\ RowBound /\ [Next]_vars => RowBound'
<1> SUFFICES ASSUME TypeOK, RowBound, [Next]_vars PROVE RowBound'
  OBVIOUS
<1>1. ASSUME NEW o \in Ops, Claim(o) PROVE RowBound'
  BY <1>1, ClaimBounded
<1>2. ASSUME NEW o \in Ops,
             Enter(o) \/ Withdraw(o) \/ Release(o) \/ Renew(o) \/ Crash(o)
      PROVE  RowBound'
  <2>1. Running' \subseteq Running
    BY <1>2 DEF Enter, Withdraw, Release, Renew, Crash, Delete, Running, TypeOK
  <2> QED
    BY <2>1, FewerRows
<1>3. CASE Tick \/ UNCHANGED vars
  <2>1. Running' \subseteq Running
    BY <1>3 DEF Tick, vars, Running
  <2> QED
    BY <2>1, FewerRows
<1> QED
  BY <1>1, <1>2, <1>3 DEF Next

\* The rows never promise more than MaxConcurrent, with sleeping machines, lost
\* deletions and crashes.
THEOREM RowLimit == Spec => []RowBound
<1>1. Init => RowBound
  <2>1. Init => Running = {}
    BY DEF Init, Running
  <2> QED
    BY <2>1, FS_EmptySet, LimitAssumption DEF RowBound
<1> QED
  BY <1>1, RowBoundStep, LeaseTyped, PTL DEF Spec

LEMMA HeldStep ==
  ASSUME TypeOK, LeaseHeld, [Next]_vars
  PROVE  LeaseHeld'
<1> USE LeaseAssumption DEF LeaseHeld, TypeOK, Working, Punctual
<1>1. ASSUME NEW o \in Ops, Enter(o) PROVE LeaseHeld'
  BY <1>1 DEF Enter
<1>2. ASSUME NEW o \in Ops, Claim(o) PROVE LeaseHeld'
  BY <1>2 DEF Claim, Promoted, Expired, Running
<1>3. ASSUME NEW o \in Ops, Withdraw(o) \/ Release(o) PROVE LeaseHeld'
  BY <1>3 DEF Withdraw, Release, Delete
<1>4. ASSUME NEW o \in Ops, Renew(o) \/ Crash(o) PROVE LeaseHeld'
  BY <1>4 DEF Renew, Crash
<1>5. CASE Tick
  BY <1>5 DEF Tick, Running, Expired
<1>6. CASE UNCHANGED vars
  BY <1>6 DEF vars
<1> QED
  BY <1>1, <1>2, <1>3, <1>4, <1>5, <1>6 DEF Next

\* The row of an operation that was renewed in time is never taken from it, by the
\* promotion of another above all (tryClaimRemoteLease) ...
THEOREM LeaseKept == Spec => []LeaseHeld
<1>1. Init => LeaseHeld
  BY DEF Init, LeaseHeld, Working, Punctual
<1>2. TypeOK /\ LeaseHeld /\ [Next]_vars => LeaseHeld'
  BY HeldStep
<1> QED
  BY <1>1, <1>2, LeaseTyped, PTL DEF Spec

\* ... and no more than MaxConcurrent of them use the remote at a time.
THEOREM OperationLimit == Spec => []OperationBound
<1>1. RowBound /\ LeaseHeld => OperationBound
  <2> SUFFICES ASSUME RowBound, LeaseHeld PROVE OperationBound
    OBVIOUS
  <2>1. Punctual \subseteq Running
    BY DEF Working, Punctual, Running, LeaseHeld
  <2>2. IsFiniteSet(Running) /\ IsFiniteSet(Punctual)
    BY OpsAssumption, <2>1, FS_Subset DEF Running
  <2>3. Cardinality(Punctual) <= Cardinality(Running)
    BY <2>1, <2>2, FS_Subset
  <2>4. /\ Cardinality(Running) \in Nat /\ Cardinality(Punctual) \in Nat
        /\ MaxConcurrent \in Nat
    BY <2>2, FS_CardinalityType, LimitAssumption
  <2> QED
    BY <2>3, <2>4 DEF RowBound, OperationBound
<1> QED
  BY <1>1, RowLimit, LeaseKept, PTL

\* Slots counts as this module does.
LEMMA SemaphoreCounts == \A S : Semaphore!Cardinality(S) = Cardinality(S)
  BY DEF Semaphore!Cardinality, Cardinality

LEMMA SemaphoreStep ==
  ASSUME TypeOK, LeaseHeld, [Next]_vars
  PROVE  [Semaphore!Next]_Punctual
<1>1. ASSUME NEW o \in Ops, Claim(o) PROVE Semaphore!Take(o)
  <2> DEFINE kept == Running \ Expired
  <2>1. Punctual \subseteq kept
    BY DEF Working, Punctual, Running, Expired, LeaseHeld
  <2>2. IsFiniteSet(kept)
    BY OpsAssumption, FS_Subset DEF Running
  <2>3. Cardinality(Punctual) <= Cardinality(kept)
    BY <2>1, <2>2, FS_Subset
  <2>4. Cardinality(kept) < MaxConcurrent
    BY <1>1 DEF Claim, FreeSlot
  <2>5. /\ Cardinality(kept) \in Nat /\ Cardinality(Punctual) \in Nat
        /\ MaxConcurrent \in Nat
    BY <2>1, <2>2, FS_Subset, FS_CardinalityType, LimitAssumption
  <2>6. o \notin Punctual /\ Punctual' = Punctual \cup {o}
    BY <1>1 DEF Claim, Working, Punctual, TypeOK
  <2> HIDE DEF kept
  <2> QED
    BY <2>3, <2>4, <2>5, <2>6, SemaphoreCounts DEF Semaphore!Take
<1>2. ASSUME NEW o \in Ops, Release(o) \/ Crash(o)
      PROVE  Punctual' = Punctual \/ Semaphore!Give(o)
  BY <1>2 DEF Release, Crash, Working, Punctual, TypeOK, Semaphore!Give
<1>3. ASSUME NEW o \in Ops, Enter(o) \/ Withdraw(o) \/ Renew(o)
      PROVE  Punctual' = Punctual
  BY <1>3 DEF Enter, Withdraw, Renew, Working, Punctual, TypeOK
<1>4. CASE Tick
  <2> DEFINE late == overslept' \ overslept
  <2>1. Punctual' = Punctual \ late
    BY <1>4 DEF Tick, Working, Punctual
  <2>2. Semaphore!Lapse(Punctual \cap late)
    BY <2>1 DEF Semaphore!Lapse
  <2> QED
    BY <2>2 DEF Semaphore!Next
<1>5. CASE UNCHANGED vars
  BY <1>5 DEF vars, Working, Punctual
<1> QED
  BY <1>1, <1>2, <1>3, <1>4, <1>5 DEF Next, Semaphore!Next

\* The lease table is a counting semaphore for the operations renewed in time:
\* through expiry, late renewals, lost deletions, dead callers and operations that
\* overslept their lease they come one by one, and none comes while MaxConcurrent of
\* them are at the remote.
THEOREM LeaseImplements == Spec => ImplementsSemaphore
<1>1. Init => Semaphore!Init
  BY DEF Init, Semaphore!Init, Working, Punctual
<1>2. TypeOK /\ LeaseHeld /\ [Next]_vars => [Semaphore!Next]_Punctual
  BY SemaphoreStep
<1> QED
  BY <1>1, <1>2, LeaseTyped, LeaseKept, PTL
     DEF Spec, ImplementsSemaphore, Semaphore!Spec
==================================================================================
