-------------------------- MODULE SyncIntentProofs ---------------------------
(***************************************************************************)
(* Proofs about SyncIntent, for every value of its constants: the          *)
(* inductive invariant and the invariants it implies, the refinement of    *)
(* Intent, and the action properties that hold of every step.              *)
(***************************************************************************)
EXTENDS SyncIntent, FiniteSetTheorems, TLAPS

LEMMA InitIndInv == Init => IndInv
<1> SUFFICES ASSUME Init PROVE IndInv
    OBVIOUS
<1> USE RunIdsAssumption, TicksAssumption, BoundsAssumption DEF Init
<1>1. FlagTypeOK
  BY DEF FlagTypeOK
<1>2. ProfileTypeOK /\ GateTypeOK
  BY DEF ProfileTypeOK, GateTypeOK, Generations, NoGen, States, Classes,
         Unset, LimitedCap
<1>3. RunTypeOK /\ EventTypeOK /\ ProcessTypeOK
  BY DEF RunTypeOK, EventTypeOK, ProcessTypeOK, NoManual, NoEvents, NoGen,
         Generations, Workers, Watchers
<1>4. /\ ReadyMeansNoDebt /\ ErrorMeansDebt /\ RunOwnership /\ GenerationOrder
      /\ RunsOweDebt /\ OverrideOneAttempt /\ QuietFinalise /\ TombstonedAtRest
      /\ ReadsOfSource
  BY DEF ReadyMeansNoDebt, ErrorMeansDebt, RunOwnership, GenerationOrder,
         RunsOweDebt, OverrideOneAttempt, QuietFinalise, TombstonedAtRest,
         ReadsOfSource, NoManual, NoGen
<1> QED
  BY <1>1, <1>2, <1>3, <1>4 DEF IndInv, TypeOK, RowTypeOK

-----------------------------------------------------------------------------
(* Typing.  The commit of a success needs RunOwnership: the target it      *)
(* credits is that of the running row.                                     *)

LEMMA FlagStep == FlagTypeOK /\ [Next]_vars => FlagTypeOK'
<1> SUFFICES ASSUME FlagTypeOK, [Next]_vars PROVE FlagTypeOK'
    OBVIOUS
<1> USE DEF FlagTypeOK, profileVars, workerVars, cliVars
<1>1. CASE Disable
  BY <1>1 DEF Disable
<1>2. CASE Enable
  BY <1>2 DEF Enable
<1>3. CASE Remove
  BY <1>3 DEF Remove
<1>4. CASE RestoreBegin
  BY <1>4 DEF RestoreBegin
<1>5. CASE WorkerStart
  BY <1>5 DEF WorkerStart, Runnable
<1>6. CASE TombstoneProfile
  BY <1>6 DEF TombstoneProfile
<1>7. CASE CancelProfileDeletion
  BY <1>7 DEF CancelProfileDeletion
<1>8. CASE WorkerCrash
  BY <1>8 DEF WorkerCrash
<1>9. CASE MigrateRead
  BY <1>9 DEF MigrateRead
<1>10. CASE MigrateCutover
  BY <1>10 DEF MigrateCutover
<1>11. CASE MigrateFail \/ MigrateEnd
  BY <1>11 DEF MigrateFail, MigrateEnd, MigrateReturn
<1>12. ASSUME UNCHANGED <<profileVars, listed, asRead>> PROVE FlagTypeOK'
  BY <1>12
<1> QED
  BY <1>1, <1>2, <1>3, <1>4, <1>5, <1>6, <1>7, <1>8, <1>9, <1>10, <1>11, <1>12
     DEF Next, EventNext, WatcherNext, WatcherStep, CommandNext, WorkerStep,
         Outcome, vars, RecordSafe, RecordFull, FireBatch, Promote,
         ScheduleRead, ScheduleEnsure, ScheduleWindow, BatchRecord,
         WatcherStop, WatcherStart, SubmitManual, SubmitScheduled,
         CommitPolicy, RestoreEnd, MigrateRead, MigrateBegin, MigrateCutover,
         MigrateReturn, MigrateFail, MigrateSubmit, MigrateEnd, Recover,
         FinalizeScan, ClearPending, FinalizeFail, PassScan, PassLock,
         LoadOwned, Unlock, ClaimRun, NotClaimed, EnsureDirty, FastList,
         FastSkip, FastBegin, SourceClean, SourceDirty, CommitRunSuccess,
         CommitRunFailure, AbandonRun, FastFail, FastCommit, Tick, Goto,
         LeaveLane, SucceedThrough

\* The generation a success credits is the target of the row the worker owns.
LEMMA SuccessTyped ==
  ASSUME RowTypeOK, RunOwnership, CommitRunSuccess
  PROVE  RowTypeOK'
<1>1. run \in running /\ run \in Runs
  BY DEF CommitRunSuccess, SucceedThrough, RunOwnership, RowTypeOK, RunTypeOK
<1>2. Max2(last, run.target) \in Generations
  BY <1>1 DEF Max2, Runs, RowTypeOK, ProfileTypeOK
<1>3. ProfileTypeOK'
  BY <1>2 DEF CommitRunSuccess, SucceedThrough, RowTypeOK, ProfileTypeOK,
              profileVars, States
<1>4. GateTypeOK'
  BY TicksAssumption DEF CommitRunSuccess, SucceedThrough, RowTypeOK,
     GateTypeOK, windowVars, Classes, Unset, LimitedCap
<1>5. RunTypeOK'
  BY DEF CommitRunSuccess, SucceedThrough, RowTypeOK, RunTypeOK, Finished
<1>6. EventTypeOK'
  BY DEF CommitRunSuccess, SucceedThrough, RowTypeOK, EventTypeOK, Without
<1>7. ProcessTypeOK'
  BY DEF CommitRunSuccess, SucceedThrough, RowTypeOK, ProcessTypeOK,
         watcherVars, cliVars, Workers
<1> QED
  BY <1>3, <1>4, <1>5, <1>6, <1>7 DEF RowTypeOK

LEMMA FastCommitTyped ==
  ASSUME RowTypeOK, FastCommit
  PROVE  RowTypeOK'
<1>1. ProfileTypeOK' /\ GateTypeOK' /\ RunTypeOK'
  BY DEF FastCommit, LeaveLane, RowTypeOK, ProfileTypeOK, GateTypeOK,
         RunTypeOK, profileVars, syncVars, gateVars, windowVars
<1>2. EventTypeOK'
  <2> DEFINE cleared == {p \in DOMAIN snap \cap DOMAIN pending :
                           pending[p] <= snap[p]}
  <2>1. /\ DOMAIN pending' = DOMAIN pending \ cleared
        /\ \A p \in DOMAIN pending' : pending'[p] = pending[p]
    BY DEF FastCommit, Without
  <2>2. DOMAIN snap' = {}
    BY DEF FastCommit, LeaveLane, NoEvents
  <2> QED
    BY <2>1, <2>2 DEF RowTypeOK, EventTypeOK
<1>3. ProcessTypeOK'
  BY DEF FastCommit, LeaveLane, RowTypeOK, ProcessTypeOK, watcherVars,
         cliVars, Workers
<1> QED
  BY <1>1, <1>2, <1>3 DEF RowTypeOK

LEMMA RowStep == IndInv /\ [Next]_vars => RowTypeOK'
<1> SUFFICES ASSUME IndInv, [Next]_vars PROVE RowTypeOK'
    OBVIOUS
<1> USE RunIdsAssumption, TicksAssumption, BoundsAssumption,
        AllowancesAssumption
    DEF IndInv, TypeOK, RowTypeOK, ProfileTypeOK, GateTypeOK, RunTypeOK,
        EventTypeOK, ProcessTypeOK, Generations, Workers, Watchers, States,
        Classes, Runs, NoGen, Unset, LimitedCap, vars, profileVars, syncVars,
        gateVars, windowVars, workerVars, watcherVars, cliVars
<1>1. ASSUME NEW p \in Paths, RecordSafe(p) PROVE RowTypeOK'
  BY <1>1 DEF RecordSafe, Produce, UpsertEvent, With
<1>2. ASSUME NEW p \in Paths, RecordFull(p) PROVE RowTypeOK'
  BY <1>2 DEF RecordFull, Produce, Cover, OpenWindow, NoEvents, PendingState,
         Max2
<1>3. CASE FireBatch
  BY <1>3 DEF FireBatch
<1>4. CASE Promote
  BY <1>4 DEF Promote, Cover, OpenWindow, AtLeastOne, Max2, PendingState,
         NoEvents
<1>5. CASE ScheduleRead
  BY <1>5 DEF ScheduleRead
<1>6. CASE ScheduleEnsure
  BY <1>6 DEF ScheduleEnsure, Cover, AtLeastOne, Max2, PendingState
<1>7. CASE ScheduleWindow
  BY <1>7 DEF ScheduleWindow, OpenWindow
<1>8. ASSUME NEW p \in Paths, BatchRecord(p) PROVE RowTypeOK'
  BY <1>8 DEF BatchRecord, UpsertEvent, With
<1>9. CASE WatcherStop
  BY <1>9 DEF WatcherStop
<1>10. CASE WatcherStart
  BY <1>10 DEF WatcherStart
<1>11. ASSUME NEW a \in Allowances, SubmitManual(a) PROVE RowTypeOK'
  BY <1>11 DEF SubmitManual, SubmitManualTx, Cover, NextOpportunity, Max2,
         PendingState
<1>12. CASE SubmitScheduled
  BY <1>12 DEF SubmitScheduled, Cover, NextOpportunity, Max2, PendingState
<1>13. CASE CommitPolicy
  BY <1>13 DEF CommitPolicy, Cover, PolicyGeneration, Max2, PendingState
<1>14. CASE Disable
  BY <1>14 DEF Disable
<1>15. CASE Enable
  BY <1>15 DEF Enable
<1>16. CASE Remove
  BY <1>16 DEF Remove
<1>17. CASE RestoreBegin
  BY <1>17 DEF RestoreBegin
<1>18. CASE RestoreEnd
  BY <1>18 DEF RestoreEnd, Cover, Max2, PendingState
<1>19. CASE MigrateRead \/ MigrateBegin \/ MigrateCutover
  BY <1>19 DEF MigrateRead, MigrateBegin, MigrateCutover
<1>20. CASE MigrateFail
  BY <1>20 DEF MigrateFail, MigrateReturn
<1>21. CASE MigrateSubmit
  BY <1>21 DEF MigrateSubmit, SubmitManualTx, Cover, NextOpportunity, Max2,
         PendingState
<1>22. CASE MigrateEnd
  BY <1>22 DEF MigrateEnd, MigrateReturn
<1>23. CASE WorkerStart
  BY <1>23 DEF WorkerStart
<1>24. CASE Recover
  BY <1>24 DEF Recover, OrphanCurrentRun, DebtState, HasDebt
<1>25. CASE FinalizeScan
  BY <1>25 DEF FinalizeScan, Goto
<1>26. CASE ClearPending
  BY <1>26 DEF ClearPending, NoEvents
<1>27. CASE TombstoneProfile
  BY <1>27 DEF TombstoneProfile
<1>28. CASE CancelProfileDeletion
  BY <1>28 DEF CancelProfileDeletion
<1>29. CASE PassScan \/ FinalizeFail
  BY <1>29 DEF PassScan, FinalizeFail, Goto
<1>30. CASE PassLock
  BY <1>30 DEF PassLock, Goto
<1>31. CASE LoadOwned
  BY <1>31 DEF LoadOwned, Goto
<1>32. CASE Unlock
  BY <1>32 DEF Unlock, Goto
<1>33. ASSUME NEW id \in RunIds, ClaimRun(id) PROVE RowTypeOK'
  BY <1>33 DEF ClaimRun, Claimable, ManualCovers, Deferred, GateBlocked,
         NoManual, Runnable, HasDebt
<1>34. CASE NotClaimed
  BY <1>34 DEF NotClaimed, Goto
<1>35. CASE EnsureDirty
  BY <1>35 DEF EnsureDirty, Cover, AtLeastOne, Max2, PendingState
<1>36. CASE FastList
  BY <1>36 DEF FastList
<1>37. CASE FastSkip
  BY <1>37 DEF FastSkip, LeaveLane, NoEvents
<1>38. CASE FastBegin
  BY <1>38 DEF FastBegin, Goto
<1>39. CASE SourceClean
  BY <1>39 DEF SourceClean, Goto
<1>40. CASE SourceDirty
  BY <1>40 DEF SourceDirty
<1>41. CASE CommitRunSuccess
  BY <1>41, SuccessTyped
<1>42. ASSUME NEW c \in Classes, CommitRunFailure(c) PROVE RowTypeOK'
  BY <1>42 DEF CommitRunFailure, FailedAs, Finished
<1>43. CASE AbandonRun
  BY <1>43 DEF AbandonRun
<1>44. CASE FastFail
  BY <1>44 DEF FastFail, LeaveLane, NoEvents
<1>45. CASE FastCommit
  BY <1>45, FastCommitTyped
<1>46. CASE WorkerCrash
  BY <1>46 DEF WorkerCrash, NoEvents
<1>47. CASE Tick
  BY <1>47 DEF Tick, Elapse
<1>48. CASE UNCHANGED vars
  BY <1>48
<1> QED
  BY <1>1, <1>2, <1>3, <1>4, <1>5, <1>6, <1>7, <1>8, <1>9, <1>10, <1>11,
     <1>12, <1>13, <1>14, <1>15, <1>16, <1>17, <1>18, <1>19, <1>20, <1>21,
     <1>22, <1>23, <1>24, <1>25, <1>26, <1>27, <1>28, <1>29, <1>30, <1>31,
     <1>32, <1>33, <1>34, <1>35, <1>36, <1>37, <1>38, <1>39, <1>40, <1>41,
     <1>42, <1>43, <1>44, <1>45, <1>46, <1>47, <1>48
     DEF Next, EventNext, WatcherNext, WatcherStep, CommandNext, WorkerStep,
         Outcome

-----------------------------------------------------------------------------
(* The invariants.                                                         *)

\* The parts of IndInv that relate the rows to each other.
Related == /\ ReadyMeansNoDebt /\ ErrorMeansDebt
           /\ RunOwnership /\ GenerationOrder /\ RunsOweDebt
           /\ OverrideOneAttempt
           /\ QuietFinalise /\ TombstonedAtRest

LEMMA RelatedStep == IndInv /\ [Next]_vars => Related'
<1> SUFFICES ASSUME IndInv, [Next]_vars PROVE Related'
    OBVIOUS
<1> USE RunIdsAssumption, BoundsAssumption
    DEF IndInv, TypeOK, RowTypeOK, ProfileTypeOK, RunTypeOK, ProcessTypeOK,
        Generations, Runs, NoGen, Related, ReadyMeansNoDebt, ErrorMeansDebt,
        RunOwnership, GenerationOrder, RunsOweDebt, OverrideOneAttempt,
        QuietFinalise, TombstonedAtRest, HasDebt, vars, profileVars, syncVars,
        gateVars, windowVars, workerVars, watcherVars, cliVars
<1>1. ASSUME NEW p \in Paths, RecordFull(p) PROVE Related'
  BY <1>1 DEF RecordFull, Cover, PendingState, Max2
<1>2. CASE Promote
  BY <1>2 DEF Promote, Cover, AtLeastOne, Max2, PendingState
<1>3. CASE ScheduleEnsure
  BY <1>3 DEF ScheduleEnsure, Cover, AtLeastOne, Max2, PendingState
<1>4. ASSUME NEW a \in Allowances, SubmitManual(a) PROVE Related'
  BY <1>4 DEF SubmitManual, SubmitManualTx, Cover, NextOpportunity, Max2,
         PendingState
<1>5. CASE SubmitScheduled
  BY <1>5 DEF SubmitScheduled, Cover, NextOpportunity, Max2, PendingState
<1>6. CASE CommitPolicy
  BY <1>6 DEF CommitPolicy, Cover, PolicyGeneration, Max2, PendingState
<1>7. CASE Disable
  BY <1>7 DEF Disable
<1>8. CASE Enable
  BY <1>8 DEF Enable
<1>9. CASE Remove
  BY <1>9 DEF Remove
<1>10. CASE RestoreBegin
  BY <1>10 DEF RestoreBegin
<1>11. CASE RestoreEnd
  BY <1>11 DEF RestoreEnd, Cover, Max2, PendingState
<1>12. CASE MigrateSubmit
  BY <1>12 DEF MigrateSubmit, SubmitManualTx, Cover, NextOpportunity, Max2,
         PendingState
<1>13. CASE WorkerStart
  BY <1>13 DEF WorkerStart
<1>14. CASE Recover
  BY <1>14 DEF Recover, OrphanCurrentRun, DebtState
<1>15. CASE FinalizeScan
  BY <1>15 DEF FinalizeScan, Goto
<1>16. CASE ClearPending
  BY <1>16 DEF ClearPending
<1>17. CASE TombstoneProfile
  BY <1>17 DEF TombstoneProfile
<1>18. CASE CancelProfileDeletion
  BY <1>18 DEF CancelProfileDeletion
<1>19. CASE PassScan \/ FinalizeFail
  BY <1>19 DEF PassScan, FinalizeFail, Goto
<1>20. CASE PassLock
  BY <1>20 DEF PassLock, Goto
<1>21. CASE LoadOwned
  BY <1>21 DEF LoadOwned, Goto
<1>22. CASE Unlock
  BY <1>22 DEF Unlock, Goto
<1>23. ASSUME NEW id \in RunIds, ClaimRun(id) PROVE Related'
  BY <1>23 DEF ClaimRun, Claimable, ManualCovers, NoManual, Runnable
<1>24. CASE NotClaimed
  BY <1>24 DEF NotClaimed, Goto
<1>25. CASE EnsureDirty
  BY <1>25 DEF EnsureDirty, Cover, AtLeastOne, Max2, PendingState
<1>26. CASE FastList
  BY <1>26 DEF FastList
<1>27. CASE FastSkip
  BY <1>27 DEF FastSkip, LeaveLane
<1>28. CASE FastBegin
  BY <1>28 DEF FastBegin, Goto
<1>29. CASE SourceClean
  BY <1>29 DEF SourceClean, Goto
<1>30. CASE SourceDirty
  BY <1>30 DEF SourceDirty
<1>31. CASE CommitRunSuccess
  BY <1>31 DEF CommitRunSuccess, SucceedThrough, Finished, Max2
<1>32. ASSUME NEW c \in Classes, CommitRunFailure(c) PROVE Related'
  BY <1>32 DEF CommitRunFailure, Finished
<1>33. CASE AbandonRun
  BY <1>33 DEF AbandonRun
<1>34. CASE FastFail
  BY <1>34 DEF FastFail, LeaveLane
<1>35. CASE FastCommit
  BY <1>35 DEF FastCommit, LeaveLane
<1>36. CASE WorkerCrash
  BY <1>36 DEF WorkerCrash
<1>37. ASSUME UNCHANGED <<tomb, desired, last, current, state, manual,
                     running, wpc, run>>
      PROVE  Related'
  BY <1>37
<1> QED
  BY <1>1, <1>2, <1>3, <1>4, <1>5, <1>6, <1>7, <1>8, <1>9, <1>10, <1>11,
     <1>12, <1>13, <1>14, <1>15, <1>16, <1>17, <1>18, <1>19, <1>20, <1>21,
     <1>22, <1>23, <1>24, <1>25, <1>26, <1>27, <1>28, <1>29, <1>30, <1>31,
     <1>32, <1>33, <1>34, <1>35, <1>36, <1>37
     DEF Next, EventNext, WatcherNext, WatcherStep, CommandNext, WorkerStep,
         Outcome, RecordSafe, FireBatch, ScheduleRead, ScheduleWindow,
         BatchRecord, WatcherStop, WatcherStart, MigrateRead, MigrateBegin,
         MigrateCutover, MigrateFail, MigrateEnd, MigrateReturn, Tick

\* source_generation only grows, and every generation a process remembers was one.
LEMMA ReadsStep == IndInv /\ [Next]_vars => ReadsOfSource'
<1> SUFFICES ASSUME IndInv, [Next]_vars PROVE ReadsOfSource'
    OBVIOUS
<1> USE DEF ReadsOfSource, workerVars, watcherVars
<1>0. /\ source \in Nat /\ desired \in Nat /\ last \in Nat
      /\ hgen \in Nat /\ wgen \in Nat
      /\ source >= 1 /\ hgen <= source /\ wgen <= source
  BY BoundsAssumption
     DEF IndInv, TypeOK, RowTypeOK, ProfileTypeOK, ProcessTypeOK, Generations
<1>1. ASSUME NEW p \in Paths, RecordSafe(p) PROVE ReadsOfSource'
  BY <1>0, <1>1 DEF RecordSafe, UpsertEvent
<1>2. ASSUME NEW p \in Paths, RecordFull(p) PROVE ReadsOfSource'
  BY <1>0, <1>2 DEF RecordFull
<1>3. CASE FireBatch \/ ScheduleRead
  BY <1>0, <1>3 DEF FireBatch, ScheduleRead
<1>4. ASSUME NEW p \in Paths, BatchRecord(p) PROVE ReadsOfSource'
  BY <1>0, <1>4 DEF BatchRecord, UpsertEvent
<1>5. CASE CommitPolicy
  BY <1>0, <1>5 DEF CommitPolicy, PolicyGeneration, Max2
<1>6. CASE SourceDirty
  BY <1>0, <1>6 DEF SourceDirty
<1>7. ASSUME source' = source, hgen' = hgen, wgen' \in {wgen, NoGen}
      PROVE  ReadsOfSource'
  BY <1>0, <1>7 DEF NoGen
<1> QED
  BY <1>1, <1>2, <1>3, <1>4, <1>5, <1>6, <1>7
     DEF Next, EventNext, WatcherNext, WatcherStep, CommandNext, WorkerStep,
         Outcome, vars, Promote, ScheduleEnsure, ScheduleWindow, WatcherStop,
         WatcherStart, SubmitManual, SubmitScheduled, Disable, Enable, Remove,
         RestoreBegin, RestoreEnd, MigrateRead, MigrateBegin, MigrateCutover,
         MigrateSubmit, MigrateFail, MigrateEnd, MigrateReturn, WorkerStart,
         Recover, FinalizeScan, ClearPending, TombstoneProfile,
         CancelProfileDeletion, FinalizeFail, PassScan, PassLock, LoadOwned,
         Unlock, ClaimRun, NotClaimed, EnsureDirty, FastList, FastSkip,
         FastBegin, SourceClean, CommitRunSuccess, SucceedThrough,
         CommitRunFailure, AbandonRun, FastFail, FastCommit, WorkerCrash, Tick,
         Goto, LeaveLane

\* The invariant from which the others follow, in every reachable state of one
\* profile, its worker, its watcher and its commands.
THEOREM Inductive == Spec => []IndInv
<1>1. IndInv /\ [Next]_vars => IndInv'
  BY FlagStep, RowStep, RelatedStep, ReadsStep DEF IndInv, TypeOK, Related
<1> QED
  BY InitIndInv, <1>1, PTL DEF Spec

-----------------------------------------------------------------------------
(* What the runs check on small instances, for every value of the          *)
(* constants.                                                              *)

\* TypeOK holds of every reachable state, for any sets of paths and run
\* identifiers and any bounds.
THEOREM TypeCorrect == Spec => []TypeOK
  BY Inductive, PTL DEF IndInv

\* `ready` is never stored next to unsatisfied intent (claimRun, the commits,
\* OrphanCurrentRun and every writer of desired_generation), and `error` always
\* leaves something to claim.
THEOREM StateTellsDebt == Spec => [](ReadyMeansNoDebt /\ ErrorMeansDebt)
  BY Inductive, PTL DEF IndInv

\* current_run_id and the running rows of sync_runs agree through every claim,
\* commit, crash, recovery and abandoned run.
THEOREM RunsAreOwned == Spec => []RunOwnership
  BY Inductive, PTL DEF IndInv

\* No run is for, and no success is credited to, a generation nobody asked for.
THEOREM OrderKept == Spec => []GenerationOrder
  BY Inductive, PTL DEF IndInv

\* A delete override that a claim took is no longer in the row for a retry.
THEOREM OverrideTakenOnce == Spec => []OverrideOneAttempt
  BY Inductive, PTL DEF IndInv

\* finalizeDeletions, which works without the profile lock, never tombstones a
\* profile an attempt is running for.
THEOREM TombstonedIsAtRest == Spec => []TombstonedAtRest
  BY Inductive, PTL DEF IndInv

-----------------------------------------------------------------------------
(* The refinement.  A claim finds no running row because RunOwnership      *)
(* holds, and a success credits its own target because RunsOweDebt does.   *)

LEMMA PromiseInit == Init => Promise!Init
  BY DEF Init, Promise!Init, NoGen

\* How a step touches the columns of the refinement: it raises
\* desired_generation to an integer, or it is one of the four steps of a run, or
\* it leaves them alone.
LEMMA StepKinds ==
  ASSUME IndInv, [Next]_vars
  PROVE  \/ UNCHANGED <<desired, last, running>>
         \/ (\E g \in Int : Cover(g)) /\ UNCHANGED <<last, running>>
         \/ Recover \/ CommitRunSuccess
         \/ \E id \in RunIds : ClaimRun(id)
         \/ \E c \in Classes : CommitRunFailure(c)
<1> DEFINE Raises == (\E g \in Int : Cover(g)) /\ UNCHANGED <<last, running>>
<1>1. /\ source \in Int /\ desired \in Int /\ last \in Int
      /\ hgen \in Int /\ wgen \in Int
      /\ AtLeastOne(hgen) \in Int /\ AtLeastOne(wgen) \in Int
      /\ NextOpportunity \in Int /\ PolicyGeneration \in Int
      /\ Max2(source, last + 1) \in Int /\ source + 1 \in Int
  BY BoundsAssumption
     DEF IndInv, TypeOK, RowTypeOK, ProfileTypeOK, ProcessTypeOK, Generations,
         AtLeastOne, NextOpportunity, PolicyGeneration, Max2
<1>2. ASSUME NEW p \in Paths, RecordFull(p) PROVE Raises
  BY <1>1, <1>2 DEF RecordFull
<1>3. CASE Promote
  BY <1>1, <1>3 DEF Promote
<1>4. CASE ScheduleEnsure
  BY <1>1, <1>4 DEF ScheduleEnsure
<1>5. ASSUME NEW a \in Allowances, SubmitManual(a) PROVE Raises
  BY <1>1, <1>5 DEF SubmitManual, SubmitManualTx
<1>6. CASE SubmitScheduled
  BY <1>1, <1>6 DEF SubmitScheduled
<1>7. CASE CommitPolicy
  BY <1>1, <1>7 DEF CommitPolicy
<1>8. CASE RestoreEnd
  BY <1>1, <1>8 DEF RestoreEnd
<1>9. CASE MigrateSubmit
  BY <1>1, <1>9 DEF MigrateSubmit, SubmitManualTx
<1>10. CASE EnsureDirty
  BY <1>1, <1>10 DEF EnsureDirty
<1> QED
  BY <1>2, <1>3, <1>4, <1>5, <1>6, <1>7, <1>8, <1>9, <1>10
     DEF Next, EventNext, WatcherNext, WatcherStep, CommandNext, WorkerStep,
         Outcome, vars, syncVars, RecordSafe, FireBatch, ScheduleRead,
         ScheduleWindow, BatchRecord, WatcherStop, WatcherStart, Disable,
         Enable, Remove, RestoreBegin, MigrateRead, MigrateBegin,
         MigrateCutover, MigrateReturn, MigrateFail, MigrateEnd, WorkerStart,
         FinalizeScan, ClearPending, TombstoneProfile, CancelProfileDeletion,
         FinalizeFail, PassScan, PassLock, LoadOwned, Unlock, NotClaimed,
         FastList, FastSkip, FastBegin, SourceClean, SourceDirty, AbandonRun,
         FastFail, FastCommit, WorkerCrash, Tick, Goto, LeaveLane

LEMMA PromiseStep == IndInv /\ [Next]_vars => [Promise!Next]_(Promise!vars)
<1> DEFINE targets == {r.target : r \in running}
<1> SUFFICES ASSUME IndInv, [Next]_vars
             PROVE  Promise!Next \/ UNCHANGED <<desired, last, targets>>
  BY DEF Promise!vars
<1>0. /\ desired \in Nat /\ last \in Nat
      /\ \A r \in running : r.target \in Nat /\ last < r.target
      /\ \A r, s \in running : r = s
      /\ current = NoRun => running = {}
      /\ running = {} => current = NoRun
  BY RunIdsAssumption, BoundsAssumption
     DEF IndInv, TypeOK, RowTypeOK, ProfileTypeOK, RunTypeOK, Generations,
         Runs, RunOwnership, RunsOweDebt
<1>1. ASSUME desired' = desired \/ desired' > desired,
             UNCHANGED <<last, running>>
      PROVE  Promise!Next \/ UNCHANGED <<desired, last, targets>>
  BY <1>1 DEF Promise!Next, Promise!Request
<1>2. ASSUME NEW g \in Int, Cover(g)
      PROVE  desired' = desired \/ desired' > desired
  BY <1>0, <1>2 DEF Cover, Max2
<1>3. ASSUME running' = {}, UNCHANGED <<desired, last>>
      PROVE  Promise!Next \/ UNCHANGED <<desired, last, targets>>
  <2>1. CASE running = {}
    BY <1>3, <2>1
  <2>2. CASE running # {}
    BY <1>3, <2>2 DEF Promise!Next, Promise!Fail
  <2> QED
    BY <2>1, <2>2
<1>4. ASSUME NEW id \in RunIds, ClaimRun(id) PROVE Promise!Begin
  <2>1. running = {} /\ last < desired
    BY <1>0, <1>4 DEF ClaimRun, Claimable, HasDebt
  <2>2. {r.target : r \in running'} = {desired} /\ UNCHANGED <<desired, last>>
    BY <1>4, <2>1 DEF ClaimRun
  <2> QED
    BY <2>1, <2>2 DEF Promise!Begin
<1>5. CASE CommitRunSuccess
  <2>1. run \in running /\ running = {run}
    BY <1>0, <1>5 DEF CommitRunSuccess, SucceedThrough, IndInv, RunOwnership
  <2>2. last' = run.target /\ running' = {} /\ desired' = desired
    BY <1>0, <1>5, <2>1 DEF CommitRunSuccess, SucceedThrough, Finished, Max2
  <2> QED
    BY <2>1, <2>2 DEF Promise!Next, Promise!Succeed
<1>6. ASSUME NEW c \in Classes, CommitRunFailure(c)
      PROVE  running' = {} /\ UNCHANGED <<desired, last>>
  <2>1. running = {run}
    BY <1>0, <1>6 DEF CommitRunFailure, IndInv, RunOwnership
  <2> QED
    BY <1>6, <2>1 DEF CommitRunFailure, Finished
<1>7. ASSUME Recover
      PROVE  /\ UNCHANGED <<desired, last>>
             /\ running' = {} \/ running' = running
  BY <1>7 DEF Recover, OrphanCurrentRun
<1>8. ASSUME UNCHANGED <<desired, last, running>>
      PROVE  UNCHANGED <<desired, last, targets>>
  BY <1>8
<1> QED
  BY <1>1, <1>2, <1>3, <1>4, <1>5, <1>6, <1>7, <1>8, StepKinds
     DEF Promise!Next, Promise!Fail

\* The columns of profile_sync_state and sync_runs implement the abstract
\* promise: coalesced intent, one attempt, success credited to the target
\* captured at claim time and to nothing newer.
THEOREM Refinement == Spec => ImplementsIntent
  BY PromiseInit, PromiseStep, Inductive, PTL
     DEF Spec, ImplementsIntent, Promise!Spec

-----------------------------------------------------------------------------
(* Deletion requests.                                                      *)

\* Who writes the deletion columns, and who brings the worker to the last
\* statement of finalizeDeletions.
LEMMA DeletionWriters ==
  ASSUME [Next]_vars
  PROVE  /\ \/ UNCHANGED <<deleting, tomb>>
            \/ Remove \/ RestoreBegin \/ TombstoneProfile
            \/ CancelProfileDeletion
         /\ wpc' = "cancelling" => wpc = "cancelling" \/ TombstoneProfile
  BY DEF Next, EventNext, WatcherNext, WatcherStep, CommandNext, WorkerStep,
         Outcome, vars, RecordSafe, RecordFull, FireBatch, Promote,
         ScheduleRead, ScheduleEnsure, ScheduleWindow, BatchRecord,
         WatcherStop, WatcherStart, SubmitManual, SubmitScheduled,
         CommitPolicy, Disable, Enable, RestoreEnd, MigrateRead, MigrateBegin,
         MigrateCutover, MigrateReturn, MigrateFail, MigrateSubmit,
         MigrateEnd, WorkerStart, Recover, FinalizeScan, ClearPending,
         FinalizeFail, PassScan, PassLock, LoadOwned, Unlock, ClaimRun,
         NotClaimed, EnsureDirty, FastList, FastSkip, FastBegin, SourceClean,
         SourceDirty, CommitRunSuccess, SucceedThrough, CommitRunFailure,
         AbandonRun, FastFail, FastCommit, WorkerCrash, Tick, Goto, LeaveLane,
         profileVars, workerVars, Remove, RestoreBegin, CancelProfileDeletion

\* What finalizeDeletions relies on in its last statement, which clears the
\* request: no other process took the tombstone away since it was written.
TombstoneWritten == wpc = "cancelling" => tomb

LEMMA TombstoneWrittenStep ==
  ASSUME "restore" \notin Requests, TombstoneWritten, [Next]_vars
  PROVE  TombstoneWritten'
<1> USE DEF TombstoneWritten
<1>1. CASE UNCHANGED <<deleting, tomb>>
  BY <1>1, DeletionWriters DEF TombstoneProfile
<1>2. CASE Remove
  BY <1>2 DEF Remove, workerVars
<1>3. CASE RestoreBegin
  BY <1>3 DEF RestoreBegin
<1>4. CASE TombstoneProfile
  BY <1>4 DEF TombstoneProfile
<1>5. CASE CancelProfileDeletion
  BY <1>5 DEF CancelProfileDeletion
<1> QED
  BY <1>1, <1>2, <1>3, <1>4, <1>5, DeletionWriters

LEMMA DeletionStep ==
  ASSUME "restore" \notin Requests, TombstoneWritten, [Next]_vars,
         deleting, ~tomb
  PROVE  deleting'
<1>1. CASE UNCHANGED <<deleting, tomb>>
  BY <1>1
<1>2. CASE CancelProfileDeletion
  BY <1>2 DEF CancelProfileDeletion, TombstoneWritten
<1> QED
  BY <1>1, <1>2, DeletionWriters
     DEF Remove, RestoreBegin, TombstoneProfile

\* An accepted deletion request is never taken back from a live profile, as long
\* as nobody restores one: a `profile restore` between the last two statements of
\* finalizeDeletions breaks it.
THEOREM DeletionDurable == "restore" \notin Requests /\ Spec => DeletionKept
<1>1. Init => TombstoneWritten
  BY DEF Init, TombstoneWritten
<1>2. CASE "restore" \notin Requests
  <2>1. TombstoneWritten /\ [Next]_vars => TombstoneWritten'
    BY <1>2, TombstoneWrittenStep
  <2>2. TombstoneWritten /\ [Next]_vars
          => [deleting /\ ~tomb => deleting']_vars
    BY <1>2, DeletionStep
  <2> QED
    BY <1>1, <2>1, <2>2, PTL DEF Spec, DeletionKept
<1> QED
  BY <1>2

-----------------------------------------------------------------------------
(* Intent and the source.                                                  *)

\* Who raises the intent: a generation that the source had when it was read, the
\* generation the step gives the source, or a request that asks ahead.
LEMMA AheadStep ==
  ASSUME IndInv, [Next]_vars, desired' > desired
  PROVE  desired' <= source' \/ AsksAhead
<1> USE DEF AsksAhead, Cover, Max2
<1>0. /\ source \in Nat /\ desired \in Nat /\ hgen \in Nat /\ wgen \in Nat
      /\ last \in Nat
      /\ AtLeastOne(hgen) \in Nat /\ AtLeastOne(hgen) <= source
      /\ AtLeastOne(wgen) \in Nat /\ AtLeastOne(wgen) <= source
      /\ PolicyGeneration \in Nat
  BY BoundsAssumption
     DEF IndInv, TypeOK, RowTypeOK, ProfileTypeOK, ProcessTypeOK, Generations,
         ReadsOfSource, AtLeastOne, PolicyGeneration
<1>1. ASSUME NEW p \in Paths, RecordFull(p) PROVE desired' <= source'
  BY <1>0, <1>1 DEF RecordFull
<1>2. CASE Promote
  BY <1>0, <1>2 DEF Promote
<1>3. CASE ScheduleEnsure
  BY <1>0, <1>3 DEF ScheduleEnsure
<1>4. CASE CommitPolicy
  BY <1>0, <1>4 DEF CommitPolicy
<1>5. CASE EnsureDirty
  BY <1>0, <1>5 DEF EnsureDirty
<1>6. desired' # desired
  BY <1>0
<1> QED
  BY <1>1, <1>2, <1>3, <1>4, <1>5, <1>6
     DEF Next, EventNext, WatcherNext, WatcherStep, CommandNext, WorkerStep,
         Outcome, vars, syncVars, RecordSafe, FireBatch, ScheduleRead,
         ScheduleWindow, BatchRecord, WatcherStop, WatcherStart, Disable,
         Enable, Remove, RestoreBegin, MigrateRead, MigrateBegin,
         MigrateCutover, MigrateFail, MigrateEnd, MigrateReturn, WorkerStart,
         Recover, FinalizeScan, ClearPending, TombstoneProfile,
         CancelProfileDeletion, FinalizeFail, PassScan, PassLock, LoadOwned,
         Unlock, ClaimRun, NotClaimed, FastList, FastSkip, FastBegin,
         SourceClean, SourceDirty, CommitRunSuccess, SucceedThrough,
         CommitRunFailure, AbandonRun, FastFail, FastCommit, WorkerCrash, Tick,
         Goto, LeaveLane

\* The watcher and the worker raise the intent with generations they read before,
\* in other transactions; whatever came in between, only a request for one more
\* opportunity (manual, scheduled, restore, migrate) takes it past the source.
THEOREM OnlyRequestsAskAhead == Spec => AheadOnRequest
<1>1. IndInv /\ [Next]_vars
        => [desired' > desired => desired' <= source' \/ AsksAhead]_vars
  BY AheadStep
<1> QED
  BY <1>1, Inductive, PTL DEF Spec, AheadOnRequest

\* A destructive event leaves something to claim whatever commands were given, or
\* the intent was ahead of the source already.
THEOREM DestructiveIsDebt == Spec => DestructiveEventIsDebt
<1> DEFINE
     Debt == \A p \in Paths : RecordFull(p) => HasDebt' \/ desired > source
<1>1. IndInv /\ [Next]_vars => [Debt]_vars
  <2> SUFFICES ASSUME IndInv, NEW p \in Paths, RecordFull(p), ~(desired > source)
               PROVE  HasDebt'
    OBVIOUS
  <2> QED
    BY BoundsAssumption
       DEF RecordFull, Cover, Max2, HasDebt, IndInv, TypeOK, RowTypeOK,
           ProfileTypeOK, GenerationOrder, Generations
<1> QED
  BY <1>1, Inductive, PTL DEF Spec, DestructiveEventIsDebt

-----------------------------------------------------------------------------
(* The terminal gate.                                                      *)

\* A row runs only while the public state is not an error, so that what a run
\* commits never meets a closed gate.
GateQuiet == running # {} => state # "error"

LEMMA GateWriters ==
  ASSUME [Next]_vars
  PROVE  \/ UNCHANGED <<state, rc, running>> /\ wpc' \notin {"down", "recover"}
         \/ UNCHANGED <<state, rc, running, wpc>>
         \/ (\E g : Cover(g)) /\ UNCHANGED <<rc, running>>
                              /\ (wpc' = wpc \/ wpc' = "committing")
         \/ WorkerStart \/ Recover \/ CommitRunSuccess \/ WorkerCrash
         \/ (\E a \in Allowances : SubmitManual(a)) \/ MigrateSubmit
         \/ (\E id \in RunIds : ClaimRun(id))
         \/ \E c \in Classes : CommitRunFailure(c)
  BY DEF Next, EventNext, WatcherNext, WatcherStep, CommandNext, WorkerStep,
         Outcome, vars, RecordSafe, RecordFull, FireBatch, Promote,
         ScheduleRead, ScheduleEnsure, ScheduleWindow, BatchRecord,
         WatcherStop, WatcherStart, SubmitScheduled, CommitPolicy, Disable,
         Enable, Remove, RestoreBegin, RestoreEnd, MigrateRead, MigrateBegin,
         MigrateCutover, MigrateReturn, MigrateFail, MigrateEnd, FinalizeScan,
         ClearPending, TombstoneProfile, CancelProfileDeletion, FinalizeFail,
         PassScan, PassLock, LoadOwned, Unlock, NotClaimed, EnsureDirty,
         FastList, FastSkip, FastBegin, SourceClean, SourceDirty, AbandonRun,
         FastFail, FastCommit, Tick, Goto, LeaveLane, syncVars, gateVars,
         workerVars

LEMMA GateQuietStep ==
  ASSUME IndInv, GateQuiet, [Next]_vars
  PROVE  GateQuiet'
<1> USE DEF GateQuiet, IndInv, TypeOK, RowTypeOK, ProcessTypeOK, RunOwnership
<1>1. ASSUME NEW g, Cover(g), UNCHANGED <<rc, running>>,
             wpc' = wpc \/ wpc' = "committing"
      PROVE  GateQuiet'
  BY <1>1 DEF Cover, PendingState
<1>2. CASE WorkerStart
  BY <1>2 DEF WorkerStart, syncVars, gateVars
<1>3. CASE Recover
  BY <1>3 DEF Recover, OrphanCurrentRun, gateVars
<1>4. CASE CommitRunSuccess
  BY <1>4 DEF CommitRunSuccess, SucceedThrough
<1>5. CASE WorkerCrash
  BY <1>5 DEF WorkerCrash, syncVars
<1>6. ASSUME NEW a \in Allowances, SubmitManual(a) PROVE GateQuiet'
  BY <1>6 DEF SubmitManual, SubmitManualTx, Cover, PendingState, workerVars
<1>7. CASE MigrateSubmit
  BY <1>7 DEF MigrateSubmit, SubmitManualTx, Cover, PendingState, workerVars
<1>8. ASSUME NEW id \in RunIds, ClaimRun(id) PROVE GateQuiet'
  BY <1>8 DEF ClaimRun
<1>9. ASSUME NEW c \in Classes, CommitRunFailure(c) PROVE GateQuiet'
  BY <1>9 DEF CommitRunFailure, Finished
<1> QED
  BY <1>1, <1>2, <1>3, <1>4, <1>5, <1>6, <1>7, <1>8, <1>9, GateWriters

LEMMA GateStep ==
  ASSUME IndInv, GateQuiet, [Next]_vars, GateClosed, ~GateClosed'
  PROVE  manual'.gen > desired \/ Recover
<1> USE DEF GateClosed, GateQuiet
<1>0. wpc \notin {"executing", "dirty", "committing"}
  BY DEF IndInv, RunOwnership
<1>1. ASSUME NEW a \in Allowances, SubmitManual(a)
      PROVE  manual'.gen > desired
  BY <1>1, BoundsAssumption
     DEF SubmitManual, SubmitManualTx, NextOpportunity, Max2, IndInv, TypeOK,
         RowTypeOK, ProfileTypeOK, Generations
<1>2. CASE MigrateSubmit
  BY <1>2, BoundsAssumption
     DEF MigrateSubmit, SubmitManualTx, NextOpportunity, Max2, IndInv, TypeOK,
         RowTypeOK, ProfileTypeOK, Generations
<1>3. ~(\E g : Cover(g) /\ UNCHANGED rc) /\ ~UNCHANGED <<state, rc>>
  BY DEF Cover, PendingState
<1>4. ~WorkerStart /\ ~WorkerCrash
  BY DEF WorkerStart, WorkerCrash, syncVars, gateVars
<1>5. ~CommitRunSuccess /\ \A c \in Classes : ~CommitRunFailure(c)
  BY <1>0 DEF CommitRunSuccess, SucceedThrough, CommitRunFailure
<1>6. \A id \in RunIds : ~ClaimRun(id)
  BY DEF ClaimRun, Claimable, GateBlocked
<1> QED
  BY <1>1, <1>2, <1>3, <1>4, <1>5, <1>6, GateWriters

\* A closed terminal gate opens for a manual request only, or for the recovery
\* of a restarted worker: OrphanCurrentRun, which recomputes the public state of
\* every profile, does open it.
THEOREM GateKept == Spec => TerminalGateKept
<1>1. Init => GateQuiet
  BY DEF Init, GateQuiet
<1>2. IndInv /\ GateQuiet /\ [Next]_vars => GateQuiet'
  BY GateQuietStep
<1>3. IndInv /\ GateQuiet /\ [Next]_vars
        => [GateClosed /\ ~GateClosed'
              => manual'.gen > desired \/ Recover]_vars
  BY GateStep
<1> QED
  BY <1>1, <1>2, <1>3, Inductive, PTL DEF Spec, TerminalGateKept

-----------------------------------------------------------------------------
(* The profile lock, and the command that waits while it has it.           *)

LockHeld ==
  /\ wpc \in InPass => lock = "worker"
  /\ Migrating => lock = "cli"

LEMMA LockWriters ==
  ASSUME [Next]_vars
  PROVE  \/ UNCHANGED <<lock, cpc>> /\ (wpc' \in InPass => wpc \in InPass)
         \/ PassLock \/ Unlock \/ WorkerCrash
         \/ MigrateRead \/ MigrateBegin \/ MigrateCutover \/ MigrateSubmit
         \/ MigrateFail \/ MigrateEnd
         \/ RestoreBegin \/ RestoreEnd
  BY DEF InPass, Next, EventNext, WatcherNext, WatcherStep, CommandNext,
         WorkerStep, Outcome, vars, RecordSafe, RecordFull, FireBatch, Promote,
         ScheduleRead, ScheduleEnsure, ScheduleWindow, BatchRecord,
         WatcherStop, WatcherStart, SubmitManual, SubmitScheduled,
         CommitPolicy, Disable, Enable, Remove, WorkerStart, Recover,
         FinalizeScan, ClearPending, TombstoneProfile, CancelProfileDeletion,
         FinalizeFail, PassScan, LoadOwned, ClaimRun, NotClaimed, SourceClean,
         SourceDirty, EnsureDirty, CommitRunSuccess, SucceedThrough,
         CommitRunFailure, AbandonRun, FastList, FastSkip, FastBegin, FastFail,
         FastCommit, Tick, Goto, LeaveLane, workerVars, cliVars

LEMMA LockHeldStep ==
  ASSUME LockHeld, [Next]_vars
  PROVE  LockHeld'
<1> USE DEF LockHeld, InPass, Migrating
<1>1. ASSUME UNCHANGED <<lock, cpc>>, wpc' \in InPass => wpc \in InPass
      PROVE  LockHeld'
  BY <1>1
<1>2. CASE PassLock
  BY <1>2 DEF PassLock, Goto, cliVars
<1>3. CASE Unlock
  BY <1>3 DEF Unlock, Goto, cliVars
<1>4. CASE WorkerCrash
  BY <1>4 DEF WorkerCrash, cliVars
<1>5. CASE MigrateRead \/ MigrateBegin
  BY <1>5 DEF MigrateRead, MigrateBegin, workerVars
<1>6. CASE MigrateFail \/ MigrateEnd
  BY <1>6 DEF MigrateFail, MigrateEnd, MigrateReturn, workerVars
<1>7. CASE MigrateCutover \/ MigrateSubmit
  BY <1>7 DEF MigrateCutover, MigrateSubmit, workerVars
<1>8. CASE RestoreBegin \/ RestoreEnd
  BY <1>8 DEF RestoreBegin, RestoreEnd, workerVars
<1> QED
  BY <1>1, <1>2, <1>3, <1>4, <1>5, <1>6, <1>7, <1>8, LockWriters

\* Slots counts with its own copy of Cardinality.
LEMMA SameCount == \A S : ProfileLock!Cardinality(S) = Cardinality(S)
  BY DEF ProfileLock!Cardinality, Cardinality

LEMMA UsersCounted ==
  ASSUME LockUsers = {} PROVE ProfileLock!Cardinality(LockUsers) < 1
  BY SameCount, FS_EmptySet

\* A user comes while the lock is free and goes by itself.
LEMMA MutexStep ==
  ASSUME LockHeld, LockHeld', [Next]_vars
  PROVE  ProfileLock!Next \/ UNCHANGED LockUsers
<1> USE DEF LockHeld, InPass, Migrating, LockUsers
<1>1. ASSUME NEW u \in {"worker", "cli"}, LockUsers = {}, LockUsers' = {u}
      PROVE  ProfileLock!Next
  BY <1>1, UsersCounted DEF ProfileLock!Next, ProfileLock!Take
<1>2. ASSUME NEW u \in LockUsers, LockUsers' = LockUsers \ {u}
      PROVE  ProfileLock!Next
  BY <1>2 DEF ProfileLock!Next, ProfileLock!Give
<1>3. CASE PassLock
  <2>1. CASE Goto("locking", "owned") /\ lock = "free" /\ lock' = "worker"
    <3>1. LockUsers = {} /\ LockUsers' = {"worker"}
      BY <2>1 DEF Goto, cliVars
    <3> QED
      BY <1>1, <3>1
  <2>2. CASE Goto("locking", "final")
    BY <2>2 DEF Goto, cliVars
  <2> QED
    BY <1>3, <2>1, <2>2 DEF PassLock
<1>4. CASE MigrateBegin
  <2>1. LockUsers = {} /\ LockUsers' = {"cli"}
    BY <1>4 DEF MigrateBegin, workerVars
  <2> QED
    BY <1>1, <2>1
<1>5. ASSUME UNCHANGED cpc, wpc' \notin InPass
      PROVE  ProfileLock!Next \/ UNCHANGED LockUsers
  <2>1. CASE wpc \in InPass
    <3>1. "worker" \in LockUsers /\ LockUsers' = LockUsers \ {"worker"}
      BY <1>5, <2>1
    <3> QED
      BY <1>2, <3>1
  <2>2. CASE wpc \notin InPass
    BY <1>5, <2>2
  <2> QED
    BY <2>1, <2>2
<1>6. CASE MigrateFail \/ MigrateEnd
  <2>1. CASE cpc = "opened"
    BY <1>6, <2>1 DEF MigrateFail, MigrateEnd, MigrateReturn, workerVars
  <2>2. CASE cpc # "opened"
    <3>1. "cli" \in LockUsers /\ LockUsers' = LockUsers \ {"cli"}
      BY <1>6, <2>2 DEF MigrateFail, MigrateEnd, MigrateReturn, workerVars
    <3> QED
      BY <1>2, <3>1
  <2> QED
    BY <2>1, <2>2
<1>7. CASE MigrateRead \/ MigrateCutover \/ MigrateSubmit \/ RestoreBegin
             \/ RestoreEnd
  BY <1>7 DEF MigrateRead, MigrateCutover, MigrateSubmit, RestoreBegin,
              RestoreEnd, workerVars
<1>8. ASSUME UNCHANGED <<lock, cpc>>, wpc' \in InPass => wpc \in InPass
      PROVE  ProfileLock!Next \/ UNCHANGED LockUsers
  BY <1>5, <1>8
<1>9. CASE Unlock \/ WorkerCrash
  BY <1>5, <1>9 DEF Unlock, WorkerCrash, Goto, cliVars
<1> QED
  BY <1>3, <1>4, <1>6, <1>7, <1>8, <1>9, LockWriters

\* What this module does with its lock is what FileLock, too, is proved to
\* implement: one user at a time, who may die.
THEOREM ProfileLockImplements == Spec => ImplementsMutex
<1>1. Init => LockHeld /\ ProfileLock!Init
  BY DEF Init, LockHeld, InPass, Migrating, LockUsers, ProfileLock!Init
<1>2. LockHeld /\ [Next]_vars => LockHeld'
  BY LockHeldStep
<1>3. LockHeld /\ LockHeld' /\ [Next]_vars => [ProfileLock!Next]_LockUsers
  BY MutexStep
<1> QED
  BY <1>1, <1>2, <1>3, PTL DEF Spec, ImplementsMutex, ProfileLock!Spec

\* The generation that `profile migrate` waits for has not succeeded yet.
WaitsInVain == cpc = "waiting" => last < cgen

\* Who writes what the wait is about.
LEMMA WaitWriters ==
  ASSUME [Next]_vars
  PROVE  \/ UNCHANGED <<last, cgen>> /\ (cpc' = "waiting" => cpc = "waiting")
         \/ MigrateSubmit \/ CommitRunSuccess
  BY DEF Next, EventNext, WatcherNext, WatcherStep, CommandNext, WorkerStep,
         Outcome, vars, RecordSafe, RecordFull, FireBatch, Promote,
         ScheduleRead, ScheduleEnsure, ScheduleWindow, BatchRecord,
         WatcherStop, WatcherStart, SubmitManual, SubmitScheduled,
         CommitPolicy, Disable, Enable, Remove, RestoreBegin, RestoreEnd,
         MigrateRead, MigrateBegin, MigrateCutover, MigrateReturn,
         MigrateFail, MigrateEnd, WorkerStart, Recover, FinalizeScan,
         ClearPending, TombstoneProfile, CancelProfileDeletion, FinalizeFail,
         PassScan, PassLock, LoadOwned, Unlock, WorkerCrash, ClaimRun,
         NotClaimed, SourceClean, SourceDirty, EnsureDirty, CommitRunFailure,
         AbandonRun, FastList, FastSkip, FastBegin, FastFail, FastCommit,
         Tick, Goto, LeaveLane, syncVars, cliVars

LEMMA WaitStep ==
  ASSUME IndInv, LockHeld, WaitsInVain, [Next]_vars
  PROVE  WaitsInVain'
<1> USE DEF WaitsInVain
<1>1. CASE MigrateSubmit
  BY <1>1, BoundsAssumption
     DEF MigrateSubmit, NextOpportunity, Max2, IndInv, TypeOK, RowTypeOK,
         ProfileTypeOK, Generations
<1>2. CASE CommitRunSuccess
  BY <1>2 DEF CommitRunSuccess, SucceedThrough, LockHeld, InPass, Migrating,
              cliVars
<1>3. ASSUME UNCHANGED <<last, cgen>>, cpc' = "waiting" => cpc = "waiting"
      PROVE  WaitsInVain'
  BY <1>3
<1> QED
  BY <1>1, <1>2, <1>3, WaitWriters

\* As long as `profile migrate` waits, no run is committed, for the worker needs
\* the lock that the command has: what it waits for cannot come, whatever the
\* worker, the watcher and other commands do.  The run MigrateBlocks shows the
\* worker passing over the profile for ever.
THEOREM MigrationWaits == Spec => []WaitsInVain
<1>1. Init => LockHeld /\ WaitsInVain
  BY DEF Init, LockHeld, WaitsInVain, InPass, Migrating
<1>2. LockHeld /\ [Next]_vars => LockHeld'
  BY LockHeldStep
<1>3. IndInv /\ LockHeld /\ WaitsInVain /\ [Next]_vars => WaitsInVain'
  BY WaitStep
<1> QED
  BY <1>1, <1>2, <1>3, Inductive, PTL DEF Spec
==============================================================================
