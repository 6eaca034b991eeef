----------------------------- MODULE DerivedProofs -----------------------------
(***************************************************************************)
(* Proofs about Derived, for any number of compiles, cleans, crashes and    *)
(* failures.                                                               *)
(***************************************************************************)
EXTENDS Derived, TLAPS

Compiling  == {"compiled", "stage", "staged", "collect", "record"}
Cleaning   == {"marked", "unlink", "remove", "removed"}
Settling   == {"unlink", "remove", "removed"}
Running    == Transfer \cup {"claimed", "done"}
Publishing == {"stat", "sync", "syncing", "check", "commit"}

\* The compiler lock is held by whoever is where the code holds it.
LockInv ==
  /\ (cpc # "idle") = (lock = "command")
  /\ (wpc \in Settling \cup {"claimed"}) = (lock = "worker")

\* A desire is paid for by a compile or a clean.
RevInv == rev + (IF cpc \in Compiling THEN 1 ELSE 0) <= made + cleans

\* What a command has done so far.
JobInv ==
  /\ cpc \in {"idle", "marked"} => job = NoJob
  /\ cpc \in Compiling => job.gen \in Gens
  /\ cpc \in {"staged", "collect", "record"} => job.gen \in gens
  /\ cpc \in {"collect", "record"} => pointer = job.gen
  /\ cpc \in Cleaning => mode = "absent" /\ clean = "committing" /\ job.gen = None
  /\ cpc \in {"remove", "removed"} => pointer = None

\* What the worker has done so far.
RunInv ==
  /\ wpc \notin Running => run = NoRun
  /\ wpc \in Running => \/ run.kind = "publish" /\ run.gen \in Gens
                        \/ run.kind = "purge" /\ run.gen = None
  /\ wpc \in Publishing => run.kind = "publish"
  /\ wpc \in {"purge", "purging"} => run.kind = "purge"
  /\ wpc \in Settling => clean = "committing"
  /\ wpc \in {"remove", "removed"} => pointer = None

DerivedInv == TypeOK /\ LockInv /\ RevInv /\ JobInv /\ RunInv /\ PointerValid

\* What a run has made of the remote; nothing is current while it works.
RemoteInv ==
  /\ CurrentIsTrue
  /\ wpc \in Running => dstate # "current"
  /\ run.kind = "publish" /\ wpc \in {"check", "commit", "done"} => details = run.gen
  /\ run.kind = "publish" /\ wpc = "done" => manifest = run.gen
  /\ run.kind = "purge" /\ wpc = "done" => Empty

\* The pin, which a command that came during the run has read.
Held == run.kind = "publish" /\ wpc \in Transfer \cup {"done"}

PinInv ==
  /\ PinnedGenerationKept
  /\ wpc = "claimed" /\ run.kind = "publish" => pin = run.gen
  /\ Held /\ cpc \notin {"idle", "compiled", "marked"} => job.keep = run.gen

-----------------------------------------------------------------------------

USE DEF Gens, None, Mixed, NoJob, NoRun, NoKey

LEMMA Started == Init => DerivedInv /\ RemoteInv /\ PinInv
<1> SUFFICES ASSUME Init PROVE DerivedInv /\ RemoteInv /\ PinInv
  OBVIOUS
<1> USE BoundsAssumption DEF Init
<1>1. TypeOK
  <2>1. /\ gateKey \in {"none", "absent", "generation"} \X (Gens \cup {None}) \X Nat
        /\ run \in [kind : {"none", "publish", "purge"}, gen : Gens \cup {None},
                    key : {"none", "absent", "generation"} \X (Gens \cup {None}) \X Nat]
    OBVIOUS
  <2>2. (mode = "generation") = (want # None)
    OBVIOUS
  <2>3. /\ rev \in 0..(MaxGenerations + MaxCleans) /\ made \in 0..MaxGenerations
        /\ cleans \in 0..MaxCleans /\ faults \in 0..MaxFaults /\ broken \in 0..MaxBroken
    OBVIOUS
  <2>4. /\ gens \in SUBSET Gens /\ {pointer, want, pin, published, manifest} \subseteq Gens \cup {None}
        /\ details \in Gens \cup {None, Mixed}
        /\ job \in [gen : Gens \cup {None}, keep : Gens \cup {None}]
    OBVIOUS
  <2>5. /\ mode \in {"absent", "generation"} /\ rstate \in {"unknown", "absent", "generation"}
        /\ dstate \in {"pending", "syncing", "current", "failed", "blocked_disabled"}
        /\ gate \in {"none", "due", "backoff", "terminal"} /\ clean \in {"none", "committing"}
        /\ enabled \in BOOLEAN /\ sidecar \in BOOLEAN /\ lock \in {"free", "command", "worker"}
        /\ cpc = "idle" /\ wpc = "down"
    OBVIOUS
  <2> HIDE DEF Init, Gens, None, Mixed, NoJob, NoRun, NoKey
  <2> QED
    BY <2>1, <2>2, <2>3, <2>4, <2>5 DEF TypeOK, Transfer
<1>2. LockInv /\ RevInv /\ JobInv /\ RunInv /\ PointerValid
  BY DEF LockInv, RevInv, JobInv, RunInv, PointerValid, Compiling, Cleaning, Settling,
     Running, Publishing, Transfer
<1>3. RemoteInv /\ PinInv
  BY DEF RemoteInv, CurrentIsTrue, PinInv, PinnedGenerationKept, Held, Running, Transfer
<1> QED
  BY <1>1, <1>2, <1>3 DEF DerivedInv

\* Types, with the revision bounded by what was compiled and cleaned.
LEMMA TypeStep ==
  ASSUME DerivedInv, Next
  PROVE  TypeOK'
<1> USE BoundsAssumption DEF DerivedInv, TypeOK, LockInv, RevInv, JobInv, RunInv,
    Compiling, Cleaning,
    Settling, Running, Transfer,
    diskVars, wantVars, gateVars, stateVars, remoteVars, cmdVars, workerVars, counters
<1>1. CASE CompileBegin
  BY <1>1 DEF CompileBegin
<1>2. CASE CompileReadPin
  BY <1>2 DEF CompileReadPin
<1>3. CASE RenameStage
  <2>1. job.gen \in Gens
    BY <1>3 DEF RenameStage
  <2>2. gens' \in SUBSET Gens
    BY <1>3, <2>1 DEF RenameStage
  <2> QED
    BY <1>3, <2>2 DEF RenameStage
<1>4. CASE ReplacePointer
  BY <1>4 DEF ReplacePointer
<1>5. CASE CollectGarbage
  BY <1>5 DEF CollectGarbage, Garbage
<1>6. CASE FinishCompilerRun
  BY <1>6 DEF FinishCompilerRun, Desire
<1>7. CASE MarkCompilerClean
  BY <1>7 DEF MarkCompilerClean, Desire
<1>8. CASE CleanReadPin
  BY <1>8 DEF CleanReadPin
<1>9. CASE CleanUnlink
  BY <1>9 DEF CleanUnlink
<1>10. CASE CleanRemove
  BY <1>10 DEF CleanRemove
<1>11. CASE CleanFinish
  BY <1>11 DEF CleanFinish
<1>12. CASE CommandBreaks
  BY <1>12 DEF CommandBreaks, Garbage
<1>13. CASE SetProfileEnabled
  BY <1>13 DEF SetProfileEnabled
<1>14. CASE WorkerStart
  BY <1>14 DEF WorkerStart
<1>15. CASE ClaimDerivedRun
  BY <1>15 DEF ClaimDerivedRun, TargetKey
<1>16. CASE Verify
  <2>1. run.key \in {"none", "absent", "generation"} \X (Gens \cup {None}) \X Nat
    OBVIOUS
  <2>2. CASE run.kind = "publish" /\ run.gen \notin gens
    <3>1. FinishDerivedRunFailure("terminal")
      BY <1>16, <2>2 DEF Verify
    <3>2. dstate' \in {dstate, "failed"} /\ gate' \in {gate, "terminal"} /\ gateKey' \in {gateKey, run.key}
      BY <3>1 DEF FinishDerivedRunFailure
    <3>3. UNCHANGED <<diskVars, wantVars, rstate, published, clean, enabled, remoteVars,
                     cmdVars, counters>>
      BY <1>16, <2>2, <3>1 DEF Verify, FinishDerivedRunFailure
    <3>4. wpc' = "idle" /\ run' = NoRun /\ lock' = "free" /\ pin' = None
      BY <1>16, <2>2, <3>1 DEF Verify, FinishDerivedRunFailure
    <3> QED
      BY <2>1, <3>2, <3>3, <3>4
  <2>3. CASE ~(run.kind = "publish" /\ run.gen \notin gens)
    <3>1. wpc' \in Transfer /\ lock' \in {"free", "command", "worker"}
      BY <1>16, <2>3 DEF Verify
    <3>2. UNCHANGED <<diskVars, wantVars, dstate, stateVars, clean, enabled, remoteVars,
                     cmdVars, run, counters>>
      BY <1>16, <2>3 DEF Verify
    <3> QED
      BY <3>1, <3>2
  <2> QED
    BY <2>2, <2>3
<1>17. CASE ValidateOwnership
  <2>1. wpc' \in Transfer \cup {"done"} /\ sidecar' \in BOOLEAN
    BY <1>17 DEF ValidateOwnership
  <2> QED
    BY <1>17, <2>1 DEF ValidateOwnership, unchangedInTransfer
<1>18. CASE StatGeneration
  BY <1>18 DEF StatGeneration, unchangedInTransfer
<1>19. CASE SyncBegin
  BY <1>19 DEF SyncBegin, unchangedInTransfer
<1>20. CASE SyncEnd
  BY <1>20 DEF SyncEnd, unchangedInTransfer
<1>21. CASE Check
  BY <1>21 DEF Check, unchangedInTransfer
<1>22. CASE CommitManifest
  BY <1>22 DEF CommitManifest, unchangedInTransfer
<1>23. CASE PurgeBegin
  BY <1>23 DEF PurgeBegin, unchangedInTransfer
<1>24. CASE PurgeEnd
  BY <1>24 DEF PurgeEnd, unchangedInTransfer
<1>25. CASE FinishDerivedRunSuccess
  BY <1>25 DEF FinishDerivedRunSuccess, FinishedState
<1>26. CASE SettleNothing
  BY <1>26 DEF SettleNothing
<1>27. CASE SettleLock
  BY <1>27 DEF SettleLock
<1>28. CASE SettleUnlink
  BY <1>28 DEF SettleUnlink
<1>29. CASE SettleRemove
  BY <1>29 DEF SettleRemove
<1>30. CASE SettleFinish
  BY <1>30 DEF SettleFinish
<1>31. CASE LosePin
  BY <1>31 DEF LosePin
<1>32. CASE Interrupt
  BY <1>32 DEF Interrupt
<1>33. CASE BackoffOver
  BY <1>33 DEF BackoffOver
<1>34. ASSUME NEW class \in {"backoff", "terminal"}, FailDerivedRun(class)
      PROVE  TypeOK'
  BY <1>34 DEF FailDerivedRun, FinishDerivedRunFailure
<1> QED
  BY <1>1, <1>2, <1>3, <1>4, <1>5, <1>6, <1>7, <1>8, <1>9, <1>10, <1>11, <1>12, <1>13,
     <1>14, <1>15, <1>16, <1>17, <1>18, <1>19, <1>20, <1>21, <1>22, <1>23, <1>24, <1>25,
     <1>26, <1>27, <1>28, <1>29, <1>30, <1>31, <1>32, <1>33, <1>34
  DEF Next, Command, WorkerStep, Publish, Purge, Settle

\* The compiler lock is held by whoever is where the code holds it.
LEMMA LockStep ==
  ASSUME DerivedInv, Next
  PROVE  LockInv'
<1> USE BoundsAssumption DEF DerivedInv, TypeOK, LockInv, Settling, Transfer,
    diskVars, wantVars, gateVars, stateVars, remoteVars, cmdVars, workerVars, counters
<1>1. CASE CompileBegin
  BY <1>1 DEF CompileBegin
<1>2. CASE CompileReadPin
  BY <1>2 DEF CompileReadPin
<1>3. CASE RenameStage
  BY <1>3 DEF RenameStage
<1>4. CASE ReplacePointer
  BY <1>4 DEF ReplacePointer
<1>5. CASE CollectGarbage
  BY <1>5 DEF CollectGarbage, Garbage
<1>6. CASE FinishCompilerRun
  BY <1>6 DEF FinishCompilerRun, Desire
<1>7. CASE MarkCompilerClean
  BY <1>7 DEF MarkCompilerClean, Desire
<1>8. CASE CleanReadPin
  BY <1>8 DEF CleanReadPin
<1>9. CASE CleanUnlink
  BY <1>9 DEF CleanUnlink
<1>10. CASE CleanRemove
  BY <1>10 DEF CleanRemove
<1>11. CASE CleanFinish
  BY <1>11 DEF CleanFinish
<1>12. CASE CommandBreaks
  BY <1>12 DEF CommandBreaks, Garbage
<1>13. CASE SetProfileEnabled
  BY <1>13 DEF SetProfileEnabled
<1>14. CASE WorkerStart
  BY <1>14 DEF WorkerStart
<1>15. CASE ClaimDerivedRun
  BY <1>15 DEF ClaimDerivedRun, TargetKey
<1>16. CASE Verify
  BY <1>16 DEF Verify, FinishDerivedRunFailure
<1>17. CASE ValidateOwnership
  BY <1>17 DEF ValidateOwnership, unchangedInTransfer, Empty
<1>18. CASE StatGeneration
  BY <1>18 DEF StatGeneration, unchangedInTransfer
<1>19. CASE SyncBegin
  BY <1>19 DEF SyncBegin, unchangedInTransfer
<1>20. CASE SyncEnd
  BY <1>20 DEF SyncEnd, unchangedInTransfer
<1>21. CASE Check
  BY <1>21 DEF Check, unchangedInTransfer
<1>22. CASE CommitManifest
  BY <1>22 DEF CommitManifest, unchangedInTransfer
<1>23. CASE PurgeBegin
  BY <1>23 DEF PurgeBegin, unchangedInTransfer
<1>24. CASE PurgeEnd
  BY <1>24 DEF PurgeEnd, unchangedInTransfer
<1>25. CASE FinishDerivedRunSuccess
  BY <1>25 DEF FinishDerivedRunSuccess, FinishedState
<1>26. CASE SettleNothing
  BY <1>26 DEF SettleNothing
<1>27. CASE SettleLock
  BY <1>27 DEF SettleLock
<1>28. CASE SettleUnlink
  BY <1>28 DEF SettleUnlink
<1>29. CASE SettleRemove
  BY <1>29 DEF SettleRemove
<1>30. CASE SettleFinish
  BY <1>30 DEF SettleFinish
<1>31. CASE LosePin
  BY <1>31 DEF LosePin
<1>32. CASE Interrupt
  BY <1>32 DEF Interrupt
<1>33. CASE BackoffOver
  BY <1>33 DEF BackoffOver
<1>34. ASSUME NEW class \in {"backoff", "terminal"}, FailDerivedRun(class)
      PROVE  LockInv'
  BY <1>34 DEF FailDerivedRun, FinishDerivedRunFailure
<1> QED
  BY <1>1, <1>2, <1>3, <1>4, <1>5, <1>6, <1>7, <1>8, <1>9, <1>10, <1>11, <1>12, <1>13,
     <1>14, <1>15, <1>16, <1>17, <1>18, <1>19, <1>20, <1>21, <1>22, <1>23, <1>24, <1>25,
     <1>26, <1>27, <1>28, <1>29, <1>30, <1>31, <1>32, <1>33, <1>34
  DEF Next, Command, WorkerStep, Publish, Purge, Settle

\* Every new desire was paid for by a compile or a clean.
LEMMA RevStep ==
  ASSUME DerivedInv, Next
  PROVE  RevInv'
<1> USE BoundsAssumption DEF DerivedInv, TypeOK, RevInv, JobInv, Compiling, Cleaning,
    diskVars, wantVars, gateVars, stateVars, remoteVars, cmdVars, workerVars, counters
<1>1. CASE CompileBegin
  BY <1>1 DEF CompileBegin
<1>2. CASE CompileReadPin
  BY <1>2 DEF CompileReadPin
<1>3. CASE RenameStage
  BY <1>3 DEF RenameStage
<1>4. CASE ReplacePointer
  BY <1>4 DEF ReplacePointer
<1>5. CASE CollectGarbage
  BY <1>5 DEF CollectGarbage, Garbage
<1>6. CASE FinishCompilerRun
  BY <1>6 DEF FinishCompilerRun, Desire
<1>7. CASE MarkCompilerClean
  BY <1>7 DEF MarkCompilerClean, Desire
<1>8. CASE CleanReadPin
  BY <1>8 DEF CleanReadPin
<1>9. CASE CleanUnlink
  BY <1>9 DEF CleanUnlink
<1>10. CASE CleanRemove
  BY <1>10 DEF CleanRemove
<1>11. CASE CleanFinish
  BY <1>11 DEF CleanFinish
<1>12. CASE CommandBreaks
  BY <1>12 DEF CommandBreaks, Garbage
<1>13. CASE SetProfileEnabled
  BY <1>13 DEF SetProfileEnabled
<1>14. CASE WorkerStart
  BY <1>14 DEF WorkerStart
<1>15. CASE ClaimDerivedRun
  BY <1>15 DEF ClaimDerivedRun, TargetKey
<1>16. CASE Verify
  BY <1>16 DEF Verify, FinishDerivedRunFailure
<1>17. CASE ValidateOwnership
  BY <1>17 DEF ValidateOwnership, unchangedInTransfer, Empty
<1>18. CASE StatGeneration
  BY <1>18 DEF StatGeneration, unchangedInTransfer
<1>19. CASE SyncBegin
  BY <1>19 DEF SyncBegin, unchangedInTransfer
<1>20. CASE SyncEnd
  BY <1>20 DEF SyncEnd, unchangedInTransfer
<1>21. CASE Check
  BY <1>21 DEF Check, unchangedInTransfer
<1>22. CASE CommitManifest
  BY <1>22 DEF CommitManifest, unchangedInTransfer
<1>23. CASE PurgeBegin
  BY <1>23 DEF PurgeBegin, unchangedInTransfer
<1>24. CASE PurgeEnd
  BY <1>24 DEF PurgeEnd, unchangedInTransfer
<1>25. CASE FinishDerivedRunSuccess
  BY <1>25 DEF FinishDerivedRunSuccess, FinishedState
<1>26. CASE SettleNothing
  BY <1>26 DEF SettleNothing
<1>27. CASE SettleLock
  BY <1>27 DEF SettleLock
<1>28. CASE SettleUnlink
  BY <1>28 DEF SettleUnlink
<1>29. CASE SettleRemove
  BY <1>29 DEF SettleRemove
<1>30. CASE SettleFinish
  BY <1>30 DEF SettleFinish
<1>31. CASE LosePin
  BY <1>31 DEF LosePin
<1>32. CASE Interrupt
  BY <1>32 DEF Interrupt
<1>33. CASE BackoffOver
  BY <1>33 DEF BackoffOver
<1>34. ASSUME NEW class \in {"backoff", "terminal"}, FailDerivedRun(class)
      PROVE  RevInv'
  BY <1>34 DEF FailDerivedRun, FinishDerivedRunFailure
<1> QED
  BY <1>1, <1>2, <1>3, <1>4, <1>5, <1>6, <1>7, <1>8, <1>9, <1>10, <1>11, <1>12, <1>13,
     <1>14, <1>15, <1>16, <1>17, <1>18, <1>19, <1>20, <1>21, <1>22, <1>23, <1>24, <1>25,
     <1>26, <1>27, <1>28, <1>29, <1>30, <1>31, <1>32, <1>33, <1>34
  DEF Next, Command, WorkerStep, Publish, Purge, Settle

\* A command knows what it has written and what its clean has marked.
LEMMA JobStep ==
  ASSUME DerivedInv, Next
  PROVE  JobInv'
<1> USE BoundsAssumption DEF DerivedInv, TypeOK, LockInv, JobInv, RunInv, Compiling,
    Cleaning, Settling, Transfer, Running,
    diskVars, wantVars, gateVars, stateVars, remoteVars, cmdVars, workerVars, counters
<1>1. CASE CompileBegin
  BY <1>1 DEF CompileBegin
<1>2. CASE CompileReadPin
  BY <1>2 DEF CompileReadPin
<1>3. CASE RenameStage
  BY <1>3 DEF RenameStage
<1>4. CASE ReplacePointer
  BY <1>4 DEF ReplacePointer
<1>5. CASE CollectGarbage
  BY <1>5 DEF CollectGarbage, Garbage
<1>6. CASE FinishCompilerRun
  BY <1>6 DEF FinishCompilerRun, Desire
<1>7. CASE MarkCompilerClean
  BY <1>7 DEF MarkCompilerClean, Desire
<1>8. CASE CleanReadPin
  BY <1>8 DEF CleanReadPin
<1>9. CASE CleanUnlink
  BY <1>9 DEF CleanUnlink
<1>10. CASE CleanRemove
  BY <1>10 DEF CleanRemove
<1>11. CASE CleanFinish
  BY <1>11 DEF CleanFinish
<1>12. CASE CommandBreaks
  BY <1>12 DEF CommandBreaks, Garbage
<1>13. CASE SetProfileEnabled
  BY <1>13 DEF SetProfileEnabled
<1>14. CASE WorkerStart
  BY <1>14 DEF WorkerStart
<1>15. CASE ClaimDerivedRun
  BY <1>15 DEF ClaimDerivedRun, TargetKey
<1>16. CASE Verify
  BY <1>16 DEF Verify, FinishDerivedRunFailure
<1>17. CASE ValidateOwnership
  BY <1>17 DEF ValidateOwnership, unchangedInTransfer, Empty
<1>18. CASE StatGeneration
  BY <1>18 DEF StatGeneration, unchangedInTransfer
<1>19. CASE SyncBegin
  BY <1>19 DEF SyncBegin, unchangedInTransfer
<1>20. CASE SyncEnd
  BY <1>20 DEF SyncEnd, unchangedInTransfer
<1>21. CASE Check
  BY <1>21 DEF Check, unchangedInTransfer
<1>22. CASE CommitManifest
  BY <1>22 DEF CommitManifest, unchangedInTransfer
<1>23. CASE PurgeBegin
  BY <1>23 DEF PurgeBegin, unchangedInTransfer
<1>24. CASE PurgeEnd
  BY <1>24 DEF PurgeEnd, unchangedInTransfer
<1>25. CASE FinishDerivedRunSuccess
  BY <1>25 DEF FinishDerivedRunSuccess, FinishedState
<1>26. CASE SettleNothing
  BY <1>26 DEF SettleNothing
<1>27. CASE SettleLock
  BY <1>27 DEF SettleLock
<1>28. CASE SettleUnlink
  BY <1>28 DEF SettleUnlink
<1>29. CASE SettleRemove
  BY <1>29 DEF SettleRemove
<1>30. CASE SettleFinish
  BY <1>30 DEF SettleFinish
<1>31. CASE LosePin
  BY <1>31 DEF LosePin
<1>32. CASE Interrupt
  BY <1>32 DEF Interrupt
<1>33. CASE BackoffOver
  BY <1>33 DEF BackoffOver
<1>34. ASSUME NEW class \in {"backoff", "terminal"}, FailDerivedRun(class)
      PROVE  JobInv'
  BY <1>34 DEF FailDerivedRun, FinishDerivedRunFailure
<1> QED
  BY <1>1, <1>2, <1>3, <1>4, <1>5, <1>6, <1>7, <1>8, <1>9, <1>10, <1>11, <1>12, <1>13,
     <1>14, <1>15, <1>16, <1>17, <1>18, <1>19, <1>20, <1>21, <1>22, <1>23, <1>24, <1>25,
     <1>26, <1>27, <1>28, <1>29, <1>30, <1>31, <1>32, <1>33, <1>34
  DEF Next, Command, WorkerStep, Publish, Purge, Settle

\* A run knows its kind and generation; the finalisation works under a clean's mark.
LEMMA RunStep ==
  ASSUME DerivedInv, Next
  PROVE  RunInv'
<1> USE BoundsAssumption DEF DerivedInv, TypeOK, LockInv, JobInv, RunInv, Compiling,
    Cleaning, Settling, Transfer, Running, Publishing,
    diskVars, wantVars, gateVars, stateVars, remoteVars, cmdVars, workerVars, counters
<1>1. CASE CompileBegin
  BY <1>1 DEF CompileBegin
<1>2. CASE CompileReadPin
  BY <1>2 DEF CompileReadPin
<1>3. CASE RenameStage
  BY <1>3 DEF RenameStage
<1>4. CASE ReplacePointer
  BY <1>4 DEF ReplacePointer
<1>5. CASE CollectGarbage
  BY <1>5 DEF CollectGarbage, Garbage
<1>6. CASE FinishCompilerRun
  BY <1>6 DEF FinishCompilerRun, Desire
<1>7. CASE MarkCompilerClean
  BY <1>7 DEF MarkCompilerClean, Desire
<1>8. CASE CleanReadPin
  BY <1>8 DEF CleanReadPin
<1>9. CASE CleanUnlink
  BY <1>9 DEF CleanUnlink
<1>10. CASE CleanRemove
  BY <1>10 DEF CleanRemove
<1>11. CASE CleanFinish
  BY <1>11 DEF CleanFinish
<1>12. CASE CommandBreaks
  BY <1>12 DEF CommandBreaks, Garbage
<1>13. CASE SetProfileEnabled
  BY <1>13 DEF SetProfileEnabled
<1>14. CASE WorkerStart
  BY <1>14 DEF WorkerStart
<1>15. CASE ClaimDerivedRun
  BY <1>15 DEF ClaimDerivedRun, TargetKey
<1>16. CASE Verify
  BY <1>16 DEF Verify, FinishDerivedRunFailure
<1>17. CASE ValidateOwnership
  BY <1>17 DEF ValidateOwnership, unchangedInTransfer, Empty
<1>18. CASE StatGeneration
  BY <1>18 DEF StatGeneration, unchangedInTransfer
<1>19. CASE SyncBegin
  BY <1>19 DEF SyncBegin, unchangedInTransfer
<1>20. CASE SyncEnd
  BY <1>20 DEF SyncEnd, unchangedInTransfer
<1>21. CASE Check
  BY <1>21 DEF Check, unchangedInTransfer
<1>22. CASE CommitManifest
  BY <1>22 DEF CommitManifest, unchangedInTransfer
<1>23. CASE PurgeBegin
  BY <1>23 DEF PurgeBegin, unchangedInTransfer
<1>24. CASE PurgeEnd
  BY <1>24 DEF PurgeEnd, unchangedInTransfer
<1>25. CASE FinishDerivedRunSuccess
  BY <1>25 DEF FinishDerivedRunSuccess, FinishedState
<1>26. CASE SettleNothing
  BY <1>26 DEF SettleNothing
<1>27. CASE SettleLock
  BY <1>27 DEF SettleLock
<1>28. CASE SettleUnlink
  BY <1>28 DEF SettleUnlink
<1>29. CASE SettleRemove
  BY <1>29 DEF SettleRemove
<1>30. CASE SettleFinish
  BY <1>30 DEF SettleFinish
<1>31. CASE LosePin
  BY <1>31 DEF LosePin
<1>32. CASE Interrupt
  BY <1>32 DEF Interrupt
<1>33. CASE BackoffOver
  BY <1>33 DEF BackoffOver
<1>34. ASSUME NEW class \in {"backoff", "terminal"}, FailDerivedRun(class)
      PROVE  RunInv'
  BY <1>34 DEF FailDerivedRun, FinishDerivedRunFailure
<1> QED
  BY <1>1, <1>2, <1>3, <1>4, <1>5, <1>6, <1>7, <1>8, <1>9, <1>10, <1>11, <1>12, <1>13,
     <1>14, <1>15, <1>16, <1>17, <1>18, <1>19, <1>20, <1>21, <1>22, <1>23, <1>24, <1>25,
     <1>26, <1>27, <1>28, <1>29, <1>30, <1>31, <1>32, <1>33, <1>34
  DEF Next, Command, WorkerStep, Publish, Purge, Settle

\* No removal takes the generation the pointer names: the lock keeps the others out.
LEMMA PointerStep ==
  ASSUME DerivedInv, Next
  PROVE  PointerValid'
<1> USE BoundsAssumption DEF DerivedInv, TypeOK, LockInv, JobInv, RunInv, PointerValid,
    Compiling, Cleaning, Settling, Transfer, Running,
    diskVars, wantVars, gateVars, stateVars, remoteVars, cmdVars, workerVars, counters
<1>1. CASE CompileBegin
  BY <1>1 DEF CompileBegin
<1>2. CASE CompileReadPin
  BY <1>2 DEF CompileReadPin
<1>3. CASE RenameStage
  BY <1>3 DEF RenameStage
<1>4. CASE ReplacePointer
  BY <1>4 DEF ReplacePointer
<1>5. CASE CollectGarbage
  BY <1>5 DEF CollectGarbage, Garbage
<1>6. CASE FinishCompilerRun
  BY <1>6 DEF FinishCompilerRun, Desire
<1>7. CASE MarkCompilerClean
  BY <1>7 DEF MarkCompilerClean, Desire
<1>8. CASE CleanReadPin
  BY <1>8 DEF CleanReadPin
<1>9. CASE CleanUnlink
  BY <1>9 DEF CleanUnlink
<1>10. CASE CleanRemove
  BY <1>10 DEF CleanRemove
<1>11. CASE CleanFinish
  BY <1>11 DEF CleanFinish
<1>12. CASE CommandBreaks
  BY <1>12 DEF CommandBreaks, Garbage
<1>13. CASE SetProfileEnabled
  BY <1>13 DEF SetProfileEnabled
<1>14. CASE WorkerStart
  BY <1>14 DEF WorkerStart
<1>15. CASE ClaimDerivedRun
  BY <1>15 DEF ClaimDerivedRun, TargetKey
<1>16. CASE Verify
  BY <1>16 DEF Verify, FinishDerivedRunFailure
<1>17. CASE ValidateOwnership
  BY <1>17 DEF ValidateOwnership, unchangedInTransfer, Empty
<1>18. CASE StatGeneration
  BY <1>18 DEF StatGeneration, unchangedInTransfer
<1>19. CASE SyncBegin
  BY <1>19 DEF SyncBegin, unchangedInTransfer
<1>20. CASE SyncEnd
  BY <1>20 DEF SyncEnd, unchangedInTransfer
<1>21. CASE Check
  BY <1>21 DEF Check, unchangedInTransfer
<1>22. CASE CommitManifest
  BY <1>22 DEF CommitManifest, unchangedInTransfer
<1>23. CASE PurgeBegin
  BY <1>23 DEF PurgeBegin, unchangedInTransfer
<1>24. CASE PurgeEnd
  BY <1>24 DEF PurgeEnd, unchangedInTransfer
<1>25. CASE FinishDerivedRunSuccess
  BY <1>25 DEF FinishDerivedRunSuccess, FinishedState
<1>26. CASE SettleNothing
  BY <1>26 DEF SettleNothing
<1>27. CASE SettleLock
  BY <1>27 DEF SettleLock
<1>28. CASE SettleUnlink
  BY <1>28 DEF SettleUnlink
<1>29. CASE SettleRemove
  BY <1>29 DEF SettleRemove
<1>30. CASE SettleFinish
  BY <1>30 DEF SettleFinish
<1>31. CASE LosePin
  BY <1>31 DEF LosePin
<1>32. CASE Interrupt
  BY <1>32 DEF Interrupt
<1>33. CASE BackoffOver
  BY <1>33 DEF BackoffOver
<1>34. ASSUME NEW class \in {"backoff", "terminal"}, FailDerivedRun(class)
      PROVE  PointerValid'
  BY <1>34 DEF FailDerivedRun, FinishDerivedRunFailure
<1> QED
  BY <1>1, <1>2, <1>3, <1>4, <1>5, <1>6, <1>7, <1>8, <1>9, <1>10, <1>11, <1>12, <1>13,
     <1>14, <1>15, <1>16, <1>17, <1>18, <1>19, <1>20, <1>21, <1>22, <1>23, <1>24, <1>25,
     <1>26, <1>27, <1>28, <1>29, <1>30, <1>31, <1>32, <1>33, <1>34
  DEF Next, Command, WorkerStep, Publish, Purge, Settle

\* Nothing becomes current but what the run has just made of the remote.
LEMMA RemoteStep ==
  ASSUME DerivedInv, RemoteInv, Next
  PROVE  RemoteInv'
<1> USE BoundsAssumption DEF DerivedInv, TypeOK, JobInv, RunInv, RemoteInv,
    CurrentIsTrue, Empty, Running, Publishing, Transfer,
    diskVars, wantVars, gateVars, stateVars, remoteVars, cmdVars, workerVars, counters
<1>1. CASE CompileBegin
  BY <1>1 DEF CompileBegin
<1>2. CASE CompileReadPin
  BY <1>2 DEF CompileReadPin
<1>3. CASE RenameStage
  BY <1>3 DEF RenameStage
<1>4. CASE ReplacePointer
  BY <1>4 DEF ReplacePointer
<1>5. CASE CollectGarbage
  BY <1>5 DEF CollectGarbage, Garbage
<1>6. CASE FinishCompilerRun
  BY <1>6 DEF FinishCompilerRun, Desire
<1>7. CASE MarkCompilerClean
  BY <1>7 DEF MarkCompilerClean, Desire
<1>8. CASE CleanReadPin
  BY <1>8 DEF CleanReadPin
<1>9. CASE CleanUnlink
  BY <1>9 DEF CleanUnlink
<1>10. CASE CleanRemove
  BY <1>10 DEF CleanRemove
<1>11. CASE CleanFinish
  BY <1>11 DEF CleanFinish
<1>12. CASE CommandBreaks
  BY <1>12 DEF CommandBreaks, Garbage
<1>13. CASE SetProfileEnabled
  BY <1>13 DEF SetProfileEnabled
<1>14. CASE WorkerStart
  BY <1>14 DEF WorkerStart
<1>15. CASE ClaimDerivedRun
  BY <1>15 DEF ClaimDerivedRun, TargetKey
<1>16. CASE Verify
  BY <1>16 DEF Verify, FinishDerivedRunFailure
<1>17. CASE ValidateOwnership
  BY <1>17 DEF ValidateOwnership, unchangedInTransfer, Empty
<1>18. CASE StatGeneration
  BY <1>18 DEF StatGeneration, unchangedInTransfer
<1>19. CASE SyncBegin
  BY <1>19 DEF SyncBegin, unchangedInTransfer
<1>20. CASE SyncEnd
  BY <1>20 DEF SyncEnd, unchangedInTransfer
<1>21. CASE Check
  BY <1>21 DEF Check, unchangedInTransfer
<1>22. CASE CommitManifest
  BY <1>22 DEF CommitManifest, unchangedInTransfer
<1>23. CASE PurgeBegin
  BY <1>23 DEF PurgeBegin, unchangedInTransfer
<1>24. CASE PurgeEnd
  BY <1>24 DEF PurgeEnd, unchangedInTransfer
<1>25. CASE FinishDerivedRunSuccess
  BY <1>25 DEF FinishDerivedRunSuccess, FinishedState
<1>26. CASE SettleNothing
  BY <1>26 DEF SettleNothing
<1>27. CASE SettleLock
  BY <1>27 DEF SettleLock
<1>28. CASE SettleUnlink
  BY <1>28 DEF SettleUnlink
<1>29. CASE SettleRemove
  BY <1>29 DEF SettleRemove
<1>30. CASE SettleFinish
  BY <1>30 DEF SettleFinish
<1>31. CASE LosePin
  BY <1>31 DEF LosePin
<1>32. CASE Interrupt
  BY <1>32 DEF Interrupt
<1>33. CASE BackoffOver
  BY <1>33 DEF BackoffOver
<1>34. ASSUME NEW class \in {"backoff", "terminal"}, FailDerivedRun(class)
      PROVE  RemoteInv'
  BY <1>34 DEF FailDerivedRun, FinishDerivedRunFailure
<1> QED
  BY <1>1, <1>2, <1>3, <1>4, <1>5, <1>6, <1>7, <1>8, <1>9, <1>10, <1>11, <1>12, <1>13,
     <1>14, <1>15, <1>16, <1>17, <1>18, <1>19, <1>20, <1>21, <1>22, <1>23, <1>24, <1>25,
     <1>26, <1>27, <1>28, <1>29, <1>30, <1>31, <1>32, <1>33, <1>34
  DEF Next, Command, WorkerStep, Publish, Purge, Settle

\* Every command that removes something has read the pin of the run in progress.
LEMMA PinStep ==
  ASSUME DerivedInv, PinInv, ReadsFail = FALSE, Next
  PROVE  PinInv'
<1> USE BoundsAssumption DEF DerivedInv, TypeOK, LockInv, JobInv, RunInv, PinInv,
    PinnedGenerationKept, Held, Compiling, Cleaning, Settling, Running, Publishing,
    Transfer,
    diskVars, wantVars, gateVars, stateVars, remoteVars, cmdVars, workerVars, counters
<1>1. CASE CompileBegin
  BY <1>1 DEF CompileBegin
<1>2. CASE CompileReadPin
  BY <1>2 DEF CompileReadPin
<1>3. CASE RenameStage
  BY <1>3 DEF RenameStage
<1>4. CASE ReplacePointer
  BY <1>4 DEF ReplacePointer
<1>5. CASE CollectGarbage
  BY <1>5 DEF CollectGarbage, Garbage
<1>6. CASE FinishCompilerRun
  BY <1>6 DEF FinishCompilerRun, Desire
<1>7. CASE MarkCompilerClean
  BY <1>7 DEF MarkCompilerClean, Desire
<1>8. CASE CleanReadPin
  BY <1>8 DEF CleanReadPin
<1>9. CASE CleanUnlink
  BY <1>9 DEF CleanUnlink
<1>10. CASE CleanRemove
  BY <1>10 DEF CleanRemove
<1>11. CASE CleanFinish
  BY <1>11 DEF CleanFinish
<1>12. CASE CommandBreaks
  BY <1>12 DEF CommandBreaks, Garbage
<1>13. CASE SetProfileEnabled
  BY <1>13 DEF SetProfileEnabled
<1>14. CASE WorkerStart
  BY <1>14 DEF WorkerStart
<1>15. CASE ClaimDerivedRun
  BY <1>15 DEF ClaimDerivedRun, TargetKey
<1>16. CASE Verify
  BY <1>16 DEF Verify, FinishDerivedRunFailure
<1>17. CASE ValidateOwnership
  BY <1>17 DEF ValidateOwnership, unchangedInTransfer, Empty
<1>18. CASE StatGeneration
  BY <1>18 DEF StatGeneration, unchangedInTransfer
<1>19. CASE SyncBegin
  BY <1>19 DEF SyncBegin, unchangedInTransfer
<1>20. CASE SyncEnd
  BY <1>20 DEF SyncEnd, unchangedInTransfer
<1>21. CASE Check
  BY <1>21 DEF Check, unchangedInTransfer
<1>22. CASE CommitManifest
  BY <1>22 DEF CommitManifest, unchangedInTransfer
<1>23. CASE PurgeBegin
  BY <1>23 DEF PurgeBegin, unchangedInTransfer
<1>24. CASE PurgeEnd
  BY <1>24 DEF PurgeEnd, unchangedInTransfer
<1>25. CASE FinishDerivedRunSuccess
  BY <1>25 DEF FinishDerivedRunSuccess, FinishedState
<1>26. CASE SettleNothing
  BY <1>26 DEF SettleNothing
<1>27. CASE SettleLock
  BY <1>27 DEF SettleLock
<1>28. CASE SettleUnlink
  BY <1>28 DEF SettleUnlink
<1>29. CASE SettleRemove
  BY <1>29 DEF SettleRemove
<1>30. CASE SettleFinish
  BY <1>30 DEF SettleFinish
<1>31. CASE LosePin
  BY <1>31 DEF LosePin
<1>32. CASE Interrupt
  BY <1>32 DEF Interrupt
<1>33. CASE BackoffOver
  BY <1>33 DEF BackoffOver
<1>34. ASSUME NEW class \in {"backoff", "terminal"}, FailDerivedRun(class)
      PROVE  PinInv'
  BY <1>34 DEF FailDerivedRun, FinishDerivedRunFailure
<1> QED
  BY <1>1, <1>2, <1>3, <1>4, <1>5, <1>6, <1>7, <1>8, <1>9, <1>10, <1>11, <1>12, <1>13,
     <1>14, <1>15, <1>16, <1>17, <1>18, <1>19, <1>20, <1>21, <1>22, <1>23, <1>24, <1>25,
     <1>26, <1>27, <1>28, <1>29, <1>30, <1>31, <1>32, <1>33, <1>34
  DEF Next, Command, WorkerStep, Publish, Purge, Settle

\* A step that removes the desired generation is a clean's or a collection.
LEMMA DesiredStep ==
  ASSUME DerivedInv, Next, want \in gens
  PROVE  want \in gens' \/ mode = "absent" \/ clean = "committing" \/ Unrecorded
<1> USE BoundsAssumption DEF DerivedInv, JobInv, RunInv, Unrecorded, Cleaning, Settling,
    diskVars, wantVars, gateVars, stateVars, remoteVars, cmdVars, workerVars, counters
<1>1. CASE CompileBegin
  BY <1>1 DEF CompileBegin
<1>2. CASE CompileReadPin
  BY <1>2 DEF CompileReadPin
<1>3. CASE RenameStage
  BY <1>3 DEF RenameStage
<1>4. CASE ReplacePointer
  BY <1>4 DEF ReplacePointer
<1>5. CASE CollectGarbage
  BY <1>5 DEF CollectGarbage, Garbage
<1>6. CASE FinishCompilerRun
  BY <1>6 DEF FinishCompilerRun, Desire
<1>7. CASE MarkCompilerClean
  BY <1>7 DEF MarkCompilerClean, Desire
<1>8. CASE CleanReadPin
  BY <1>8 DEF CleanReadPin
<1>9. CASE CleanUnlink
  BY <1>9 DEF CleanUnlink
<1>10. CASE CleanRemove
  BY <1>10 DEF CleanRemove
<1>11. CASE CleanFinish
  BY <1>11 DEF CleanFinish
<1>12. CASE CommandBreaks
  BY <1>12 DEF CommandBreaks, Garbage
<1>13. CASE SetProfileEnabled
  BY <1>13 DEF SetProfileEnabled
<1>14. CASE WorkerStart
  BY <1>14 DEF WorkerStart
<1>15. CASE ClaimDerivedRun
  BY <1>15 DEF ClaimDerivedRun, TargetKey
<1>16. CASE Verify
  BY <1>16 DEF Verify, FinishDerivedRunFailure
<1>17. CASE ValidateOwnership
  BY <1>17 DEF ValidateOwnership, unchangedInTransfer, Empty
<1>18. CASE StatGeneration
  BY <1>18 DEF StatGeneration, unchangedInTransfer
<1>19. CASE SyncBegin
  BY <1>19 DEF SyncBegin, unchangedInTransfer
<1>20. CASE SyncEnd
  BY <1>20 DEF SyncEnd, unchangedInTransfer
<1>21. CASE Check
  BY <1>21 DEF Check, unchangedInTransfer
<1>22. CASE CommitManifest
  BY <1>22 DEF CommitManifest, unchangedInTransfer
<1>23. CASE PurgeBegin
  BY <1>23 DEF PurgeBegin, unchangedInTransfer
<1>24. CASE PurgeEnd
  BY <1>24 DEF PurgeEnd, unchangedInTransfer
<1>25. CASE FinishDerivedRunSuccess
  BY <1>25 DEF FinishDerivedRunSuccess, FinishedState
<1>26. CASE SettleNothing
  BY <1>26 DEF SettleNothing
<1>27. CASE SettleLock
  BY <1>27 DEF SettleLock
<1>28. CASE SettleUnlink
  BY <1>28 DEF SettleUnlink
<1>29. CASE SettleRemove
  BY <1>29 DEF SettleRemove
<1>30. CASE SettleFinish
  BY <1>30 DEF SettleFinish
<1>31. CASE LosePin
  BY <1>31 DEF LosePin
<1>32. CASE Interrupt
  BY <1>32 DEF Interrupt
<1>33. CASE BackoffOver
  BY <1>33 DEF BackoffOver
<1>34. ASSUME NEW class \in {"backoff", "terminal"}, FailDerivedRun(class)
      PROVE  want \in gens' \/ mode = "absent" \/ clean = "committing" \/ Unrecorded
  BY <1>34 DEF FailDerivedRun, FinishDerivedRunFailure
<1> QED
  BY <1>1, <1>2, <1>3, <1>4, <1>5, <1>6, <1>7, <1>8, <1>9, <1>10, <1>11, <1>12, <1>13,
     <1>14, <1>15, <1>16, <1>17, <1>18, <1>19, <1>20, <1>21, <1>22, <1>23, <1>24, <1>25,
     <1>26, <1>27, <1>28, <1>29, <1>30, <1>31, <1>32, <1>33, <1>34
  DEF Next, Command, WorkerStep, Publish, Purge, Settle

-----------------------------------------------------------------------------

LEMMA Stuttered ==
  ASSUME DerivedInv, UNCHANGED vars
  PROVE  DerivedInv'
BY DEF vars, diskVars, wantVars, gateVars, stateVars, remoteVars, cmdVars, workerVars,
   counters, DerivedInv, TypeOK, LockInv, RevInv, JobInv, RunInv, PointerValid, Compiling,
   Cleaning, Settling, Running, Publishing, Transfer

LEMMA RemoteStuttered ==
  ASSUME RemoteInv, UNCHANGED vars
  PROVE  RemoteInv'
BY DEF vars, diskVars, wantVars, gateVars, stateVars, remoteVars, cmdVars, workerVars,
   counters, RemoteInv, CurrentIsTrue, Empty, Running, Transfer

LEMMA PinStuttered ==
  ASSUME PinInv, UNCHANGED vars
  PROVE  PinInv'
BY DEF vars, diskVars, wantVars, gateVars, stateVars, remoteVars, cmdVars, workerVars,
   counters, PinInv, PinnedGenerationKept, Held, Transfer

LEMMA DerivedInduction == DerivedInv /\ [Next]_vars => DerivedInv'
<1> SUFFICES ASSUME DerivedInv, [Next]_vars PROVE DerivedInv'
  OBVIOUS
<1>1. CASE Next
  BY <1>1, TypeStep, LockStep, RevStep, JobStep, RunStep, PointerStep DEF DerivedInv
<1>2. CASE UNCHANGED vars
  BY <1>2, Stuttered
<1> QED
  BY <1>1, <1>2

LEMMA DerivedHolds == Spec => []DerivedInv
BY Started, DerivedInduction, PTL DEF Spec

\* Every reachable state is well typed: no compile, clean or run leaves its bounds.
THEOREM DerivedTyped == Spec => []TypeOK
<1>1. DerivedInv => TypeOK
  BY DEF DerivedInv
<1> QED
  BY <1>1, DerivedHolds, PTL

\* "root pointer never names a partial generation": the pointer names a generation
\* that is whole and on the disk at every moment of a compile, a collection, a clean
\* and the worker's finalisation, whichever of them dies (compiler/generation.go).
THEOREM PointerAlwaysValid == Spec => []PointerValid
<1>1. DerivedInv => PointerValid
  BY DEF DerivedInv
<1> QED
  BY <1>1, DerivedHolds, PTL

LEMMA RemoteHolds == Spec => []RemoteInv
<1>1. DerivedInv /\ RemoteInv /\ [Next]_vars => RemoteInv'
  <2> SUFFICES ASSUME DerivedInv, RemoteInv, [Next]_vars PROVE RemoteInv'
    OBVIOUS
  <2>1. CASE Next
    BY <2>1, RemoteStep
  <2>2. CASE UNCHANGED vars
    BY <2>2, RemoteStuttered
  <2> QED
    BY <2>1, <2>2
<1> QED
  BY <1>1, Started, DerivedHolds, PTL DEF Spec

\* What the database calls current is on the remote, whatever failed and whoever
\* died before: FinishDerivedRunSuccess compares with the desire of that moment.
THEOREM CurrentTruth == Spec => []CurrentIsTrue
<1>1. RemoteInv => CurrentIsTrue
  BY DEF RemoteInv
<1> QED
  BY <1>1, RemoteHolds, PTL

\* The generation a worker publishes stays pinned and on the disk, whatever compiles,
\* collections and cleans come during the run, as long as compile reads the pin.
THEOREM PinKept == ASSUME ReadsFail = FALSE PROVE Spec => []PinnedGenerationKept
<1>1. DerivedInv /\ PinInv /\ [Next]_vars => PinInv'
  <2> SUFFICES ASSUME DerivedInv, PinInv, [Next]_vars PROVE PinInv'
    OBVIOUS
  <2>1. CASE Next
    BY <2>1, PinStep
  <2>2. CASE UNCHANGED vars
    BY <2>2, PinStuttered
  <2> QED
    BY <2>1, <2>2
<1>2. PinInv => PinnedGenerationKept
  BY DEF PinInv
<1> QED
  BY <1>1, <1>2, Started, DerivedHolds, PTL DEF Spec

\* The desired generation leaves the disk only by the late finish of a clean, and by
\* collections after compiles that could not be recorded.
THEOREM DesiredStays == Spec => DesiredKept
<1>1. DerivedInv /\ [Next]_vars
        => [(want \in gens) => \/ want \in gens' \/ mode = "absent"
                               \/ clean = "committing" \/ Unrecorded]_vars
  BY DesiredStep
<1> QED
  BY <1>1, DerivedHolds, PTL DEF Spec, DesiredKept

-----------------------------------------------------------------------------
(* Derived implements Publication.                                         *)

\* What counts as current needs no run.
CurrentKnown == dstate = "current" => Current

LEMMA KnownStep ==
  ASSUME DerivedInv, RemoteInv, CurrentKnown, [Next]_vars
  PROVE  CurrentKnown'
<1> USE DEF CurrentKnown, Current, wantVars, stateVars
<1>1. ASSUME dstate' # "current" \/ UNCHANGED <<dstate, mode, want, rstate, published>>
      PROVE  CurrentKnown'
  BY <1>1
<1>2. CASE FinishDerivedRunSuccess
  <2>1. /\ wpc \in Running /\ UNCHANGED <<mode, want>> /\ published' = run.gen
        /\ rstate' = IF run.kind = "purge" THEN "absent" ELSE "generation"
        /\ \/ run.kind = "publish" /\ run.gen \in Gens
           \/ run.kind = "purge" /\ run.gen = None
    BY <1>2 DEF FinishDerivedRunSuccess, DerivedInv, RunInv, Running
  <2> QED
    BY <1>2, <2>1 DEF FinishDerivedRunSuccess, FinishedState
<1>3. CASE FinishCompilerRun \/ MarkCompilerClean \/ ClaimDerivedRun
  BY <1>1, <1>3 DEF FinishCompilerRun, MarkCompilerClean, ClaimDerivedRun, Desire
<1>4. CASE SetProfileEnabled
  BY <1>1, <1>4 DEF SetProfileEnabled
<1>5. CASE WorkerStart
  BY <1>1, <1>5 DEF WorkerStart
<1>6. CASE Verify \/ \E class \in {"backoff", "terminal"} : FailDerivedRun(class)
  <2>1. wpc \in Running
    BY <1>6 DEF Verify, FailDerivedRun, Running
  <2>2. dstate' = "failed" \/ dstate' = dstate
    BY <1>6 DEF Verify, FailDerivedRun, FinishDerivedRunFailure
  <2> QED
    BY <1>1, <2>1, <2>2 DEF RemoteInv
<1>7. CASE ValidateOwnership \/ Publish \/ Purge
  BY <1>1, <1>7 DEF ValidateOwnership, Publish, StatGeneration, SyncBegin, SyncEnd,
     Check, CommitManifest, Purge, PurgeBegin, PurgeEnd, unchangedInTransfer
<1>8. CASE \/ CompileBegin \/ CompileReadPin \/ RenameStage \/ ReplacePointer
           \/ CollectGarbage \/ CleanReadPin \/ CleanUnlink \/ CleanRemove
           \/ CleanFinish \/ CommandBreaks \/ BackoffOver \/ UNCHANGED vars
  BY <1>1, <1>8 DEF CompileBegin, CompileReadPin, RenameStage, ReplacePointer,
     CollectGarbage, CleanReadPin, CleanUnlink, CleanRemove, CleanFinish,
     CommandBreaks, BackoffOver, vars
<1>9. CASE LosePin \/ Interrupt \/ Settle
  BY <1>1, <1>9 DEF LosePin, Interrupt, Settle, SettleNothing, SettleLock,
     SettleUnlink, SettleRemove, SettleFinish
<1> QED
  BY <1>2, <1>3, <1>4, <1>5, <1>6, <1>7, <1>8, <1>9 DEF Next, Command, WorkerStep

\* The run, as Publication sees it.
Attempted == IF run = NoRun THEN {} ELSE {run.gen}

LEMMA AttemptedFacts ==
  ASSUME DerivedInv
  PROVE  /\ wpc \in Running => Attempted = {run.gen}
         /\ wpc \notin Running => Attempted = {}
BY DEF DerivedInv, RunInv, Attempted

\* A step of a transfer changes the remote alone.
LEMMA TransferStep ==
  ASSUME DerivedInv, RemoteInv, Publish \/ Purge
  PROVE  Promise!Next \/ UNCHANGED Promise!vars
<1>1. /\ UNCHANGED <<want, dstate, run>> /\ wpc \in Running
      /\ Attempted = {run.gen}
  <2>1. UNCHANGED <<want, dstate, run>> /\ wpc \in Running
    BY DEF Publish, StatGeneration, SyncBegin, SyncEnd, Check, CommitManifest, Purge,
       PurgeBegin, PurgeEnd, unchangedInTransfer, wantVars, Running, Transfer
  <2> QED
    BY <2>1, AttemptedFacts
<1>2. Shown' \in {Shown, run.gen, Mixed}
  <2> USE DEF DerivedInv, TypeOK, RunInv, RemoteInv, Shown, Publishing, remoteVars
  <2>1. CASE StatGeneration \/ Check
    BY <2>1 DEF StatGeneration, Check
  <2>2. CASE SyncBegin
    BY <2>2 DEF SyncBegin
  <2>3. CASE SyncEnd
    BY <2>3 DEF SyncEnd
  <2>4. CASE CommitManifest
    BY <2>4 DEF CommitManifest
  <2>5. CASE PurgeBegin
    BY <2>5 DEF PurgeBegin
  <2>6. CASE PurgeEnd
    <3>1. run.gen = None
      BY <2>6 DEF PurgeEnd, Running
    <3> QED
      BY <2>6, <3>1 DEF PurgeEnd
  <2> QED
    BY <2>1, <2>2, <2>3, <2>4, <2>5, <2>6 DEF Publish, Purge
<1> HIDE DEF Shown
<1> QED
  BY <1>1, <1>2 DEF Promise!Next, Promise!Transfer, Promise!vars, Attempted

LEMMA PublicationStep ==
  ASSUME DerivedInv, DerivedInv', RemoteInv, CurrentKnown, [Next]_vars
  PROVE  Promise!Next \/ UNCHANGED Promise!vars
<1>0. /\ wpc \in Running => Attempted = {run.gen}
      /\ wpc \notin Running => Attempted = {}
      /\ wpc' \in Running => Attempted' = {run'.gen}
      /\ wpc' \notin Running => Attempted' = {}
  BY AttemptedFacts DEF DerivedInv, RunInv, Attempted, Running, Transfer
<1>1. ASSUME UNCHANGED <<want, details, manifest, run>>,
             (dstate' = "current") <=> (dstate = "current")
      PROVE  UNCHANGED Promise!vars
  BY <1>1 DEF Promise!vars, Shown
<1>2. ASSUME UNCHANGED <<details, manifest, run>>, dstate' # "current"
      PROVE  Promise!Ask
  <2>1. want' \in Gens \cup {None}
    BY DEF DerivedInv, TypeOK
  <2> QED
    BY <1>2, <2>1 DEF Promise!Ask, Shown
<1>3. CASE FinishCompilerRun \/ MarkCompilerClean
  BY <1>2, <1>3 DEF FinishCompilerRun, MarkCompilerClean, Desire, Promise!Next,
     remoteVars, workerVars
<1>4. CASE SetProfileEnabled
  <2>1. UNCHANGED <<want, details, manifest, run>>
    BY <1>4 DEF SetProfileEnabled, wantVars, remoteVars, workerVars
  <2> QED
    BY <1>1, <1>2, <1>4, <2>1 DEF SetProfileEnabled, Promise!Next
<1>5. CASE WorkerStart
  BY <1>1, <1>5 DEF WorkerStart, wantVars, remoteVars
<1>6. CASE ClaimDerivedRun
  <2>1. dstate # "current" /\ wpc \notin Running /\ wpc' \in Running
    BY <1>6 DEF ClaimDerivedRun, CurrentKnown, Running, Transfer
  <2>2. /\ run'.gen = want /\ dstate' # "current"
        /\ UNCHANGED <<want, details, manifest>>
    BY <1>6 DEF ClaimDerivedRun, wantVars, remoteVars
  <2>3. Attempted = {} /\ Attempted' = {want}
    BY <1>0, <2>1, <2>2
  <2> QED
    BY <2>1, <2>2, <2>3 DEF Promise!Next, Promise!Begin, Attempted, Shown
<1>7. ASSUME wpc \in Running, wpc' \notin Running, want' = want, dstate' # "current",
             Shown' \in {Shown, run.gen}
      PROVE  Promise!Next
  <2>1. Attempted = {run.gen} /\ Attempted' = {}
    BY <1>0, <1>7
  <2>2. dstate # "current"
    BY <1>7 DEF RemoteInv
  <2> HIDE DEF Shown
  <2> QED
    BY <1>7, <2>1, <2>2 DEF Promise!Next, Promise!Fail, Attempted
<1>8. CASE Verify
  <2>1. CASE run.kind = "publish" /\ run.gen \notin gens
    <3>1. wpc \in Running /\ wpc' \notin Running /\ UNCHANGED <<want, details, manifest>>
      BY <1>8, <2>1 DEF Verify, FinishDerivedRunFailure, wantVars, Running, Transfer
    <3>2. dstate' # "current"
      BY <1>8, <2>1, <3>1 DEF Verify, FinishDerivedRunFailure, RemoteInv
    <3> QED
      BY <1>7, <3>1, <3>2 DEF Shown
  <2>2. CASE ~(run.kind = "publish" /\ run.gen \notin gens)
    BY <1>1, <1>8, <2>2 DEF Verify, wantVars, remoteVars
  <2> QED
    BY <2>1, <2>2
<1>9. CASE ValidateOwnership
  BY <1>1, <1>9 DEF ValidateOwnership, unchangedInTransfer, wantVars
<1>10. CASE Publish \/ Purge
  BY <1>10, TransferStep
<1>11. ASSUME NEW class \in {"backoff", "terminal"}, FailDerivedRun(class)
       PROVE  Promise!Next
  <2>1. wpc \in Running /\ wpc' \notin Running /\ want' = want /\ details' = details
    BY <1>11 DEF FailDerivedRun, FinishDerivedRunFailure, wantVars, Running, Transfer
  <2>2. dstate' # "current"
    BY <1>11, <2>1 DEF FailDerivedRun, FinishDerivedRunFailure, RemoteInv
  <2>3. Shown' \in {Shown, run.gen}
    <3>1. CASE manifest' = manifest
      BY <2>1, <3>1 DEF Shown
    <3>2. CASE manifest' # manifest
      <4>1. wpc = "commit" /\ manifest' = run.gen
        BY <1>11, <3>2 DEF FailDerivedRun
      <4>2. details = run.gen
        BY <4>1 DEF RemoteInv, DerivedInv, RunInv, Publishing
      <4> QED
        BY <2>1, <4>1, <4>2 DEF Shown
    <3> QED
      BY <3>1, <3>2
  <2> QED
    BY <1>7, <2>1, <2>2, <2>3
<1>12. CASE FinishDerivedRunSuccess
  <2>1. /\ wpc = "done" /\ wpc \in Running /\ wpc' \notin Running
        /\ UNCHANGED <<mode, want, details, manifest>>
    BY <1>12 DEF FinishDerivedRunSuccess, wantVars, remoteVars, Running, Transfer
  <2>2. \/ run.kind = "publish" /\ run.gen \in Gens
        \/ run.kind = "purge" /\ run.gen = None
    BY <2>1 DEF DerivedInv, RunInv
  <2>3. Shown = run.gen /\ Shown' = Shown
    BY <2>1, <2>2 DEF RemoteInv, Empty, Shown
  <2>4. Attempted = {run.gen} /\ Attempted' = {}
    BY <1>0, <2>1
  <2>5. (dstate' = "current") <=> want = run.gen
    BY <1>12, <2>2 DEF FinishDerivedRunSuccess, FinishedState, DerivedInv, TypeOK
  <2> HIDE DEF Shown
  <2> QED
    BY <2>1, <2>3, <2>4, <2>5 DEF Promise!Next, Promise!Succeed, Attempted
<1>13. CASE LosePin \/ Interrupt
  <2>1. /\ wpc' \notin Running /\ UNCHANGED <<want, dstate, details, manifest>>
    BY <1>13 DEF LosePin, Interrupt, wantVars, remoteVars, Running, Transfer
  <2>2. CASE wpc \in Running
    BY <1>7, <2>1, <2>2 DEF RemoteInv, Shown
  <2>3. CASE wpc \notin Running
    BY <1>1, <2>1, <2>3 DEF DerivedInv, RunInv
  <2> QED
    BY <2>2, <2>3
<1>14. CASE \/ CompileBegin \/ CompileReadPin \/ RenameStage \/ ReplacePointer
            \/ CollectGarbage \/ CleanReadPin \/ CleanUnlink \/ CleanRemove
            \/ CleanFinish \/ CommandBreaks \/ BackoffOver \/ Settle
            \/ UNCHANGED vars
  BY <1>1, <1>14 DEF CompileBegin, CompileReadPin, RenameStage, ReplacePointer,
     CollectGarbage, CleanReadPin, CleanUnlink, CleanRemove, CleanFinish,
     CommandBreaks, BackoffOver, Settle, SettleNothing, SettleLock, SettleUnlink,
     SettleRemove, SettleFinish, vars, wantVars, remoteVars, workerVars
<1> QED
  BY <1>3, <1>4, <1>5, <1>6, <1>8, <1>9, <1>10, <1>11, <1>12, <1>13, <1>14
     DEF Next, Command, WorkerStep, Promise!Next

\* Reader and database see an execution of Publication, whatever is compiled,
\* cleaned, collected or broken off meanwhile: the namespace changes under a claimed
\* run alone and ends at its target or at no generation, and it counts as current
\* only when that target is what is desired at that moment.
THEOREM DerivedImplements == Spec => ImplementsPublication
<1>1. Init => Promise!Init /\ CurrentKnown
  BY DEF Init, Promise!Init, CurrentKnown, Shown
<1>2. DerivedInv /\ RemoteInv /\ CurrentKnown /\ [Next]_vars => CurrentKnown'
  BY KnownStep
<1>3. DerivedInv /\ DerivedInv' /\ RemoteInv /\ CurrentKnown /\ [Next]_vars
        => [Promise!Next]_(Promise!vars)
  BY PublicationStep
<1> QED
  BY <1>1, <1>2, <1>3, DerivedHolds, RemoteHolds, PTL
     DEF Spec, ImplementsPublication, Promise!Spec
=============================================================================
