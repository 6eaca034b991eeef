------------------------------ MODULE FileLockProofs ------------------------------
(***************************************************************************)
(* Proofs about FileLock, for any number of processes, overlapping         *)
(* acquisitions, failing system calls, deaths and recycled pids: those who *)
(* hold the lock and were not robbed of it exclude each other, and the     *)
(* lock file implements Slots with one share for them.                     *)
(***************************************************************************)
EXTENDS FileLock, FiniteSetTheorems, TLAPS

\* What Create and WritePid leave at the path is a file.
LEMMA FileIsFile ==
  \A p \in Procs, b \in BOOLEAN :
     /\ [owner |-> p, written |-> b] \in Files
     /\ [owner |-> p, written |-> b] # NoFile
  BY NoFileAssumption DEF Files

LEMMA LockInit == Init => LockInv
  BY CrashAssumption
     DEF Init, LockInv, TypeOK, WorkerIsNamed, Locking, Acquiring, Attempts

LEMMA TypeStep == TypeOK /\ [Next]_vars => TypeOK'
<1> SUFFICES ASSUME TypeOK, [Next]_vars PROVE TypeOK'
    OBVIOUS
<1> USE FileIsFile, CrashAssumption DEF TypeOK, Acquiring, Attempts, Goto
<1>1. ASSUME NEW p \in Procs, Begin(p) PROVE TypeOK'
  BY <1>1 DEF Begin
<1>2. ASSUME NEW p \in Procs, GiveUp(p) PROVE TypeOK'
  BY <1>2 DEF GiveUp
<1>3. ASSUME NEW p \in Procs, Create(p) PROVE TypeOK'
  BY <1>3 DEF Create
<1>4. ASSUME NEW p \in Procs, WritePid(p) PROVE TypeOK'
  <2>1. PICK written \in BOOLEAN :
          file' = IF file # NoFile /\ file.owner = p
                  THEN [file EXCEPT !.written = written] ELSE file
    BY <1>4 DEF WritePid
  <2>2. file' \in Files \cup {NoFile}
    BY <2>1 DEF Files
  <2> QED
    BY <1>4, <2>2 DEF WritePid
<1>5. ASSUME NEW p \in Procs, ReadOwner(p) PROVE TypeOK'
  BY <1>5 DEF ReadOwner
<1>6. ASSUME NEW p \in Procs, RemoveStale(p) PROVE TypeOK'
  BY <1>6 DEF RemoveStale, Victims
<1>7. ASSUME NEW p \in Procs, Retry(p) PROVE TypeOK'
  BY <1>7 DEF Retry
<1>8. ASSUME NEW p \in Procs, Release(p) PROVE TypeOK'
  BY <1>8 DEF Release, Victims
<1>9. ASSUME NEW p \in Procs, Crash(p) \/ Recycle(p) PROVE TypeOK'
  BY <1>9 DEF Crash, Recycle
<1>10. CASE UNCHANGED vars
  BY <1>10 DEF vars
<1> QED
  BY <1>1, <1>2, <1>3, <1>4, <1>5, <1>6, <1>7, <1>8, <1>9, <1>10
     DEF Next, Step

\* The two removals take the file from its worker only by robbing it.
LEMMA NamedStep == LockInv /\ [Next]_vars => WorkerIsNamed'
<1> SUFFICES ASSUME LockInv, [Next]_vars PROVE WorkerIsNamed'
    OBVIOUS
<1> USE FileIsFile DEF LockInv, TypeOK, WorkerIsNamed, Locking, Goto
<1>1. ASSUME NEW p \in Procs, Begin(p) \/ GiveUp(p) PROVE WorkerIsNamed'
  BY <1>1 DEF Begin, GiveUp
<1>2. ASSUME NEW p \in Procs, Create(p) PROVE WorkerIsNamed'
  <2>1. CASE file = NoFile
    <3>1. \A q \in Procs \ robbed : ~Locking(q)
      BY <2>1
    <3>2. /\ file' = [owner |-> p, written |-> FALSE]
          /\ pc' = [pc EXCEPT ![p] = "writing"] /\ robbed' = robbed
      BY <1>2, <2>1 DEF Create
    <3> QED
      BY <3>1, <3>2
  <2>2. CASE file # NoFile
    BY <1>2, <2>2 DEF Create
  <2> QED
    BY <2>1, <2>2
<1>3. ASSUME NEW p \in Procs, WritePid(p) PROVE WorkerIsNamed'
  <2>1. \/ file' = file
        \/ file' # NoFile /\ file # NoFile /\ file'.owner = file.owner
    <3>1. PICK written \in BOOLEAN :
            file' = IF file # NoFile /\ file.owner = p
                    THEN [file EXCEPT !.written = written] ELSE file
      BY <1>3 DEF WritePid
    <3>2. CASE file # NoFile /\ file.owner = p
      <4>1. file' = [owner |-> p, written |-> written]
        BY <3>1, <3>2 DEF Files
      <4> QED
        BY <3>2, <4>1
    <3> QED
      BY <3>1, <3>2
  <2>2. \A q \in Procs : Locking(q)' => Locking(q)
    BY <1>3 DEF WritePid
  <2>3. robbed' = robbed
    BY <1>3 DEF WritePid
  <2> QED
    BY <2>1, <2>2, <2>3
<1>4. ASSUME NEW p \in Procs, ReadOwner(p) \/ Retry(p) PROVE WorkerIsNamed'
  BY <1>4 DEF ReadOwner, Retry
<1>5. ASSUME NEW p \in Procs, RemoveStale(p) PROVE WorkerIsNamed'
  BY <1>5 DEF RemoveStale, Victims
<1>6. ASSUME NEW p \in Procs, Release(p) PROVE WorkerIsNamed'
  BY <1>6 DEF Release, Victims
<1>7. ASSUME NEW p \in Procs, Crash(p) \/ Recycle(p) PROVE WorkerIsNamed'
  BY <1>7 DEF Crash, Recycle
<1>8. CASE UNCHANGED vars
  BY <1>8 DEF vars
<1> QED
  BY <1>1, <1>2, <1>3, <1>4, <1>5, <1>6, <1>7, <1>8 DEF Next, Step

\* Acquire, recovery, Release and death keep the invariant: the path names every
\* process that is at work under the lock and was not robbed of it.
THEOREM LockInvariant == Spec => []LockInv
<1>1. LockInv /\ [Next]_vars => LockInv'
  BY TypeStep, NamedStep DEF LockInv
<1> QED
  BY LockInit, <1>1, PTL DEF Spec

\* A file names one process.
LEMMA NamedIsAlone == LockInv => MutualExclusion
  BY DEF LockInv, TypeOK, WorkerIsNamed, Locking, MutualExclusion, Keepers,
         Holders

\* The lock is a mutex for those whose file was not taken away, whoever else is
\* inside Acquire: the read of the owner and the removal of the file are two steps,
\* and that gap is the one way in which two processes come to hold the lock.
THEOREM Exclusion == Spec => []MutualExclusion
  BY LockInvariant, NamedIsAlone, PTL

\* Slots counts as this module does.
LEMMA MutexCounts == \A S : Mutex!Cardinality(S) = Cardinality(S)
  BY DEF Mutex!Cardinality, Cardinality

\* One process can be robbed by a removal: the one that the path names.
LEMMA OneVictim ==
  ASSUME LockInv, NEW p \in Procs
  PROVE  \/ Keepers \cap Victims(p) = {}
         \/ \E q \in Keepers : Keepers \cap Victims(p) = {q}
  BY DEF Victims

\* The step that takes the lock is the one that writes the pid, and then no other
\* keeps it; it ends with its release, its holder's death or its removal.
LEMMA MutexStep ==
  ASSUME LockInv, [Next]_vars
  PROVE  [Mutex!Next]_Keepers
<1> USE DEF LockInv, TypeOK, Keepers, Holders, Goto
<1>1. ASSUME NEW p \in Procs, WritePid(p)
      PROVE  Keepers' = Keepers \/ Mutex!Take(p)
  <2>1. CASE p \in robbed
    BY <1>1, <2>1 DEF WritePid
  <2>2. CASE p \notin robbed
    <3>1. file # NoFile /\ file.owner = p
      BY <1>1, <2>2 DEF WritePid, WorkerIsNamed, Locking
    <3>2. Keepers = {}
      BY <1>1, <3>1 DEF WritePid, WorkerIsNamed, Locking
    <3>3. Keepers' = {p}
      BY <1>1, <2>2, <3>2 DEF WritePid
    <3>4. Mutex!Cardinality({}) = 0
      BY FS_EmptySet, MutexCounts
    <3> HIDE DEF Keepers
    <3> QED
      BY <3>2, <3>3, <3>4 DEF Mutex!Take
  <2> QED
    BY <2>1, <2>2
<1>2. ASSUME NEW p \in Procs, RemoveStale(p)
      PROVE  Keepers' = Keepers \/ \E q \in Procs : Mutex!Give(q)
  <2>1. Keepers' = Keepers \ Victims(p)
    BY <1>2 DEF RemoveStale, Victims
  <2> QED
    BY <2>1, OneVictim DEF Mutex!Give
<1>3. ASSUME NEW p \in Procs, Release(p)
      PROVE  Keepers' = Keepers \/ \E q \in Procs : Mutex!Give(q)
  <2>1. CASE p \in Keepers
    <3>1. Victims(p) = {}
      BY <2>1 DEF Victims, WorkerIsNamed, Locking
    <3>2. Keepers' = Keepers \ {p}
      BY <1>3, <3>1 DEF Release
    <3> QED
      BY <2>1, <3>2 DEF Mutex!Give
  <2>2. CASE p \notin Keepers
    <3>1. p \in robbed
      BY <1>3, <2>2 DEF Release
    <3>2. Keepers' = Keepers \ Victims(p) \/ Keepers' = Keepers
      BY <1>3, <3>1 DEF Release, Victims
    <3> QED
      BY <3>2, OneVictim DEF Mutex!Give
  <2> QED
    BY <2>1, <2>2
<1>4. ASSUME NEW p \in Procs, Crash(p)
      PROVE  Keepers' = Keepers \/ Mutex!Give(p)
  BY <1>4 DEF Crash, Mutex!Give
<1>5. ASSUME NEW p \in Procs,
             \/ Begin(p) \/ GiveUp(p) \/ Create(p) \/ ReadOwner(p)
             \/ Retry(p) \/ Recycle(p)
      PROVE  Keepers' = Keepers
  BY <1>5 DEF Begin, GiveUp, Create, ReadOwner, Retry, Recycle
<1>6. CASE UNCHANGED vars
  BY <1>6 DEF vars
<1> HIDE DEF Keepers
<1> QED
  BY <1>1, <1>2, <1>3, <1>4, <1>5, <1>6 DEF Next, Step, Mutex!Next

\* The lock file is what the other modules take it for, one share that its holder's
\* death gives back, as long as nobody removes the file of a process at work.
THEOREM LockImplements == Spec => ImplementsMutex
<1>1. Init => Mutex!Init
  BY DEF Init, Mutex!Init, Keepers, Holders
<1>2. LockInv /\ [Next]_vars => [Mutex!Next]_Keepers
  BY MutexStep
<1> QED
  BY <1>1, <1>2, LockInvariant, PTL DEF Spec, ImplementsMutex, Mutex!Spec
===================================================================================
