-------------------------------- MODULE FileLock --------------------------------
(***************************************************************************)
(* The PID-aware lock file of internal/flock/lock.go, which serialises the *)
(* worker's passes with the commands that change a profile, the compile    *)
(* with the publication, and makes the worker a singleton.                 *)
(*                                                                         *)
(* A step is one system call.  A process is named by its pid; one that     *)
(* died is "dead" until its pid is given to a new process.                 *)
(***************************************************************************)
EXTENDS Integers

CONSTANTS
  Procs,        \* pids of the processes that use this lock
  NoFile,       \* the lock file does not exist
  IOFails,      \* may open or remove fail (permissions)?
  WriteFails,   \* may the pid fail to be written (disk full)?
  MaxCrashes    \* bound on processes that die

ASSUME ModesAssumption == IOFails \in BOOLEAN /\ WriteFails \in BOOLEAN
ASSUME CrashAssumption == MaxCrashes \in Nat
ASSUME NoFileAssumption ==
  NoFile \notin [owner : Procs, written : BOOLEAN]

VARIABLES
  file,         \* the inode at the lock's path: who created it, and whether its
                \* pid has been written yet
  pc, attempt,  \* program counter and loop variable of Acquire, per process
  crashes,
  robbed        \* history: the processes whose lock file another one removed
                \* while they were writing it or holding the lock

vars == <<file, pc, attempt, crashes, robbed>>

Attempts  == 3
Acquiring == {"creating", "writing", "reading", "removing", "sleeping"}
Files     == [owner : Procs, written : BOOLEAN]

Alive(p)  == pc[p] # "dead"
Holders   == {p \in Procs : pc[p] = "held"}

\* From the create to the release or the death.
Locking(p) == pc[p] \in {"writing", "held"}

Init ==
  /\ file = NoFile
  /\ pc = [p \in Procs |-> "idle"]
  /\ attempt = [p \in Procs |-> 0]
  /\ crashes = 0
  /\ robbed = {}

Goto(p, from, to) == pc[p] = from /\ pc' = [pc EXCEPT ![p] = to]

\* A caller enters Acquire.
Begin(p) ==
  /\ Goto(p, "idle", "creating")
  /\ attempt' = [attempt EXCEPT ![p] = 0]
  /\ UNCHANGED <<file, crashes, robbed>>

\* Any other error than "it exists", of open or of remove, is returned.
GiveUp(p) ==
  /\ IOFails
  /\ Goto(p, "creating", "idle") \/ Goto(p, "removing", "idle")
  /\ UNCHANGED <<file, attempt, crashes, robbed>>

\* OpenFile with O_CREATE and O_EXCL.
Create(p) ==
  /\ \/ file = NoFile /\ Goto(p, "creating", "writing")
                      /\ file' = [owner |-> p, written |-> FALSE]
     \/ file # NoFile /\ Goto(p, "creating", "reading") /\ UNCHANGED file
  /\ UNCHANGED <<attempt, crashes, robbed>>

\* Fprintf to the open file, wherever its inode is by now.  Its error is not
\* looked at: the lock is held either way.
WritePid(p) ==
  /\ Goto(p, "writing", "held")
  /\ \E written \in IF WriteFails THEN BOOLEAN ELSE {TRUE} :
       file' = IF file # NoFile /\ file.owner = p
               THEN [file EXCEPT !.written = written] ELSE file
  /\ UNCHANGED <<attempt, crashes, robbed>>

\* Mutation: a file without a pid has an owner that lives.
EmptyIsOwned == file # NoFile /\ (file.written => Alive(file.owner))

\* ownerAlive: no file, or no pid in it, is nobody.
OwnerAlive == file # NoFile /\ file.written /\ Alive(file.owner)

\* Mutation: the caller releases although it was refused.
ReadOwnerReleasing(p) ==
  /\ \/ OwnerAlive /\ Goto(p, "reading", "idle") /\ file' = NoFile
     \/ ~OwnerAlive /\ Goto(p, "reading", "removing") /\ UNCHANGED file
  /\ UNCHANGED <<attempt, crashes, robbed>>

\* ErrLocked, or recover what looks stale.
ReadOwner(p) ==
  /\ \/ OwnerAlive /\ Goto(p, "reading", "idle")
     \/ ~OwnerAlive /\ Goto(p, "reading", "removing")
  /\ UNCHANGED <<file, attempt, crashes, robbed>>

\* What os.Remove of the path does to another process that is at work under the
\* file it removes.
Victims(p) ==
  {q \in Procs \ {p} : Locking(q) /\ file # NoFile /\ file.owner = q}

\* os.Remove of the path, whatever is there by now.
RemoveStale(p) ==
  /\ Goto(p, "removing", "sleeping")
  /\ file' = NoFile
  /\ robbed' = robbed \cup Victims(p)
  /\ UNCHANGED <<attempt, crashes>>

\* 50 ms later: the next attempt, if one is left.
Retry(p) ==
  /\ Goto(p, "sleeping", IF attempt[p] + 1 < Attempts THEN "creating" ELSE "idle")
  /\ attempt' = [attempt EXCEPT ![p] = IF @ + 1 < Attempts THEN @ + 1 ELSE 0]
  /\ UNCHANGED <<file, crashes, robbed>>

\* Release removes the path without looking whose file it is.
Release(p) ==
  /\ Goto(p, "held", "idle")
  /\ \/ file' = NoFile /\ robbed' = (robbed \cup Victims(p)) \ {p}
     \/ IOFails /\ robbed' = robbed \ {p} /\ UNCHANGED file
  /\ UNCHANGED <<attempt, crashes>>

\* The process dies and leaves the path as it is.
Crash(p) ==
  /\ Alive(p) /\ crashes < MaxCrashes
  /\ pc' = [pc EXCEPT ![p] = "dead"]
  /\ crashes' = crashes + 1
  /\ robbed' = robbed \ {p}
  /\ UNCHANGED <<file, attempt>>

\* Its pid is given to a new process.
Recycle(p) ==
  /\ Goto(p, "dead", "idle")
  /\ UNCHANGED <<file, attempt, crashes, robbed>>

Step(p) == \/ GiveUp(p) \/ Create(p) \/ WritePid(p) \/ ReadOwner(p)
           \/ RemoveStale(p) \/ Retry(p)

Next == \E p \in Procs : Begin(p) \/ Step(p) \/ Release(p) \/ Crash(p)
                         \/ Recycle(p)

Spec == Init /\ [][Next]_vars

(***************************************************************************)
(* Fairness: an Acquire that was entered goes on and what is held is       *)
(* released; some process comes back for the lock, as the worker does in   *)
(* every pass; errors of the file system do not last for ever.             *)
(***************************************************************************)
Fairness ==
  /\ \A p \in Procs : WF_vars(Step(p)) /\ WF_vars(Release(p))
  /\ WF_vars(\E p \in Procs : Begin(p))
  /\ SF_vars(\E p \in Procs : Create(p))
  /\ SF_vars(\E p \in Procs : RemoveStale(p))

LiveSpec == Spec /\ Fairness

-----------------------------------------------------------------------------

TypeOK ==
  /\ file \in Files \cup {NoFile}
  /\ pc \in [Procs -> {"idle", "held", "dead"} \cup Acquiring]
  /\ attempt \in [Procs -> 0..Attempts-1]
  /\ crashes \in 0..MaxCrashes
  /\ robbed \subseteq Procs

\* The holders whose file nobody took away.
Keepers == Holders \ robbed

\* "A stale lock (owner PID no longer exists) is safely recoverable": a file left
\* behind by a dead process does not stay.
Orphaned == file # NoFile /\ ~Alive(file.owner)

StaleRecovered == Orphaned ~> ~Orphaned

\* "Lock is a PID-aware per-profile mutex": of the processes that believe they hold
\* the lock, those that were not robbed of it are one at most, however acquisitions
\* overlap, and through stale files, files without a pid and recycled pids.
MutualExclusion == \A p, q \in Keepers : p = q

\* The strengthening: the path names whoever is at work under it and was not robbed.
WorkerIsNamed ==
  \A p \in Procs \ robbed : Locking(p) => file # NoFile /\ file.owner = p

LockInv == TypeOK /\ WorkerIsNamed

\* The other modules' view of the lock: one share at most, which its holder gives
\* back, loses by its death, or is robbed of; being robbed is the one thing that
\* they do not know of, and two processes at work is never anything else.
Mutex == INSTANCE Slots WITH Users <- Procs, Limit <- 1, using <- Keepers

ImplementsMutex == Mutex!Spec
=================================================================================
