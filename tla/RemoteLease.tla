------------------------------ MODULE RemoteLease ------------------------------
(***************************************************************************)
(* remote_operation_leases (internal/state/leases.go): how processes share *)
(* one remote.  A row waits, is promoted to running when it is first and a *)
(* slot is free, is renewed while its operation lasts, and is deleted; an  *)
(* expired running row is deleted by the next promotion.  Rows of other    *)
(* remotes are independent of these.                                       *)
(***************************************************************************)
EXTENDS Integers, FiniteSets, Sequences

CONSTANTS
  Ops,          \* lease ids; each is drawn for one operation
  MaxConcurrent,
  LeaseTicks,   \* remoteLeaseDuration, in ticks
  StoreFails,   \* may a statement fail?
  MaxCrashes

ASSUME OpsAssumption == IsFiniteSet(Ops)
ASSUME LimitAssumption == MaxConcurrent \in Nat \ {0}
ASSUME LeaseAssumption == LeaseTicks \in Nat \ {0}
ASSUME ModesAssumption == StoreFails \in BOOLEAN
ASSUME CrashAssumption == MaxCrashes \in Nat

VARIABLES
  row, until,   \* the state column ("none": no row) and lease_until, as a timer
  order,        \* ids of the waiting rows by created_at
  pc,           \* the operation's caller
  crashes,
  overslept     \* history: the operations whose lease ran out under them, because
                \* the machine slept or their renewals failed.  No action reads it.

vars == <<row, until, order, pc, crashes, overslept>>

Init ==
  /\ row = [o \in Ops |-> "none"]
  /\ until = [o \in Ops |-> 0]
  /\ order = <<>>
  /\ pc = [o \in Ops |-> "new"]
  /\ crashes = 0 /\ overslept = {}

Running == {o \in Ops : row[o] = "running"}

\* Mutation: a lease expires one tick early.
ExpiredEarly == {o \in Running : until[o] <= 1}

Expired == {o \in Running : until[o] = 0}
Waiting == {o \in Ops : row[o] = "waiting"}

Position(o) == CHOOSE i \in 1..Len(order) : order[i] = o

\* ORDER BY priority DESC, created_at, id.  Every caller of AcquireRemoteLease
\* passes the same priority.
First(o) ==
  o \in Waiting /\ \A p \in Waiting \ {o} : Position(o) < Position(p)

\* Two rows of the same millisecond are ordered by their random ids.
Inserted(o) ==
  LET n == Len(order)
  IN  {Append(order, o)} \cup
      (IF n = 0 THEN {} ELSE {SubSeq(order, 1, n - 1) \o <<o, order[n]>>})

Dropped(o) == SelectSeq(order, LAMBDA p : p # o)

\* AcquireRemoteLease inserts its waiting row.
Enter(o) ==
  /\ pc[o] = "new"
  /\ pc' = [pc EXCEPT ![o] = "waiting"]
  /\ row' = [row EXCEPT ![o] = "waiting"]
  /\ order' \in Inserted(o)
  /\ UNCHANGED <<until, crashes, overslept>>

FreeSlot == Cardinality(Running \ Expired) < MaxConcurrent

\* What a promotion does to the rows.
Promoted(o) ==
  [p \in Ops |-> IF p = o THEN "running"
                 ELSE IF p \in Expired THEN "none" ELSE row[p]]

\* Mutation: expired rows still count.
ClaimNoExpiry(o) ==
  /\ pc[o] = "waiting" /\ First(o)
  /\ Cardinality(Running) < MaxConcurrent
  /\ row' = [row EXCEPT ![o] = "running"]
  /\ until' = [until EXCEPT ![o] = LeaseTicks]
  /\ pc' = [pc EXCEPT ![o] = "working"]
  /\ order' = Dropped(o)
  /\ UNCHANGED <<crashes, overslept>>

\* tryClaimRemoteLease.  When it does not promote, the deletion of expired rows
\* is rolled back with the rest and 100 ms later it tries again.
Claim(o) ==
  /\ pc[o] = "waiting" /\ First(o) /\ FreeSlot
  /\ row' = Promoted(o)
  /\ until' = [until EXCEPT ![o] = LeaseTicks]
  /\ pc' = [pc EXCEPT ![o] = "working"]
  /\ order' = Dropped(o)
  /\ UNCHANGED <<crashes, overslept>>

\* ReleaseRemoteLease; callers ignore that it failed.
Delete(o) ==
  \/ row' = [row EXCEPT ![o] = "none"] /\ order' = Dropped(o)
  \/ StoreFails /\ UNCHANGED <<row, order>>

\* The context is cancelled, or a statement fails, while waiting.
Withdraw(o) ==
  /\ pc[o] = "waiting"
  /\ pc' = [pc EXCEPT ![o] = "done"]
  /\ Delete(o)
  /\ UNCHANGED <<until, crashes, overslept>>

\* The renewal goroutine, every minute; no row, no effect.
Renew(o) ==
  /\ pc[o] = "working" /\ row[o] = "running"
  /\ until' = [until EXCEPT ![o] = LeaseTicks]
  /\ UNCHANGED <<row, order, pc, crashes, overslept>>

\* The operation ends.
Release(o) ==
  /\ pc[o] = "working"
  /\ pc' = [pc EXCEPT ![o] = "done"]
  /\ Delete(o)
  /\ overslept' = overslept \ {o}
  /\ UNCHANGED <<until, crashes>>

Crash(o) ==
  /\ pc[o] \in {"waiting", "working"} /\ crashes < MaxCrashes
  /\ pc' = [pc EXCEPT ![o] = "dead"]
  /\ crashes' = crashes + 1
  /\ overslept' = overslept \ {o}
  /\ UNCHANGED <<row, until, order>>

\* Time passes.  A live operation is renewed every minute, before its lease of five
\* runs out, unless the machine sleeps or the renewals fail.
Tick ==
  /\ Running \ Expired # {}
  /\ until' = [o \in Ops |-> IF o \in Running \ Expired THEN until[o] - 1
                             ELSE until[o]]
  /\ overslept' = overslept \cup {o \in Running : pc[o] = "working" /\ until[o] <= 1}
  /\ UNCHANGED <<row, order, pc, crashes>>

Next ==
  \/ \E o \in Ops : \/ Enter(o) \/ Claim(o) \/ Withdraw(o)
                    \/ Renew(o) \/ Release(o) \/ Crash(o)
  \/ Tick

Spec == Init /\ [][Next]_vars

\* Callers poll, operations end and time passes.
LiveSpec == /\ Spec
            /\ \A o \in Ops : WF_vars(Claim(o)) /\ WF_vars(Release(o))
            /\ WF_vars(Tick)

-----------------------------------------------------------------------------

\* The operations at the remote, and those of them that were renewed in time.
Working  == {o \in Ops : pc[o] = "working"}
Punctual == Working \ overslept

TypeOK ==
  /\ row \in [Ops -> {"none", "waiting", "running"}]
  /\ until \in [Ops -> 0..LeaseTicks]
  /\ pc \in [Ops -> {"new", "waiting", "working", "done", "dead"}]
  /\ crashes \in 0..MaxCrashes
  /\ overslept \subseteq Working

\* The rows never promise more than the limit, whatever expires, is revived by a
\* late renewal, or is left behind.
RowBound == Cardinality(Running) <= MaxConcurrent

\* "same remote active <= configured max": no more operations than that talk to
\* the remote, besides those that went on after their lease had run out.
OperationBound == Cardinality(Punctual) <= MaxConcurrent

\* The strengthening: their rows are running and have not expired.
LeaseHeld == \A o \in Punctual : row[o] = "running" /\ until[o] > 0

\* Everybody who waits is served, or withdraws, in spite of crashed holders: their
\* rows expire.  Only a waiting row whose caller is gone, and that is ahead of the
\* waiter in the queue, is in the way.
Abandoned(o) == row[o] = "waiting" /\ pc[o] # "waiting"

Blocked(o) == \E p \in Waiting : Abandoned(p) /\ Position(p) < Position(o)

WaiterServed ==
  \A o \in Ops : pc[o] = "waiting" ~> (pc[o] # "waiting" \/ Blocked(o))

\* "crash: lease expiry -> recoverable": the same for a waiting row's caller.
EveryWaiterServed == \A o \in Ops : pc[o] = "waiting" ~> pc[o] # "waiting"

\* The rows and timers of the table are a counting semaphore for the operations
\* that are renewed in time: expiry, late renewals, lost deletions, dead callers and
\* operations that oversleep do not take a slot from them, or let in one too many.
Semaphore == INSTANCE Slots
               WITH Users <- Ops, Limit <- MaxConcurrent, using <- Punctual

ImplementsSemaphore == Semaphore!Spec
================================================================================
