--------------------------------- MODULE Slots ---------------------------------
(***************************************************************************)
(* A resource of which at most Limit users have a share at a time, one     *)
(* coming or going in a step.  A user that dies loses its share, and users *)
(* that sleep may lose theirs together.  It is what the other modules take *)
(* the lock file for (one share), and what a remote is to the operations   *)
(* that lease it.                                                          *)
(***************************************************************************)
EXTENDS Integers, FiniteSets

CONSTANTS Users, Limit

VARIABLE using   \* who has a share

Init == using = {}

Take(u) ==
  /\ u \notin using /\ Cardinality(using) < Limit
  /\ using' = using \cup {u}

Give(u) ==
  /\ u \in using
  /\ using' = using \ {u}

Lapse(S) ==
  /\ S \subseteq using
  /\ using' = using \ S

Next == \/ \E u \in Users : Take(u) \/ Give(u)
        \/ \E S \in SUBSET using : Lapse(S)

Spec == Init /\ [][Next]_using
================================================================================
