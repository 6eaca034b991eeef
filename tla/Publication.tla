----------------------------- MODULE Publication -----------------------------
(***************************************************************************)
(* What the derived lane promises to those who read a profile's derived    *)
(* namespace and its database, without generations on a disk, locks, pins, *)
(* gates or crashes: the namespace changes only while an attempt is made   *)
(* and only towards what was desired when the attempt began, in between it *)
(* shows no generation at all, and it counts as current only if the        *)
(* attempt ended with it as it is still desired.                           *)
(***************************************************************************)
CONSTANTS
  Targets,   \* generations, and what stands for none
  Nothing,   \* none
  Mixed      \* an incomplete namespace

VARIABLES
  desire,    \* what the namespace shall show
  attempt,   \* the target of the attempt in progress, if any
  shown,     \* what it shows
  current    \* is it known to show what is desired?

vars == <<desire, attempt, shown, current>>

Init == /\ desire = Nothing /\ shown = Nothing
        /\ attempt = {} /\ current = FALSE

\* A new desire, or the old one again.
Ask ==
  /\ desire' \in Targets /\ current' = FALSE
  /\ UNCHANGED <<attempt, shown>>

Begin ==
  /\ attempt = {} /\ ~current
  /\ attempt' = {desire}
  /\ UNCHANGED <<desire, shown, current>>

Transfer ==
  /\ shown' \in attempt \cup {Mixed} /\ attempt # {}
  /\ UNCHANGED <<desire, attempt, current>>

\* The attempt ends without being credited, perhaps after its last effect.
Fail ==
  /\ shown' \in attempt \cup {shown} /\ attempt # {}
  /\ attempt' = {}
  /\ UNCHANGED <<desire, current>>

Succeed ==
  /\ shown \in attempt
  /\ attempt' = {} /\ current' = (desire \in attempt)
  /\ UNCHANGED <<desire, shown>>

Next == Ask \/ Begin \/ Transfer \/ Fail \/ Succeed

Spec == Init /\ [][Next]_vars
==============================================================================
