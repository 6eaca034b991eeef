-------------------------------- MODULE Intent --------------------------------
(***************************************************************************)
(* What the durable intent of a profile promises, without processes,       *)
(* events, gates or crashes: requests coalesce into one wanted generation, *)
(* at most one attempt is in progress, an attempt serves exactly what was  *)
(* wanted when it began, and what was asked for meanwhile stays wanted.    *)
(***************************************************************************)
EXTENDS Naturals

VARIABLES
  want,     \* the newest generation asked for
  done,     \* the newest generation served
  attempt   \* the target of the attempt in progress, if any

vars == <<want, done, attempt>>

Init == want = 1 /\ done = 0 /\ attempt = {}

Request ==
  /\ want' > want
  /\ UNCHANGED <<done, attempt>>

Begin ==
  /\ attempt = {} /\ done < want
  /\ attempt' = {want}
  /\ UNCHANGED <<want, done>>

Succeed ==
  /\ \E t \in attempt : done' = t
  /\ attempt' = {}
  /\ UNCHANGED want

Fail ==
  /\ attempt # {}
  /\ attempt' = {}
  /\ UNCHANGED <<want, done>>

Next == Request \/ Begin \/ Succeed \/ Fail

Spec == Init /\ [][Next]_vars
==============================================================================
