------------------------------- MODULE MCMirror -------------------------------
(* Instances of Mirror: policy "all" ignores nothing, "some" hides one path.  *)
EXTENDS Mirror

CONSTANT Hidden    \* the path the policy "some" hides

MCPolicies == {"all", "some"}
MCIgnores  == [q \in MCPolicies |-> IF q = "some" THEN {Hidden} ELSE {}]
================================================================================
