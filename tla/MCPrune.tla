------------------------------- MODULE MCPrune -------------------------------
(* Instances of Prune: policy "none" hides nothing, "all" hides every path.   *)
EXTENDS Prune

MCPolicies == {"none", "all"}
MCIgnores  == [q \in MCPolicies |-> IF q = "none" THEN {} ELSE Paths]
================================================================================
