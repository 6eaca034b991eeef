----------------------------- MODULE MCSyncIntent -----------------------------
(* SyncIntent for TLC: run identifiers are interchangeable.                *)
EXTENDS SyncIntent, TLC

RunSymmetry == Permutations(RunIds)
==============================================================================
