SPECIFICATION Spec
CONSTANTS
  Paths = {a, b}
  Hidden = b
  Policies <- MCPolicies
  Ignores <- MCIgnores
  NoPolicy = NoPolicy
  Limits = {1}
  MaxVersion = 2
  MaxChanges = 2
  MaxGen = 3
INVARIANTS
  NoLostChange
CHECK_DEADLOCK FALSE
