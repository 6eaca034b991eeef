SPECIFICATION Spec
CONSTANTS
  Paths = {a, b}
  Hidden = b
  Policies <- MCPolicies
  Ignores <- MCIgnores
  NoPolicy = NoPolicy
  Limits = {1}
  MaxVersion = 2
  MaxChanges = 2
  MaxGen = 4
INVARIANTS
  OnlyOvertakenLost
  KeptIsKnown
  LedgerFollowsPolicy
PROPERTIES
  DeletesOnlyProven
  
  ImplementsIntent
CHECK_DEADLOCK FALSE
