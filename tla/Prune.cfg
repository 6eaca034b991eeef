SPECIFICATION LiveSpec
CONSTANTS
  Paths = {a, b}
  Policies <- MCPolicies
  Ignores <- MCIgnores
  NoPolicy = NoPolicy
  DefaultMaxDelete = 1
  Allowances = {0, 2}
  BatchSize = 1
  MaxRequests = 2
  MaxCommands = 3
INVARIANTS
  OneInFlight
PROPERTIES
  RemovesOnlyAuthorised
  ForgetsOnlyAbsent
  ApprovedIsSettled
