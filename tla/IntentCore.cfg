SPECIFICATION Spec
CONSTANTS
  Paths = {}
  RunIds = {r1, r2}
  NoRun = NoRun
  Allowances = {1}
  Requests = {"manual", "scheduled", "policy", "disable", "enable", "remove", "restore", "migrate"}
  DebounceTicks = 1
  DeadlineTicks = 2
  MaxBackoff = 1
  MaxGen = 3
  MaxCrashes = 1
  StoreFails = TRUE
SYMMETRY RunSymmetry
INVARIANTS
  ErrorMeansDebt
  RunOwnership
  OverrideOneAttempt
  TombstonedAtRest
PROPERTIES
  ImplementsIntent
  TerminalGateKept
