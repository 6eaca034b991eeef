SPECIFICATION LiveSpec
CONSTANTS
  Paths = {}
  RunIds = {r1}
  NoRun = NoRun
  Allowances = {1}
  Requests = {"migrate"}
  DebounceTicks = 1
  DeadlineTicks = 2
  MaxBackoff = 1
  MaxGen = 2
  MaxCrashes = 0
  StoreFails = FALSE
PROPERTIES
  MigrationReconciled
