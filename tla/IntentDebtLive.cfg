SPECIFICATION LiveSpec
CONSTANTS
  Paths = {}
  RunIds = {r1}
  NoRun = NoRun
  Allowances = {1}
  Requests = {"manual", "policy", "disable", "enable", "remove"}
  DebounceTicks = 1
  DeadlineTicks = 2
  MaxBackoff = 1
  MaxGen = 3
  MaxCrashes = 1
  StoreFails = FALSE
PROPERTIES
  DeletionKept
  DeletionFinalised
  GenerationReached
