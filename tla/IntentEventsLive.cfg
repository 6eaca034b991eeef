SPECIFICATION LiveSpec
CONSTANTS
  Paths = {p1}
  RunIds = {r1}
  NoRun = NoRun
  Allowances = {0}
  Requests = {"manual", "policy"}
  DebounceTicks = 1
  DeadlineTicks = 2
  MaxBackoff = 1
  MaxGen = 3
  MaxCrashes = 0
  StoreFails = FALSE
INVARIANTS
  ReadyMeansNoDebt
PROPERTIES
  AheadOnRequest
  DestructiveEventIsDebt
  EventsServed
