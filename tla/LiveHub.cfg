SPECIFICATION Spec
CONSTANTS
  Clients = {c1}
  Invalidators = {i1}
  Worker = w
  Capacity = 1
  MaxWork = 2
  MaxVersion = 2
  Finals = {2}
  Failing = {c1, i1}
INVARIANTS
  SeqIncreases
  LatestHeld
  InitialFresh
PROPERTIES
  PublishEnds
  Delivered
  StopEnds
  WaitEnds
CHECK_DEADLOCK FALSE
