SPECIFICATION LiveSpec
CONSTANTS
  Ops = {o1, o2, o3, o4}
  MaxConcurrent = 2
  LeaseTicks = 2
  StoreFails = TRUE
  MaxCrashes = 2
PROPERTIES
  WaiterServed
  ImplementsSemaphore
CHECK_DEADLOCK FALSE
