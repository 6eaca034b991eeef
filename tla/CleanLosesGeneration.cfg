SPECIFICATION Spec
CONSTANTS
  MaxGenerations = 2
  MaxCleans = 1
  MaxFaults = 0
  ReadsFail = FALSE
  MaxBroken = 0
INVARIANT DesiredOnDisk
