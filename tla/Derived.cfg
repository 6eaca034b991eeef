SPECIFICATION LiveSpec
CONSTANTS
  MaxGenerations = 3
  MaxCleans = 1
  MaxFaults = 2
  ReadsFail = FALSE
  MaxBroken = 1
INVARIANTS PinnedGenerationKept PointerValid CurrentIsTrue
PROPERTIES DesiredKept DesireServed ImplementsPublication
