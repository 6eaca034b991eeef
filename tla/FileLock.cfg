SPECIFICATION LiveSpec
CONSTANTS
  Procs = {p1, p2, p3}
  NoFile = NoFile
  IOFails = TRUE
  WriteFails = TRUE
  MaxCrashes = 2
PROPERTIES
  StaleRecovered
  
