CONSTANTS
  Sessions = {s1, s2}
  NTables = 1
  TableZSpacing = 4
  MaxRows = 2
  MaxLSN = 4
  MaxDeletes = 0
  ChanCap = 1
  Wheres = {{0, 1, 2}}
  Faults = {}
  MaxFaults = 0
  MaxCrashes = 1
  MayShutdown = FALSE
SPECIFICATION Spec
PROPERTY RecoverAll
