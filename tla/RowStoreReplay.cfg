CONSTANTS
  Sessions = {s1}
  NTables = 1
  TableZSpacing = 4
  MaxRows = 1
  MaxLSN = 4
  MaxDeletes = 0
  ChanCap = 1
  Wheres = {{0, 1}}
  Faults = {}
  MaxFaults = 0
  MaxCrashes = 1
  MayShutdown = FALSE
SPECIFICATION Spec
INVARIANT InsertReplayed
