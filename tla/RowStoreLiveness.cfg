CONSTANTS
  Sessions = {s1}
  NTables = 1
  TableZSpacing = 4
  MaxRows = 2
  MaxLSN = 7
  MaxDeletes = 2
  ChanCap = 1
  Wheres = {{0, 1, 2}}
  Faults = {"refused", "noack", "torn"}
  MaxFaults = 2
  MaxCrashes = 1
  MayShutdown = TRUE
SPECIFICATION FairSpec
PROPERTY StatementsFinish
PROPERTY RecoveryFinishes
INVARIANT SelectExact
