CONSTANTS
  Sessions = {s1, s2}
  NTables = 2
  TableZSpacing = 2
  MaxRows = 2
  MaxLSN = 6
  MaxDeletes = 1
  ChanCap = 1
  Wheres = {{0, 1, 2}}
  Faults = {"refused", "noack"}
  MaxFaults = 1
  MaxCrashes = 1
  MayShutdown = FALSE
SYMMETRY SessionSymmetry
SPECIFICATION Spec
INVARIANT SlotExclusive
INVARIANT CommittedApplied
INVARIANT DeletedStaysDeleted
PROPERTY RecoveredPrefix
PROPERTY ImplementsTable
