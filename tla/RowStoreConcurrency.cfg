CONSTANTS
  Sessions = {s1, s2}
  NTables = 1
  TableZSpacing = 4
  MaxRows = 2
  MaxLSN = 7
  MaxDeletes = 2
  ChanCap = 1
  Wheres = {{0, 1, 2}}
  Faults = {"refused", "noack", "torn"}
  MaxFaults = 1
  MaxCrashes = 0
  MayShutdown = FALSE
SYMMETRY SessionSymmetry
SPECIFICATION Spec
INVARIANT TypeOK
INVARIANT LogIntact
INVARIANT AckedVisible
INVARIANT CommittedApplied
INVARIANT NoPhantomDelete
INVARIANT SelectExact
PROPERTY WriteAhead
PROPERTY EntryKept
PROPERTY ImplementsTable
