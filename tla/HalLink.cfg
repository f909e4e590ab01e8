CONSTANTS
  Callers = {c1, c2}
  NoCaller = NoCaller
  Ops = {"WRITE", "BATCH_READ", "BATCH_WRITE", "FORCE_LOAD"}
  MaxCalls = 3
  MaxConns = 3
  MaxBreaks = 1
  MaxFails = 1
  MaxSilent = 1
  MaxCrashes = 1
  MaxStops = 1
  MayShutdown = FALSE
SYMMETRY CallerSymmetry
SPECIFICATION Spec
INVARIANT TypeOK
PROPERTY ImplementsDevice
CHECK_DEADLOCK FALSE
