CONSTANTS
  Callers = {c1, c2}
  NoCaller = NoCaller
  Ops = {"BATCH_WRITE", "FORCE_LOAD"}
  MaxCalls = 2
  MaxConns = 4
  MaxBreaks = 1
  MaxFails = 1
  MaxSilent = 0
  MaxCrashes = 1
  MaxStops = 1
  MayShutdown = TRUE
SPECIFICATION FairSpec
PROPERTY CallsFinish
