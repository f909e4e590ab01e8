SPECIFICATION Spec
CONSTANTS
  p1 = p1
  p2 = p2
  t1 = t1
  t2 = t2
  t3 = t3
  Sessions = {p1, p2}
  NoSession = NoSession
  Names = {t1, t2, t3}
  MaxCatalogZ = 2
  MaxCreates = 3
  Faults = {"refused", "noack"}
  MaxFaults = 2
  MaxCrashes = 2
INVARIANT TypeOK
INVARIANT IdsUniqueUnlessFailed
INVARIANT AckedKnown
INVARIANT KnownIsStored
PROPERTY CatalogAvailable
