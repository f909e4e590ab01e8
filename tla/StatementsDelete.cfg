SPECIFICATION Spec
CONSTANTS
  Radix = 4
  SignLineLen = 4
  MaxRows = 2
  Requests <- MCRequests
  ParseFloat <- MCParseFloat
  FloatUnit = 2
  MaxExact = 300
PROPERTY DeletesOnlyMatches
