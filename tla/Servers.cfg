SPECIFICATION Spec
CONSTANTS
  w1 = w1
  k1 = k1
  Wires = {w1}
  Cmds = {k1}
  MaxAsk = 1
INVARIANT TypeOK
INVARIANT SuccessIsTrue
INVARIANT InStep
INVARIANT StoppedTrue
PROPERTY CommandsAnswered
PROPERTY QueriesAnswered
CHECK_DEADLOCK FALSE
