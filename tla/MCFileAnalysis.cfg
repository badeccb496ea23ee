SPECIFICATION Spec
CONSTANTS
  Inputs <- MCInputs
  MaxSize = 5
  MaxHunks = 1
INVARIANT
  ResultsAreExact
\* Each command returns: after its outcome nothing happens.
CHECK_DEADLOCK FALSE
