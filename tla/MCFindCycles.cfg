SPECIFICATION Spec
CONSTANTS
  Graphs <- MCGraphs
  MaxSize = 3
  MaxEdges = 4
INVARIANTS
  StackIsThePath
  ReportedCyclesAreReal
  EveryKnotIsReported
\* The search returns: after "done" nothing happens.
CHECK_DEADLOCK FALSE
