\* The files stay as they are: the report is compared with the reference.
SPECIFICATION SpecReport
CONSTANTS
  File <- MCFile
  Alias <- MCAlias
  Links <- MCLinks
  Name <- MCName
  SearchPath <- MCSearchPath
  Root <- MCRoot
  Versions <- MCVersions
  Volatile = {}
  MaxDepth = 2
  MaxNodes = 4
INVARIANTS
  GraphIsComplete
  UnresolvedIsExact
  LimitIsGenuine
  CyclesAreExact
PROPERTIES
  ReportIsMade
\* binx returns: after the report nothing happens.
CHECK_DEADLOCK FALSE
