\* The files change while binx walks over them.
SPECIFICATION Spec
CONSTANTS
  File <- MCFile
  Alias <- MCAlias
  Links <- MCLinks
  Name <- MCName
  SearchPath <- MCSearchPath
  Root <- MCRoot
  Versions <- MCVersions
  Volatile <- MCFile
  MaxDepth = 2
  MaxNodes = 3
INVARIANTS
  NodesAreDistinct
  EveryNodeIsNeeded
  NoDependencyTwice
  QueueIsByDepth
PROPERTIES
  Termination
  KeepsPromises
\* binx returns: after "done" nothing happens.
CHECK_DEADLOCK FALSE
