SPECIFICATION Spec
CONSTANTS
  RvaLimit = 256
  Images <- MCImages
  MaxDepth = 2
  MaxNodes = 4
  MaxThunks = 2
  MaxExports = 2
  MaxCallbacks = 2
  PageSize = 16
  RSDS = 83
INVARIANTS
  ItemsAreReal
  EveryEntryOnce
  NothingReadableIsLost
  RepeatsAreReported
  TablesAreJudged
  ImportsEndForAReason
  ExportNamesAreDeclared
  BlocksTile
PROPERTIES
  TablesEnd
\* parse_pe() returns: after "done" nothing happens.
CHECK_DEADLOCK FALSE
