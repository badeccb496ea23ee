SPECIFICATION Spec
CONSTANTS
  RvaLimit = 8
  Images <- MCImages
INVARIANTS
  MappingIsReversible
  OverlapsAreReported
  EntryIsInItsSection
\* parse_pe() goes on to the tables: after "done" nothing happens here.
CHECK_DEADLOCK FALSE
