SPECIFICATION Spec
CONSTANTS
  Dumps <- MCDumps
  MaxEntries = 3
INVARIANTS
  ReportIsFromTheFile
  ListsAreOfTheLastStreams
  ThreadsAreCounted
  VerdictIsJustified
\* analyze_crash_dump() returns: after "done" nothing happens.
CHECK_DEADLOCK FALSE
