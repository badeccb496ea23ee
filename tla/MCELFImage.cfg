SPECIFICATION Spec
CONSTANTS
  Images <- MCImages
  MaxSymbols = 6
  WordLimit = 256
INVARIANTS
  TablesAreListed
  RelocationsNameSymbols
  NotesTile
\* parse_elf_image() returns: after "done" nothing happens.
CHECK_DEADLOCK FALSE
