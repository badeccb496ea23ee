SPECIFICATION Spec
CONSTANTS
  Images <- MCTwoTables
  MaxSymbols = 6
  WordLimit = 256
INVARIANT RelocationsNameTheirOwn
\* parse_elf_image() returns: after "done" nothing happens.
CHECK_DEADLOCK FALSE
