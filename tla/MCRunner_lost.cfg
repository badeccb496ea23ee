SPECIFICATION Spec
CONSTANTS
  Text <- MCText
  Dashed <- MCDashed
  NumberOf <- MCNumberOf
  CommandLines <- MCCommandLines
  Worlds <- MCWorlds
  HexPattern <- MCHexPattern
  Creatable <- MCCreatable
  MaxAny = 2
  MaxFrequent = 0
  MaxRepeated = 0
INVARIANT
  SuccessMeansWritten
\* binx exits.
CHECK_DEADLOCK FALSE
