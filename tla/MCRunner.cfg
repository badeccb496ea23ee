SPECIFICATION Spec
CONSTANTS
  Text <- MCText
  Dashed <- MCDashed
  NumberOf <- MCNumberOf
  CommandLines <- MCCommandLines
  Worlds <- MCWorlds
  HexPattern <- MCHexPattern
  Creatable <- MCCreatable
  MaxAny = 2
  MaxFrequent = 4
  MaxRepeated = 3
INVARIANTS
  AcceptedOptionsAreUsable
  LastOneCounts
  OutputAgreesWithExit
  ReportIsOfTheInputs
  DamageIsNoSuccess
PROPERTIES
  Exits
\* binx exits.
CHECK_DEADLOCK FALSE
