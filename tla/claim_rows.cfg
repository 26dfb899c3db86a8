SPECIFICATION Spec
CONSTANTS
  Databases <- MCDatabases
  RawNames <- MCRawNames
  Trim <- MCTrim
  Blank = ""
  LongNames <- MCLongNames
  NoDatabase = NoDatabase
  Offered <- Core
  Spoken <- Terse
  LengthBytes = 1
  BodySizes <- Fit
  MaxResponse = 2
  Timeouts <- Set
  Faults <- NoFaults
  MaxCalls = 3
PROPERTY TakesItsRows
CHECK_DEADLOCK FALSE
