SPECIFICATION FairSpec
CONSTANTS
  Databases <- MCDatabases
  RawNames <- MCRawNames
  Trim <- MCTrim
  Blank = ""
  LongNames <- MCLongNames
  NoDatabase = NoDatabase
  Offered <- Core
  Spoken <- Terse
  LengthBytes = 1
  BodySizes <- Fit
  MaxResponse = 2
  Timeouts <- Set
  Faults <- NoFaults
  MaxCalls = 1
PROPERTY ShutdownWakesServer
CHECK_DEADLOCK FALSE
