SPECIFICATION FairSpec
CONSTANTS
  Databases <- MCDatabases
  RawNames <- MCRawNames
  Trim <- MCTrim
  Blank = ""
  LongNames <- MCLongNames
  NoDatabase = NoDatabase
  Offered <- Methods
  Spoken <- Responses
  LengthBytes = 1
  BodySizes <- Fit
  MaxResponse = 2
  Timeouts <- Unset
  Faults <- AllFaults
  MaxCalls = 2
PROPERTIES IsRpc CallsReturn ShutdownStops
CHECK_DEADLOCK FALSE
