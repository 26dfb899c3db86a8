SPECIFICATION StallSpec
CONSTANTS
  Databases <- MCDatabases
  RawNames <- MCRawNames
  Trim <- MCTrim
  Blank = ""
  LongNames <- MCLongNames
  NoDatabase = NoDatabase
  Offered <- Few
  Spoken <- Brief
  LengthBytes = 1
  BodySizes <- Outsize
  MaxResponse = 2
  Timeouts <- Set
  Faults <- HangUps
  MaxCalls = 3
PROPERTIES CallsReturn ClosedStaysClosed
CHECK_DEADLOCK FALSE
