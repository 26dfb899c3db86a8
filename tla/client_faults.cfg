SPECIFICATION Spec
CONSTANTS
  Databases <- MCDatabases
  RawNames <- MCRawNames
  Trim <- MCTrim
  Blank = ""
  LongNames <- MCLongNames
  NoDatabase = NoDatabase
  Offered <- Core
  Spoken <- Terse
  LengthBytes = 2
  BodySizes <- LongBodies
  MaxResponse = 3
  Timeouts <- EitherWay
  Faults <- AllFaults
  MaxCalls = 2
INVARIANTS TypeOK InSync AnswersItsRequest DatabaseIsBound WakesAfterFlag InOrder Exchange Tracking Addressed
PROPERTY Settles
CHECK_DEADLOCK FALSE
