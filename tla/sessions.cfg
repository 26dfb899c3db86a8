SPECIFICATION FairSpec
CONSTANTS
  Clients <- MCClients
  Databases <- MCDatabases
  RawNames <- MCRawNames
  Trim <- MCTrim
  Blank = ""
  NoDatabase = "no database"
  Server = "server"
  Resolutions <- MCResolutions
  Options <- MCOptions
  Offered <- MCOffered
  Spoken <- MCSpoken
  Backlog = 1
  Hangups = TRUE
  MaxCalls = 2
INVARIANTS TypeOK DatabaseKnown Consistent
PROPERTIES IsService CallsReturn ShutdownStops SessionReleased
CHECK_DEADLOCK FALSE
