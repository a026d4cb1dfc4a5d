SPECIFICATION FairSpec
CHECK_DEADLOCK FALSE
CONSTANTS
  InfoSize = 2
  MaxConnections = 3
  MaxSaid = 3
INVARIANTS
  EndIsClean
  TelegramsArrive
PROPERTIES
  SilenceIsNoticed
