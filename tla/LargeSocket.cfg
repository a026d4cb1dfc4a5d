SPECIFICATION FairSpec
CHECK_DEADLOCK FALSE
CONSTANTS
  MAX_DATA_SIZE = 6
  Lengths = {6, 7}
  IdentifierCount = 2
  BAD_IDENTIFIER <- NoIdentifier
  Huge = 1000
  MaxBlocks = 3
  MaxConnections = 2
INVARIANTS
  InOrder
PROPERTIES
  DamageEnds
  BlocksArrive
