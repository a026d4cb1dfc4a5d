SPECIFICATION FairSpec
CHECK_DEADLOCK FALSE
CONSTANTS
  n1 = n1
  n2 = n2
  ServerCount = 3
  Name = {n1, n2}
  None = None
  MaxOutages = 3
  MaxCommands = 3

  
PROPERTIES
  Reopens
