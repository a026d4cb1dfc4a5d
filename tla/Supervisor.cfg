SPECIFICATION FairSpec
CHECK_DEADLOCK FALSE
CONSTANTS
  c1 = c1
  c2 = c2
  d1 = d1
  g1 = g1
  g2 = g2
  Database = {d1}
  Checked = {c1}
  databaseOf <- OneDatabase
  MaxOutages = 1
  Controller = {c1, c2}
  Restartable = {c1}
  Nobody = Nobody
  MaxCrashes = 1
  mDatabases <- Databases
  Group = {g1, g2}
  orderedServices <- Services
  FirstGroup = g1
  autostart = TRUE
  Request <- Requests
  MaxCommands = 2
INVARIANTS
  StoppedStaysDown
  SleepMeansDrained
PROPERTIES
  ReadyMeansAnswered
  KeepsRunning
  MainReturns
