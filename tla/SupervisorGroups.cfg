SPECIFICATION Spec
CHECK_DEADLOCK FALSE
CONSTANTS
  c1 = c1
  c2 = c2
  d1 = d1
  g1 = g1
  g2 = g2
  Database = {d1}
  Checked = {c1}
  databaseOf <- OneDatabase
  MaxOutages = 0
  Controller = {c1, c2}
  Restartable = {c1}
  Nobody = Nobody
  MaxCrashes = 0
  mDatabases <- Databases
  Group = {g1, g2}
  orderedServices <- Services
  FirstGroup = g1
  autostart = TRUE
  Request <- NoRequest
  MaxCommands = 1
PROPERTIES
  OldGroupIsStopped
