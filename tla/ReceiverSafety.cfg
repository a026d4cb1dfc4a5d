SPECIFICATION ReceiverSpec
CONSTANTS
  a = a
  b = b
  c = c
  Node = {a, b}
  Listener = {r}
  Passive = {}
  Time = {1, 2, 3}
  NoTime = NoTime
  DistinctTimes = TRUE
  SendTime = 2
  ReceiveTime = 7
  ActivateSleep = 5
  DeactivateSleep = 20
  MaxLosses = 1
  MaxCrashes = 1
  MaxRequests = 0
  r = r
  x = x
  y = y
  Address = {x, y}
  NoPeer = NoPeer
  MaxFailovers = 1
SYMMETRY Symmetry
INVARIANTS
  MasterIsFound
  AddressIsFound
  NoFalseLoss
  SilentMasterIsReplaced
