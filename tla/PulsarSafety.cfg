SPECIFICATION Spec
CONSTANTS
  a = a
  b = b
  c = c
  Node = {a, b, c}
  Listener = {}
  Passive = {}
  Time = {1, 2, 3}
  NoTime = NoTime
  DistinctTimes = TRUE
  SendTime = 2
  ReceiveTime = 7
  ActivateSleep = 5
  DeactivateSleep = 20
  MaxLosses = 1
  MaxCrashes = 1
  MaxRequests = 1
SYMMETRY Symmetry
INVARIANTS
  SplitHeals
  VacancyEnds
  NoUsurper
  YieldInv
PROPERTIES
  OneStaysActive
