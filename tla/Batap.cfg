SPECIFICATION FairSpec
CONSTANTS
  m1 = m1
  m2 = m2
  m3 = m3
  ima = ima
  Message = {m1, ima}
  NoMessage = NoMessage
  FreedMemory = FreedMemory
  EmptyText = {}
  ImaLike = {ima}
  SerialCount = 2
  TransmissionWindow = 2
  MaxRetryCount = 2
  PromptPeer = FALSE
  MayHold = TRUE
  MaxData = 1
  MaxControl = 1
  MaxCount = 3
INVARIANTS
  DeliveryInv
PROPERTIES
  DropOnlyOnWrap
  Settles
