SPECIFICATION FairProducerSpec
CONSTANTS
  m1 = m1
  m2 = m2
  m3 = m3
  ima = ima
  empty = empty
  Message = {m1, m2, ima}
  NoMessage = NoMessage
  FreedMemory = FreedMemory
  EmptyText = {}
  ImaLike = {ima}
  SerialCount = 2
  TransmissionWindow = 1
  MaxRetryCount = 2
  PromptPeer = TRUE
  MayHold = TRUE
  MaxData = 1
  MaxControl = 1
  MaxCount = 3
  StorageErrors = FALSE
  MaxSessions = 1
PROPERTIES
  Drains
