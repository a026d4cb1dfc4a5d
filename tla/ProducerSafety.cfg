SPECIFICATION ProducerSpec
CONSTANTS
  m1 = m1
  m2 = m2
  m3 = m3
  ima = ima
  empty = empty
  Message = {m1, m2}
  NoMessage = NoMessage
  FreedMemory = FreedMemory
  EmptyText = {}
  ImaLike = {}
  SerialCount = 2
  TransmissionWindow = 1
  MaxRetryCount = 1
  PromptPeer = FALSE
  MayHold = FALSE
  MaxData = 1
  MaxControl = 1
  MaxCount = 2
  StorageErrors = TRUE
  MaxSessions = 1
SYMMETRY Symmetry
INVARIANTS
  WindowRespected
  OneRequest
  IdMapIsExact
  IdleMeansDrained
PROPERTIES
  KeepsMessages
