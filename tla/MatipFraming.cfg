SPECIFICATION Spec
CHECK_DEADLOCK FALSE
CONSTANTS
  headerSize = 2
  OpenSize = 2
  Width = 16
  maxSessionStatusQueryNumber = 1
  Lengths = {0, 1, 3}
  PromptPeer = TRUE
  Holds = {"StopTransmission"}
  Writers = {"client"}
  Timers = {"server"}
  MayDisconnect = TRUE
  MaxMessages = 2
  MaxBytes = 5
INVARIANTS
  LivePeerKeepsSession
PROPERTIES
  IsMessageChannel
