SPECIFICATION FairSitaSpec
CHECK_DEADLOCK FALSE
CONSTANTS
  headerSize = 2
  OpenSize = 2
  Width = 16
  maxSessionStatusQueryNumber = 1
  Lengths = {1}
  PromptPeer = FALSE
  Holds = {}
  Writers = {"client", "server"}
  Timers = {"server"}
  MayDisconnect = TRUE
  MaxMessages = 1
  MaxBytes = 5
INVARIANTS
  EndIsReportedOnce
  NoProtocolError
  EndsAgree
  TimeoutMeansSilence
PROPERTIES
  ConnectionCloses
  CloseIsNoticed
  MessagesArrive
