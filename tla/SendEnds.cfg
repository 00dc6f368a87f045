SPECIFICATION StalledSpec
CONSTANTS
  AckModes = {"Classic", "Delayed"}
  MaxPayload = 2
  MaxRxPerChannel = 2
  InitialAckBytes = 2
  w1 = w1
  w2 = w2
  w3 = w3
  Writers <- TwoWriters
  MaxCalls = 1
  Window = 1
  Scenarios <- Endings
PROPERTIES ClosedUnblocks EveryWriteEnds
CHECK_DEADLOCK FALSE
