SPECIFICATION Spec
CONSTANTS
  AckModes = {"Classic", "Delayed"}
  MaxPayload = 2
  MaxRxPerChannel = 2
  InitialAckBytes = 2
  w1 = w1
  w2 = w2
  w3 = w3
  Writers <- ThreeWriters
  MaxCalls = 1
  Window = 2
  Scenarios <- Crowds
INVARIANTS CreditExact TurnsExact
PROPERTIES GrantedInOrder
SYMMETRY WriterSymmetry
CHECK_DEADLOCK FALSE
