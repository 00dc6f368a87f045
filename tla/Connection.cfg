SPECIFICATION ConnSpec
CONSTANTS
  AckModes = {"Classic", "Delayed"}
  MaxPayload = 2
  MaxRxPerChannel = 2
  InitialAckBytes = 2
  Opens = {1, 2}
  Requests = {3, 4}
  Grant = 1
  Wants = {1}
  MaxLocal = 2
  MaxWire = 2
  Scenarios <- MCScenarios
INVARIANTS DataExact ChannelsExact
CHECK_DEADLOCK FALSE
PROPERTIES ConnCallsEnd
