SPECIFICATION FairSpec
CONSTANTS
    AckModes = {"Delayed"}
    MaxPayload = 1
    MaxRxPerChannel = 1
    InitialAckBytes = 1
    Calls = {1, 2}
    MaxChannels = 1
    IdSpace = 2
    MaxWire = 1
    Scenarios <- EachFault
INVARIANTS SlotsExact IdsExact
PROPERTIES ClosesEnd CallsEnd
CHECK_DEADLOCK FALSE
