SPECIFICATION FairSpec
CONSTANTS
    r1 = r1
    r2 = r2
    r3 = r3
    Requests = {r1, r2, r3}
    MaxChannels = 1
    MaxWire = 1
    Scenarios <- EachFault
INVARIANTS OneVerdict NoLostIncoming PendingExact
PROPERTIES EveryOpenAnswered
CHECK_DEADLOCK FALSE
