SPECIFICATION Spec
CONSTANTS
    r1 = r1
    r2 = r2
    r3 = r3
    Requests = {r1, r2, r3}
    MaxChannels = 1
    MaxWire = 3
    Scenarios <- WithdrawAndDrop
INVARIANT WithdrawnStaysGone
CHECK_DEADLOCK FALSE
