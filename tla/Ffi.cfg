SPECIFICATION MCSpec
CONSTANTS
    Threads = {"t1", "t2", "t3"}
    Scenarios <- SomeScenarios
    MaxWire = 1
    Timeouts = TRUE
    TlsBuild = TRUE
INVARIANTS CallsSafe StatusMeansIt
PROPERTIES
    FfiCallsEnd
CHECK_DEADLOCK FALSE
