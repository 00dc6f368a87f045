SPECIFICATION SetupSpec
CONSTANTS
    KeyThreads = {1, 2}
    Pids = {1, 2}
    TempTries = 2
    MaxFiles = 6
    MaxKeys = 4
    MaxKeyCrashes = 1
    Codes = {c1, c2}
    MaxPairFault = 1
    MaxStale = 1
    MaxOdd = 1
    MESSAGE_SIZE = 2
    MIN_READ = 3
    MaxPayload = 3
    WireScripts <- SomeStreams
    Noises <- SomeNoise
    RxLinks = {"async", "blocking", "pool"}
    MaxStops = 2
    TxHeader = 2
    MAX_PAYLOAD = 4
    TxQueues <- SomeQueues
    PacketSizes = {2, 3}
    TxLinks = {"tcp", "blocking", "nusb", "rusb"}
    TlsScripts <- SomeRecords
    RecordLen = 2
    QUEUE_LIMIT = 2
    PlainLimit = 2
    MaxWrites = 3
    MaxDrops = 1
    Buses <- SomeBuses
    Selectors <- SomeSelectors
    Backends = {"rusb", "nusb"}
INVARIANTS KeysSafe DeviceKnown WireSafe TlsSafe UsbSafe
PROPERTIES
    KeyUntouched CallsReturn
CHECK_DEADLOCK FALSE
