SPECIFICATION SvSpec
CONSTANTS
  HEADER_SIZE = 2
  ShScripts <- FrameScripts
  ShCapacities = {2, 4}
  PREFIX = 1
  EntryLens <- SomeEntries
  LgScripts <- LogScripts
  LgCapacities = {3, 4}
  SY_HEADER = 2
  StatSize = 4
  DentSize = 3
  SyCalls <- SomeCalls
  SyFeatures = {{}, {"v2", "LZ4"}}
  SyAnswers <- Answers
  SyCapacities = {4, 5}
  SyRequests = 2
  OsScripts <- Outputs
  OsCapacities = {2, 4}
  ReplyCap = 3
  TrScripts <- Snapshots
  TrCapacities = {3, 4}
  HEX_LEN_PREFIX = 2
  Bits = 9
  Fixed32 = 1
  Fixed64 = 2
  LogV3 = 3
  LogV4 = 4
  LogMax = 6
  PortMod = 100
  MaxProperties = 1
  Alphabet <- Texts
  Longest <- Lengths
INVARIANTS BuffersSafe MessagesExact FormatsExact
PROPERTIES CallsEnd
CHECK_DEADLOCK FALSE
