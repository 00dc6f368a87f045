SPECIFICATION StalledSpec
CONSTANTS
  AckModes = {"Classic", "Delayed"}
  MaxPayload = 2
  MaxRxPerChannel = 3
  InitialAckBytes = 3
  t1 = t1
  t2 = t2
  Tasks <- TwoTasks
  Wants = {2}
  Lens = {1, 2}
  StreamLen = 4
  MaxWire = 2
  Conforming = {TRUE}
  Faults = {"drop", "gone", "writeError", "readerDrop"}
PROPERTIES StaysReadable AllRead
