SPECIFICATION Spec
CONSTANTS
  AckModes = {"Classic", "Delayed"}
  MaxPayload = 2
  MaxRxPerChannel = 2
  InitialAckBytes = 2
  t1 = t1
  t2 = t2
  Tasks <- TwoTasks
  Wants = {1, 3}
  Lens = {1, 2}
  StreamLen = 4
  MaxWire = 2
  Conforming = {TRUE, FALSE}
  Faults = {"drop", "writeError", "close"}
SYMMETRY TaskSymmetry
INVARIANTS TypeOK FlowInv NoOverflow HeldWithinCap AcksExact NoLostWakeup
PROPERTIES NothingAfterGap
