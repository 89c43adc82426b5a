SPECIFICATION Spec
CONSTANTS
  None = None
  Msg = {m1, m2, m3}
  Session = {s1, s2, s3, s4}
  MaxQueue = 2
  MaxCand = 1
  MaxCrash = 1
INVARIANTS TypeOK HandedOnce QueueOrder
PROPERTIES OutboxSpec
SYMMETRY Symmetry
CHECK_DEADLOCK FALSE
