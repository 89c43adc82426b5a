SPECIFICATION Spec
CONSTANTS
  None = None
  Msg = {m1, m2}
  Session = {s1, s2, s3}
  MaxQueue = 2
  MaxCand = 1
  MaxCrash = 0
PROPERTIES RefusedStaysQueued
CHECK_DEADLOCK FALSE
