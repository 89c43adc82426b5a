SPECIFICATION FairSpec
CONSTANTS
  None = None
  Msg = {m1, m2}
  Session = {s1, s2, s3}
  MaxQueue = 1
  MaxCand = 1
  MaxCrash = 0
PROPERTIES QueueDrains StopEndsRun
CHECK_DEADLOCK FALSE
