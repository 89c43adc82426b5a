SPECIFICATION FairSpec
CONSTANTS
  Call = {c1, c2, c3, c4}
  MaxRestart = 1
INVARIANTS TypeOK CurrentAtRest
PROPERTIES ChangesStick
CHECK_DEADLOCK FALSE
