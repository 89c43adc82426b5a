SPECIFICATION FairSpec
CONSTANTS
  None = None
  A = A
  B = B
  C = C
  alice = alice
  bob = bob
  carol = carol
  e1 = e1
  e2 = e2
  Hub = {A, B, C}
  Spoke = {alice, bob}
  Setups <- MCSetups
  Env = {e1}
  From <- MCFrom
  To <- MCTo
INVARIANTS TypeOK DeliveredAtRest ArrivesOnce 
PROPERTIES Settles
CHECK_DEADLOCK FALSE
