SPECIFICATION Spec
CONSTANTS
  None = None
  A = A
  B = B
  C = C
  alice = alice
  bob = bob
  carol = carol
  e1 = e1
  e2 = e2
  Hub = {A, B, C}
  Spoke = {alice, bob, carol}
  Setups <- LineSetups
  Env = {e1}
  From <- MCFrom
  To <- MCTo
INVARIANTS DeliveredAtRest
CHECK_DEADLOCK FALSE
