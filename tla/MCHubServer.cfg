SPECIFICATION Spec
CONSTANTS
  b1 = b1
  b2 = b2
  p1 = p1
  p2 = p2
  bob = bob
  peer = peer
  e1 = e1
  NoConn = NoConn
  NoEnv = NoEnv
  Env = {e1}
  Conn <- MCConn
  Key <- MCKey
  KeyOf <- MCKeyOf
  RoleOf <- MCRoleOf
  To <- MCTo
INVARIANTS TypeOK NoDanglingSession SoleSessionRoutable StopClosesRegistered RelayedOnce
CHECK_DEADLOCK FALSE
SYMMETRY Symmetry
