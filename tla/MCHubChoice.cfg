SPECIFICATION Spec
CONSTANTS
  None = None
  osp = osp
  town = town
  vps = vps
  a1 = a1
  a2 = a2
  a3 = a3
  a4 = a4
  Addr = {a1, a2, a3, a4}
  Ip <- MCIp
  IpOf <- MCIpOf
  Key <- MCKey
  Seed <- MCSeed
  Given <- MCGiven
  Scanned <- MCScanned
  Community <- MCCommunity
  Manual <- MCManual
  Served <- MCServed
  Moves <- MCMoves
  MaxRtt = 1
  MaxMove = 1
  MaxCrash = 1
INVARIANTS TypeOK SeedIsLastResort DeadHubsLast ReachedIsOnDisk NoneSkipped
CHECK_DEADLOCK FALSE
