SPECIFICATION Spec
CONSTANTS
  None = None
  osp = osp
  vps = vps
  g1 = g1
  g2 = g2
  u1 = u1
  nat = nat
  pub = pub
  lan = lan
  any6 = any6
  lo6 = lo6
  Addr = {g1, g2, u1, nat, pub, lan, any6, lo6}
  Kind <- MCKind
  Unspecified = any6
  Loopback = lo6
  MaxNameBytes = 2
  DefaultPort = 1
  Ephemeral = 2
  Machine = {osp, vps}
  Hosts <- MCHosts
  Commands <- MCCommands
  ByHand <- MCByHand
  Community <- MCCommunity
  Filters = {FALSE}
  MaxRun = 2
  MaxMove = 1
  Expiries = {7}
  MaxText = 1
INVARIANTS TypeOK RoundTrip TwinsAgree NoNatClaimed AnnouncedIsHeard CodeNamesOneHub UndatedCodeResolves
CHECK_DEADLOCK FALSE
