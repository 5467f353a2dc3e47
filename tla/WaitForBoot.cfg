SPECIFICATION Spec
CONSTANTS
  MaxTry = 2
  Static = s
  DhcpRange = {d1, d2}
  NoAddr = none
INVARIANTS
  TypeOK
  BootedIsInstalled
  PollFindsStatic
  PollInv
PROPERTIES
  SignalReleases
  WaitEnds
CHECK_DEADLOCK FALSE
