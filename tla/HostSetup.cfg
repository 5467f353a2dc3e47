SPECIFICATION Spec
CONSTANT MaxRuns = 2
INVARIANTS
  HostTypeOK
  CacheWhole
  MountedIsFile
  DownloadsOnce
  EphemeralLeavesNothing
  PersistReady
  KeyOfThisRun
  ServesOwn
  HostInv
PROPERTY RunEnds
CHECK_DEADLOCK FALSE
