CONSTANTS
  h1 = h1
  MaxRequests = 3
  Hosts = {h1}
  Timeouts = {5, 7}
  NoHost = NoHost
  Patches <- SomePatches
  NoConfig = NoConfig
  MaxBuilds = 2
  MaxFaults = 1
  MaxCalls = 1
  MaxDrops = 1
  MaxTouches = 1
  MaxFrames = 1
SPECIFICATION LinkedSpec
INVARIANTS LinkedOK PullsUncut NobodyWaitsInVain
PROPERTIES NoReportedShotCut AllServed
CHECK_DEADLOCK FALSE
