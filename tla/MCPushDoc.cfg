SPECIFICATION FairSpec
CONSTANTS
  d1 = d1  d2 = d2
  Dirs = {d1}
  HostRoots = {}
  NoRequest = NoRequest
  MaxMoves = 1
  MaxFaults = 1
  MaxCrashes = 0
PROPERTY NextPollRetries
