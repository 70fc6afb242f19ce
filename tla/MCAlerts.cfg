SPECIFICATION FairSpec
CONSTANTS
  d1 = d1  d2 = d2
  Dirs = {d1, d2}
  HostRoots = {}
  NoRequest = NoRequest
  MaxMoves = 2
  MaxFaults = 2
  MaxCrashes = 1
INVARIANTS TypeOK AlertedOncePerQuarantine SilenceIsLogged
PROPERTIES PollGoesOn OperatorHears
