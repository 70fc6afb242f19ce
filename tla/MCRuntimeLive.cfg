SPECIFICATION FairSpec
CONSTANTS
  d1 = d1  d2 = d2  tmp = tmp  diff = diff  merged = merged
  p1 = p1  q1 = q1  q2 = q2  n1 = n1  n2 = n2
  Dirs = {d1, d2}
  Files = {f1}
  Hashes = {bad}
  NoFile = NoFile
  MaxFiles = 1
  Privileged = TRUE
  Owned = {}
  HostRoots = {tmp}
  OverlayRoots = {diff, merged}
  Paths = {p1, q1, q2}
  RootOf <- MCRootOf
  DirOf <- MCDirOf
  NameOf <- MCNameOf
  Rank <- MCRank
  Names = {n1, n2}
  AtMaxDepth = {}
  NoItem = NoItem
  Broken = Broken
  QuarantineOn = TRUE
  NtfyOn = TRUE
  MaxMoves = 2
  MaxCrashes = 1
PROPERTIES ThreatContained QuarantineJournaled ActivationEnds
