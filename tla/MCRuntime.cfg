SPECIFICATION Spec
CONSTANTS
  d1 = d1  d2 = d2  tmp = tmp  diff = diff  merged = merged
  p1 = p1  q1 = q1  q2 = q2  n1 = n1  n2 = n2
  Dirs = {d1, d2}
  Files = {f1, f2}
  Hashes = {bad, clean}
  NoFile = NoFile
  MaxFiles = 1
  Privileged = FALSE
  Owned = {d1}
  HostRoots = {tmp}
  OverlayRoots = {diff, merged}
  Paths = {p1, q1, q2}
  RootOf <- MCRootOf
  DirOf <- MCDirOf
  NameOf <- MCNameOf
  Rank <- MCRank
  Names = {n1, n2}
  AtMaxDepth = {p1}
  NoItem = NoItem
  Broken = Broken
  QuarantineOn = TRUE
  NtfyOn = TRUE
  MaxMoves = 3
  MaxCrashes = 1
INVARIANTS TypeOK Tally InfoIsClean FailureIsUrgent JournalFirst StopIsPrompt
PROPERTIES JustifiedQuarantine ImplementsContainment
SYMMETRY Symmetry
