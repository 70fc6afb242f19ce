SPECIFICATION Spec
CONSTANTS
  Host = Host  Tmp = Tmp
  N = 2
  ScanMaxDepth = 2
  OverlayMaxDepth = 2
  DotdirOnly = TRUE
  MaxMoves = 0
INVARIANT NestedKitContained
