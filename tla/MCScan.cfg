SPECIFICATION Spec
CONSTANTS
  Host = Host  Tmp = Tmp
  N = 3
  ScanMaxDepth = 2
  OverlayMaxDepth = 2
  DotdirOnly = TRUE
  MaxMoves = 2
INVARIANTS TypeOK NothingHiddenSilently LayerSearched BoundedWalk AllContained
