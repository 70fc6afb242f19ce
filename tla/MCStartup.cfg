SPECIFICATION FairSpec
CONSTANTS
  Absent = Absent  Malformed = Malformed  Blank = Blank
  Garbage = Garbage  NoConfig = NoConfig
  MaxArgs = 3
  MaxMoves = 2
INVARIANTS TypeOK WithinLimits FlagsDisarm
PROPERTIES PassedRuns RepairedStarts
