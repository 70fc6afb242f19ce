SPECIFICATION FairSpec
CONSTANTS
  plain = plain  other = other  spaced = spaced
  a = a  b = b  p = p  s = s
  Proposers = {daemon}
  Aggregator = sidecar
  Keys = {plain, other}
  Cands = {a, b, p}
  KeyOf <- MCKeyOf
  ReadsAs <- MCReadsAs
  Shifted <- MCShifted
  Width <- MCWidth
  Suffix = 1
  Hosts = {}
  Live = Live
  Missing = Missing
  Gone = Gone
  Closed = Closed
  NoLine = NoLine
  MaxBytes = 2
  MaxAge = 2
  MaxNow = 2
  MaxPolls = 0
  MaxFaults = 3
  Kills = TRUE
INVARIANTS SizeBounded KnownIsRecorded ProposedOncePerFile
PROPERTIES AppendOnly Retried
