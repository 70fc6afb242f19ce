SPECIFICATION Spec
CONSTANTS
  plain = plain  other = other  spaced = spaced
  a = a  b = b  p = p  s = s
  Proposers = {daemon}
  Aggregator = sidecar
  Keys = {plain, spaced}
  Cands = {p, s}
  KeyOf <- MCKeyOf
  ReadsAs <- MCReadsAs
  Shifted <- MCShifted
  Width <- MCWidth
  Suffix = 1
  Hosts = {}
  Live = Live
  Missing = Missing
  Gone = Gone
  Closed = Closed
  NoLine = NoLine
  MaxBytes = 9
  MaxAge = 2
  MaxNow = 2
  MaxPolls = 0
  MaxFaults = 1
  Kills = FALSE
PROPERTY WriterErrorRetried
