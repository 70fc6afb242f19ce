SPECIFICATION Spec
CONSTANTS
  plain = plain  other = other  spaced = spaced
  a = a  b = b  p = p  s = s
  Proposers = {daemon}
  Aggregator = sidecar
  Keys = {other}
  Cands = {a}
  KeyOf <- MCKeyOf
  ReadsAs <- MCReadsAs
  Shifted <- MCShifted
  Width <- MCWidth
  Suffix = 1
  Hosts = {h1, h2}
  Live = Live
  Missing = Missing
  Gone = Gone
  Closed = Closed
  NoLine = NoLine
  MaxBytes = 3
  MaxAge = 2
  MaxNow = 2
  MaxPolls = 2
  MaxFaults = 0
  Kills = FALSE
INVARIANT CountsHosts
