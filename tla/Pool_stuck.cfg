SPECIFICATION FairSpec
CONSTANTS
  j1 = j1
  j2 = j2
  j3 = j3
  Jobs = {j1, j2, j3}
  NoJob = NoJob
  Parent <- Flat
  GivenPath <- NoPath
  Known = {j1, j2, j3}
  Sinks = {}
  Finishing = {j1, j2, j3}
  Workers = {w1}
  MaxQueued = 1
  MaxDepth = 2
  StreamCap = 1
  RunEvents = 2
  Drained = {}
PROPERTY CloseCompletes
CHECK_DEADLOCK FALSE
