SPECIFICATION FairSpec
CONSTANTS
  j1 = j1
  j2 = j2
  j3 = j3
  Jobs = {j1, j2}
  NoJob = NoJob
  Parent <- Chain
  GivenPath <- NoPath
  Known = {j1, j2}
  Sinks = {}
  Finishing = {j1, j2}
  Workers = {w1}
  MaxQueued = 1
  MaxDepth = 2
  StreamCap = 1
  RunEvents = 0
  Drained <- MergedOnly
PROPERTY AcceptedDone
CHECK_DEADLOCK FALSE
