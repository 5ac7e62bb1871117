SPECIFICATION Spec
CONSTANTS
  j1 = j1
  j2 = j2
  j3 = j3
  Jobs = {j1, j2}
  NoJob = NoJob
  Parent <- Chain
  GivenPath <- NoPath
  Known = {j1, j2}
  Sinks = {}
  Finishing = {j1, j2}
  Workers = {w1, w2}
  MaxQueued = 1
  MaxDepth = 1
  StreamCap = 1
  RunEvents = 0
  Drained <- MergedOnly
INVARIANT DepthCapped
CHECK_DEADLOCK FALSE
