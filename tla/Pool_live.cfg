SPECIFICATION FairSpec
CONSTANTS
  j1 = j1
  j2 = j2
  j3 = j3
  Jobs = {j1, j2, j3}
  NoJob = NoJob
  Parent <- Flat
  GivenPath <- LongPath
  Known = {j1, j2, j3}
  Sinks = {j2}
  Finishing = {j2, j3}
  Workers = {w1, w2}
  MaxQueued = 1
  MaxDepth = 2
  StreamCap = 1
  RunEvents = 1
  Drained <- MergedAndJ2
INVARIANT NoSendOnClosed
INVARIANT ClosedAfterAll
INVARIANT NothingHeldBack
PROPERTY AcceptedDone
PROPERTY CancelDrains
CHECK_DEADLOCK FALSE
