SPECIFICATION Spec
CONSTANTS
  Calls = {c1, c2, c3}
  Unsafe = {c1, c2}
  CallIDs = {i1, i2}
  NoCallID = NoCallID
  Distinct = TRUE
  NoEvent = NoEvent
  Run = Run
  MaxTime = 1
  MaxSetBack = 1
  Milli <- OwnMilli
  Rands = {0, 1}
  MaxIssued = 2
  MaxRetrieved = 1
SYMMETRY Symmetry
INVARIANTS ChainFaithful ExecutedInChain ChainInOrder
CHECK_DEADLOCK FALSE
