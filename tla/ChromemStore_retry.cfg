SPECIFICATION Spec
CONSTANTS
  Callers = {p1}
  Agents = {a1}
  Keys = {}
  NoKey = NoKey
  Bodies = {b1, b2}
  Tags = {}
  Times = {1}
  NoEntry = NoEntry
  Failure = Failure
  MaxCalls = 2
  Failing = TRUE
  Restarts = TRUE
INVARIANT AckedIsStored
