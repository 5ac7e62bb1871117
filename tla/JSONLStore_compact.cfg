SPECIFICATION Spec
CONSTANTS
  Callers = {p1}
  Agents = {a1}
  Keys = {k}
  NoKey = NoKey
  Bodies = {b1, b2}
  Tags = {}
  Times = {1}
  NoEntry = NoEntry
  Failure = Failure
  MaxRecords = 4
  Faulty = FALSE
  Compacts = TRUE
INVARIANT OnePerKey
