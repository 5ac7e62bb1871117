SPECIFICATION Spec
CONSTANTS
  Callers = {p1, p2}
  Agents = {a1}
  Keys = {k}
  NoKey = NoKey
  Bodies = {b1, b2}
  Tags = {t}
  Times = {1}
  NoEntry = NoEntry
  Failure = Failure
  MaxRecords = 3
  Faulty = TRUE
  Compacts = TRUE
PROPERTIES MemoryStep NoResurrection
SYMMETRY Symmetry
