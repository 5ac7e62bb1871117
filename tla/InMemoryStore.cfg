SPECIFICATION Spec
CONSTANTS
  Agents = {a1, a2}
  Keys = {k}
  NoKey = NoKey
  Bodies = {b1, b2}
  Tags = {t}
  Times = {1, 2}
  NoEntry = NoEntry
  Failure = Failure
INVARIANT IndexExact
PROPERTY MemorySpec
SYMMETRY Symmetry
