SPECIFICATION RecallSpec
CONSTANTS
  Callers = {p1}
  Agents = {a1, a2}
  Global = Global
  AgentID = a1
  Keys = {k}
  NoKey = NoKey
  b1 = b1
  b2 = b2
  Bodies = {b1, b2}
  Tags = {}
  Times = {1}
  NoEntry = NoEntry
  Failure = Failure
  MaxCalls = 3
  Failing = TRUE
  Restarts = TRUE
  Vocab <- MCVocab
  CLS = CLS
  SEP = SEP
  UNK = UNK
  PAD = PAD
  DefaultModel <- MCDefault
  Unset = Unset
  Failed = Failed
  TextOf <- MCTextOf
  KindOf <- MCKindOf
  Hints <- MCHints
  Options <- MCOptions
  ModelDim = 1
  Sims = {0, 1}
  MinScore = 1
  MaxCap = 1
INVARIANTS OnePerKey Degrades FusionMonotone EncodingFaithful
PROPERTIES EmbedOnce HeadroomSuffices
CHECK_DEADLOCK FALSE
