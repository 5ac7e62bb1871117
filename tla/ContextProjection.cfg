SPECIFICATION Spec
CONSTANTS
  user = user
  feedback = feedback
  project = project
  w = w
  v = v
  global = global
  mine = mine
  other = other
  k = k
  u1 = u1
  f1 = f1
  p1 = p1
  p2 = p2
  Agents = {global, mine, other}
  Keys = {k}
  NoKey = NoKey
  Bodies <- MCBodies
  Tags = {}
  Times = {1, 2}
  NoEntry = NoEntry
  Failure = Failure
  Global = global
  AgentID = mine
  MaxItems = 2
  DefaultMax = 1
  Kinds = {user, feedback, project}
  KindOf <- MCKindOf
  TextOf <- MCTextOf
  AlwaysInclude = {user, feedback}
  MaxEntries <- OneEach
  Stopwords = {}
  RequireMatch = FALSE
  IncludeKinds = {}
  Writes <- Shared
  TurnMessages <- MCTurns
  MaxTurns = 2
  MaxWrites = 3
  Faulty = TRUE
INVARIANT NoDuplicate
INVARIANT WithinBudget
PROPERTY FreshMemories
PROPERTY StablePrefix
PROPERTY TopRanked
CHECK_DEADLOCK FALSE
