SPECIFICATION Spec
CONSTANTS
  user = user
  feedback = feedback
  project = project
  w = w
  v = v
  global = global
  mine = mine
  other = other
  k = k
  u1 = u1
  f1 = f1
  p1 = p1
  p2 = p2
  Agents = {global, mine, other}
  Keys = {k}
  NoKey = NoKey
  Bodies <- MCBodies
  Tags = {}
  Times = {1}
  NoEntry = NoEntry
  Failure = Failure
  Global = global
  AgentID = mine
  MaxItems = 2
  DefaultMax = 1
  Kinds = {user, feedback, project}
  KindOf <- MCKindOf
  TextOf <- MCTextOf
  AlwaysInclude = {user, feedback}
  MaxEntries <- OneEach
  Stopwords = {}
  RequireMatch = FALSE
  IncludeKinds = {}
  Writes <- Quiet
  TurnMessages <- MCTurns
  MaxTurns = 1
  MaxWrites = 3
  Faulty = FALSE
PROPERTY CoreSame
CHECK_DEADLOCK FALSE
