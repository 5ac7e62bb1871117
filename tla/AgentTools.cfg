SPECIFICATION AgentSpec
CONSTANTS
  ServerLists <- MCServerLists
  Valid <- MCValid
  NameLimit = 5
  ParseError = ParseError
  Walks <- MCWalks
  HostTools <- MCHostTools
  HostSkills <- MCHostSkills
  NoCall = NoCall
  MaxEdits = 2
  MaxLines = 4
INVARIANTS NoLeak WorkingToolsServed LoadFaithful OfferedWhole
CHECK_DEADLOCK FALSE
