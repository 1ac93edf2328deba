SPECIFICATION Spec
CONSTANTS
  NoAnswer = NoAnswer
  NoReply = NoReply
  NONE = NONE
  Lines <- ClientLines
  MaxLines = 1
  PoolSize = 2
  Connections = {c1, c2}
  Requests <- ScopeRequests
  MaxRequests = 4
  Tools = {"x", "y", "z"}
  Scopes <- TokenScopes
  SharedToken = "shared"
  MaxDepth = 6
  MaxHops = 4
  Numeral <- ToString
  Environment <- Variables
  Limit = 12
  Marker = 3
  Excerpt = 6
  Nesting = 5
  Defaults <- Parser
  Documents <- SpecFiles
  Matches <- PathsOf
  Launches <- BothServed
  Answers <- FewAnswers
  KeyLists <- KeysOfLists
  Oddities <- Odd
INVARIANT SomeScopePromiseKept
CHECK_DEADLOCK FALSE
