SPECIFICATION Spec
CONSTANTS
  NoAnswer = NoAnswer
  NoReply = NoReply
  NONE = NONE
  Lines <- ClientLines
  MaxLines = 2
  PoolSize = 2
  Connections = {c1, c2}
  Requests <- ClientRequests
  MaxRequests = 3
  Tools = {"x", "y", "z"}
  Scopes <- TokenScopes
  SharedToken = "shared"
  MaxDepth = 6
  MaxHops = 4
  Numeral <- ToString
  Environment <- Variables
  Limit = 12
  Marker = 3
  Excerpt = 6
  Nesting = 5
  Defaults <- Parser
  Documents <- SpecFiles
  Matches <- PathsOf
  Launches <- CommandLines
  Answers <- ApiAnswers
  KeyLists <- KeysOfLists
  Oddities <- Odd
INVARIANTS AnsweredInOrder HandshakeHolds TreatedAlike ShowsOnlyScoped KeptInStep SurfaceSound SchemasResolve LayersKept RequestsHonest AnswersMasked CutsAccounted PromisesKept
PROPERTIES EveryoneIsAnswered
CHECK_DEADLOCK FALSE
