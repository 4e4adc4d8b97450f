CONSTANTS
  N = 3
  Kind <- SecondUnrouted
  Id <- ThreeIds
  NoId = "none"
  Body <- ThreeBodies
  RecvSize = 2
  RecvMayTimeout = TRUE
  SendMayTimeout = FALSE
  JoinMayExpire = FALSE
  Stuck = {1}
  Cached = {}
  Impatient = FALSE
SPECIFICATION ClientSpec
INVARIANTS
  CompleteResponses
  ClosedMeansAnswered
  MatchedById
PROPERTIES
  LeavesNoConnection
  FastNotHeldBack
