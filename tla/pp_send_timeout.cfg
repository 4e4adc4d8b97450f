CONSTANTS
  N = 3
  Kind <- MalformedAtLast
  Id <- ThreeIds
  NoId = "none"
  Body <- ThreeBodies
  RecvSize = 2
  RecvMayTimeout = TRUE
  SendMayTimeout = TRUE
  JoinMayExpire = FALSE
  Stuck = {}
  Cached = {}
SPECIFICATION Spec
INVARIANTS
  CompleteResponses
