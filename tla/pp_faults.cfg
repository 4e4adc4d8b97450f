CONSTANTS
  N = 4
  Kind <- RaisesAtLast
  Id <- FourIds
  NoId = "none"
  Body <- FourBodies
  RecvSize = 2
  RecvMayTimeout = TRUE
  SendMayTimeout = TRUE
  JoinMayExpire = TRUE
  Stuck = {}
  Cached = {}
SPECIFICATION Spec
INVARIANTS
  TypeOK
  EchoesOwnId
  NoInterleave
PROPERTIES
  RefinesResponder
