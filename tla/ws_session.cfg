CONSTANTS
  N = 4
  Op <- PingsAroundData
  Length <- Thresholds
  Sends = 1
  Sizes = {65535, 65536}
  RecvSize = 2
SPECIFICATION ClientSpec
INVARIANTS
  TypeOK
  ClientInSync
  EndsWithClose
  PongsAnswerPings
PROPERTIES
  LeavesNoConnection
