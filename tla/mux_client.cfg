CONSTANTS
  N = 4
  Kind <- FourKinds
  Sid <- FourIds
  Data <- FourData
  FrameCells = 2
  RecvMayTimeout = TRUE
  SendMayTimeout = TRUE
  JoinMayExpire = TRUE
  Stuck = {1}
  Awaited <- SecondFirst
  WaitMayExpire = TRUE
  Impatient = FALSE
SPECIFICATION ClientSpec
INVARIANTS
  TypeOK
  EveryStreamEndsInTime
  StreamsInOrder
  Reassembled
PROPERTIES
  LeavesNoConnection
  NoStreamWaits
