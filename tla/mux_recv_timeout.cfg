CONSTANTS
  N = 2
  Kind <- TwoStreams
  Sid <- TwoIds
  Data <- TwoData
  FrameCells = 1
  RecvMayTimeout = TRUE
  SendMayTimeout = FALSE
  JoinMayExpire = FALSE
  Stuck = {}
  Awaited <- SecondFirst
  WaitMayExpire = FALSE
  Impatient = FALSE
SPECIFICATION ClientSpec
INVARIANTS
  EveryStreamEnds
