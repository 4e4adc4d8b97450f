CONSTANTS
  N = 4
  Start <- Starts
  HeadLen <- Heads
  BodyLen <- Bodies
  Kind <- Regular
  RecvSize = 2
  MaxHeader = 4
  RecvMayTimeout = TRUE
  Closes = {3}
  Cells <- FirstTwoCells
  SendMayTimeout = TRUE
  ReadSize = 2
  Impatient = TRUE
SPECIFICATION ClientSpec
INVARIANTS
  TypeOK
  InStepUnlessCut
  ShortHeadsServed
  HalfClosedStillAnswered
  BoundedBuffer
  KeepsItsWord
  RightAnswer
PROPERTIES
  Responsive
  AnswersInOrder
