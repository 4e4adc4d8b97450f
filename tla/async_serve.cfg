CONSTANTS
  Conns = {c1, c2}
  Messages = 2
  HighWater = 1
  Deaf = {c2}
  StopOnLoop = FALSE
  WaitsForHandlers = TRUE
SPECIFICATION Spec
INVARIANTS
  TypeOK
  EchoComplete
PROPERTIES
  ClientsIndependent
  StopWhenServingReturns
