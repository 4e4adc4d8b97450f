CONSTANTS
  Conns = {c1}
  Messages = 1
  HighWater = 1
  Deaf = {}
  StopOnLoop = TRUE
  WaitsForHandlers = TRUE
SPECIFICATION Spec
PROPERTIES
  StopReturns
