CONSTANTS
  Conns = {c1, c2, c3}
  Backlog = 1
  Stuck = {c1}
SPECIFICATION FairSpec
INVARIANTS
  TypeOK
  OneLateAtMost
PROPERTIES
  StopEndsLoop
  EveryClientServed
