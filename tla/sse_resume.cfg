CONSTANTS
  Ticks = 2
  Connections = 3
SPECIFICATION Spec
INVARIANTS
  TypeOK
  EventsWhole
  TicksResumed
