SPECIFICATION Spec
CONSTANTS
  h1 = h1
  h2 = h2
  h3 = h3
  Handlers = {h1, h2, h3}
  Limit = 2
  Window = 3
  MaxLag = 1
  MaxClock = 5
  MaxRequests = 5
SYMMETRY Symmetry
INVARIANTS TypeOK AtMostLimit
PROPERTIES RefusedForCause
CHECK_DEADLOCK FALSE
