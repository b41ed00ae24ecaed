SPECIFICATION Spec
CONSTANTS
  u1 = u1
  u2 = u2
  h1 = h1
  h2 = h2
  Nil = Nil
  Users = {u1, u2}
  Name <- Names
  Handlers = {h1, h2}
  Threshold = 0
  MaxClock = 1
INVARIANTS TypeOK OvertakenInOneMillisecond
PROPERTIES HeardStay GhostsLeave
CHECK_DEADLOCK FALSE
