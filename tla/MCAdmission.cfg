SPECIFICATION MCSpec
CONSTANTS
  u1 = u1
  u2 = u2
  u3 = u3
  p1 = p1
  p2 = p2
  h1 = h1
  Users = {u1, u2, u3}
  Processes = {p1, p2}
  Handlers = {h1}
  BatchSize = 2
  MaxStamp = 3
CHECK_DEADLOCK FALSE
INVARIANTS TypeOK AdmittedInOrder TokenBeforeMark
PROPERTIES WaitingListDrains WorkersEnd
