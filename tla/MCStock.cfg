SPECIFICATION Spec
CONSTANTS
  u1 = u1
  u2 = u2
  r1 = r1
  r2 = r2
  h1 = h1
  m1 = m1
  m2 = m2
  Nil = Nil
  Users = {u1, u2}
  Reservations = {r1}
  Owner <- EachUser
  Handlers = {h1}
  Managers = {m1, m2}
  MaxQuantity = 2
  Totals = {1, 2}
  MaxCopies = 1
  FixAt = 2
  Bound = 2
  MaxCalls = 1
SYMMETRY Symmetry
CONSTRAINT WhileClean
CHECK_DEADLOCK FALSE
INVARIANTS TypeOK CounterBacksHolds
