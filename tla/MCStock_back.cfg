SPECIFICATION Spec
CONSTANTS
  u1 = u1
  u2 = u2
  r1 = r1
  r2 = r2
  h1 = h1
  m1 = m1
  m2 = m2
  Nil = Nil
  Users = {u1, u2}
  Reservations = {r1}
  Owner <- EachUser
  Handlers = {h1}
  Managers = {m1}
  MaxQuantity = 1
  Totals = {1}
  MaxCopies = 1
  FixAt = 10
  Bound = 2
  MaxCalls = 1
CHECK_DEADLOCK FALSE
PROPERTIES UnitsComeBack
