SPECIFICATION PaymentsSpec
CONSTANTS
  u1 = u1
  r1 = r1
  h1 = h1
  h2 = h2
  c1 = c1
  c2 = c2
  Users = {u1}
  Reservations = {r1}
  Owner <- OneUser
  Handlers = {h1, h2}
  MaxQuantity = 2
  Totals = {2, 4}
  MaxCopies = 1
  Cards = {c1, c2}
SYMMETRY Symmetry
INVARIANTS PaymentsTypeOK AnswerStands
PROPERTIES RepeatBooksNothing
CHECK_DEADLOCK FALSE
