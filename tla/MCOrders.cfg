SPECIFICATION Spec
CONSTANTS
  u1 = u1
  u2 = u2
  r1 = r1
  r2 = r2
  h1 = h1
  h2 = h2
  Users = {u1, u2}
  Reservations = {r1, r2}
  Owner <- SameUser
  Handlers = {h1, h2}
  MaxQuantity = 2
  Totals = {1, 2}
  MaxCopies = 1
SYMMETRY Symmetry
INVARIANTS TypeOK NoOversell OneActivePerUser ConfirmedHasOrder IInv
PROPERTIES OnlyPaymentRevives ImplementsFlashSale
CHECK_DEADLOCK FALSE
