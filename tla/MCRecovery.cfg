SPECIFICATION RecoverySpec
CONSTANTS
  u1 = u1
  r1 = r1
  r2 = r2
  h1 = h1
  h2 = h2
  k1 = k1
  k2 = k2
  Nil = Nil
  Users = {u1}
  Reservations = {r1, r2}
  Owner <- OneUser
  Handlers = {h1, h2}
  MaxQuantity = 1
  Totals = {1}
  MaxCopies = 1
  Keys = {k1, k2}
SYMMETRY Symmetry
INVARIANTS RecoveryTypeOK OneRowPerKey
PROPERTIES BuyerReservesNothing RecoversTheDead
CHECK_DEADLOCK FALSE
