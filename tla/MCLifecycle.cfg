SPECIFICATION Spec
CONSTANTS
  h1 = h1
  h2 = h2
  Handlers = {h1,h2}
  Managers = {h1}
  Worker = Worker
  Rec = Rec
  MaxTotal = 1
  MaxComing = 1
  FixAt = 2
  Nil = Nil
CHECK_DEADLOCK FALSE
INVARIANTS TypeOK CounterBacked
PROPERTIES ActiveIsSeeded Converges
