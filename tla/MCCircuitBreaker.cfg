SPECIFICATION BreakerSpec
CONSTANTS
  c1 = c1
  c2 = c2
  Nil = Nil
  Calls = {c1, c2}
  FailureThreshold = 2
  SuccessThreshold = 2
CHECK_DEADLOCK FALSE
INVARIANTS BreakerTypeOK OpenIsStamped
PROPERTIES Probes
