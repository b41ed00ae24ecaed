SPECIFICATION Spec
CONSTANTS
  Events <- MCEvents
  MaxRetry = 1
  BatchSize = 1
  MaxQueue = 2
CHECK_DEADLOCK FALSE
INVARIANTS TypeOK NothingVanishes
PROPERTIES OutboxDrains QueueMoves KeepsPromise
