SPECIFICATION Spec
CONSTANTS
  Sizes = {1, 2}
  MaxQueuedBytes = 3
  MaxFed = 6
CHECK_DEADLOCK FALSE
INVARIANTS
  QueueBounded
