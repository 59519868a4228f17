SPECIFICATION Spec
CONSTANTS
  Partitions = {p1, p2}
  MaxOffset = 3
CHECK_DEADLOCK FALSE
INVARIANTS EmptyTopicReturnsEmpty
