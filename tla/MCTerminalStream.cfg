CONSTANTS
  High = 3
  Low = 2
  Batch = 2
  QueueLimit = 3
  Limit = 4
  Output = 5
  MaxFaults = 2
SPECIFICATION FairStream
INVARIANTS InOrder FlowIsExact
PROPERTIES HeldIsReleased
CHECK_DEADLOCK FALSE
