CONSTANTS
  MaxBatch = 1
  MaxTurns = 2
  MaxRuns = 2
  MaxCrashes = 1
  MaxPipe = 1
  MaxWire = 1
  MaxPending = 1
  MaxChanges = 2
SPECIFICATION DesktopSpec
INVARIANTS AllAccountedFor PageAgrees ShownIsTrue
PROPERTY NeverReplayed
CHECK_DEADLOCK FALSE
