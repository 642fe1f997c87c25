CONSTANTS
  None = None
  Starts <- MCStarts
  Grant <- MCGrant
  MaxTurnCost = 1
  MaxNow = 2
  MaxDepth = 2
  MaxUsed = 2
  Strategies = {"hybrid", "first", "auto"}
  Engines <- MCEngines
  Views = {v1, v2}
  MaxSteps = 3
  MaxPlan = 2
  MaxRetries = 2
  JevTries = 1
  MaxMoves = 1
  MaxAsks = 3
SPECIFICATION JevSpec
VIEW MCView
INVARIANT BudgetHolds
PROPERTIES
  ExtensionLifts
  ActsUnderItsControl
  NeverReplaysBlindly
  ReportsAreTrue
CHECK_DEADLOCK FALSE
