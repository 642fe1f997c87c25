SPECIFICATION ToolsSpec
INVARIANTS
  BeginsAtRest
PROPERTIES
  CommandsEnd
  LeavesTheTerminal
