CONSTANTS
  ToolCalls = {1, 2}
  MaxAttempts = 3
  MaxRequests = 4
  MaxStarts = 2
  MaxTokens = 3
  MaxEvents = 2
SPECIFICATION FairSpec
INVARIANTS ConversationIsKept RestIsQuiet
PROPERTY EverythingEnds
CHECK_DEADLOCK FALSE
