CONSTANTS
  Pages = {1, 2}
  Ids = {1, 2, 3, 4}
  WireCap = 1
  MaxTurns = 1
  MaxMoves = 2
SPECIFICATION FairPreview
PROPERTIES PreviewCatchesUp
INVARIANTS PreviewIsSound InputReachesItsPage
CHECK_DEADLOCK FALSE
