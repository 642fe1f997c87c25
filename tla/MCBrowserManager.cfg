CONSTANTS
  Starts = {s1, s2}
  Acts = {a1}
  Controls = {}
  None = None
SPECIFICATION FairSpec
INVARIANT DoubtIsOfThisBrowser
PROPERTIES SettledOnLine WaitsEnd
CHECK_DEADLOCK FALSE
