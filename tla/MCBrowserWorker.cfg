CONSTANTS
  Pages = {1, 2}
  Ops = {k1, k2}
  MaxDeaths = 1
SPECIFICATION FairSpec
PROPERTIES SwitchEnds
INVARIANTS OneBrowser NoToolInLogin SeenIsActedOn

CHECK_DEADLOCK FALSE
