CONSTANTS
  Sessions = {w1, w2}
  Calls = {x1, x2, x3}
  Clients = {c1, c2, c3}
  MaxUpstreams = 2
  None = None
  Literals <- MCLiterals
  Names = {n1, local}
  LocalNames = {local}
  Resolutions <- MCResolutions
SPECIFICATION EgressSpec
INVARIANT Confined
PROPERTIES ImplementsSwitch
SYMMETRY Symmetry
CHECK_DEADLOCK FALSE
