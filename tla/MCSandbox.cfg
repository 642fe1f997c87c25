CONSTANTS
  Sessions = {w1, w2}
  Calls = {x1, x2, x3}
  None = None
  Conns = {1, 2, 3}
  MaxLosses = 1
SPECIFICATION Spec
INVARIANTS ReadyIsItsOwn NeverWiderThanShown
SYMMETRY Symmetry
VIEW InView
CHECK_DEADLOCK FALSE
