\* Two goroutines; handlers that register, wait, quit and exit themselves.
SPECIFICATION Spec
CONSTANTS
  Goroutines = {g1, g2}
  Handlers = {h1, h2}
  Waiters = {w1, w2}
  MaxOps = 5
SYMMETRY MCSymmetry
INVARIANTS WaitersRunOnce QuitBooks
CHECK_DEADLOCK FALSE
