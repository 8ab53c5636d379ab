\* One goroutine closes the last window while another subscribes.
SPECIFICATION Spec
CONSTANTS
  Goroutines = {g1, g2}
  Handlers = {h1}
  Waiters = {}
  MaxOps = 3
INVARIANT WindowAllClosedIsAnswered
CHECK_DEADLOCK FALSE
