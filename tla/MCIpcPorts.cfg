\* Two goroutines on both ends of a message channel; listeners that post,
\* listen, start and close themselves.
SPECIFICATION Spec
CONSTANTS
  Goroutines = {g1, g2}
  Messages = {m1, m2}
  Listeners = {l1, l2}
  Registrations = {}
  Channels = {}
  MaxDepth = 2
  NoRegistration = NoRegistration
SYMMETRY MCSymmetry
INVARIANTS EachHandledOnce ClosedStaysQuiet InOrder
CHECK_DEADLOCK FALSE
