\* Three goroutines on one router channel; handlers that register, remove,
\* invoke and post themselves.
SPECIFICATION Spec
CONSTANTS
  Goroutines = {g1, g2, g3}
  Messages = {m1}
  Listeners = {l1}
  Registrations = {r1, r2}
  Channels = {c1}
  MaxDepth = 2
  NoRegistration = NoRegistration
SYMMETRY MCSymmetry
INVARIANT OnceRunsOnce
CHECK_DEADLOCK FALSE
