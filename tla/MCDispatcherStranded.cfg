\* One caller and one shutdown are enough to leave work on the queue.
SPECIFICATION Spec
CONSTANTS
  c1 = c1
  c2 = c2
  c3 = c3
  Calls = {c1, c2}
  Shutdowns = {s1}
  Registrars = {r1}
  Keys = {"k"}
  Handlers = {h1}
  Requests <- MCGoodRequests
  Outcomes = {"ok"}
  ContextErrors = {}
  Kinds = {"Dispatch"}
  Parent <- MCNoParent
  QueueSize = 1
  MaxSize = 1
  AllowedOrigins = {}
  AllowedKeys = {}
  NoCall = NoCall
  NoHandler = NoHandler
  NoKey = NoKey
INVARIANT ShutdownLeavesNothing
CHECK_DEADLOCK FALSE
