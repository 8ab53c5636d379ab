\* A handler that makes calls of its own on the dispatcher it runs on.
SPECIFICATION FairSpec
CONSTANTS
  c1 = c1
  c2 = c2
  c3 = c3
  Calls = {c1, c2, c3}
  Shutdowns = {s1}
  Registrars = {r1}
  Keys = {"k"}
  Handlers = {h1}
  Requests <- MCGoodRequests
  Outcomes = {"ok", "ctxErr"}
  ContextErrors = {}
  Kinds = {"Invoke"}
  Parent <- MCNested
  QueueSize = 1
  MaxSize = 1
  AllowedOrigins = {}
  AllowedKeys = {"k"}
  NoCall = NoCall
  NoHandler = NoHandler
  NoKey = NoKey
PROPERTIES ImplementsService EveryCallReturns AdmittedIsAnswered ShutdownReturns
CHECK_DEADLOCK FALSE
