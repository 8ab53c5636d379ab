\* Two callers of every kind, one shutting goroutine, one registrar.
SPECIFICATION Spec
CONSTANTS
  c1 = c1
  c2 = c2
  c3 = c3
  Calls = {c1, c2}
  Shutdowns = {s1, s2}
  Registrars = {r1}
  Keys = {"k"}
  Handlers = {h1}
  Requests <- MCRequests
  Outcomes = {"ok", "ctxErr", "backpressure"}
  ContextErrors = {"canceled"}
  Kinds = {"Dispatch", "TryDispatch", "Invoke"}
  Parent <- MCNoParent
  QueueSize = 1
  MaxSize = 1
  AllowedOrigins = {"a"}
  AllowedKeys = {}
  NoCall = NoCall
  NoHandler = NoHandler
  NoKey = NoKey
SYMMETRY MCSymmetry
INVARIANTS TypeOK Ledger SettledOnce RefusedNeverRuns AdmittedWereChecked AutoIDsDistinct InvokeAnswersTruly
PROPERTY QuietAfterShutdown
CHECK_DEADLOCK FALSE
