\* Every way into the native layer, every plan, every fault.
SPECIFICATION FairSpec
CONSTANTS
  Entries = {"run", "launch", "warm", "initCheck", "processCheck"}
  Sources <- MCSources
INVARIANTS MirrorsAgree FailuresHaveCauses ClosedAtMostOnce SuccessMeansLoaded AppFollowsWindow InitializedIsShutDown
PROPERTIES NoShutdownUnderBrowser ProcessReturns
