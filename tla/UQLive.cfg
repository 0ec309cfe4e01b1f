CONSTANTS
  N = 1
  Channels = {1}
  Callers = {c1}
  Runner = runner
  NoCaller = nobody
  Ops = {"start", "pause", "cancelAll", "remove", "shutdown",
         "markSent", "cancel", "retry"}
  MaxRetry = 1
  MaxCalls = 3
  MaxCrashes = 0
  SaveMayFail = TRUE
  LoadedStates = {"queued"}
  LoadedPaused = {FALSE}
SPECIFICATION FairSpec
PROPERTIES RunEnds CallsReturn RemovalDrains
