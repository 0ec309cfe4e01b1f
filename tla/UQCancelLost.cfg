CONSTANTS
  N = 1
  Channels = {1}
  Callers = {c1}
  Runner = runner
  NoCaller = nobody
  Ops = {"start", "cancel", "pause"}
  MaxRetry = 0
  MaxCalls = 3
  MaxCrashes = 0
  SaveMayFail = FALSE
  LoadedStates = {"queued"}
  LoadedPaused = {FALSE}
SPECIFICATION Spec
PROPERTIES CancelSticks
