CONSTANTS
  N = 1
  Channels = {1}
  Callers = {c1, c2}
  Runner = runner
  NoCaller = nobody
  Ops = {"start", "pause", "resume"}
  MaxRetry = 1
  MaxCalls = 3
  MaxCrashes = 0
  SaveMayFail = FALSE
  LoadedStates = {"queued"}
  LoadedPaused = {FALSE}
SPECIFICATION Spec
PROPERTIES PauseIsSoft
