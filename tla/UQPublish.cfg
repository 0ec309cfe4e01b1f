CONSTANTS
  N = 2
  Channels = {1}
  Callers = {c1, c2}
  Runner = runner
  NoCaller = nobody
  Ops = {"cancel", "remove"}
  MaxRetry = 0
  MaxCalls = 2
  MaxCrashes = 0
  SaveMayFail = FALSE
  LoadedStates = {"queued"}
  LoadedPaused = {FALSE}
SPECIFICATION Spec
INVARIANTS RestartShowsQueue
