CONSTANTS
  N = 2
  Channels = {1, 2}
  Callers = {c1, c2}
  Runner = runner
  NoCaller = nobody
  Ops = {"start", "cancelAll", "remove", "removeCompleted", "setChannel"}
  MaxRetry = 0
  MaxCalls = 3
  MaxCrashes = 0
  SaveMayFail = FALSE
  LoadedStates = {"queued"}
  LoadedPaused = {FALSE}
SPECIFICATION Spec
INVARIANTS SendsToBoundChannel RunnerAlone
PROPERTIES NoStaleEdit
SYMMETRY CallerSymmetry
