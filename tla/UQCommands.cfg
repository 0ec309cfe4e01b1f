CONSTANTS
  N = 1
  Channels = {1}
  Callers = {c1, c2}
  Runner = runner
  NoCaller = nobody
  Ops = {"start", "pause", "resume", "cancel", "retry", "skip", "markSent"}
  MaxRetry = 0
  MaxCalls = 4
  MaxCrashes = 0
  SaveMayFail = FALSE
  LoadedStates = {"queued"}
  LoadedPaused = {FALSE}
SPECIFICATION Spec
INVARIANTS RestartShowsQueue
PROPERTIES DecisionStands
SYMMETRY CallerSymmetry
