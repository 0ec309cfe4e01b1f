\* No save fails: the removal comes between an unknown outcome and the cleanup.
CONSTANTS
  N = 1
  Channels = {1}
  Callers = {c1}
  Runner = runner
  NoCaller = nobody
  Ops = {"start", "remove", "markSent"}
  MaxRetry = 0
  MaxCalls = 3
  MaxCrashes = 0
  SaveMayFail = FALSE
  LoadedStates = {"queued"}
  LoadedPaused = {FALSE}
SPECIFICATION Spec
INVARIANTS PendingResolved
