CONSTANTS
  N = 1
  Channels = {1}
  Callers = {c1}
  Runner = runner
  NoCaller = nobody
  Ops = {"start", "pause", "resume", "cancel", "cancelAll", "retry", "skip", "markSent", "remove", "removeCompleted", "reset", "limit", "add"}
  MaxRetry = 1
  MaxCalls = 3
  MaxCrashes = 2
  SaveMayFail = TRUE
  LoadedStates = {"queued", "confirming", "absent"}
  LoadedPaused = {TRUE, FALSE}
SPECIFICATION Spec
INVARIANTS TypeOK DeliveryInv OpenIsSettled ActiveRecordKept
PROPERTIES NeverResubmit ImplementsLedger
