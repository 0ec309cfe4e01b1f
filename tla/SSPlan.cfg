\* A clock of two ticks, one lost connection or restart.  Without a plan and with
\* every job done the program rests: it waits for the user.
CONSTANTS
  None = None
  Sizes = {0, 1}
  MaxAttempts <- MCMaxAttempts
  MaxTime = 2
  MaxBreaks = 1
SPECIFICATION MCSpec
INVARIANTS
  FeedTypeOK
  WindowSettles
  BytesOfAttempt
  PlanAgrees
  DuePlanStarts
PROPERTIES
  ScheduledStartsDue
  NoSilentUnpause
CHECK_DEADLOCK FALSE
