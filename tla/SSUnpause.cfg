\* Plans on a queue that is paused.  With every job done the program rests.
CONSTANTS
  None = None
  Sizes = {0}
  MaxAttempts <- MCMaxAttempts
  MaxTime = 2
  MaxBreaks = 1
SPECIFICATION MCSpec
PROPERTIES NeverUnpauses
CHECK_DEADLOCK FALSE
