CONSTANTS
  MaxHistory = 5
  Threshold = 4
  KeepRecent = 2
  MaxRepeats = 1
  MaxIter = 2
  MaxCalls = 2
  MaxChunks = 2
  MaxRuns = 2
  MaxEvents = 2
SPECIFICATION Spec
INVARIANTS CallsAnswered PromptBounded CancelReachesTool
PROPERTIES StopIsNamed
CHECK_DEADLOCK FALSE
