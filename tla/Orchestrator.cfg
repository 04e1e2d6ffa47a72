CONSTANTS
  r1 = r1
  r2 = r2
  Runs = {r1, r2}
  MaxTasks <- MCTasks
  Slots = 1
  MaxCalls = 1
  Commands = {"cancel", "pause", "resume", "clear"}
  MaxCommands = 1
  NoRun = NoRun
SPECIFICATION Spec
INVARIANTS SlotsReturned SummaryOfAll StopReachesChildren CancelMarksChildren MapsEmptied
CHECK_DEADLOCK FALSE
