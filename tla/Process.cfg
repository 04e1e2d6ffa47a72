CONSTANTS
  p3 = p3
  a = a
  b = b
  NoProc = NoProc
  Procs = {p1, p2, p3}
  Projects = {a, b}
  ProjectOf <- MCProjectOf
  Group = {"bash", "child"}
  Stoppers = {k1}
  MaxGlobal = 2
  MaxPerProject = 1
SPECIFICATION FairSpec
INVARIANTS WithinLimits RunningIsListed
PROPERTIES StatusFinal StoppedExits 
