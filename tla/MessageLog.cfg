CONSTANTS
  Sends = {s1, s2}
  Posts = {p1}
  Counters = {k1, k2, k3, k4}
  None = None
  MaxLogs = 1
  MaxRows = 3
  MaxEvents = 2
SPECIFICATION Spec
INVARIANTS NumberingSound ClearForgets AcceptedIsSaved
CHECK_DEADLOCK FALSE
