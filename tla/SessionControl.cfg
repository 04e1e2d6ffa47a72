CONSTANTS
  Runs = {r1, r2, r3, r4}
  Msgs = {m1}
  Clients = {c1, c2}
  Mode = "direct"
  Commands = {"cancel", "pause", "resume"}
  MaxCommands = 3
  MaxIter = 1
  MaxCalls = 1
  MaxFailures = 2
  NoRun = NoRun
  NoMsg = NoMsg
SPECIFICATION FairSpec
INVARIANTS HistoryGuarded SettledNotRunning
PROPERTIES StartedIsDelivered EventuallyQuiescent
