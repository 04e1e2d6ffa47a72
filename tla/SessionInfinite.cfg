CONSTANTS
  Runs = {r1, r2, r3}
  Msgs = {m1, m2}
  Clients = {c1}
  Mode = "infinite"
  Commands = {"cancel", "pause", "intervene"}
  MaxCommands = 2
  MaxIter = 1
  MaxCalls = 2
  MaxFailures = 2
  NoRun = NoRun
  NoMsg = NoMsg
SPECIFICATION FairSpec
PROPERTIES StopTakesEffect 
