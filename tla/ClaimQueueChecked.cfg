CONSTANTS
  Runs = {r1, r2, r3}
  Msgs = {m1, m2}
  Clients = {c1}
  Mode = "direct"
  Commands = {}
  MaxCommands = 0
  MaxIter = 1
  MaxCalls = 1
  MaxFailures = 2
  NoRun = NoRun
  NoMsg = NoMsg
SPECIFICATION Spec
INVARIANTS NoStrandedMessage
