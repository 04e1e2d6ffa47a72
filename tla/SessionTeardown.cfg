CONSTANTS
  Runs = {r1, r2, r3}
  Msgs = {m1, m2, m3}
  Clients = {c1, c2}
  Mode = "direct"
  Commands = {"cancel", "clear", "delete"}
  MaxCommands = 1
  MaxIter = 1
  MaxCalls = 1
  MaxFailures = 2
  NoRun = NoRun
  NoMsg = NoMsg
SPECIFICATION Spec
INVARIANTS RegistryInv
PROPERTIES DeliverySpec
SYMMETRY ClientSymmetry
