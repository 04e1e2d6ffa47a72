CONSTANTS
  Paths <- MCPaths
  Requests = {r1, r2}
  Agent = agent
  MaxOps = 3
  MaxTracked = 1
SPECIFICATION Spec
INVARIANTS  NoDeadlock
PROPERTIES NoTornRead 
SYMMETRY RequestSymmetry
CHECK_DEADLOCK FALSE
