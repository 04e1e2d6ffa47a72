CONSTANTS
  Clients = {c1}
  Casters = {b1}
  Agents = {a1}
  NoAgent = NoAgent
  Cap = 1
  Loops = {l1, l2}
  Shells = {s1, s2}
  NoShell = NoShell
SPECIFICATION FairSpec
INVARIANTS NoPanic ShellKnown
PROPERTIES  LoopsEnd
CHECK_DEADLOCK FALSE
