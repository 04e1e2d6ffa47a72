CONSTANTS
  Projects = {A, B}
  Files = {f, g}
  Reads = {q1, q2}
  None = None
  Waiting = Waiting
  MaxTurns = 3
  MaxEvents = 1
SPECIFICATION Spec
INVARIANTS OwnContent  
SYMMETRY Symmetry
