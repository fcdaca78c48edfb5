SPECIFICATION Spec
CONSTANTS
  Paths = {p1, p2}
  Tries = 2
  MaxLoopbacks = 1
  MaxFaults = 1
INVARIANTS
  FailsClosed
