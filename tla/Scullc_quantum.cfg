SPECIFICATION Spec
CONSTANTS
  Procs = {p1, p2}
  Quanta = {2, 3}
  Qsets = {1, 2}
  Quantum0 = 2
  Qset0 = 2
  Positions = {0, 1, 5}
  MaxCount = 3
  MaxObjects = 3
CHECK_DEADLOCK FALSE
INVARIANT InsideQuantum
