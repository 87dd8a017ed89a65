SPECIFICATION Spec
CONSTANTS
  Procs = {p1, p2}
  WRITES_IN_FLIGHT = 2
  BulkInSize = 2
  MaxCount = 3
  None = None
SYMMETRY ProcSymmetry
INVARIANTS
  TypeOK
  PermitsConserved
  KrefExact
  NoUseAfterFree
  QuietAfterDrawDown
  NoUrbAfterDisconnect
  ReadUrbOwned
  BufferBounds
