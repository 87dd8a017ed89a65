SPECIFICATION MCSpec
CONSTANTS
  Threads = {t1, t2}
  Families = {"generic", "char"}
  Size = 4
  MaxArg = 6
  Word = 1024
  Preads = {3, 5, 511}
  Procs = {p1, p2}
  MaxPackets = 3
  MaxLost = 2
  MaxDepth = 3
  MaxMoves = 2
  MaxFaults = 2
  Strays = {0, 64}
  Quanta = {2}
  Qsets = {1, 2}
  Quantum0 = 2
  Qset0 = 2
  Positions = {0, 2, 4}
  MaxCount = 1
  MaxObjects = 3
  Window = 8
  Seeks = {0, 2, 9}
  MaxBytes = 4
  MaxWrites = 1
  MaxLeaks = 1
  KmallocMax = 64
  EFAULT = 14
  Packets = {a, b, c}
  NetKinds = {"stub", "simple", "transmit", "receive"}
  SeqKinds = {"busy", "count", "tasks"}
  Items = 3
  Width = 2
  BufSize = 5
  MaxOut = 7
  DiskKinds = {"lab2", "sbd"}
  Sizes = {1, 2}
  Capacity = 4
  Names = {"x", "y"}
CHECK_DEADLOCK FALSE
INVARIANTS
  CopyInBounds
  Resyncs
  PositionExact
  NoQuantumLost
  AnsweredOnce
  TransferExact
  PacketsAccounted
  RecordsInOrder
PROPERTIES
  CopyUntouched
