SPECIFICATION MCSpec
CONSTANTS
  Users = {m2, m3}
  Kinds = {"mutex", "sem"}
  MaxLoads = 6
  Procs = {p1, p2}
  ThreadKinds = {"waitqueue", "waitqueue_dyn", "completion", "completion_dyn", "noexit"}
  MaxReads = 4
  MaxUsers = 2
  Callers = {"p1", "p2"}
  Others = {"a", "b"}
  MaxEnds = 1
  Files = {f1, f2}
  CacheKinds = {"lab1", "lab2"}
  MaxOpens = 4
CHECK_DEADLOCK FALSE
INVARIANTS
  OneHolder
  Balanced
  Served
  PidNamesTask
PROPERTIES
  ThreadResponds
