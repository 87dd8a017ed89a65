SPECIFICATION MCSpec
CONSTANTS
  Procs = {p1, p2, p3}
  Drivers = {"lab4_wait_event", "lab4_excl", "lab5_killable", "lab6_poll", "lab7_sleepy", "lab6_char_fasync"}
  MaxWrites = 2
  Kinds = {"completion", "semaphore", "rwsem"}
  MaxSignals = 3
CHECK_DEADLOCK FALSE
INVARIANTS
  NoLostWakeup
  NsleepersExact
  TokensConserved
PROPERTIES
  WriteReaches
