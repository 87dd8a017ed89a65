SPECIFICATION FairSpec
CONSTANTS
  Procs = {p1, p2}
  Drivers = {"lab4_excl"}
  MaxWrites = 2
CHECK_DEADLOCK FALSE
PROPERTIES
  WriteWakesReader
