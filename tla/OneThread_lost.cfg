SPECIFICATION FairSpec
CONSTANTS
  Drivers = {"lab5"}
  MaxInts = 2
CHECK_DEADLOCK FALSE
PROPERTIES
  PendingHandled
