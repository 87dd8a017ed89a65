SPECIFICATION MCSpec
CONSTANTS
  Drivers = {"lab4", "lab5"}
  DeferredDrivers = {"static", "catchup", "dynamic"}
  MaxInts = 4
  Wrap = 8
  Lines = {0, 1}
  AllKinds = {"tasklet", "thread", "dynamic"}
  MaxRaised = 4
  Half = 3
  Producers = {w1, w2}
  DeferralKinds = {"tasklet", "workqueue", "shared", "private", "device", "soft", "load"}
  MaxStores = 4
  Readers = {r1, r2}
CHECK_DEADLOCK FALSE
INVARIANTS
  EventsCounted
  NoEventStranded
  LinesAccounted
  SeesLatest
  EventsTakenOnce
PROPERTIES
  ImplementBottomHalf
  UnloadCompletes
  PendingConsumed
