SPECIFICATION FairSpec
CONSTANTS
  Procs = {p1, p2}
  WRITES_IN_FLIGHT = 2
  BulkInSize = 1
  MaxCount = 1
  None = None
PROPERTIES
  ErrorReportedOnce
