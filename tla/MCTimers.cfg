SPECIFICATION MCSpec
CONSTANTS
  MaxTimers = 3
  Readers = {r1, r2}
  LIMIT = 2
  MaxReads = 2
  JIT_ASYNC_LOOPS = 5
  Kinds = {"tty", "serial"}
  UART_XMIT_SIZE = 4
  fifosize = 0
  MaxOpens = 3
  MaxChars = 6
CHECK_DEADLOCK FALSE
INVARIANTS
  QuietAfterUnload
  BufferFull
  TxConserved
PROPERTIES
  UnloadEnds
  WaitersServed
