SPECIFICATION Spec
CONSTANTS
  Kinds = {"tty", "serial"}
  UART_XMIT_SIZE = 4
  fifosize = 0
  MaxOpens = 2
  MaxChars = 3
CHECK_DEADLOCK FALSE
INVARIANTS
  ShutdownStopsTimer
