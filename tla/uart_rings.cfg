SPECIFICATION Spec
CONSTANTS
  ALTERA_AVALON_JTAG_UART_BUF_LEN = 3
  INT_MAX = 4
  DefaultTimeout = 2
  FIFO_DEPTH = 1
  WRITE_THRESHOLD = 0
  Setups <- SmallSetups
INVARIANT UartTypeOK
PROPERTIES
  TransmitsInOrder
  ReceivesInOrder
  WritesDrain
  CallsServed
CHECK_DEADLOCK FALSE
