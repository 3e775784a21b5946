SPECIFICATION Spec
CONSTANTS
  Irqs <- IrqsDef
  NULL = NULL
  alt_heap_start = 0
  alt_heap_limit = 4
  Align = 2
  sgdma_in = sgdma_in
  sgdma_out = sgdma_out
  jtag_uart = jtag_uart
  hostfs = hostfs
  alt_dev_null = alt_dev_null
  alt_dev_list = alt_dev_list
  alt_fs_list = alt_fs_list
  alt_sgdma_list = alt_sgdma_list
  Ctors <- CtorsDef
  Dtors <- DtorsDef
  Increments <- IncrementsDef
  MaxResets = 1
INVARIANTS
  InterruptsKept
  HeapInBounds
PROPERTIES
  StartsAndEndsClean
  StartReachesMain
CHECK_DEADLOCK FALSE
