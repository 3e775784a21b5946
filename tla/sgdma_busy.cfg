SPECIFICATION AnyCallbackSpec
CONSTANTS
  Alarms = {a1, a2, a3}
  Head = head
  TICKS = 4
  Longest = 1
  ALT_US = 6
  WORD = 8
  INT_MAX = 7
  LoopsPerUs = 2
  Rates = {2}
  Times <- MCTimes
  Descriptors = {d1, d2}
  Null = Null
  Names = {"sgdma_in", "sgdma"}
  Name = "sgdma_in"
  Args <- MCArgs
  Controls <- MCControls
INVARIANTS
  PointedWhileIdle
