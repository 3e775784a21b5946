SPECIFICATION MCSpec
CONSTANTS
  Width = 8
  Character <- MCCharacter
  BufSize = 2
  Requests <- MCRequests
  MaxRequests = 2
  Depth = 1
  EchoLen = 3
  Logged <- MCLogged
  Writes <- MCWrites
  Interval = 1
  MaxCalls = 1
  MaxInterrupts = 2
  SelfPcs = {101, 102}
  FromPcs = {201, 202}
  Slab = 2
  TextSize = 5
  Bucket = 2
  MaxMcounts = 4
  MaxSamples = 1
  Bits = 3
  Sources = {0, 2, 16, 27}
  Targets = {0, 2, 26}
  MaxIrqs = 1
  Size = 4
  Line = 2
  Memory = 8
  ALT_MAX_FD = 5
  null = null
  uart = uart
  Devices = {null, uart}
  DevNull = null
  Stdio = uart
  HostFs = hostfs
  Handles = {h1, h2}
  None = None
  Names <- MCNames
  NameOf <- MCNameOf
  Mount <- MCMount
  Files <- MCFiles
SYMMETRY HandleSymmetry
CHECK_DEADLOCK FALSE
INVARIANTS OneAlarm
