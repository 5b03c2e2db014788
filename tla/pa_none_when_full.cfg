\* The bitmap has six frames, the callers ask for more.
SPECIFICATION Spec
CONSTANTS
  BITMAP_SIZE = 6
  OFFSET = 1
  LIMIT = 6
  PAGE_TABLE_ENTRY_NUM = 2
  ROOT = 26
  L3Boot = 27
  L2Boot = 28
  BootTables <- MCBootTables
  BootFrames = {26, 27, 28}
  CPU = {c1}
  NoCPU = NoCPU
  Amounts = {1, 2}
  DeviceFrames = {}
  MaxLive = 4
  MaxCursor = 3
  TlbSize = 0
INVARIANT AllocationsBacked
CHECK_DEADLOCK FALSE
