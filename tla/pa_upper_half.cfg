\* One CPU that allocates until the cursor has passed the lower half.
SPECIFICATION Spec
CONSTANTS
  BITMAP_SIZE = 28
  OFFSET = 1
  LIMIT = 22
  PAGE_TABLE_ENTRY_NUM = 2
  ROOT = 26
  L3Boot = 27
  L2Boot = 28
  BootTables <- MCBootTables
  BootFrames = {26, 27, 28}
  CPU = {c1}
  NoCPU = NoCPU
  Amounts = {1, 2, 3}
  DeviceFrames = {}
  MaxLive = 1
  MaxCursor = 16
  TlbSize = 0
INVARIANT AllocationsCanonical
CHECK_DEADLOCK FALSE
