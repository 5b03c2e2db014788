\* Two CPUs that allocate, map and free one page or device at a time.
SPECIFICATION FairSpec
CONSTANTS
  BITMAP_SIZE = 28
  OFFSET = 1
  LIMIT = 22
  PAGE_TABLE_ENTRY_NUM = 2
  ROOT = 26
  L3Boot = 27
  L2Boot = 28
  BootTables <- MCBootTables
  BootFrames = {26, 27, 28}
  CPU = {c1, c2}
  NoCPU = NoCPU
  Amounts = {1}
  DeviceFrames = {23}
  MaxLive = 2
  MaxCursor = 1
  TlbSize = 0
INVARIANTS
  TypeOK
  MappedFramesMarked
  NoFrameShared
  PendingReserved
  LivePagesMapped
  NoPanic
PROPERTIES
  ImplementsContract
  LockReleased
