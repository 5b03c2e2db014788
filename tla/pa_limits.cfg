\* One CPU with a translation cache allocates and maps until the address space ends, and the
\* last search fails or the page iterator panics, or until the frames do: seven pages and their
\* tables need one more than there are.  Device 23 is beyond the bitmap.
SPECIFICATION Spec
CONSTANTS
  BITMAP_SIZE = 13
  OFFSET = 1
  LIMIT = 13
  PAGE_TABLE_ENTRY_NUM = 2
  ROOT = 26
  L3Boot = 27
  L2Boot = 28
  BootTables <- MCBootTables
  BootFrames = {26, 27, 28}
  CPU = {c1}
  NoCPU = NoCPU
  Amounts = {1, 2, 3, 4, 7}
  DeviceFrames = {9, 23}
  MaxLive = 1
  MaxCursor = 16
  TlbSize = 1
INVARIANTS
  TlbCoherent
  NoPanic
  NoFrameLeaked
PROPERTY TablesPersist
CHECK_DEADLOCK FALSE
