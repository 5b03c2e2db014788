\* Every memory in which pages 3..9 and 15 may be present and page 12 is,
\* with a huge page at 10..11; every start page; runs of 1 to 4 pages.  Blocks of one to eight
\* bytes and three tables, three allocations at a time.
SPECIFICATION RunsSpec
CONSTANTS
  BITMAP_SIZE = 4
  OFFSET = 50
  LIMIT = 4
  PAGE_TABLE_ENTRY_NUM = 2
  ROOT = 1
  BootTables <- MCBootTables
  BootFrames = {1}
  Memories <- MCMemories
  Starts <- MCStarts
  NumPages = {1, 2, 3, 4}
  Loose = {3, 4, 5, 6, 7, 8, 9, 15}
  Fixed = {12}
  Huge = {5}
  PAGE_SIZE = 4
  Layouts <- MCLayouts
  Regions <- MCRegions
  FirstPages = {1, 2, 3, 4, 5, 6}
  MaxLive = 3
INVARIANTS
  ReturnsFirstRun
  GivesBackOwned
  BlocksBacked
  MappingsExact
PROPERTY SearchEnds
CHECK_DEADLOCK FALSE
