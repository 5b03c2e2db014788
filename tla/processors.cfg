\* Every vector with an error code, the NMI, the timer and some without, up to two handlers
\* inside each other; two processors, with ids in bounds or one beyond PERCPUS, either of them
\* the boot processor, 3 cycles of the local APIC to a tick of the HPET and 8 to a milli
\* second; two processors that wait and set timers, ticks of 3 fs and nano seconds of 2 fs, so
\* that neither duration is a whole number of ticks, the longer one too long for SmallDuration.
SPECIFICATION ProcessorsSpec
CONSTANTS
  Vectors = {0, 1, 2, 7, 8, 10, 11, 12, 13, 14, 16, 17, 21, 29, 30, 31, 32}
  MaxNesting = 2
  Ids = {0, 1, 3}
  Lists <- TwoLists
  MAX_CPU_COUNT = 3
  ClocksPerMs = 8
  ClocksPerTick = 3
  MaxClocks = 10
  Cpu = {p1, p2}
  FsPerTick = 3
  FsPerNs = 2
  Durations = {7, 8}
  MaxFs = 15
  LastCall = 6
  MaxClock = 24
INVARIANTS
  HandlerFits
  DevicesReady
  VectorsHandled
  Calibrated
  SleptEnough
  TimerNotEarly
PROPERTIES
  InterruptTransparent
  BootCompletes
CHECK_DEADLOCK FALSE
