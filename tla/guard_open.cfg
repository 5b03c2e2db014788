\* Two processors, two guards inside each other.
SPECIFICATION Spec
CONSTANTS
  Cpu = {p1, p2}
  MaxDepth = 2
INVARIANT
  InterruptsStopped
CHECK_DEADLOCK FALSE
