\* A screen of two and nearly three characters a line.
SPECIFICATION Spec
CONSTANT
  Screens <- EightLeft
INVARIANT
  NextCharFits
CHECK_DEADLOCK FALSE
