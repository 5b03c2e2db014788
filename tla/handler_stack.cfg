\* Exceptions with and without an error code, and the timer.
SPECIFICATION Spec
CONSTANTS
  Vectors = {3, 14, 32}
  MaxNesting = 1
INVARIANT
  BodyAligned
CHECK_DEADLOCK FALSE
