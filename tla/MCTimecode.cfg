\* One timecode at a time.
CHECK_DEADLOCK FALSE
SPECIFICATION Spec
CONSTANTS
  Hours = {0, 9, 19, 23}
  Minutes = {0, 59}
  Seconds = {0, 9, 29, 59}
  Frames = {0, 1, 9, 10, 22, 23, 24, 28, 29}
  Rates = {1, 7, 23, 24, 25, 29, 30, 41}
  OtherBits = {0, 15}
INVARIANTS AlwaysATime ShownExactly OneFrameBehind
