\* The program may end.
CHECK_DEADLOCK FALSE
SPECIFICATION FairSpec
CONSTANTS
  BufferSize = 3
  Capacities = {0, 2}
  MayFail = TRUE
  PollsPrepared = TRUE
  MaxSuspends = 1
  MaxTime = 6
INVARIANTS NeverEarly LateByLag OverrunsSignalled
PROPERTY CaptureResumes
