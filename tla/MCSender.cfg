\* The stream ends at MaxWhen.
CHECK_DEADLOCK FALSE
SPECIFICATION FairSpec
CONSTANTS
  NSEC = 40
  FrameRates = {1, 2}
  Gaps = {40, 41, 57}
  PoolSize = 3
  MayFail = TRUE
  MaxWhen = 125
INVARIANTS EvenlySpaced NeverSkipsTwo
PROPERTIES NoOverlap WholeTimecodes MainLoopRuns
