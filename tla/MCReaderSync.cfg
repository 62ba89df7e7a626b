SPECIFICATION Spec
CONSTANTS
  TIME_POSITION_FRACTIONS = 600
  InitialFrameRate = 25
  MAX_UNSYNCED = 1
  MIN_FRAME_WRAPS = 1
  Seconds = {0, 1, 7}
  Frames = {0, 23}
  UserBits = {0}
  BitGaps <- Gaps
  Silences = {25}
  FrameRateSettings = {}
  MaxLate = 1
  MaxPos = 400
INVARIANT BoundedResync
PROPERTIES NoOutlier LockedStampRight StampsIncrease
