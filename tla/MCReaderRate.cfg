SPECIFICATION Spec
CONSTANTS
  TIME_POSITION_FRACTIONS = 600
  InitialFrameRate = 25
  MAX_UNSYNCED = 10
  MIN_FRAME_WRAPS = 2
  Seconds = {0}
  Frames = {0, 23, 24}
  UserBits = {0}
  BitGaps = {80}
  Silences = {}
  FrameRateSettings = {24, 25}
  MaxLate = 0
  MaxPos = 1120
INVARIANTS TypeOK RateFollowsStream
PROPERTY RateChangeNeedsWraps
