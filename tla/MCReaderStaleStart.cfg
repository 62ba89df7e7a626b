SPECIFICATION Spec
CONSTANTS
  TIME_POSITION_FRACTIONS = 600
  InitialFrameRate = 25
  MAX_UNSYNCED = 10
  MIN_FRAME_WRAPS = 3
  Seconds = {0}
  Frames = {0, 12}
  UserBits = {0}
  BitGaps <- Gaps
  Silences = {}
  FrameRateSettings = {}
  MaxLate = 1
  MaxPos = 400
PROPERTY StampIsFrameStart
