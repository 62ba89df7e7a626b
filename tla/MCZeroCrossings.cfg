SPECIFICATION CrossingSpec
CONSTANTS
  Samples <- Values
  Channels = {1, 2}
  MaxLength = 3
  TC_SAMPLE_TIME = 4
  MAX_INTERVAL = 12
  UnsignedSize = 32
  MaxSilence = 52
INVARIANTS PointersOK NoneMissed SilenceInvalidates
PROPERTY IntervalsTrue
