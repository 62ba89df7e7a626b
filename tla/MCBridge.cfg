SPECIFICATION Spec
CONSTANTS
  RATE = 3
  InitialFrameRate = 2
  MAX_UNSYNCED = 1
  MIN_FRAME_WRAPS = 1
  PoolSize = 10
  BufferTime = 240
  MaxDelay = 100
  TICK = 10
  MaxLate = 1
  Cuts = {0, 20}
  MaxDisturbances = 2
  MaxClock = 1200
INVARIANTS NoOverrun KeepsComing
PROPERTIES InSync FreshInFuture OverlapWithinError
