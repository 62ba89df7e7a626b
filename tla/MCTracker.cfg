SPECIFICATION FairSpec
CONSTANTS
  TC_MIN_INTERVAL = 4
  TC_MAX_INTERVAL = 600
  HalfBits = {8, 12, 40}
  Jitter <- Errors
  MaxRun = 4
  Disturbances = {1, 20, 100, 700}
  MaxDisturbances = 2
PROPERTIES StaysLocked EventuallyLocks
