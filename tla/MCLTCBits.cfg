SPECIFICATION BitsSpec
CONSTANTS
  WordBits = 3
  BUFFER_SIZE = 3
  SyncWord <- ShortSyncWord
  CountSize = 11
INVARIANTS RegistersOK CodewordIsFrame
PROPERTY SyncWhenSent
