\* The program ends.
CHECK_DEADLOCK FALSE
SPECIFICATION FairSpec
CONSTANTS
  MayFail = TRUE
  MaxSignals = 2
INVARIANTS AllReleased OnlyHeldReleased CallbacksHaveObjects
PROPERTY StopsWhenTold
