SPECIFICATION SyncFairSpec
CONSTANTS
  Number = {1, 2, 3}
  Worked = {1}
  PageSize = 1
  MaxPages = 3
  Overlap = 1
  Skew = 1
  MaxClock = 3
  MaxHooks = 1
INVARIANTS SyncTypeOK WatermarkCovers
PROPERTIES AbandonedIsGone DeletedIsSettled ChangesAreIndexed
CHECK_DEADLOCK FALSE
