SPECIFICATION FairSpec
CONSTANTS
  d1 = d1
  d2 = d2
  Documents <- TwoDocuments
  PageCount = 2
  Slots = 1
INVARIANTS PixelsHaveSlots EveryPageOnce
PROPERTIES ParsesEnd
CHECK_DEADLOCK FALSE
