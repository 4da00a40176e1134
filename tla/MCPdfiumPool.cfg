SPECIFICATION FairSpec
CONSTANTS
  Slots <- OneSlot
  MaxLeases = 2
INVARIANTS OneDocumentPerProcess IdleProcessIsReachable CrashBudget RepliesOutrankCancellation
PROPERTIES RequestsReturn SlotsRecover StopCompletes
CHECK_DEADLOCK FALSE
