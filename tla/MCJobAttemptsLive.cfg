SPECIFICATION FairSpec
CONSTANTS
  Jobs = {j1}
  MaxAttempts = 2
  MaxProgress = 0
  ReapBatch = 1
  FigureAttempts = {1}
PROPERTIES
  DeletionsComplete
  MarkersResolve
  JobsSettle
