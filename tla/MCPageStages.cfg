SPECIFICATION FairStagesSpec
CONSTANTS
  PageTasks <- TwoPages
  Regions <- SomeRegions
  Capacity <- OneEach
INVARIANTS PixelsAdmitted PageIsWhole
PROPERTIES PagesEnd
CHECK_DEADLOCK FALSE
