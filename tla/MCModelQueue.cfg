SPECIFICATION FairSpec
CONSTANTS
  r1 = r1
  r2 = r2
  r3 = r3
  r4 = r4
  Requests <- FourRequests
  SessionSize = 2
  Capacity = 2
  BatchLimit = 2
INVARIANTS PermitsConserved NothingStranded
PROPERTIES ImplementsCalls CallersReturn
CHECK_DEADLOCK FALSE
