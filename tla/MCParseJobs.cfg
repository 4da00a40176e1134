SPECIFICATION TableSpec
CONSTANTS
  Jobs = {j1, j2}
  MaxAttempts = 3
  MaxProgress = 1
  ReapBatch = 1
SYMMETRY JobSymmetry
INVARIANTS
  LeaseIsNewest
  OneOutcome
PROPERTIES
  LiveLeaseIsExclusive
  ExpiredLeaseIsFenced
  TerminalIsFinal
  VersionOrdersSnapshots
