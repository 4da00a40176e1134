SPECIFICATION Spec
CONSTANTS
  Pages <- AllPages
  References <- Bibliography
INVARIANTS PageIsAssembled OrderRespectsEvidence PageIsAccepted
CHECK_DEADLOCK FALSE
