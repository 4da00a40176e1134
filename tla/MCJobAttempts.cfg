SPECIFICATION Spec
CONSTANTS
  Jobs = {j1}
  MaxAttempts = 2
  MaxProgress = 0
  ReapBatch = 1
  FigureAttempts = {1, 2}
INVARIANTS
  CommittedIsReadable
  ForgottenIsGone
PROPERTIES
  FiguresOutliveTheirAttempt
  ImplementsContract
