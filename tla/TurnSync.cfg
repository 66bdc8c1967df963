SPECIFICATION Spec
CONSTANTS
  MaxTurns = 2
  MaxItems = 1
  MaxText = 2
  MaxEdits = 4
  MaxFrames = 2
  MaxLosses = 1
  None = None
INVARIANTS
  TypeOK
  Converges
  ShowsPublishedState
CHECK_DEADLOCK FALSE
