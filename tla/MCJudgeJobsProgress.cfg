SPECIFICATION Spec
CONSTANTS
  MaxWindow = 1
  MaxAttempts = 3
  MaxDrain = 1
  MaxTurn = 2
  MaxCrash = 1
  MaxClear = 1
PROPERTY PendingClaimed
