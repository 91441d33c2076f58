SPECIFICATION Spec
CONSTANTS
  Caller = {c1, c2}
  MaxSession = 2
  MaxTask = 2
  MaxAttempts = 2
  MaxAgents = 1
SYMMETRY CallerSymmetry
INVARIANTS
  SingleActiveSession
  ContextInTransit
CHECK_DEADLOCK FALSE
