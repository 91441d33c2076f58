SPECIFICATION Spec
CONSTANTS
  Caller = {c1}
  MaxSession = 1
  MaxTask = 3
  MaxAttempts = 3
  MaxAgents = 1
PROPERTIES
  CreateAnswered
  AgentsEnd
CHECK_DEADLOCK FALSE
