SPECIFICATION Spec
CONSTANTS
  MaxWindow = 2
  MaxAttempts = 2
  MaxDrain = 1
  MaxTurn = 3
  MaxCrash = 1
  MaxClear = 1
INVARIANTS
  NothingFromErased
  DecidedOnce
  OneJobPerExchange
  NoExchangeForgotten
