SPECIFICATION FormationSpec
CONSTANTS
  Word <- MCWord
  Forbidden = {"otp"}
  Restricted = {"doctor", "phone"}
  Marked = {"otp", "doctor"}
  Instruction = {"ignore"}
  Number = {"seven", "phone"}
  Keyword <- MCKeyword
  Canonical <- MCCanonical
  Windows <- MCWindows
  Answers <- MCAnswers
  MaxRequests = 2
INVARIANTS
  SaidInWindow
  PrivateKeptOut
  DoubtKept
CHECK_DEADLOCK FALSE
