SPECIFICATION Spec
CONSTANTS
  MaxTurn = 2
  MaxChunks = 2
  FrameBytes = 4
  MaxBytes = 8
  Pieces = {3, 5}
  Setups = {"failover", "single", "unavailable"}
INVARIANTS
  OneVoice
  SpokenWhole
  SwitchTold
PROPERTIES
  SilenceAfterStop
  SpeechEnds
CHECK_DEADLOCK FALSE
