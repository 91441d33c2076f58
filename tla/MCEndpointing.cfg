SPECIFICATION Spec
CONSTANTS
  MinSpeech = 3
  PreBuffer = 4
  EndpointSilence = 2
  Continuation = 4
  Coalescing = 3
  Forced = 6
  MaxFrame = 18
INVARIANTS
  AudioUnbroken
  ReplayBounded
  PauseKeepsTurn
  StopEndsTurn
PROPERTY ImplementsSource
CHECK_DEADLOCK FALSE
