SPECIFICATION StreamSpec
CONSTANTS
  Segment = {"haan", "aur"}
  Chunk = 2
  MaxTurn = 2
  MaxPush = 3
  MaxResponse = 3
INVARIANTS
  FinalAfterAllAudio
  FinishedSegmentsKept
  OneOutcome
PROPERTY CommitEnds
CHECK_DEADLOCK FALSE
