SPECIFICATION Spec
CONSTANT MaxTurn = 3
INVARIANTS
  OneAnswerPerTurn
  AnswerFitsTranscript
  NoTalkOver
  NoLostWords
  
PROPERTY ThinkingEnds
