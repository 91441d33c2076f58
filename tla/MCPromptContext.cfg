SPECIFICATION PromptSpec
CONSTANTS
  Texts <- MCTexts
  AssistantTexts <- MCAnswers
  Histories <- MCHistories
  Stored <- MCStored
  Packets <- MCPackets
  Extras <- MCExtras
  MaxRecent = 4
  MinExchanges = 1
  MaxBlocks = 3
  MaxSize = 13
  MaxExchange = 2
INVARIANTS OnlyFitContext TrimmedInOrder
CHECK_DEADLOCK FALSE
