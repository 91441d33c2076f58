SPECIFICATION Spec
CONSTANTS
  MaxUtterance = 2
  MaxAgent = 2
  MaxNotice = 1
  SttSources = {"estimated"}
  LlmSources = {"provider_reported", "estimated"}
  TtsSources = {"none", "unknown"}
INVARIANTS RecordsCumulative CompleteIsHonest JudgedOnce
CHECK_DEADLOCK FALSE
