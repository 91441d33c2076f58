\* Three responses: the second and the third continue the one before under its
\* turn id, or open a turn of their own, while the phone has requests of both
\* to answer, and each in any order, more than once or never.
SPECIFICATION Spec
CONSTANTS
  MaxResponse = 3
  Texts = {{}, {"episodic"}, {"greeting"}, {"weather", "semantic"}, {"safety"}, {"crisis", "safety"}, {"question", "temporal"}}
  Plans = {1, 6}
  Planner = TRUE
INVARIANTS MemoryFitsQuestion OnlyUnsentLeft
CHECK_DEADLOCK FALSE
