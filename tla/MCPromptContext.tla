---------------------------- MODULE MCPromptContext ---------------------------
(***************************************************************************)
(* Texts, histories and memories for PromptContext.                        *)
(***************************************************************************)
EXTENDS PromptContext

MCTexts == {{"main", "office", "stress", "boss"},  \* work stress
            {"kya", "naam", "hai", "mera"},        \* asks for the name
            {"cricket", "match", "final"},         \* a topic of its own
            {"haan", "aur"},                       \* follow-up
            {"doctor", "mujhe", "jana"}}           \* sensitive
LongAnswer == {"office", "pooch", "kaun", "jeeta", "kitne", "run", "kab", "kahan", "accha", "kal"}
MCAnswers == {LongAnswer, {"accha", "tha"}}

Turn_(id, role, text, status, confidence, created) ==
  [turn |-> id, role |-> role, text |-> text, status |-> status,
   confidence |-> confidence, created |-> created]

MCHistories ==
  {<< >>,
   \* An exchange and the low-confidence start of another.
   <<Turn_(-1, "user", {"haan", "aur"}, "final", 90, 1),
     Turn_(-1, "assistant", {"office", "accha"}, "final", 100, 2),
     Turn_(0, "user", {"cricket", "match", "final"}, "final", 40, 3)>>,
   \* A long answer stored before its question, and a question said twice.
   <<Turn_(-1, "assistant", LongAnswer, "final", 100, 2),
     Turn_(-1, "user", {"cricket", "match"}, "final_corrected", 100, 1),
     Turn_(0, "user", {"kya", "office"}, "final", 100, 3),
     Turn_(0, "user", {"kya", "office"}, "final", 100, 4)>>}

Block(id, kind, label, text, importance, updated) ==
  [id |-> id, kind |-> kind, label |-> label, text |-> text, importance |-> importance,
   confidence |-> 80, stt |-> 100, updated |-> updated, sensitivity |-> "normal",
   temporal |-> "current", receipt |-> "implicit", sourced |-> TRUE]

Name == Block(1, "core_profile", "preferred_name", {"naam"}, 90, 1)
Work == Block(2, "semantic", "work", {"work", "boss"}, 50, 2)
Walk == Block(3, "episodic", "walk", {"walk"}, 50, 3)
OldSummary == Block(4, "session_summary", "summary", {"cricket"}, 30, 4)
NewSummary == Block(5, "session_summary", "summary", {"office"}, 40, 5)
Rejected == [Block(6, "semantic", "work", {"work"}, 90, 6) EXCEPT !.receipt = "rejected"]
Health == Block(7, "episodic", "health", {"doctor"}, 90, 7)

MCStored == {<< >>, <<Work, Name, OldSummary>>, <<OldSummary, NewSummary, Health>>}
MCPackets == {<< >>, <<Walk, Rejected>>, <<NewSummary, Walk>>}
MCExtras == {[receipts |-> << >>, cues |-> 0],
             [receipts |-> <<{"loan"}, {"cricket"}>>, cues |-> 2]}
=============================================================================
