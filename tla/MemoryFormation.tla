--------------------------- MODULE MemoryFormation ---------------------------
(***************************************************************************)
(* POST /v1/memory-judge and POST /v1/memory/compile of                    *)
(* services/api/app/main.py: a job of the phone asks what a window of the  *)
(* conversation should be remembered for.  The server keeps nothing; it    *)
(* asks a language model it does not trust, checks each proposal against   *)
(* the window (SemanticAtoms) and answers with candidates.  The phone asks *)
(* again with the same job when an answer failed or was lost, and the      *)
(* model may then propose something else.                                  *)
(*                                                                         *)
(* What the phone does with the answer to a judge request is in JudgeJobs. *)
(***************************************************************************)
EXTENDS SemanticAtoms

CONSTANTS
  Windows,     \* bound: requests: [route, turns]
  Answers,     \* bound: Answers[route]: sequences a model may propose
  MaxRequests  \* bound: requests of one job

Role == {"user", "assistant"}
Status == {"final", "final_corrected", "safety_override"}

\* The validators of CompileTurnV3, MemoryCompileRequestV3, MemoryExtractionRequest.
ASSUME FormationAssumption ==
  /\ MaxRequests \in Nat
  /\ Answers.compile \subseteq Seq(Atom) /\ Answers.judge \subseteq Seq(Candidate)
  /\ \A window \in Windows :
       /\ window.route \in {"judge", "compile"} /\ Len(window.turns) > 0
       /\ \A turn \in Range(window.turns) :
            /\ turn.role \in Role /\ turn.status \in Status /\ turn.text \in Seq(Word)
            /\ turn.heard \in 0..100 \cup {Unknown}
            /\ turn.role = "assistant" => turn.heard = Unknown
       /\ \A i, j \in DOMAIN window.turns :
            i # j => \/ window.turns[i].id # window.turns[j].id
                     \/ window.route = "judge" /\ window.turns[i].role # window.turns[j].role
       /\ window.route = "compile" => \E turn \in Range(window.turns) : turn.role = "user"

VARIABLES
  setup,     \* settings: "disabled", "unconfigured", "ready"
  priced,    \* ... the token rates of the judge have been reviewed
  window,    \* the window of the job
  attempt,   \* requests so far
  stage,     \* "idle", "asking", "building"
  answer,    \* what the model proposed
  usage,     \* tokens it reported: "known", "partial", "none"
  done,      \* proposals looked at
  built,     \* candidates made of them
  outcomes,  \* construction_outcomes: why each was taken or not
  replies    \* history: what the phone was answered

formationVars ==
  <<setup, priced, window, attempt, stage, answer, usage, done, built, outcomes, replies>>

Job == "job"

FormationInit ==
  /\ setup \in {"disabled", "unconfigured", "ready"} /\ priced \in BOOLEAN
  /\ window \in Windows
  /\ attempt = 0 /\ stage = "idle"
  /\ answer = << >> /\ usage = "none" /\ done = 0 /\ built = << >> /\ outcomes = << >>
  /\ replies = {}

\* A job asks, first or again.
Request ==
  /\ stage = "idle" /\ attempt < MaxRequests
  /\ attempt' = attempt + 1
  /\ answer' = << >> /\ usage' = "none" /\ done' = 0 /\ built' = << >> /\ outcomes' = << >>
  /\ IF setup = "disabled"
       THEN /\ replies' = replies \cup {[attempt |-> attempt', kind |-> "disabled", candidates |-> << >>]}
            /\ UNCHANGED stage
       ELSE stage' = "asking" /\ UNCHANGED replies
  /\ UNCHANGED <<setup, priced, window>>

\* compile, extract: not configured, no connection, an error status, or an answer
\* that is not of the schema as a whole; nothing of it is used.
ProviderFails ==
  /\ stage = "asking"
  /\ stage' = "idle"
  /\ replies' = replies \cup {[attempt |-> attempt, kind |-> "unavailable", candidates |-> << >>]}
  /\ UNCHANGED <<setup, priced, window, attempt, answer, usage, done, built, outcomes>>

ProviderAnswers ==
  /\ stage = "asking" /\ setup = "ready"
  /\ stage' = "building"
  /\ answer' \in Answers[window.route] /\ usage' \in {"known", "partial", "none"}
  /\ UNCHANGED <<setup, priced, window, attempt, done, built, outcomes, replies>>

\* construct_memory_observations, one atom.
Construct ==
  /\ stage = "building" /\ window.route = "compile" /\ done < Len(answer)
  /\ LET atom == answer[done + 1]
         observation == Observation(Job, window.turns, atom, done)
         reason == IF Rejection(window.turns, atom) # "" THEN Rejection(window.turns, atom)
                   ELSE IF ~Coherent(window.turns, observation) THEN "incoherent" ELSE ""
     IN  /\ built' = IF reason = "" THEN Append(built, observation) ELSE built
         /\ outcomes' = Append(outcomes, reason)
  /\ done' = done + 1
  /\ UNCHANGED <<setup, priced, window, attempt, stage, answer, usage, replies>>

\* filter_source_safe_candidates, one candidate; it leaves no trace of the others.
Filter ==
  /\ stage = "building" /\ window.route = "judge" /\ done < Len(answer)
  /\ built' = IF SourceSafe(window.turns, answer[done + 1])
              THEN Append(built, Decision(Job, answer[done + 1])) ELSE built
  /\ done' = done + 1
  /\ UNCHANGED <<setup, priced, window, attempt, stage, answer, usage, outcomes, replies>>

\* _judge_cost, compile_model_metadata: a cost is known if all its parts are.
CostSource ==
  IF usage = "known" /\ (window.route = "judge" => priced) THEN "provider_reported" ELSE "unknown"

\* no_memory_reason: the model's own, unless all it proposed was rejected.
Reason == IF answer # << >> /\ built = << >> THEN "all_failed" ELSE "model"

Respond ==
  /\ stage = "building" /\ done = Len(answer)
  /\ stage' = "idle"
  /\ replies' = replies \cup
       {[attempt |-> attempt, kind |-> "answer", candidates |-> built, cost |-> CostSource,
         reason |-> IF window.route = "compile" THEN Reason ELSE ""]}
  /\ UNCHANGED <<setup, priced, window, attempt, answer, usage, done, built, outcomes>>

FormationNext == Request \/ ProviderFails \/ ProviderAnswers \/ Construct \/ Filter \/ Respond

FormationSpec == FormationInit /\ [][FormationNext]_formationVars

-----------------------------------------------------------------------------
(* Properties of what the phone gets.                                      *)

Candidates == UNION {Range(reply.candidates) : reply \in replies}
Observations == IF window.route = "compile" THEN Candidates ELSE {}
Decisions == IF window.route = "judge" THEN Candidates ELSE {}

\* What the user himself is on record as having said, and what the assistant is.
SaidBy(role) == {turn \in Range(window.turns) : turn.role = role}

\* memory_v3.md:341, memory_v3_compiler.md:36: whatever the model proposes, an
\* observation about the user has its object, word for word, from one message of
\* the user, a commitment from one of the assistant, neither from a message marked
\* safety_override, and it uses no word that its speaker did not say in the window.
\* Its normalized value stands in such a message too, or is canonical, or is a
\* number of the model's.  A decision of the judge about the user cites a message
\* of the user.
SaidInWindow ==
  /\ \A o \in Observations :
       LET heard == {turn \in SaidBy(Speaker(o.predicate)) : turn.status # "safety_override"}
       IN  /\ \E turn \in heard : Within(o.object, turn.text)
           /\ o.words \subseteq UNION {Words(turn.text) : turn \in heard}
           /\ \/ \E turn \in heard : Within(o.value, turn.text)
              \/ \E word \in Number \cup Range(Canonical) : o.value = <<word>>
  /\ \A d \in Decisions :
       \E turn \in SaidBy(Speaker(d.proposal.kind)) : turn.id \in Range(d.proposal.turns)

Private == Forbidden \cup Restricted

\* memory_v3_compiler.md:86: no part of an observation has a word of the private
\* classes, though only the joined quotes are searched for them; a normalized value
\* has one only if all of it is one number of the model's, which is not searched.
\* No decision of the judge has or cites one, whatever the model says of its
\* sensitivity.
PrivateKeptOut ==
  /\ \A o \in Observations :
       /\ o.words \cap Private = {}
       /\ Words(o.value) \cap Private = {} \/ \E n \in Number : o.value = <<n>>
  /\ \A d \in Decisions :
       \A turn \in Range(window.turns) :
         turn.id \in Range(d.proposal.turns) =>
           (Words(turn.text) \cup d.proposal.words) \cap Marked = {}

\* memory_v3_compiler.md:36, :94: what is restricted or forbidden never reaches the
\* phone, and the normalized value is a part of what does.
NumbersKeptOut == \A o \in Observations : Words(o.value) \cap Private = {}

\* memory_v3_compiler.md:102: what was said in a turn of unknown or low confidence is
\* of uncertain time and is held for no surer than it was heard, however many clearer
\* turns are cited beside it.  (A confidence of exactly 0 counts as unknown.)
DoubtKept ==
  \A o \in Observations :
    \A i \in DOMAIN o.evidence :
      \A turn \in Range(window.turns) :
        turn.id = o.evidence[i].turn /\ turn.role = "user" =>
          /\ turn.heard > 0 => o.confidence <= turn.heard /\ o.timeConfidence <= turn.heard
          /\ turn.heard < 78 => o.time = "uncertain" /\ o.timeConfidence <= 50

\* memory_v3.md:341, and the comment at memory_v3_compiler.py:171: a mention is
\* grounded in the evidence, that is, somebody said it.
MentionsSaid ==
  \A o \in Observations :
    \E turn \in Range(window.turns) : Within(o.id.content.target, turn.text)
=============================================================================
