---------------------------- MODULE SemanticAtoms ----------------------------
(***************************************************************************)
(* What the memory endpoints of services/api make of the proposals of a    *)
(* language model: the construction of observations from semantic atoms    *)
(* (memory_v3_compiler.py) and the filter of judge candidates              *)
(* (memory_extraction.py).  MemoryFormation has the requests.              *)
(*                                                                         *)
(* A text is a sequence of words, and a quote that cuts a word in two is   *)
(* left out.  The empty text stands for a part that is absent and, as a    *)
(* subject, for the user: both pass every check for words, like "" in      *)
(* Python.  Confidences are percentages.                                   *)
(***************************************************************************)
EXTENDS Integers, Sequences, SequencesExt, FiniteSetsExt

CONSTANTS
  Word,        \* bound: the words of the texts
  Forbidden,   \* words of secrets and crises (classify_local_memory_sensitivity)
  Restricted,  \* words of medical, legal, financial or contact matters
  Marked,      \* _SENSITIVE_EVIDENCE_MARKERS
  Instruction, \* words that look like an instruction to the model
  Number,      \* words that stand for a number or a truth value; some, like that of
               \* a telephone, may be private
  Keyword,     \* Keyword[p]: a word of the object that settles predicate p
  Canonical    \* Canonical[p]: ... and the value it settles

ASSUME WordsAssumption ==
  /\ Forbidden \cup Restricted \cup Marked \cup Instruction \cup Number \subseteq Word
  /\ Keyword \in [DOMAIN Canonical -> Word]
  /\ Canonical \in [DOMAIN Canonical -> Word \ (Forbidden \cup Restricted \cup Marked)]

Unknown == -1      \* no stt_confidence

Text == Seq(Word)
Quotation == [turn : STRING, quote : Text \ {<< >>}]

\* MemorySemanticAtomV3, without the affect scale and the assessment.
Atom ==
  [predicate : STRING, subject : Text, subjectHint : Text, object : Text \ {<< >>},
   target : Text, targetHint : Text, evidence : Seq(Quotation),
   modality : {"asserted", "negated", "hypothetical", "quoted"},
   explicitness : {"explicit", "implied"},
   time : {"current", "past", "future", "uncertain"}, expression : Text, normalized : Text,
   sensitivity : {"normal", "restricted", "forbidden"}, affectTarget : Text, affectCause : Text]

\* MemoryCandidate; "words" are those of its subject, predicate and object.
Candidate ==
  [words : SUBSET Word, kind : STRING, turns : Seq(STRING),
   sensitivity : {"normal", "sensitive", "highly_sensitive"},
   explicitness : {"explicit", "implied", "assistant_only"},
   role : {"user", "mixed", "assistant"},
   action : {"ADD", "REINFORCE", "SUPERSEDE", "EXPIRE", "NOOP"}]

-----------------------------------------------------------------------------
(* Texts.                                                                  *)

Words(text) == Range(text)

\* Where a quote occurs in a text; str.find returns the first place.
Occurrences(text, quote) ==
  {i \in 1..Len(text) + 1 - Len(quote) : SubSeq(text, i, i + Len(quote) - 1) = quote}
Within(quote, text) == Occurrences(text, quote) # {}

\* cited_fragments, and cited_text: the quotes joined with spaces.
Fragments(atom) == {item.quote : item \in Range(atom.evidence)}
CitedText(atom) == FlattenSeq([i \in DOMAIN atom.evidence |-> atom.evidence[i].quote])

\* The turns of the window that are cited.
TurnsOf(window, id) == {turn \in Range(window) : turn.id = id}
Cited(window, ids) == UNION {TurnsOf(window, id) : id \in ids}
CitedTurns(window, atom) == Cited(window, {item.turn : item \in Range(atom.evidence)})

-----------------------------------------------------------------------------
(* _construct_memory_observation.                                          *)

\* The first fault of an evidence item.  Turn ids are unique in a window.
Source(item, turn) == <<item.turn, Min(Occurrences(turn.text, item.quote)), Len(item.quote)>>
SourceOf(window, item) == Source(item, CHOOSE turn \in TurnsOf(window, item.turn) : TRUE)
Repeated(window, evidence, i) ==
  \E j \in 1..i - 1 : SourceOf(window, evidence[j]) = SourceOf(window, evidence[i])

ItemFault(window, evidence, i) ==
  LET item == evidence[i]
      texts == {turn.text : turn \in TurnsOf(window, item.turn)}
  IN  IF texts = {} THEN "unknown_evidence_turn"
      ELSE IF \E turn \in TurnsOf(window, item.turn) : turn.status = "safety_override"
        THEN "safety_ephemeral_source"
      ELSE IF \E text \in texts : ~Within(item.quote, text) THEN "evidence_quote_mismatch"
      ELSE IF \E text \in texts : Cardinality(Occurrences(text, item.quote)) > 1
        THEN "ambiguous_evidence_quote"
      ELSE IF Repeated(window, evidence, i) THEN "duplicate_evidence_reference"
      ELSE ""

\* Each item is checked before the next is looked at.
EvidenceFault(window, evidence) ==
  LET clean == {n \in 0..Len(evidence) : \A i \in 1..n : ItemFault(window, evidence, i) = ""}
  IN  IF Max(clean) = Len(evidence) THEN ""
      ELSE ItemFault(window, evidence, Max(clean) + 1)

\* A commitment was made by the assistant, everything else was said by the user.
Speaker(predicate) == IF predicate = "assistant_commitment" THEN "assistant" ELSE "user"
OnlySpeaker(window, atom) == {turn.role : turn \in CitedTurns(window, atom)} = {Speaker(atom.predicate)}

\* The object has to stand in one fragment, the other parts in the joined text.
\* (Faulty variants, here and below, serve to show that properties can fail.)
ObjectJoined(atom) == Within(atom.object, CitedText(atom))
ObjectGrounded(atom) == \E fragment \in Fragments(atom) : Within(atom.object, fragment)

Ungrounded(atom) ==
  IF ~ObjectGrounded(atom) THEN "object_not_evidence_grounded"
  ELSE IF ~Within(atom.subject, CitedText(atom)) THEN "subject_not_evidence_grounded"
  ELSE IF ~Within(atom.subjectHint, CitedText(atom)) THEN "subject_relationship_not_evidence_grounded"
  ELSE IF ~Within(atom.target, CitedText(atom)) THEN "target_not_evidence_grounded"
  ELSE IF ~Within(atom.targetHint, CitedText(atom)) THEN "target_relationship_not_evidence_grounded"
  ELSE IF ~Within(atom.expression, CitedText(atom)) THEN "temporal_expression_not_evidence_grounded"
  ELSE ""

\* classify_local_memory_sensitivity, a floor under what the model says.
SensitivityOf(words) ==
  IF words \cap Forbidden # {} THEN "forbidden"
  ELSE IF words \cap Restricted # {} THEN "restricted" ELSE "normal"
MaxSensitivity(one, other) ==
  IF "forbidden" \in {one, other} THEN "forbidden"
  ELSE IF "restricted" \in {one, other} THEN "restricted" ELSE "normal"
SensitivityHinted(atom) == atom.sensitivity
Sensitivity(atom) == MaxSensitivity(SensitivityOf(UNION {Words(f) : f \in Fragments(atom)}), atom.sensitivity)

Rejection(window, atom) ==
  IF atom.modality # "asserted" THEN "unsupported_modality"
  ELSE IF EvidenceFault(window, atom.evidence) # "" THEN EvidenceFault(window, atom.evidence)
  ELSE IF ~OnlySpeaker(window, atom) THEN "contamination"
  ELSE IF Ungrounded(atom) # "" THEN Ungrounded(atom)
  ELSE IF Sensitivity(atom) = "forbidden" THEN "local_forbidden"
  ELSE IF Sensitivity(atom) = "restricted" THEN "local_restricted"
  ELSE ""

\* Confidence in what was heard: an unknown one counts as half, and so does 0,
\* which is false in Python.  Nothing was heard of what the assistant said.
UserTurns(window, atom) == {turn \in CitedTurns(window, atom) : turn.role = "user"}
Heard(turn) == IF turn.heard \in {Unknown, 0} THEN 50 ELSE turn.heard
MinimumStt(window, atom) ==
  IF UserTurns(window, atom) = {} THEN 100 ELSE Min({Heard(turn) : turn \in UserTurns(window, atom)})

Explicitness(atom) ==
  IF atom.predicate = "assistant_commitment" THEN "assistant_only" ELSE atom.explicitness
Confidence(window, atom) ==
  Min({IF Explicitness(atom) = "implied" THEN 65 ELSE 95, MinimumStt(window, atom)})

KnownOnly(window, atom) == \E turn \in UserTurns(window, atom) : turn.heard = Unknown
Doubtful(window, atom) ==
  \E turn \in UserTurns(window, atom) : turn.heard = Unknown \/ MinimumStt(window, atom) < 78
TimeStatus(window, atom) == IF Doubtful(window, atom) THEN "uncertain" ELSE atom.time

\* _temporal_resolution_confidence
TimeConfidence(window, atom) ==
  LET status == TimeStatus(window, atom)
      base == IF status = "uncertain" THEN 50
              ELSE IF status = "current" \/ atom.expression # << >> THEN 90 ELSE 75
  IN  Min({base, MinimumStt(window, atom)})

\* _deterministic_normalized_value: canonical, a number, or the user's own words.
\* A number or a truth value is the model's own: it is neither looked for in the
\* evidence nor classified.
NormalizedValue(atom) ==
  IF atom.predicate \in DOMAIN Keyword /\ Keyword[atom.predicate] \in Words(atom.object)
    THEN <<Canonical[atom.predicate]>>
  ELSE IF atom.predicate # "preferred_name" /\ \E n \in Number : atom.normalized = <<n>>
    THEN atom.normalized
  ELSE atom.object

\* _construct_affect: dropped unless grounded, never a reason for rejection.
AffectParts(atom) ==
  IF Within(atom.affectTarget, CitedText(atom)) /\ Within(atom.affectCause, CitedText(atom))
    THEN Words(atom.affectTarget) \cup Words(atom.affectCause) ELSE {}

InstructionLike(atom) == Words(atom.object) \cap Instruction # {}

\* The candidate id is a hash of the job, the place in the answer and the atom.
CandidateId(job, index, atom) == [job |-> job, index |-> index, content |-> atom]

\* MemoryObservationV3; "words" are those of all its parts but the evidence and the
\* normalized value of the object.
Observation(job, window, atom, index) ==
  [id |-> CandidateId(job, index, atom),
   predicate |-> atom.predicate, object |-> atom.object, value |-> NormalizedValue(atom),
   evidence |-> atom.evidence,
   words |-> Words(atom.object) \cup Words(atom.subject) \cup Words(atom.subjectHint)
             \cup Words(atom.target) \cup Words(atom.targetHint) \cup Words(atom.expression)
             \cup AffectParts(atom),
   explicitness |-> Explicitness(atom), confidence |-> Confidence(window, atom),
   time |-> TimeStatus(window, atom), timeConfidence |-> TimeConfidence(window, atom),
   confirm |-> InstructionLike(atom)]

\* coherent_candidate, the validator of what has been constructed: its error is
\* one more reason for a rejection.
Coherent(window, observation) ==
  /\ \A i, j \in DOMAIN observation.evidence :
       SourceOf(window, observation.evidence[i]) = SourceOf(window, observation.evidence[j]) => i = j
  /\ \A turn \in CitedTurns(window, observation) : turn.role = Speaker(observation.predicate)
  /\ observation.explicitness = "assistant_only" <=> observation.predicate = "assistant_commitment"

-----------------------------------------------------------------------------
(* filter_source_safe_candidates.                                          *)

\* A user message and its reply share a turn id: an id may cite two messages.
RolesOf(window, ids) == {turn.role : turn \in Cited(window, ids)}

CommitmentSourced(window, candidate) ==
  /\ "assistant" \in RolesOf(window, Range(candidate.turns))
  /\ candidate.role \in {"assistant", "mixed"} /\ candidate.explicitness = "assistant_only"

UserSourced(window, candidate) ==
  /\ "user" \in RolesOf(window, Range(candidate.turns))
  /\ candidate.role # "assistant" /\ candidate.explicitness # "assistant_only"
  /\ candidate.role = "user" =>
       \A id \in Range(candidate.turns) : "user" \in RolesOf(window, {id})
  /\ candidate.role = "mixed" =>
       RolesOf(window, Range(candidate.turns)) = {"user", "assistant"}

\* The markers are looked for in the candidate and in all it cites.
EvidenceWords(window, candidate) ==
  candidate.words \cup UNION {Words(turn.text) : turn \in Cited(window, Range(candidate.turns))}

\* One of the markers occurs.
Flagged(words) == words \cap Marked # {}

SourceSafe(window, candidate) ==
  /\ candidate.sensitivity = "normal"
  /\ \A id \in Range(candidate.turns) : TurnsOf(window, id) # {}
  /\ IF candidate.kind = "assistant_commitment"
       THEN CommitmentSourced(window, candidate) ELSE UserSourced(window, candidate)
  /\ ~Flagged(EvidenceWords(window, candidate))

\* build_judge_decision: the id is a hash of the job and the candidate.
Decision(job, candidate) ==
  [id |-> [job |-> job, content |-> candidate],
   action |-> CASE candidate.action = "ADD" -> "accept"
                [] candidate.action = "SUPERSEDE" -> "supersede"
                [] candidate.action \in {"REINFORCE", "EXPIRE"} -> "update"
                [] candidate.action = "NOOP" -> "reject",
   proposal |-> candidate]
=============================================================================
