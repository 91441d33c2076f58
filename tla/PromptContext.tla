----------------------------- MODULE PromptContext ----------------------------
(***************************************************************************)
(* What the language model is shown: PromptContextBuilder of               *)
(* services/realtime-agent/app/context.py, which keeps the recent turns of *)
(* a session and builds the messages of each request from them, from the   *)
(* memories the phone sent with the session and with the turn, and from    *)
(* the latest user text.                                                   *)
(*                                                                         *)
(* A text is a set of words and its length is their number; the word lists *)
(* of the code are represented by a few members each.  Scores and          *)
(* confidences are percentages.  MemoryLookup has the way of the turn's    *)
(* memories to the agent; here they are an argument.                       *)
(***************************************************************************)
EXTENDS Integers, Sequences, SequencesExt, FiniteSetsExt

CONSTANTS
  Texts,           \* bound: what users say, sets of words
  AssistantTexts,  \* bound: what the assistant says, sets of words
  Histories,       \* bound: recent turns the phone may send with the session
  Stored,          \* bound: memory blocks the phone may send with the session
  Packets,         \* bound: memory blocks the phone may send for a turn
  Extras,          \* bound: receipts the phone may ask about, and words of the cues
  MaxRecent,       \* max_recent_messages
  MinExchanges,    \* MIN_RECENT_EXCHANGES
  MaxBlocks,       \* max_memory_blocks
  MaxSize,         \* max_context_chars, in words
  MaxExchange      \* bound: exchanges of the session

\* The parsers of the phone's context make texts of bounded length, and numbers of
\* times and scores; turns may come in any order, and many with one time.
ASSUME PromptAssumption ==
  /\ MaxRecent \in Nat \ {0} /\ MinExchanges \in Nat \ {0}
  /\ MaxBlocks \in Nat /\ MaxSize \in Nat /\ MaxExchange \in Nat
  /\ \A text \in Texts \cup AssistantTexts : IsFiniteSet(text)
  /\ \A h \in Histories :
       h \in Seq(ToSet(h)) /\ \A t \in ToSet(h) : IsFiniteSet(t.text) /\ t.created \in Int
  /\ \A sent \in Stored \cup Packets :
       /\ sent \in Seq(ToSet(sent))
       /\ \A b \in ToSet(sent) : {b.importance, b.confidence, b.updated} \subseteq Int

VARIABLES
  recent,   \* recent_turns
  blocks,   \* memory_blocks
  turnId,   \* the turn answered last
  latest,   \* its user text; {} before the first
  packets,  \* the memories the phone sent for it
  prompt,   \* the messages of its request; << >> if there was none
  answered  \* its exchange is remembered

promptVars == <<recent, blocks, turnId, latest, packets, prompt, answered>>

-----------------------------------------------------------------------------
(* Texts.                                                                  *)

StopWords == {"main", "hai", "aur", "kal"}
FollowUpMarkers == {"aur", "phir", "nahi"}
ReferenceMarkers == {"kal", "tomorrow"}
QuestionMarkers == {"kya"}
SensitiveWords == {"doctor", "loan"}
WorkWords == {"office", "kaam"}
StressWords == {"boss", "stress"}
PromiseMarkers == {"pooch"}

Sensitive(text) == text \cap SensitiveWords # {}
Topic(text) == text \ StopWords
QuestionLike(text) == text \cap QuestionMarkers # {}
FollowUp(text) == Cardinality(Topic(text)) <= 1 \/ text \cap FollowUpMarkers # {}
DialogueReference(text) == text \cap ReferenceMarkers # {}
WorkStress(text) == text \cap WorkWords # {} /\ text \cap StressWords # {}
\* More than five words, fewer than three of them different.
Repetitive(text) == "garbled" \in text

Intent(text) ==
  IF QuestionLike(text) /\ "naam" \in text THEN "identity"
  ELSE IF QuestionLike(text) /\ "style" \in text THEN "language"
  ELSE IF QuestionLike(text) /\ "pasand" \in text THEN "preference"
  ELSE "general"

-----------------------------------------------------------------------------
(* Recent turns.                                                           *)

Key(t) == <<t.turn, t.role, t.text>>

\* The order of the places of s when s is sorted; stable, as sorted() of Python is.
Stable(s, Before(_, _)) ==
  {p \in (DOMAIN s) \X (DOMAIN s) :
     \/ Before(s[p[1]], s[p[2]])
     \/ ~Before(s[p[2]], s[p[1]]) /\ p[1] < p[2]}

\* The members of s at some of its places, in an order of the places.
Arranged(s, places, order) ==
  [n \in 1..Cardinality(places) |->
     s[CHOOSE i \in places : Cardinality({j \in places : <<j, i>> \in order}) = n - 1]]

Repeats(kept, t) ==
  \/ \E i \in DOMAIN kept : Key(kept[i]) = Key(t)
  \/ kept # << >> /\ Last(kept).role = t.role /\ Last(kept).text = t.text

Add(kept, t) == IF Repeats(kept, t) THEN kept ELSE Append(kept, t)

\* The turns at some places, sorted by time, without those that repeat one.
Dedupe(turns, places) ==
  LET sorted == Arranged(turns, places, Stable(turns, LAMBDA a, b : a.created < b.created))
      kept[n \in 0..Len(sorted)] == IF n = 0 THEN << >> ELSE Add(kept[n - 1], sorted[n])
  IN  kept[Len(sorted)]

\* The slice s[-n:].
LastOf(s, n) == IF Len(s) <= n THEN s ELSE SubSeq(s, Len(s) - n + 1, Len(s))

Exchange(t, question, answer, status) ==
  LET now == IF recent = << >> THEN 1 ELSE Last(recent).created + 1
  IN  << [turn |-> t, role |-> "user", text |-> question, status |-> "final",
          confidence |-> 100, created |-> now],
         [turn |-> t, role |-> "assistant", text |-> answer, status |-> status,
          confidence |-> 100, created |-> now + 1] >>

Kept(s) == LastOf(s, MaxRecent)

\* A confidence that is not known counts as full.
\* Faulty variants, here and below, serve to show that properties can fail.
FitIfClear(t) == t.confidence >= 55 /\ ~Sensitive(t.text) /\ ~Repetitive(t.text)
Fit(t) ==
  /\ t.status \in {"final", "final_corrected"}
  /\ t.confidence >= 55
  /\ ~Sensitive(t.text)
  /\ ~Repetitive(t.text)

\* _select_recent_turns: a new topic is shown the last exchanges only.
SelectRecent(question) ==
  LET fit == Dedupe(recent, {i \in DOMAIN recent :
                               Fit(recent[i]) /\ recent[i].text # question})
      known == UNION {Topic(fit[i].text) : i \in DOMAIN fit}
  IN  IF \/ FollowUp(question) \/ DialogueReference(question)
         \/ Topic(question) \cap known # {}
      THEN LastOf(fit, MaxRecent)
      ELSE LastOf(fit, 2 * MinExchanges)

-----------------------------------------------------------------------------
(* Memory blocks.                                                          *)

Profile == {"stable_fact", "core_profile", "procedural"}

Eligible(b) ==
  /\ b.confidence >= 50 /\ b.importance >= 25 /\ b.stt >= 55
  /\ b.sensitivity = "normal" /\ b.kind # "safety_ephemeral"
  /\ b.receipt \notin {"rejected", "unconfirmed"}
  /\ b.temporal \notin {"stale", "expired"}
  /\ (b.sourced \/ b.kind = "session_summary")
  /\ ~Sensitive(b.text)

Relevance(b, question) ==
  LET about == CASE b.label = "preferred_name" -> "identity"
                 [] b.label = "language_style" -> "language"
                 [] b.label = "safe_preference" -> "preference"
                 [] OTHER -> "none"
      intent == Intent(question)
  IN  CASE b.kind \in Profile ->
             IF about = intent THEN [identity |-> 120, language |-> 110, preference |-> 100][about]
             ELSE IF about \in {"identity", "language"} THEN 100
             ELSE 70
        [] b.kind = "semantic" ->
             IF WorkStress(question) /\ "work" \in b.text THEN 80 ELSE 55
        [] b.kind = "episodic" -> 65
        [] b.kind = "session_summary" /\ b.text \cap question # {} -> 60
        [] OTHER -> 0

Rank(b, question) == <<Relevance(b, question), b.importance, b.confidence, b.updated>>

Above(a, b) ==
  \E i \in 1..4 : a[i] > b[i] /\ \A j \in 1..i - 1 : a[j] = b[j]

Limit(question) == IF Intent(question) = "general" THEN 2 ELSE 1
Summaries(chosen) == Cardinality({i \in DOMAIN chosen : chosen[i].kind = "session_summary"})

\* The walk over the ranked blocks; a summary over the limit is passed over.
Take(chosen, b, question) ==
  IF \/ Len(chosen) >= MaxBlocks
     \/ (b.kind = "session_summary" /\ Summaries(chosen) >= Limit(question))
  THEN chosen ELSE Append(chosen, b)

SelectMemory(question, sent) ==
  LET all == blocks \o sent
      higher == Stable(all, LAMBDA a, b : Above(Rank(a, question), Rank(b, question)))
      ranked == Arranged(all, {i \in DOMAIN all : Eligible(all[i])}, higher)
      chosen[n \in 0..Len(ranked)] ==
        IF n = 0 THEN << >> ELSE Take(chosen[n - 1], ranked[n], question)
  IN  chosen[Len(ranked)]

-----------------------------------------------------------------------------
(* The prompt.                                                             *)

\* _active_dialogue_state over the last six selected turns.
DialogueState(selected, question) ==
  LET window == LastOf(selected, 6)
      promises == {i \in DOMAIN window : /\ window[i].role = "assistant"
                                         /\ window[i].text \cap PromiseMarkers # {}}
  IN  [topic |-> Topic(UNION {window[i].text : i \in DOMAIN window} \cup question),
       question |-> QuestionLike(question),
       commitment |-> IF promises = {} THEN {} ELSE window[Max(promises)].text,
       time |-> DialogueReference(question)]

\* The first receipt that may be asked about, unless the user's text is sensitive.
Receipt(receipts, question) ==
  LET usable == {i \in DOMAIN receipts : ~Sensitive(receipts[i])}
  IN  IF Sensitive(question) \/ usable = {} THEN << >> ELSE <<receipts[Min(usable)]>>

Total(sizes) ==
  LET total[n \in 0..Len(sizes)] == IF n = 0 THEN 0 ELSE total[n - 1] + sizes[n]
  IN  total[Len(sizes)]
SizeOf(messages) == Total([i \in DOMAIN messages |-> messages[i].size])
WordsOf(items) == Total([i \in DOMAIN items |-> Cardinality(items[i].text)])

Persona == [role |-> "system", kind |-> "persona", size |-> 2]
Latest(question) == [role |-> "user", kind |-> "latest", size |-> Cardinality(question)]
Said(t) == [role |-> t.role, kind |-> "recent", said |-> t, size |-> Cardinality(t.text)]

\* The ground rules and the sections; cues are the words of the companion policy
\* and of the admission hint.
Context(memory, state, receipt, cues) ==
  [role |-> "system", kind |-> "context", memory |-> memory,
   size |-> 1 + cues + WordsOf(memory) + Len(receipt)
              + Min({Cardinality(state.topic), 5}) + Cardinality(state.commitment)]

Messages(question, sent, receipts, cues) ==
  LET selected == SelectRecent(question)
  IN  <<Persona, Context(SelectMemory(question, sent), DialogueState(selected, question),
                         Receipt(receipts, question), cues)>>
      \o [i \in DOMAIN selected |-> Said(selected[i])]
      \o <<Latest(question)>>

\* _bound_messages: the recent messages go first, from the oldest and all but
\* one; then the context; then the one.
WithoutNewest(messages) ==
  [n \in 1..Max({Len(messages) - 3, 1}) |->
     SubSeq(messages, 1, Len(messages) - n) \o <<Last(messages)>>]
WithoutOldest(messages) ==
  [n \in 1..Max({Len(messages) - 3, 1}) |->
     SubSeq(messages, 1, 2) \o SubSeq(messages, n + 2, Len(messages))]
WithoutContext(messages) ==
  [n \in 1..Len(messages) - 2 |-> <<messages[1]>> \o SubSeq(messages, n + 2, Len(messages))]

Bounded(messages) ==
  LET shorter == WithoutOldest(messages)
      all == shorter \o WithoutContext(Last(shorter))
      fitting == {n \in DOMAIN all : SizeOf(all[n]) <= MaxSize}
  IN  IF fitting = {} THEN Last(all) ELSE all[Min(fitting)]

-----------------------------------------------------------------------------
(* The session.                                                            *)

PromptInit ==
  /\ \E h \in Histories : recent = Dedupe(h, DOMAIN h)
  /\ blocks \in Stored
  /\ turnId = 0 /\ latest = {} /\ packets = << >> /\ prompt = << >> /\ answered = TRUE

\* A response is begun for a new turn, or for the turn whose response was
\* cancelled before it was remembered.
NextTurn(t) == t = turnId + 1 \/ (t = turnId /\ ~answered)

\* build.
Build(question, sent, receipts, cues) ==
  /\ \E t \in 1..MaxExchange : NextTurn(t) /\ turnId' = t
  /\ latest' = question /\ packets' = sent /\ answered' = FALSE
  /\ prompt' = Bounded(Messages(question, sent, receipts, cues))
  /\ UNCHANGED <<recent, blocks>>

\* An answer the phone composed, or one that needs live data: no request.
Direct(question) ==
  /\ \E t \in 1..MaxExchange : NextTurn(t) /\ turnId' = t
  /\ latest' = question /\ packets' = << >> /\ answered' = FALSE /\ prompt' = << >>
  /\ UNCHANGED <<recent, blocks>>

Remembered(t, question, answer, status) ==
  LET all == recent \o Exchange(t, question, answer, status)
  IN  recent' = Kept(Dedupe(all, DOMAIN all))

\* remember_complete_turn after the answer was published.
Remember(answer) ==
  /\ ~answered /\ answered' = TRUE
  /\ Remembered(turnId, latest, answer, "final")
  /\ UNCHANGED <<blocks, turnId, latest, packets, prompt>>

\* A safety override answers, and is remembered, without a request.
Override(question, answer) ==
  /\ \E t \in 1..MaxExchange :
        NextTurn(t) /\ turnId' = t /\ Remembered(t, question, answer, "safety_override")
  /\ latest' = question /\ packets' = << >> /\ prompt' = << >> /\ answered' = TRUE
  /\ UNCHANGED blocks

PromptNext ==
  \/ \E question \in Texts :
       \/ \E sent \in Packets, extra \in Extras :
            Build(question, sent, extra.receipts, extra.cues)
       \/ Direct(question)
       \/ \E answer \in AssistantTexts : Override(question, answer)
  \/ \E answer \in AssistantTexts : Remember(answer)

PromptSpec == PromptInit /\ [][PromptNext]_promptVars

-----------------------------------------------------------------------------
(* Properties.                                                             *)

Waiting == prompt # << >> /\ ~answered
Shown == {prompt[i].said : i \in {j \in DOMAIN prompt : prompt[j].kind = "recent"}}
ContextShown == Len(prompt) > 1 /\ prompt[2].kind = "context"

\* context.py:417, 226: a safety override, a doubtful transcript, a sensitive
\* text or a memory that is rejected, out of date or unsourced never reaches
\* the model again, and what does reach it are turns of this conversation, in
\* the order they were said, between the instructions and the latest user text.
OnlyFitContext ==
  Waiting =>
    /\ prompt[1].kind = "persona" /\ Last(prompt).kind = "latest"
    /\ Shown \subseteq ToSet(recent)
    /\ \A t \in Shown :
         /\ t.status # "safety_override" /\ t.confidence >= 55
         /\ t.text \cap SensitiveWords = {}
    /\ \A i, j \in DOMAIN prompt :
         i < j /\ prompt[i].kind = "recent" /\ prompt[j].kind = "recent" =>
           \E m, n \in DOMAIN recent :
             /\ m < n /\ recent[m] = prompt[i].said /\ recent[n] = prompt[j].said
             /\ recent[m].created <= recent[n].created
    /\ ContextShown =>
         \A i \in DOMAIN prompt[2].memory :
           LET b == prompt[2].memory[i]
           IN  /\ b.receipt # "rejected" /\ b.temporal \notin {"stale", "expired"}
               /\ b.sourced \/ b.kind = "session_summary"
               /\ b.sensitivity = "normal" /\ b.text \cap SensitiveWords = {}

\* context.py:791, 262: the model is never shown a turn without the fit turns
\* said after it; only a repetition is left out.
NewestShown ==
  \A t \in Shown, i \in DOMAIN recent :
    recent[i].created > t.created /\ Fit(recent[i]) /\ recent[i].text # latest =>
      \E s \in Shown : s.role = recent[i].role /\ s.text = recent[i].text

\* context.py:791: a request over the budget is the persona and the latest text
\* alone; the ground rules and memories are given up only when at most one recent
\* turn is left to give up, and that turn only when it alone does not fit.
WithinBudget ==
    /\ SizeOf(prompt) <= MaxSize \/ (Len(prompt) = 2 /\ ~ContextShown)
    /\ ~ContextShown => Cardinality(Shown) <= 1
    /\ Shown = {} =>
       \A i \in DOMAIN recent :
         Fit(recent[i]) /\ recent[i].text # latest =>
           \E t \in ToSet(recent) :
             /\ t.created >= recent[i].created /\ Fit(t)
             /\ Persona.size + Cardinality(t.text) + Cardinality(latest) > MaxSize

\* What is trimmed goes in the order of the code: the oldest turns, the context,
\* the last turn, and no more than the budget asks for.
TrimmedInOrder == Waiting => NewestShown /\ WithinBudget

\* The comment at context.py:797: trimming preserves at least one recent exchange;
\* the context section is trimmed after that.
ExchangePreserved ==
  Waiting /\ ContextShown =>
    Cardinality(Shown) >= Min({2, Len(SelectRecent(latest))})
=============================================================================
