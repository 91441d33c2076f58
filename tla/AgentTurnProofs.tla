---------------------------- MODULE AgentTurnProofs ----------------------------
(***************************************************************************)
(* Proofs about AgentTurn for every number of utterances: type             *)
(* correctness, the three safety properties of the hand-over between two   *)
(* responses, and, from a second invariant that rests on the first, that   *)
(* no words are lost and that a session at rest listens.                   *)
(***************************************************************************)
EXTENDS AgentTurn, TLAPS

\* The STT task of utterance t is under way.
Hearing(t) == stt[t] \notin {"none", "done"}

\* Stages in which the response task has not published its answer.
Unanswered == Composing \cup {"created", "llmError"}

\* Turn ids are handed out in order and nothing is known of later ones.
IdsInOrder ==
  /\ \A t \in Turn : stt[t] = "none" <=> t > lastTurn
  /\ pending <= lastTurn /\ activeTurn <= lastTurn /\ utterance <= lastTurn
  /\ \A u \in Turn : respTurn[u] <= lastTurn

\* One utterance at a time: it is open, or the main loop waits for its text.
OneUtterance ==
  /\ utterance # NoTurn => main # "awaitStt"
  /\ \A t \in Turn : Hearing(t) => utterance = t \/ main = "awaitStt"
  /\ \A t \in Turn : stt[t] \in {"flushed", "accepted"} => main = "awaitStt"
  /\ \A s, t \in Turn : Hearing(s) /\ Hearing(t) => s = t

\* A response task exists once its transcript was handled, and has a turn.
TasksStarted ==
  /\ \A t \in Turn : response[t] # "none" =>
       stt[t] = "done" /\ respTurn[t] # NoTurn
  /\ \A t \in Turn : stt[t] = "accepted" => respTurn[t] # NoTurn
  /\ current # NoTurn => response[current] # "none" /\ respTurn[current] = activeTurn

\* Only _current_turn is at work; cancellations are for tasks that still run.
OneResponse ==
  /\ \A u \in Turn : Live(u) => u = current
  /\ \A u \in cancelling : response[u] \notin {"none", "done"}

\* Nothing is said to a turn that is still to be extended or answered.
ToBeAnswered ==
  /\ pending # NoTurn => answers[pending] = 0 /\ \A u \in Turn : ~Live(u)
  /\ \A t \in Turn : stt[t] # "done" => answers[t] = 0
  /\ \A t \in Turn : stt[t] = "accepted" =>
       /\ pending = NoTurn
       /\ answers[respTurn[t]] = 0
       /\ shown[respTurn[t]] = respText[t]
  /\ \A u \in Turn : Live(u) /\ response[u] \in Unanswered =>
       /\ answers[respTurn[u]] = 0
       /\ shown[respTurn[u]] = respText[u]

\* What has been answered is committed, so speech_start leaves it alone.
AnsweredIsCommitted == \A t \in Turn : answers[t] > 0 => t \in committed

IInv ==
  /\ TypeOK
  /\ IdsInOrder
  /\ OneUtterance
  /\ TasksStarted
  /\ OneResponse
  /\ ToBeAnswered
  /\ AnsweredIsCommitted
  /\ NoTalkOver
  /\ OneAnswerPerTurn
  /\ AnswerFitsTranscript

------------------------------------------------------------------------------
(* The response tasks *)

\* The two kinds of step a response task takes: one that publishes no answer,
\* and one that does.  In both it may only go on while it is Live.
Works(u) ==
  /\ response[u] \notin {"none", "done"}
  /\ \E stage \in ResponseStage \ {"none"} : Goto(u, stage)
  /\ response'[u] \in {"done", "stopAudio"} \/ Live(u)
  /\ response'[u] \in Unanswered => response[u] \in Unanswered
  /\ cancelling' \in {cancelling, cancelling \ {u}}
  /\ cancelling' # cancelling => response'[u] \in {"done", "stopAudio"}
  /\ response'[u] = "done" => u \notin cancelling'
  /\ terminals' \in [Turn -> Nat] /\ ui' \in UiState /\ speaking' \in BOOLEAN
  /\ UNCHANGED <<phase, main, lastTurn, utterance, sttVars, schedVars,
                 committed, answers, answerText, stopped>>

Answers(u) ==
  /\ Live(u) /\ response[u] \in Unanswered
  /\ Goto(u, "safety") \/ Goto(u, "final")
  /\ committed' = committed \cup {respTurn[u]}
  /\ AssistantFinal(respTurn[u], respText[u])
  /\ ResponseFrame
  /\ UNCHANGED <<terminals, stopped, speaking, ui>>

\* Utterance ids and "none", told apart.
LEMMA TurnFacts ==
  /\ NoTurn \notin Turn
  /\ \A t \in Turn : t \in Nat /\ t # NoTurn
  /\ \A t : t \in 0..MaxTurn <=> t = NoTurn \/ t \in Turn
BY MaxTurnAssumption DEF Turn, NoTurn

\* A terminal record leaves the record counts well typed.
LEMMA TerminalTyped ==
  ASSUME NEW t \in Turn, terminals \in [Turn -> Nat], Terminal(t)
  PROVE  terminals' \in [Turn -> Nat]
BY DEF Terminal

\* Each step of a response task is one of the two.
LEMMA ResponseSteps ==
  ASSUME NEW u \in Turn, IInv, ResponseTask(u)
  PROVE  Works(u) \/ Answers(u)
<1>1. /\ terminals \in [Turn -> Nat] /\ ui \in UiState /\ speaking \in BOOLEAN
      /\ response \in [Turn -> ResponseStage]
  BY DEF IInv, TypeOK
<1>2. response[u] # "none" => respTurn[u] \in Turn
  BY TurnFacts DEF IInv, TypeOK, TasksStarted
<1>3. response[u] # "none" /\ Terminal(respTurn[u]) => terminals' \in [Turn -> Nat]
  BY <1>1, <1>2, TerminalTyped
<1>4. \A x \in UiState : EmitState(x) => ui' \in UiState /\ speaking' \in BOOLEAN
  BY DEF EmitState
<1> USE <1>1 DEF At, Goto, ResponseFrame, Live, Unanswered, Composing, Speaking,
             ResponseStage, UiState, published
<1>a. CASE Think(u) BY <1>a, <1>4 DEF Think, Works
<1>b. CASE SafetyOverride(u) BY <1>b DEF SafetyOverride, Answers
<1>c. CASE SafetyListening(u) BY <1>c, <1>4 DEF SafetyListening, Works
<1>d. CASE SafetyReport(u) BY <1>d, <1>3 DEF SafetyReport, Works
<1>e. CASE MemoryLookup(u) BY <1>e DEF MemoryLookup, Works
<1>f. CASE StreamLLM(u) BY <1>f DEF StreamLLM, Works
<1>g. CASE LLMError(u) BY <1>g, <1>3 DEF LLMError, Works
<1>h. CASE LLMErrorListening(u) BY <1>h, <1>4 DEF LLMErrorListening, Works
<1>i. CASE Commit(u) BY <1>i DEF Commit, Works, Answers
<1>j. CASE StartSpeaking(u) BY <1>j, <1>4 DEF StartSpeaking, Works
<1>k. CASE Synthesize(u) BY <1>k DEF Synthesize, Works
<1>l. CASE TtsComplete(u) BY <1>l DEF TtsComplete, Works
<1>m. CASE TtsError(u) BY <1>m DEF TtsError, Works
<1>n. CASE ReportSpoken(u) BY <1>n, <1>3 DEF ReportSpoken, Works
<1>o. CASE FinishResponse(u) BY <1>o, <1>4 DEF FinishResponse, Works
<1>p. CASE Cancelled(u) BY <1>p DEF Cancelled, Works, IInv, OneResponse
<1>q. CASE ReportCancelled(u) BY <1>q, <1>3 DEF ReportCancelled, Works
<1> QED
  BY <1>a, <1>b, <1>c, <1>d, <1>e, <1>f, <1>g, <1>h, <1>i, <1>j, <1>k, <1>l,
     <1>m, <1>n, <1>o, <1>p, <1>q DEF ResponseTask

\* No task but u changes stage, and u does not come back to work.
LEMMA WorksIsQuiet ==
  ASSUME NEW u \in Turn, TypeOK, Works(u)
  PROVE  /\ response' \in [Turn -> ResponseStage] /\ cancelling' \in SUBSET Turn
         /\ \A v \in Turn : v # u => response'[v] = response[v]
         /\ \A v \in Turn : response'[v] = "none" <=> response[v] = "none"
         /\ \A v \in Turn : Live(v)' => Live(v)
         /\ \A v \in Turn : response'[v] \in Unanswered => response[v] \in Unanswered
BY DEF TypeOK, Works, Goto, Live

\* A step that publishes no answer preserves the invariant, whichever it is.
LEMMA WorksPreserves ==
  ASSUME NEW u \in Turn, IInv, Works(u)
  PROVE  IInv'
<1>1. TypeOK /\ OneResponse /\ ToBeAnswered /\ TasksStarted /\ NoTalkOver
  BY DEF IInv
<1>2. /\ response' \in [Turn -> ResponseStage] /\ cancelling' \in SUBSET Turn
      /\ \A v \in Turn : v # u => response'[v] = response[v]
      /\ \A v \in Turn : response'[v] = "none" <=> response[v] = "none"
      /\ \A v \in Turn : Live(v)' => Live(v)
      /\ \A v \in Turn : response'[v] \in Unanswered => response[v] \in Unanswered
  BY <1>1, WorksIsQuiet
<1>3. UNCHANGED <<phase, main, lastTurn, utterance, stt, shown, current, activeTurn,
                  pending, userText, respTurn, respText, committed, answers,
                  answerText, stopped>>
  BY DEF Works, sttVars, schedVars
<1>4. TypeOK'
  BY <1>1, <1>2, <1>3 DEF TypeOK, Works
<1>5. /\ IdsInOrder' /\ OneUtterance' /\ AnsweredIsCommitted' /\ OneAnswerPerTurn'
      /\ AnswerFitsTranscript'
  BY <1>3 DEF IInv, IdsInOrder, OneUtterance, Hearing, AnsweredIsCommitted,
              OneAnswerPerTurn, AnswerFitsTranscript
<1>6. TasksStarted'
  BY <1>1, <1>2, <1>3, TurnFacts DEF TasksStarted, TypeOK
<1>7. OneResponse'
  BY <1>1, <1>2, <1>3 DEF OneResponse, Works, TypeOK
<1>8. ToBeAnswered'
  BY <1>1, <1>2, <1>3 DEF ToBeAnswered
<1>9. NoTalkOver'
  BY <1>1, <1>2, <1>3 DEF NoTalkOver
<1> QED BY <1>4, <1>5, <1>6, <1>7, <1>8, <1>9 DEF IInv

\* The answer goes to the active turn, which nobody has answered yet: u is the
\* only task at work, so the turn is not waiting to be extended either.
LEMMA AnswersPreserves ==
  ASSUME NEW u \in Turn, IInv, Answers(u)
  PROVE  IInv'
<1> DEFINE turn == respTurn[u]
<1>1. /\ TypeOK /\ OneResponse /\ ToBeAnswered /\ TasksStarted /\ NoTalkOver
      /\ IdsInOrder /\ OneUtterance /\ AnswerFitsTranscript /\ OneAnswerPerTurn
      /\ AnsweredIsCommitted
  BY DEF IInv
<1>2. turn \in Turn /\ answers[turn] = 0 /\ shown[turn] = respText[u] /\ Live(u)
  BY <1>1, TurnFacts DEF Answers, TypeOK, TasksStarted, ToBeAnswered, Live
<1>3. utterance = NoTurn /\ main = "loop" /\ pending = NoTurn
  BY <1>1, <1>2 DEF NoTalkOver, ToBeAnswered
<1>4. \A t \in Turn : stt[t] \in {"none", "done"}
  BY <1>1, <1>3, TurnFacts DEF OneUtterance, Hearing
<1>5. stt[turn] = "done"
  BY <1>1, <1>2, <1>4 DEF IdsInOrder, TypeOK, Turn
<1>6. /\ UNCHANGED <<phase, main, lastTurn, utterance, stt, shown, current, activeTurn,
                     pending, userText, respTurn, respText, cancelling, terminals,
                     stopped, speaking, ui>>
      /\ committed' = committed \cup {turn}
      /\ answers' = [answers EXCEPT ![turn] = 1]
      /\ answerText' = [answerText EXCEPT ![turn] = respText[u]]
  BY <1>1, <1>2 DEF Answers, AssistantFinal, ResponseFrame, sttVars, schedVars, TypeOK
<1>7. /\ response' \in [Turn -> ResponseStage]
      /\ \A v \in Turn : v # u => response'[v] = response[v]
      /\ response'[u] \in {"safety", "final"}
  BY <1>1 DEF TypeOK, Answers, Goto, ResponseStage
<1>8. TypeOK'
  BY <1>1, <1>2, <1>6, <1>7 DEF TypeOK
<1>9. IdsInOrder' /\ OneUtterance'
  BY <1>1, <1>6 DEF IdsInOrder, OneUtterance, Hearing
<1>10. TasksStarted'
  BY <1>1, <1>2, <1>6, <1>7, TurnFacts DEF TasksStarted, TypeOK, Live
<1>11. OneResponse'
  BY <1>1, <1>2, <1>6, <1>7 DEF OneResponse, TypeOK, Live
<1>12. ToBeAnswered'
  <2>1. \A v \in Turn : ~(Live(v)' /\ response'[v] \in Unanswered)
    BY <1>1, <1>2, <1>6, <1>7 DEF OneResponse, Live, Unanswered, Composing
  <2>2. \A t \in Turn : stt'[t] # "done" => answers'[t] = 0
    BY <1>1, <1>5, <1>6 DEF ToBeAnswered, TypeOK
  <2> QED BY <1>3, <1>4, <1>6, <2>1, <2>2 DEF ToBeAnswered
<1>13. AnsweredIsCommitted' /\ OneAnswerPerTurn'
  BY <1>1, <1>2, <1>6 DEF AnsweredIsCommitted, OneAnswerPerTurn, TypeOK
<1>14. NoTalkOver'
  BY <1>3, <1>6 DEF NoTalkOver
<1>15. AnswerFitsTranscript'
  BY <1>1, <1>2, <1>6 DEF AnswerFitsTranscript, TypeOK
<1> QED BY <1>8, <1>9, <1>10, <1>11, <1>12, <1>13, <1>14, <1>15 DEF IInv

------------------------------------------------------------------------------
(* The main loop *)

\* Cancelling _current_turn silences everyone, because nobody else is at work.
LEMMA CancelSilences ==
  ASSUME IInv, CancelCurrent, UNCHANGED response
  PROVE  /\ cancelling' \in SUBSET Turn
         /\ \A u \in cancelling' : response[u] \notin {"none", "done"}
         /\ \A u \in Turn : ~Live(u)'
<1>1. TypeOK /\ OneResponse /\ TasksStarted
  BY DEF IInv
<1>2. cancelling' \in SUBSET Turn
  BY <1>1, TurnFacts DEF CancelCurrent, Running, TypeOK
<1>3. \A u \in cancelling' : response[u] \notin {"none", "done"}
  BY <1>1 DEF CancelCurrent, Running, OneResponse, TasksStarted
<1>4. \A u \in Turn : ~Live(u)'
  BY <1>1, TurnFacts DEF CancelCurrent, Running, OneResponse, Live
<1> QED BY <1>2, <1>3, <1>4

\* speech_start: the turn it may reopen is uncommitted, and nobody stays at work.
LEMMA SpeechStartPreserves ==
  ASSUME IInv, SpeechStart
  PROVE  IInv'
<1>1. /\ TypeOK /\ OneResponse /\ ToBeAnswered /\ TasksStarted /\ NoTalkOver
      /\ IdsInOrder /\ OneUtterance /\ AnswerFitsTranscript /\ OneAnswerPerTurn
      /\ AnsweredIsCommitted
  BY DEF IInv
<1> DEFINE t == lastTurn + 1
<1>2. /\ t \in Turn /\ lastTurn' = t /\ utterance' = t /\ main' = "bargeIn"
      /\ utterance = NoTurn /\ main = "loop"
      /\ stt' = [stt EXCEPT ![t] = "streaming"]
      /\ UNCHANGED <<phase, current, activeTurn, userText, committed, response,
                     respTurn, respText, ui, shown, answers, answerText, terminals,
                     stopped>>
  BY <1>1, MaxTurnAssumption DEF SpeechStart, TypeOK, Turn, published
<1>3. \A s \in Turn : stt[s] \in {"none", "done"}
  BY <1>1, <1>2, TurnFacts DEF OneUtterance, Hearing
<1>4. /\ cancelling' \in SUBSET Turn
      /\ \A u \in cancelling' : response[u] \notin {"none", "done"}
      /\ \A u \in Turn : ~Live(u)'
  <2>1. CASE Interrupts
    BY <1>2, <2>1, CancelSilences DEF SpeechStart
  <2>2. CASE ~Interrupts
    <3>1. UNCHANGED cancelling
      BY <2>2 DEF SpeechStart
    <3>2. CancelCurrent
      BY <2>2, <3>1 DEF Interrupts, CancelCurrent
    <3> QED BY <1>2, <3>2, CancelSilences
  <2> QED BY <2>1, <2>2
<1>5. pending' \in 0..MaxTurn /\ (pending' # NoTurn => answers[pending'] = 0)
  BY <1>1, TurnFacts DEF SpeechStart, PendingAfterSpeech, Coalescible, TypeOK,
     ToBeAnswered, AnsweredIsCommitted
<1>6. speaking' \in BOOLEAN
  BY <1>1 DEF SpeechStart, TypeOK
<1>7. TypeOK'
  BY <1>1, <1>2, <1>4, <1>5, <1>6, TurnFacts DEF TypeOK, SttStage
<1>8. IdsInOrder'
  <2>1. \A s \in Turn : stt'[s] = "none" <=> s > lastTurn'
    BY <1>1, <1>2 DEF IdsInOrder, TypeOK, Turn
  <2>2. pending' <= lastTurn'
    BY <1>1, <1>2 DEF IdsInOrder, TypeOK, SpeechStart, PendingAfterSpeech, Coalescible
  <2>3. activeTurn' <= lastTurn' /\ utterance' <= lastTurn'
    BY <1>1, <1>2 DEF IdsInOrder, TypeOK
  <2>4. \A u \in Turn : respTurn'[u] <= lastTurn'
    BY <1>1, <1>2 DEF IdsInOrder, TypeOK
  <2> QED BY <2>1, <2>2, <2>3, <2>4 DEF IdsInOrder
<1>9. OneUtterance'
  BY <1>1, <1>2, <1>3, TurnFacts DEF OneUtterance, Hearing, TypeOK
<1>10. TasksStarted'
  <2>1. stt[t] = "none"
    BY <1>1, <1>2 DEF IdsInOrder, TypeOK, Turn
  <2> QED BY <1>1, <1>2, <2>1 DEF TasksStarted, TypeOK
<1>11. OneResponse'
  BY <1>2, <1>4 DEF OneResponse
<1>12. ToBeAnswered'
  <2>1. \A s \in Turn : stt'[s] # "done" => stt[s] # "done" \/ s = t
    BY <1>1, <1>2 DEF TypeOK
  <2>2. answers[t] = 0
    BY <1>1, <1>2 DEF ToBeAnswered, IdsInOrder, TypeOK, Turn
  <2>3. \A s \in Turn : stt'[s] # "accepted"
    BY <1>1, <1>2, <1>3 DEF TypeOK
  <2> QED BY <1>1, <1>2, <1>4, <1>5, <2>1, <2>2, <2>3 DEF ToBeAnswered
<1>13. AnsweredIsCommitted' /\ OneAnswerPerTurn' /\ AnswerFitsTranscript'
  BY <1>1, <1>2 DEF AnsweredIsCommitted, OneAnswerPerTurn, AnswerFitsTranscript
<1>14. NoTalkOver'
  BY <1>4 DEF NoTalkOver
<1> QED BY <1>7, <1>8, <1>9, <1>10, <1>11, <1>12, <1>13, <1>14 DEF IInv

\* The user_speaking state after the barge-in.
LEMMA SpeechStartedPreserves ==
  ASSUME IInv, SpeechStarted
  PROVE  IInv'
<1>1. /\ main' = "loop" /\ ui' = "user_speaking" /\ speaking' = FALSE
      /\ UNCHANGED <<phase, lastTurn, utterance, stt, shown, current, activeTurn,
                     pending, userText, respTurn, respText, committed, response,
                     cancelling, answers, answerText, terminals, stopped>>
  BY DEF SpeechStarted, EmitState, sttVars, schedVars, published
<1>2. main = "bargeIn"
  BY DEF SpeechStarted
<1>3. TypeOK'
  BY <1>1 DEF IInv, TypeOK, UiState
<1>4. OneUtterance' /\ NoTalkOver'
  BY <1>1, <1>2 DEF IInv, OneUtterance, Hearing, NoTalkOver, Live
<1>5. IdsInOrder' /\ TasksStarted' /\ OneResponse' /\ ToBeAnswered'
  BY <1>1 DEF IInv, IdsInOrder, TasksStarted, OneResponse, ToBeAnswered, Live
<1>6. AnsweredIsCommitted' /\ OneAnswerPerTurn' /\ AnswerFitsTranscript'
  BY <1>1 DEF IInv, AnsweredIsCommitted, OneAnswerPerTurn, AnswerFitsTranscript
<1> QED BY <1>3, <1>4, <1>5, <1>6 DEF IInv

\* The endpoint: from here on the transcript is awaited.
LEMMA EndpointCommitPreserves ==
  ASSUME IInv, EndpointCommit
  PROVE  IInv'
<1>1. /\ TypeOK /\ OneResponse /\ ToBeAnswered /\ TasksStarted /\ NoTalkOver
      /\ IdsInOrder /\ OneUtterance /\ AnswerFitsTranscript /\ OneAnswerPerTurn
      /\ AnsweredIsCommitted
  BY DEF IInv
<1>2. /\ utterance \in Turn /\ main = "loop"
      /\ utterance' = NoTurn /\ ui' = "listening" /\ speaking' = FALSE
      /\ main' = IF stt[utterance] = "done" THEN "loop" ELSE "awaitStt"
      /\ UNCHANGED <<phase, lastTurn, shown, current, activeTurn, pending, userText,
                     respTurn, respText, committed, response, cancelling, answers,
                     answerText, terminals, stopped>>
  BY <1>1, TurnFacts DEF EndpointCommit, EmitState, schedVars, published, TypeOK
<1>3. /\ stt' \in [Turn -> SttStage]
      /\ stt'[utterance] = IF stt[utterance] = "streaming" THEN "flushed"
                                                           ELSE stt[utterance]
      /\ \A t \in Turn : t # utterance => stt'[t] = stt[t]
  BY <1>1, <1>2 DEF EndpointCommit, TypeOK, SttStage
<1>4. \A t \in Turn : t # utterance => stt[t] \in {"none", "done"}
  BY <1>1, <1>2 DEF OneUtterance, Hearing
<1>5. \A t \in Turn : (stt'[t] = "none" <=> stt[t] = "none") /\
                      (stt'[t] = "done" <=> stt[t] = "done")
  BY <1>3
<1>6. \A t \in Turn : stt'[t] # "accepted"
  BY <1>1, <1>2, <1>3, <1>4 DEF OneUtterance, TypeOK
<1>7. TypeOK'
  BY <1>1, <1>2, <1>3, TurnFacts DEF TypeOK, UiState
<1>8. IdsInOrder'
  BY <1>1, <1>2, <1>5 DEF IdsInOrder, TypeOK, NoTurn
<1>9. OneUtterance'
  BY <1>1, <1>2, <1>3, <1>4 DEF OneUtterance, Hearing, IdsInOrder, TypeOK, Turn, NoTurn
<1>10. TasksStarted' /\ OneResponse'
  BY <1>1, <1>2, <1>5, <1>6 DEF TasksStarted, OneResponse, Live
<1>11. ToBeAnswered'
  BY <1>1, <1>2, <1>5, <1>6 DEF ToBeAnswered, Live
<1>12. AnsweredIsCommitted' /\ OneAnswerPerTurn' /\ AnswerFitsTranscript'
  BY <1>1, <1>2 DEF AnsweredIsCommitted, OneAnswerPerTurn, AnswerFitsTranscript
<1>13. NoTalkOver'
  BY <1>1, <1>2, TurnFacts DEF NoTalkOver, Live
<1> QED BY <1>7, <1>8, <1>9, <1>10, <1>11, <1>12, <1>13 DEF IInv

\* Nothing changes but who is told to stop.
LEMMA CancelPreserves ==
  ASSUME IInv, CancelCurrent,
         UNCHANGED <<phase, main, lastTurn, utterance, stt, shown, current,
                     activeTurn, pending, userText, respTurn, respText, committed,
                     response, answers, answerText>>,
         stopped' \in SUBSET Turn, terminals' \in [Turn -> Nat], ui' \in UiState,
         speaking' \in BOOLEAN
  PROVE  IInv'
<1>1. /\ cancelling' \in SUBSET Turn
      /\ \A u \in cancelling' : response[u] \notin {"none", "done"}
      /\ \A u \in Turn : ~Live(u)'
  BY CancelSilences
<1>2. TypeOK'
  BY <1>1 DEF IInv, TypeOK
<1>3. IdsInOrder' /\ OneUtterance' /\ TasksStarted'
  BY DEF IInv, IdsInOrder, OneUtterance, Hearing, TasksStarted
<1>4. OneResponse' /\ ToBeAnswered' /\ NoTalkOver'
  BY <1>1 DEF IInv, OneResponse, ToBeAnswered, NoTalkOver
<1>5. AnsweredIsCommitted' /\ OneAnswerPerTurn' /\ AnswerFitsTranscript'
  BY DEF IInv, AnsweredIsCommitted, OneAnswerPerTurn, AnswerFitsTranscript
<1> QED BY <1>2, <1>3, <1>4, <1>5 DEF IInv

\* client_cancel_turn only silences.
LEMMA ClientCancelPreserves ==
  ASSUME IInv, ClientCancel
  PROVE  IInv'
<1>1. stopped' \in SUBSET Turn
  BY TurnFacts DEF ClientCancel, IInv, TypeOK, Running
<1>2. terminals' \in [Turn -> Nat] /\ ui' \in UiState /\ speaking' \in BOOLEAN
  BY DEF ClientCancel, EmitState, UiState, IInv, TypeOK
<1> QED BY <1>1, <1>2, CancelPreserves DEF ClientCancel, sttVars, schedVars

------------------------------------------------------------------------------
(* The STT tasks *)

\* A step of the STT task of t that starts no response.
LEMMA SttEndPreserves ==
  ASSUME NEW t \in Turn, IInv,
         \/ /\ stt[t] \in {"streaming", "flushed"}
            /\ stt' = [stt EXCEPT ![t] = "errored"] /\ UNCHANGED main
         \/ /\ stt[t] \in {"flushed", "errored"}
            /\ stt' = [stt EXCEPT ![t] = "done"] /\ Resume,
         UNCHANGED <<phase, lastTurn, utterance, schedVars, committed, response,
                     cancelling, shown, answers, answerText, stopped>>,
         terminals' \in [Turn -> Nat], ui' \in UiState, speaking' \in BOOLEAN
  PROVE  IInv'
<1>1. /\ TypeOK /\ OneResponse /\ ToBeAnswered /\ TasksStarted /\ NoTalkOver
      /\ IdsInOrder /\ OneUtterance /\ AnswerFitsTranscript /\ OneAnswerPerTurn
      /\ AnsweredIsCommitted
  BY DEF IInv
<1>2. /\ stt' \in [Turn -> SttStage]
      /\ stt'[t] \in {"errored", "done"} /\ stt[t] \notin {"none", "done"}
      /\ \A s \in Turn : s # t => stt'[s] = stt[s]
      /\ main' = main \/ (main = "awaitStt" /\ main' = "loop" /\ stt'[t] = "done")
  BY <1>1 DEF TypeOK, SttStage, Resume
<1>3. \A s \in Turn : s # t => stt[s] \in {"none", "done"}
  BY <1>1, <1>2 DEF OneUtterance, Hearing
<1>4. UNCHANGED <<phase, lastTurn, utterance, current, activeTurn, pending, userText,
                  respTurn, respText, committed, response, cancelling, shown, answers,
                  answerText, stopped>>
  BY DEF schedVars
<1>5. TypeOK'
  BY <1>1, <1>2, <1>4 DEF TypeOK
<1>6. IdsInOrder'
  BY <1>1, <1>2, <1>4 DEF IdsInOrder
<1>7. OneUtterance'
  BY <1>1, <1>2, <1>3, <1>4 DEF OneUtterance, Hearing
<1>8. TasksStarted' /\ OneResponse'
  BY <1>1, <1>2, <1>3, <1>4 DEF TasksStarted, OneResponse, Live
<1>9. ToBeAnswered'
  BY <1>1, <1>2, <1>3, <1>4 DEF ToBeAnswered, Live
<1>10. AnsweredIsCommitted' /\ OneAnswerPerTurn' /\ AnswerFitsTranscript'
  BY <1>1, <1>4 DEF AnsweredIsCommitted, OneAnswerPerTurn, AnswerFitsTranscript
<1>11. NoTalkOver'
  BY <1>1, <1>2, <1>4 DEF NoTalkOver, Live
<1> QED BY <1>5, <1>6, <1>7, <1>8, <1>9, <1>10, <1>11 DEF IInv

\* While a transcript is handled nobody is at work and nobody else is heard.
LEMMA Handling ==
  ASSUME NEW t \in Turn, IInv, stt[t] \in {"flushed", "accepted"}
  PROVE  /\ main = "awaitStt" /\ utterance = NoTurn
         /\ \A u \in Turn : ~Live(u)
         /\ \A s \in Turn : s # t => stt[s] \in {"none", "done"}
         /\ response[t] = "none" /\ current # t /\ t <= lastTurn /\ t \notin cancelling
<1>1. main = "awaitStt" /\ utterance = NoTurn
  BY DEF IInv, OneUtterance
<1>2. \A u \in Turn : ~Live(u)
  BY <1>1 DEF IInv, NoTalkOver
<1>3. \A s \in Turn : s # t => stt[s] \in {"none", "done"}
  BY DEF IInv, OneUtterance, Hearing
<1>4. response[t] = "none" /\ current # t /\ t \notin cancelling
  BY TurnFacts DEF IInv, TasksStarted, OneResponse
<1>5. t <= lastTurn
  BY DEF IInv, IdsInOrder, TypeOK, Turn
<1> QED BY <1>1, <1>2, <1>3, <1>4, <1>5

\* A transcript, joined to the pending turn or not: nobody has answered that turn.
LEMMA SttFinalPreserves ==
  ASSUME NEW t \in Turn, IInv, SttFinal(t)
  PROVE  IInv'
<1> DEFINE turn == IF pending # NoTurn THEN pending ELSE t
           text == IF pending # NoTurn THEN userText[pending] \cup {t} ELSE {t}
<1>1. /\ TypeOK /\ OneResponse /\ ToBeAnswered /\ TasksStarted /\ NoTalkOver
      /\ IdsInOrder /\ OneUtterance /\ AnswerFitsTranscript /\ OneAnswerPerTurn
      /\ AnsweredIsCommitted
  BY DEF IInv
<1>2. /\ main = "awaitStt" /\ utterance = NoTurn
      /\ \A u \in Turn : ~Live(u)
      /\ \A s \in Turn : s # t => stt[s] \in {"none", "done"}
      /\ response[t] = "none" /\ current # t /\ t <= lastTurn /\ stt[t] = "flushed"
  BY Handling DEF SttFinal
<1>3. turn \in Turn /\ turn <= lastTurn /\ text \in SUBSET Turn /\ answers[turn] = 0
  BY <1>1, <1>2, TurnFacts DEF TypeOK, IdsInOrder, ToBeAnswered
<1>4. /\ respTurn' = [respTurn EXCEPT ![t] = turn]
      /\ respText' = [respText EXCEPT ![t] = text]
      /\ shown' = [shown EXCEPT ![turn] = text]
      /\ pending' = NoTurn
      /\ stt' = [stt EXCEPT ![t] = "accepted"]
      /\ UNCHANGED <<phase, main, lastTurn, utterance, current, activeTurn, userText,
                     committed, response, cancelling, speaking, ui, answers,
                     answerText, terminals, stopped>>
  BY DEF SttFinal, published
<1> HIDE DEF turn, text
<1>5. TypeOK'
  BY <1>1, <1>3, <1>4, TurnFacts DEF TypeOK, SttStage
<1>6. IdsInOrder'
  <2>1. \A u \in Turn : respTurn'[u] <= lastTurn'
    BY <1>1, <1>3, <1>4 DEF IdsInOrder, TypeOK
  <2>2. \A s \in Turn : stt'[s] = "none" <=> s > lastTurn'
    BY <1>1, <1>2, <1>4 DEF IdsInOrder, TypeOK
  <2>3. pending' <= lastTurn'
    BY <1>1, <1>4 DEF TypeOK, NoTurn
  <2> QED BY <1>1, <1>4, <2>1, <2>2, <2>3 DEF IdsInOrder
<1>7. OneUtterance'
  BY <1>1, <1>2, <1>4 DEF OneUtterance, Hearing, TypeOK
<1>8. TasksStarted'
  BY <1>1, <1>2, <1>3, <1>4, TurnFacts DEF TasksStarted, TypeOK
<1>9. OneResponse' /\ NoTalkOver'
  BY <1>1, <1>2, <1>4 DEF OneResponse, NoTalkOver, Live
<1>10. ToBeAnswered'
  <2>1. \A s \in Turn : stt'[s] = "accepted" =>
          /\ answers'[respTurn'[s]] = 0
          /\ shown'[respTurn'[s]] = respText'[s]
    BY <1>1, <1>2, <1>3, <1>4 DEF TypeOK
  <2>2. \A s \in Turn : stt'[s] # "done" => answers'[s] = 0
    BY <1>1, <1>2, <1>4 DEF ToBeAnswered, TypeOK
  <2>3. \A u \in Turn : ~Live(u)'
    BY <1>2, <1>4 DEF Live
  <2> QED BY <1>4, <2>1, <2>2, <2>3 DEF ToBeAnswered
<1>11. AnsweredIsCommitted' /\ OneAnswerPerTurn'
  BY <1>1, <1>4 DEF AnsweredIsCommitted, OneAnswerPerTurn
<1>12. AnswerFitsTranscript'
  BY <1>1, <1>3, <1>4 DEF AnswerFitsTranscript, TypeOK
<1> QED BY <1>5, <1>6, <1>7, <1>8, <1>9, <1>10, <1>11, <1>12 DEF IInv

\* The response task created for the transcript: the only one at work.
LEMMA StartResponsePreserves ==
  ASSUME NEW t \in Turn, IInv, StartResponse(t)
  PROVE  IInv'
<1>1. /\ TypeOK /\ OneResponse /\ ToBeAnswered /\ TasksStarted /\ NoTalkOver
      /\ IdsInOrder /\ OneUtterance /\ AnswerFitsTranscript /\ OneAnswerPerTurn
      /\ AnsweredIsCommitted
  BY DEF IInv
<1>2. /\ main = "awaitStt" /\ utterance = NoTurn
      /\ \A u \in Turn : ~Live(u)
      /\ \A s \in Turn : s # t => stt[s] \in {"none", "done"}
      /\ response[t] = "none" /\ current # t /\ t \notin cancelling
      /\ stt[t] = "accepted"
  BY Handling DEF StartResponse
<1>3. /\ respTurn[t] \in Turn /\ pending = NoTurn /\ answers[respTurn[t]] = 0
      /\ shown[respTurn[t]] = respText[t]
  BY <1>1, <1>2, TurnFacts DEF TypeOK, TasksStarted, ToBeAnswered
<1>4. /\ activeTurn' = respTurn[t] /\ current' = t
      /\ userText' = [userText EXCEPT ![respTurn[t]] = respText[t]]
      /\ committed' = committed \ {respTurn[t]}
      /\ response' = [response EXCEPT ![t] = "created"]
      /\ stt' = [stt EXCEPT ![t] = "done"]
      /\ main' = "loop"
      /\ speaking' = (speaking /\ ~Running)
      /\ UNCHANGED <<phase, lastTurn, utterance, pending, respTurn, respText, ui,
                     shown, answers, answerText, terminals, stopped>>
  BY <1>2 DEF StartResponse, Resume, published
<1>5. /\ cancelling' \in SUBSET Turn /\ cancelling \subseteq cancelling'
      /\ t \notin cancelling'
      /\ \A u \in cancelling' : response[u] \notin {"none", "done"}
  <2>1. cancelling' = IF Running THEN cancelling \cup {current} ELSE cancelling
    BY DEF StartResponse, CancelCurrent
  <2>2. Running => current \in Turn /\ response[current] \notin {"none", "done"}
    BY <1>1, TurnFacts DEF Running, TypeOK, TasksStarted
  <2> QED BY <1>1, <1>2, <2>1, <2>2 DEF OneResponse, TypeOK
<1>6. /\ response' \in [Turn -> ResponseStage] /\ response'[t] = "created"
      /\ \A u \in Turn : u # t => response'[u] = response[u]
  BY <1>1, <1>4 DEF TypeOK, ResponseStage
<1>7. \A u \in Turn : Live(u)' => u = t
  BY <1>2, <1>5, <1>6 DEF Live
<1>8. TypeOK'
  BY <1>1, <1>3, <1>4, <1>5, <1>6, TurnFacts DEF TypeOK, SttStage
<1>9. IdsInOrder'
  <2>1. \A s \in Turn : stt'[s] = "none" <=> stt[s] = "none"
    BY <1>1, <1>2, <1>4 DEF TypeOK
  <2> QED BY <1>1, <1>4, <2>1 DEF IdsInOrder
<1>10. OneUtterance'
  BY <1>1, <1>2, <1>4 DEF OneUtterance, Hearing, TypeOK
<1>11. TasksStarted'
  BY <1>1, <1>2, <1>3, <1>4, <1>6, TurnFacts DEF TasksStarted, TypeOK
<1>12. OneResponse'
  BY <1>4, <1>5, <1>6, <1>7 DEF OneResponse
<1>13. ToBeAnswered'
  <2>1. \A s \in Turn : stt'[s] # "done" => stt[s] = "none"
    BY <1>1, <1>2, <1>4 DEF TypeOK
  <2> QED BY <1>1, <1>3, <1>4, <1>7, <2>1 DEF ToBeAnswered
<1>14. AnsweredIsCommitted'
  BY <1>1, <1>3, <1>4, TurnFacts DEF AnsweredIsCommitted, TypeOK
<1>15. OneAnswerPerTurn' /\ AnswerFitsTranscript'
  BY <1>1, <1>4 DEF OneAnswerPerTurn, AnswerFitsTranscript
<1>16. NoTalkOver'
  BY <1>2, <1>4 DEF NoTalkOver
<1> QED
  BY <1>8, <1>9, <1>10, <1>11, <1>12, <1>13, <1>14, <1>15, <1>16 DEF IInv

\* Each step of an STT task is one of those above.
LEMMA SttTaskPreserves ==
  ASSUME NEW t \in Turn, IInv, SttTask(t)
  PROVE  IInv'
<1>1. /\ terminals \in [Turn -> Nat] /\ ui \in UiState /\ speaking \in BOOLEAN
      /\ "listening" \in UiState
  BY DEF IInv, TypeOK, UiState
<1>2. CASE SttFinal(t) BY <1>2, SttFinalPreserves
<1>3. CASE StartResponse(t) BY <1>3, StartResponsePreserves
<1>4. CASE SttRepeat(t)
  BY <1>1, <1>4, TerminalTyped, SttEndPreserves DEF SttRepeat, EmitState
<1>5. CASE SttError(t)
  BY <1>1, <1>5, TerminalTyped, SttEndPreserves DEF SttError
<1>6. CASE SttErrorListening(t)
  BY <1>1, <1>6, SttEndPreserves DEF SttErrorListening, EmitState, published
<1> QED BY <1>2, <1>3, <1>4, <1>5, <1>6 DEF SttTask

------------------------------------------------------------------------------
(* Shutdown *)

\* The finally of run() ends every STT task and silences the response.
LEMMA ShutdownPreserves ==
  ASSUME IInv, Shutdown
  PROVE  IInv'
<1>1. /\ phase' = "closing" /\ main' = "loop" /\ utterance' = NoTurn
      /\ stt' = [t \in Turn |-> IF stt[t] = "none" THEN "none" ELSE "done"]
      /\ speaking' = (speaking /\ ~Running)
      /\ UNCHANGED <<lastTurn, current, activeTurn, pending, userText, respTurn,
                     respText, committed, response, ui, shown, answers, answerText,
                     terminals, stopped>>
  BY DEF Shutdown, schedVars, published
<1>2. /\ cancelling' \in SUBSET Turn
      /\ \A u \in cancelling' : response[u] \notin {"none", "done"}
      /\ \A u \in Turn : ~Live(u)'
  BY CancelSilences DEF Shutdown
<1>3. /\ stt' \in [Turn -> SttStage]
      /\ \A t \in Turn : stt'[t] \in {"none", "done"}
      /\ \A t \in Turn : stt'[t] = "none" <=> stt[t] = "none"
      /\ \A t \in Turn : stt[t] = "done" => stt'[t] = "done"
  BY <1>1 DEF SttStage
<1>4. TypeOK'
  BY <1>1, <1>2, <1>3, TurnFacts DEF IInv, TypeOK
<1>5. IdsInOrder'
  BY <1>1, <1>3 DEF IInv, IdsInOrder, TypeOK, NoTurn
<1>6. OneUtterance'
  BY <1>1, <1>3 DEF OneUtterance, Hearing, NoTurn
<1>7. TasksStarted'
  BY <1>1, <1>3 DEF IInv, TasksStarted
<1>8. OneResponse' /\ ToBeAnswered' /\ NoTalkOver'
  BY <1>1, <1>2, <1>3 DEF IInv, OneResponse, ToBeAnswered, NoTalkOver
<1>9. AnsweredIsCommitted' /\ OneAnswerPerTurn' /\ AnswerFitsTranscript'
  BY <1>1 DEF IInv, AnsweredIsCommitted, OneAnswerPerTurn, AnswerFitsTranscript
<1> QED BY <1>4, <1>5, <1>6, <1>7, <1>8, <1>9 DEF IInv

\* The end of the session, or a step that changes nothing.
LEMMA OnlyPhasePreserves ==
  ASSUME IInv, phase' \in {phase, "closed"},
         UNCHANGED <<main, lastTurn, utterance, stt, current, activeTurn, pending,
                     userText, committed, response, respTurn, respText, cancelling,
                     speaking, ui, shown, answers, answerText, terminals, stopped>>
  PROVE  IInv'
<1>1. TypeOK' /\ IdsInOrder' /\ OneUtterance' /\ TasksStarted'
  BY DEF IInv, TypeOK, IdsInOrder, OneUtterance, Hearing, TasksStarted
<1>2. OneResponse' /\ ToBeAnswered' /\ NoTalkOver'
  BY DEF IInv, OneResponse, ToBeAnswered, NoTalkOver, Live
<1>3. AnsweredIsCommitted' /\ OneAnswerPerTurn' /\ AnswerFitsTranscript'
  BY DEF IInv, AnsweredIsCommitted, OneAnswerPerTurn, AnswerFitsTranscript
<1> QED BY <1>1, <1>2, <1>3 DEF IInv

------------------------------------------------------------------------------
(* The theorems *)

\* A session that has just begun.
LEMMA InitEstablishes == Init => IInv
<1> SUFFICES ASSUME Init PROVE IInv
  OBVIOUS
<1>1. TypeOK
  <2>1. 0 \in 0..MaxTurn /\ {} \in SUBSET Turn /\ 0 \in Nat
    BY MaxTurnAssumption
  <2> QED BY <2>1 DEF Init, TypeOK, SttStage, ResponseStage, UiState, NoTurn
<1>2. IdsInOrder
  <2>1. \A t \in Turn : stt[t] = "none" /\ t > lastTurn
    BY TurnFacts DEF Init, Turn
  <2>2. pending = 0 /\ activeTurn = 0 /\ utterance = 0 /\ lastTurn = 0
    BY DEF Init, NoTurn
  <2>3. \A u \in Turn : respTurn[u] = 0
    BY DEF Init, NoTurn
  <2> QED BY <2>1, <2>2, <2>3 DEF IdsInOrder
<1>3. OneUtterance /\ TasksStarted
  BY DEF Init, OneUtterance, Hearing, TasksStarted
<1>4. OneResponse /\ ToBeAnswered /\ NoTalkOver
  BY DEF Init, OneResponse, ToBeAnswered, NoTalkOver, Live
<1>5. AnsweredIsCommitted /\ OneAnswerPerTurn /\ AnswerFitsTranscript
  BY DEF Init, AnsweredIsCommitted, OneAnswerPerTurn, AnswerFitsTranscript
<1> QED BY <1>1, <1>2, <1>3, <1>4, <1>5 DEF IInv

\* Every step of every task preserves the invariant.
LEMMA NextPreserves == IInv /\ [Next]_vars => IInv'
<1> SUFFICES ASSUME IInv, [Next]_vars PROVE IInv'
  OBVIOUS
<1>1. CASE MainLoop
  BY <1>1, SpeechStartPreserves, SpeechStartedPreserves, EndpointCommitPreserves,
     ClientCancelPreserves DEF MainLoop
<1>2. CASE \E t \in Turn : SttTask(t)
  BY <1>2, SttTaskPreserves
<1>3. CASE \E u \in Turn : ResponseTask(u)
  BY <1>3, ResponseSteps, WorksPreserves, AnswersPreserves
<1>4. CASE Shutdown
  BY <1>4, ShutdownPreserves
<1>5. CASE Disconnect
  BY <1>5, OnlyPhasePreserves DEF Disconnect, sttVars, schedVars, published
<1>6. CASE Stopped \/ UNCHANGED vars
  BY <1>6, OnlyPhasePreserves DEF Stopped, vars
<1> QED BY <1>1, <1>2, <1>3, <1>4, <1>5, <1>6 DEF Next

\* The inductive invariant holds in every reachable state.
THEOREM Invariance == Spec => []IInv
<1>1. Init => IInv
  BY InitEstablishes
<1>2. IInv /\ [Next]_vars => IInv'
  BY NextPreserves
<1> QED BY <1>1, <1>2, PTL DEF Spec

\* Every variable keeps its type.
THEOREM TypeCorrect == Spec => []TypeOK
<1>1. IInv => TypeOK
  BY DEF IInv
<1> QED BY <1>1, Invariance, PTL

\* While the user speaks or is waiting to be understood, no response is at work
\* (the barge-in of _handle_endpoint_event).
THEOREM NeverTalksOver == Spec => []NoTalkOver
<1>1. IInv => NoTalkOver
  BY DEF IInv
<1> QED BY <1>1, Invariance, PTL

\* No turn is answered twice, however often it is extended (coalescing).
THEOREM AnswersOnce == Spec => []OneAnswerPerTurn
<1>1. IInv => OneAnswerPerTurn
  BY DEF IInv
<1> QED BY <1>1, Invariance, PTL

\* No answer to a text that a continuation has replaced is published
\* (_handle_final_transcript against _respond_to_final_transcript).
THEOREM AnswersWhatIsShown == Spec => []AnswerFitsTranscript
<1>1. IInv => AnswerFitsTranscript
  BY DEF IInv
<1> QED BY <1>1, Invariance, PTL

------------------------------------------------------------------------------
(* What the user said, and what the client is shown *)

\* The words of an accepted transcript stay with its turn: in the text shown, in
\* the text of the response, and in the text a continuation is joined to.
WordsStay ==
  /\ \A t \in Turn : respTurn[t] # NoTurn =>
       /\ stt[t] \in {"accepted", "done"}
       /\ respTurn[respTurn[t]] = respTurn[t]
       /\ t \in shown[respTurn[t]]
  /\ \A t \in Turn : phase = "open" /\ respTurn[t] # NoTurn /\ stt[t] = "done" =>
       t \in userText[respTurn[t]]
  /\ \A s, t \in Turn : stt[s] = "accepted" /\ respTurn[t] = respTurn[s] => t \in respText[s]
  /\ \A a, t \in Turn : t \in userText[a] => respTurn[t] = a
  /\ \A u, t \in Turn : t \in respText[u] => respTurn[t] = respTurn[u] /\ respTurn[u] # NoTurn
  /\ pending # NoTurn => pending = activeTurn /\ respTurn[pending] = pending

\* Stages of a response task after its answer.
Answered == {"safety", "safetyListening", "final", "ttsError", "ttsDone", "reported"} \cup Speaking

\* A committed turn is answered; a task past its answer or its error has told.
AnswersTold ==
  /\ \A t \in committed : answers[t] > 0
  /\ \A u \in Turn : Live(u) =>
       /\ response[u] \in Answered => answers[respTurn[u]] > 0
       /\ response[u] = "llmError" => terminals[respTurn[u]] > 0

\* The words of t have not been dropped (the cases of NoLostWords).
Accounted(t) ==
  \/ answers[respTurn[t]] > 0
  \/ \E u \in Turn : t \in respText[u] /\ (Live(u) \/ stt[u] = "accepted")
  \/ pending = respTurn[t]
  \/ terminals[respTurn[t]] > 0
  \/ t \in stopped

WordsKept == \A t \in Turn : phase = "open" /\ respTurn[t] # NoTurn => Accounted(t)

\* Unless somebody is at work the client shows the listening state.
Resting ==
  phase = "open" /\ main = "loop" /\ utterance = NoTurn
    /\ (\A t \in Turn : ~Hearing(t)) /\ (\A u \in Turn : ~Live(u)) => ui = "listening"

\* A barge-in belongs to an open utterance; after a crisis answer the client
\* was told "listening" before the task ended.
StateShown ==
  /\ main = "bargeIn" => utterance # NoTurn
  /\ \A u \in Turn : Live(u) /\ response[u] = "safetyListening" => ui = "listening"
  /\ Resting

WInv == IInv /\ WordsStay /\ AnswersTold /\ WordsKept /\ StateShown

\* What a step of the response task of u means to the others.
Progress(u) ==
  /\ UNCHANGED <<phase, main, utterance, stt, shown, current, activeTurn, pending, userText,
                 respTurn, respText, stopped>>
  /\ \A v \in Turn \ {u} : Live(v)' = Live(v) /\ response'[v] = response[v]
  /\ \A t \in Turn : answers'[t] >= answers[t] /\ terminals'[t] >= terminals[t]
  /\ \A t \in committed' : t \in committed \/ answers'[t] > 0
  /\ Live(u)' => /\ response'[u] \in Answered => answers'[respTurn[u]] > 0
                 /\ response'[u] = "llmError" => terminals'[respTurn[u]] > 0
                 /\ response'[u] = "safetyListening" => ui' = "listening"
  /\ Live(u) /\ ~Live(u)' =>
       /\ answers'[respTurn[u]] > 0 \/ terminals'[respTurn[u]] > 0
       /\ ui' = "listening"
  /\ ~Live(u) => ~Live(u)' /\ ui' = ui

LEMMA RecordsGrow ==
  ASSUME NEW t \in Turn, TypeOK
  PROVE  /\ Terminal(t) => /\ \A s \in Turn : terminals'[s] >= terminals[s]
                           /\ terminals'[t] > 0
         /\ \A text : AssistantFinal(t, text) => /\ \A s \in Turn : answers'[s] >= answers[s]
                                                 /\ answers'[t] > 0
         /\ \A s \in Turn : answers[s] >= answers[s] /\ terminals[s] >= terminals[s]
BY DEF TypeOK, Terminal, AssistantFinal

LEMMA ResponseProgress ==
  ASSUME NEW u \in Turn, WInv, ResponseTask(u)
  PROVE  Progress(u)
<1>1. IInv /\ TypeOK /\ AnswersTold /\ StateShown
  BY DEF WInv, IInv
<1>2. respTurn[u] \in Turn
  <2>1. response[u] # "none"
    BY <1>1 DEF ResponseTask, Think, SafetyOverride, SafetyListening, SafetyReport, MemoryLookup,
       StreamLLM, LLMError, LLMErrorListening, Commit, StartSpeaking, Synthesize, TtsComplete,
       TtsError, ReportSpoken, FinishResponse, Cancelled, ReportCancelled, At, Composing, IInv,
       OneResponse
  <2>2. QED
    BY <1>1, <2>1, TurnFacts DEF IInv, TypeOK, TasksStarted
<1>3. /\ Terminal(respTurn[u]) => /\ \A s \in Turn : terminals'[s] >= terminals[s]
                                  /\ terminals'[respTurn[u]] > 0
      /\ AssistantFinal(respTurn[u], respText[u]) =>
           /\ \A s \in Turn : answers'[s] >= answers[s]
           /\ answers'[respTurn[u]] > 0
      /\ \A s \in Turn : answers[s] >= answers[s] /\ terminals[s] >= terminals[s]
  BY <1>1, <1>2, RecordsGrow
<1>4. response \in [Turn -> ResponseStage]
  BY <1>1 DEF TypeOK
<1>5. /\ Live(u) /\ response[u] \in Answered => answers[respTurn[u]] > 0
      /\ Live(u) /\ response[u] = "llmError" => terminals[respTurn[u]] > 0
      /\ Live(u) /\ response[u] = "safetyListening" => ui = "listening"
  BY <1>1 DEF AnswersTold, StateShown
<1>6. Live(u) => activeTurn = respTurn[u]
  BY <1>1, TurnFacts DEF IInv, OneResponse, TasksStarted
<1> USE <1>3, <1>4, <1>5 DEF At, Goto, ResponseFrame, Live, Answered, Speaking, EmitState,
                             published, sttVars, schedVars, Progress
<1>a. CASE Think(u) BY <1>a DEF Think
<1>b. CASE SafetyOverride(u) BY <1>b DEF SafetyOverride
<1>c. CASE SafetyListening(u) BY <1>c DEF SafetyListening
<1>d. CASE SafetyReport(u) BY <1>d DEF SafetyReport
<1>e. CASE MemoryLookup(u) BY <1>e DEF MemoryLookup
<1>f. CASE StreamLLM(u) BY <1>f DEF StreamLLM
<1>g. CASE LLMError(u) BY <1>g DEF LLMError
<1>h. CASE LLMErrorListening(u) BY <1>h DEF LLMErrorListening
<1>i. CASE Commit(u) BY <1>i, <1>6 DEF Commit, Composing
<1>j. CASE StartSpeaking(u) BY <1>j DEF StartSpeaking
<1>k. CASE Synthesize(u) BY <1>k DEF Synthesize
<1>l. CASE TtsComplete(u) BY <1>l DEF TtsComplete
<1>m. CASE TtsError(u) BY <1>m DEF TtsError
<1>n. CASE ReportSpoken(u) BY <1>n DEF ReportSpoken
<1>o. CASE FinishResponse(u) BY <1>o DEF FinishResponse
<1>p. CASE Cancelled(u) BY <1>p DEF Cancelled
<1>q. CASE ReportCancelled(u) BY <1>q DEF ReportCancelled
<1> QED
  BY <1>a, <1>b, <1>c, <1>d, <1>e, <1>f, <1>g, <1>h, <1>i, <1>j, <1>k, <1>l,
     <1>m, <1>n, <1>o, <1>p, <1>q DEF ResponseTask

\* A response that ends without having been told to has answered or failed
\* aloud, so what its task was for is accounted for.
LEMMA ProgressKeepsWords ==
  ASSUME NEW u \in Turn, WInv, IInv', Progress(u)
  PROVE  WordsStay' /\ AnswersTold' /\ WordsKept' /\ StateShown'
<1>1. IInv /\ TypeOK /\ TypeOK' /\ WordsStay /\ AnswersTold /\ WordsKept /\ StateShown
  BY DEF WInv, IInv
<1>2. /\ UNCHANGED <<phase, main, utterance, stt, shown, current, activeTurn, pending, userText,
                     respTurn, respText, stopped>>
      /\ \A v \in Turn \ {u} : Live(v)' = Live(v) /\ response'[v] = response[v]
      /\ Live(u)' => /\ response'[u] \in Answered => answers'[respTurn[u]] > 0
                     /\ response'[u] = "llmError" => terminals'[respTurn[u]] > 0
                     /\ response'[u] = "safetyListening" => ui' = "listening"
      /\ Live(u) /\ ~Live(u)' =>
           /\ answers'[respTurn[u]] > 0 \/ terminals'[respTurn[u]] > 0
           /\ ui' = "listening"
      /\ ~Live(u) => ~Live(u)' /\ ui' = ui
  BY DEF Progress
<1>3. ASSUME NEW t \in Turn
      PROVE  /\ answers[t] > 0 => answers'[t] > 0
             /\ terminals[t] > 0 => terminals'[t] > 0
  <2>1. /\ answers[t] \in Nat /\ terminals[t] \in Nat
        /\ answers'[t] \in Nat /\ terminals'[t] \in Nat
    BY <1>1 DEF TypeOK
  <2>2. answers'[t] >= answers[t] /\ terminals'[t] >= terminals[t]
    BY DEF Progress
  <2>3. QED
    BY <2>1, <2>2
<1>4. \A t \in Turn : respTurn[t] # NoTurn => respTurn[t] \in Turn
  BY <1>1, TurnFacts DEF TypeOK
<1>5. \A v \in Turn : Live(v) => respTurn[v] \in Turn
  BY <1>1, <1>4 DEF Live, IInv, TasksStarted
<1>6. WordsStay'
  BY <1>1, <1>2 DEF WordsStay
<1>7. AnswersTold'
  <2>1. \A t \in committed' : answers'[t] > 0
    BY <1>1, <1>3 DEF AnswersTold, Progress, TypeOK
  <2>2. ASSUME NEW v \in Turn, Live(v)'
        PROVE  /\ response'[v] \in Answered => answers'[respTurn'[v]] > 0
               /\ response'[v] = "llmError" => terminals'[respTurn'[v]] > 0
    <3>1. CASE v = u
      BY <1>2, <2>2, <3>1
    <3>2. CASE v # u
      <4>1. Live(v) /\ response'[v] = response[v] /\ respTurn'[v] = respTurn[v]
        BY <1>2, <2>2, <3>2
      <4>2. QED
        BY <1>1, <1>3, <1>5, <4>1 DEF AnswersTold
    <3>3. QED
      BY <3>1, <3>2
  <2>3. QED
    BY <2>1, <2>2 DEF AnswersTold
<1>8. WordsKept'
  <2> SUFFICES ASSUME NEW t \in Turn, phase = "open", respTurn[t] # NoTurn
               PROVE  Accounted(t)'
    BY <1>2 DEF WordsKept
  <2>1. Accounted(t) /\ respTurn[t] \in Turn
    BY <1>1, <1>4 DEF WordsKept
  <2>2. ASSUME NEW w \in Turn, t \in respText[w], Live(w)
        PROVE  Accounted(t)'
    <3>1. respTurn[t] = respTurn[w]
      BY <1>1, <2>2 DEF WordsStay
    <3>2. QED
      BY <1>2, <2>2, <3>1 DEF Accounted
  <2>3. QED
    BY <1>2, <1>3, <2>1, <2>2 DEF Accounted
<1>9. StateShown'
  <2>1. \A v \in Turn \ {u} : Live(v) => ~Live(u)
    BY <1>1 DEF IInv, OneResponse
  <2>2. \A v \in Turn : Live(v)' /\ response'[v] = "safetyListening" => ui' = "listening"
    BY <1>1, <1>2, <2>1 DEF StateShown
  <2>3. Resting'
    BY <1>1, <1>2 DEF StateShown, Resting, Hearing
  <2>4. QED
    BY <1>1, <1>2, <2>2, <2>3 DEF StateShown
<1>10. QED
  BY <1>6, <1>7, <1>8, <1>9

\* A barge-in either leaves the words of the response it cancels to the next
\* transcript, or finds their turn answered.
LEMMA SpeechStartKeepsWords ==
  ASSUME WInv, IInv', SpeechStart
  PROVE  WordsStay' /\ AnswersTold' /\ WordsKept' /\ StateShown'
<1> DEFINE new == lastTurn + 1
<1>1. IInv /\ TypeOK /\ WordsStay /\ AnswersTold /\ WordsKept /\ StateShown
  BY DEF WInv, IInv
<1>2. /\ new \in Turn /\ utterance' = new /\ main' = "bargeIn" /\ main = "loop"
      /\ phase = "open" /\ stt' = [stt EXCEPT ![new] = "streaming"]
      /\ pending' = IF Coalescible THEN activeTurn ELSE pending
      /\ UNCHANGED <<phase, current, activeTurn, userText, committed, response, respTurn,
                     respText, ui, shown, answers, answerText, terminals, stopped>>
  BY <1>1, MaxTurnAssumption DEF SpeechStart, PendingAfterSpeech, TypeOK, Turn, published
<1>3. stt[new] = "none" /\ \A s \in Turn : s # new => stt'[s] = stt[s]
  BY <1>1, <1>2 DEF IInv, IdsInOrder, TypeOK, Turn
<1>4. new # NoTurn /\ \A v \in Turn : ~Live(v)'
  BY <1>2, TurnFacts DEF IInv, NoTalkOver
<1>5. \A s \in Turn : respTurn[s] # NoTurn => stt[s] = "done" /\ s # new
  BY <1>1, <1>2, <1>3 DEF WordsStay, IInv, OneUtterance
<1>6. Coalescible => /\ activeTurn # NoTurn /\ activeTurn \notin committed
                     /\ respTurn[activeTurn] = activeTurn
  <2>1. activeTurn # NoTurn => activeTurn \in Turn
    BY <1>1, TurnFacts DEF TypeOK
  <2>2. \A t \in Turn : t \in userText[activeTurn] /\ activeTurn # NoTurn =>
          respTurn[t] = activeTurn /\ respTurn[respTurn[t]] = respTurn[t]
    BY <1>1, <2>1 DEF WordsStay
  <2>3. activeTurn # NoTurn => userText[activeTurn] \subseteq Turn
    BY <1>1, <2>1 DEF TypeOK
  <2>4. QED
    BY <2>2, <2>3 DEF Coalescible
<1>7. WordsStay'
  <2>1. stt'[new] = "streaming"
    BY <1>1, <1>2 DEF TypeOK
  <2>2. \A s \in Turn : stt'[s] \in {"accepted", "done"} => stt'[s] = stt[s]
    BY <1>3, <2>1
  <2>3. \A s \in Turn : respTurn[s] # NoTurn => stt'[s] = stt[s]
    BY <1>3, <1>5
  <2>4. pending' # NoTurn => pending' = activeTurn' /\ respTurn'[pending'] = pending'
    BY <1>1, <1>2, <1>6 DEF WordsStay
  <2>5. QED
    BY <1>1, <1>2, <2>2, <2>3, <2>4 DEF WordsStay
<1>8. AnswersTold'
  BY <1>1, <1>2, <1>4 DEF AnswersTold
<1>9. WordsKept'
  <2> SUFFICES ASSUME NEW t \in Turn, respTurn[t] # NoTurn
               PROVE  Accounted(t)'
    BY <1>2 DEF WordsKept
  <2>1. Accounted(t) /\ stt[t] = "done"
    BY <1>1, <1>2, <1>5 DEF WordsKept
  <2>2. ASSUME NEW w \in Turn, t \in respText[w], Live(w)
        PROVE  pending' = respTurn[t] \/ answers[respTurn[t]] > 0
    <3>1. w = current /\ Running
      BY <1>1, <2>2, TurnFacts DEF IInv, OneResponse, Live, Running
    <3>2. respTurn[t] = activeTurn /\ activeTurn # NoTurn
      BY <1>1, <2>2, <3>1, TurnFacts DEF WordsStay, IInv, TasksStarted
    <3>3. t \in userText[activeTurn]
      BY <1>1, <1>2, <2>1, <3>2 DEF WordsStay
    <3>4. CASE activeTurn \in committed
      BY <1>1, <3>2, <3>4 DEF AnswersTold
    <3>5. CASE activeTurn \notin committed
      BY <1>2, <3>1, <3>2, <3>3, <3>5 DEF Coalescible
    <3>6. QED
      BY <3>4, <3>5
  <2>3. \A w \in Turn : t \in respText[w] => stt[w] # "accepted"
    BY <1>1, <1>2 DEF IInv, OneUtterance
  <2>4. pending = respTurn[t] => pending' = pending
    BY <1>1, <1>2, <1>6 DEF WordsStay
  <2>5. QED
    BY <1>2, <2>1, <2>2, <2>3, <2>4 DEF Accounted
<1>10. StateShown'
  BY <1>2, <1>4 DEF StateShown, Resting
<1>11. QED
  BY <1>7, <1>8, <1>9, <1>10

\* The rest of speech_start: the utterance is open and nobody is at work.
LEMMA SpeechStartedKeepsWords ==
  ASSUME WInv, SpeechStarted
  PROVE  WordsStay' /\ AnswersTold' /\ WordsKept' /\ StateShown'
<1>1. IInv /\ WordsStay /\ AnswersTold /\ WordsKept /\ StateShown
  BY DEF WInv
<1>2. /\ main' = "loop" /\ main = "bargeIn"
      /\ UNCHANGED <<phase, utterance, stt, shown, current, activeTurn, pending, userText,
                     respTurn, respText, committed, response, cancelling, answers,
                     answerText, terminals, stopped>>
  BY DEF SpeechStarted, sttVars, schedVars, published
<1>3. utterance # NoTurn /\ \A v \in Turn : ~Live(v)
  BY <1>1, <1>2 DEF StateShown, IInv, NoTalkOver
<1>4. \A v \in Turn : ~Live(v)'
  BY <1>2, <1>3 DEF Live
<1>5. WordsStay'
  BY <1>1, <1>2 DEF WordsStay
<1>6. AnswersTold'
  BY <1>1, <1>2, <1>4 DEF AnswersTold
<1>7. WordsKept'
  BY <1>1, <1>2, <1>3 DEF WordsKept, Accounted
<1>8. StateShown'
  BY <1>2, <1>3, <1>4 DEF StateShown, Resting
<1>9. QED
  BY <1>5, <1>6, <1>7, <1>8

\* The endpoint: nobody's stage changes, and the client is told "listening".
LEMMA EndpointCommitKeepsWords ==
  ASSUME WInv, EndpointCommit
  PROVE  WordsStay' /\ AnswersTold' /\ WordsKept' /\ StateShown'
<1>1. IInv /\ TypeOK /\ WordsStay /\ AnswersTold /\ WordsKept /\ StateShown
  BY DEF WInv, IInv
<1>2. /\ utterance \in Turn /\ ui' = "listening" /\ main' \in {"loop", "awaitStt"}
      /\ UNCHANGED <<phase, shown, current, activeTurn, pending, userText, respTurn, respText,
                     committed, response, cancelling, answers, answerText, terminals, stopped>>
  BY <1>1, TurnFacts DEF EndpointCommit, EmitState, schedVars, published, TypeOK
<1>3. \A t \in Turn : \/ stt'[t] = stt[t]
                      \/ stt[t] = "streaming" /\ stt'[t] = "flushed"
  BY <1>1, <1>2 DEF EndpointCommit, TypeOK
<1>4. \A v \in Turn : Live(v)' = Live(v)
  BY <1>2 DEF Live
<1>5. WordsStay'
  <2>1. \A t \in Turn : stt[t] \in {"accepted", "done"} \/ stt'[t] \in {"accepted", "done"} =>
                          stt'[t] = stt[t]
    BY <1>3
  <2>2. QED
    BY <1>1, <1>2, <2>1 DEF WordsStay
<1>6. AnswersTold'
  BY <1>1, <1>2, <1>4 DEF AnswersTold
<1>7. WordsKept'
  BY <1>1, <1>2, <1>3, <1>4 DEF WordsKept, Accounted
<1>8. StateShown'
  BY <1>2 DEF StateShown, Resting
<1>9. QED
  BY <1>5, <1>6, <1>7, <1>8

\* client_cancel_turn takes the words of the response it ends off the list.
LEMMA ClientCancelKeepsWords ==
  ASSUME WInv, ClientCancel
  PROVE  WordsStay' /\ AnswersTold' /\ WordsKept' /\ StateShown'
<1>1. IInv /\ WordsStay /\ AnswersTold /\ WordsKept /\ StateShown
  BY DEF WInv
<1>2. /\ main' = "loop" /\ ui' = "listening"
      /\ stopped' = IF Running THEN stopped \cup respText[current] ELSE stopped
      /\ UNCHANGED <<phase, utterance, stt, shown, current, activeTurn, pending, userText,
                     respTurn, respText, committed, response, answers, answerText, terminals>>
  BY DEF ClientCancel, EmitState, sttVars, schedVars
<1>3. \A v \in Turn : ~Live(v)'
  BY <1>1, <1>2, CancelSilences DEF ClientCancel
<1>4. \A v \in Turn : Live(v) => v = current /\ Running
  BY <1>1, TurnFacts DEF IInv, OneResponse, Live, Running
<1>5. WordsStay'
  BY <1>1, <1>2 DEF WordsStay
<1>6. AnswersTold'
  BY <1>1, <1>2, <1>3 DEF AnswersTold
<1>7. WordsKept'
  BY <1>1, <1>2, <1>4 DEF WordsKept, Accounted
<1>8. StateShown'
  BY <1>2, <1>3 DEF StateShown, Resting
<1>9. QED
  BY <1>5, <1>6, <1>7, <1>8

\* A transcript takes its own words and those of the turn it continues.
LEMMA SttFinalKeepsWords ==
  ASSUME NEW t \in Turn, WInv, SttFinal(t)
  PROVE  WordsStay' /\ AnswersTold' /\ WordsKept' /\ StateShown'
<1> DEFINE turn == IF pending # NoTurn THEN pending ELSE t
           text == IF pending # NoTurn THEN userText[pending] \cup {t} ELSE {t}
<1>1. IInv /\ TypeOK /\ WordsStay /\ AnswersTold /\ WordsKept
  BY DEF WInv, IInv
<1>2. /\ main = "awaitStt" /\ phase = "open" /\ stt[t] = "flushed"
      /\ \A v \in Turn : ~Live(v)
      /\ \A s \in Turn : s # t => stt[s] \in {"none", "done"}
  BY <1>1, Handling DEF SttFinal
<1>3. /\ respTurn' = [respTurn EXCEPT ![t] = turn]
      /\ respText' = [respText EXCEPT ![t] = text]
      /\ shown' = [shown EXCEPT ![turn] = text]
      /\ pending' = NoTurn
      /\ stt' = [stt EXCEPT ![t] = "accepted"]
      /\ UNCHANGED <<phase, main, utterance, current, activeTurn, userText, committed,
                     response, cancelling, ui, answers, answerText, terminals, stopped>>
  BY DEF SttFinal, published
<1>4. \A v \in Turn : ~Live(v)'
  BY <1>2, <1>3 DEF Live
<1>5. respTurn[t] = NoTurn
  BY <1>1, <1>2 DEF WordsStay
<1>6. /\ turn \in Turn /\ turn # NoTurn
      /\ turn # t => turn = pending /\ respTurn[turn] = turn /\ text = userText[turn] \cup {t}
      /\ t \in text
  BY <1>1, TurnFacts DEF WordsStay, TypeOK
<1>7. pending # NoTurn => turn = pending
  OBVIOUS
<1> HIDE DEF turn, text
<1>8. /\ respTurn'[t] = turn /\ respText'[t] = text /\ shown'[turn] = text
      /\ stt'[t] = "accepted"
      /\ \A s \in Turn : s # t => /\ respTurn'[s] = respTurn[s] /\ respText'[s] = respText[s]
                                  /\ stt'[s] = stt[s]
      /\ \A s \in Turn : s # turn => shown'[s] = shown[s]
  BY <1>1, <1>3, <1>6 DEF TypeOK
<1>9. ASSUME NEW s \in Turn, respTurn[s] # NoTurn
      PROVE  /\ s # t /\ stt[s] = "done" /\ respTurn[s] # t /\ respTurn[s] \in Turn
             /\ respTurn[respTurn[s]] = respTurn[s] /\ s \in shown[respTurn[s]]
             /\ respTurn[s] = turn => s \in text
  <2>1. s # t /\ respTurn[respTurn[s]] = respTurn[s] /\ s \in shown[respTurn[s]]
    BY <1>1, <1>5, <1>9 DEF WordsStay
  <2>2. respTurn[s] \in Turn /\ respTurn[s] # t
    BY <1>1, <1>5, <1>9, <2>1, TurnFacts DEF TypeOK
  <2>3. stt[s] = "done"
    BY <1>1, <1>2, <1>9, <2>1 DEF WordsStay
  <2>4. s \in userText[respTurn[s]]
    BY <1>1, <1>2, <1>9, <2>3 DEF WordsStay
  <2>5. QED
    BY <1>6, <2>1, <2>2, <2>3, <2>4
<1>10. respTurn'[turn] = turn
  BY <1>6, <1>8
<1>11. \A s \in Turn : respTurn'[s] = turn => s \in text
  BY <1>6, <1>8, <1>9
<1>12. \A s \in text : s \in Turn /\ respTurn'[s] = turn
  <2>1. CASE turn = t
    <3>1. pending # NoTurn => FALSE
      BY <1>1, <1>5, <1>7, <2>1 DEF WordsStay
    <3>2. QED
      BY <3>1, <2>1, <1>8 DEF text
  <2>2. CASE turn # t
    <3>1. \A s \in userText[turn] : s \in Turn /\ respTurn[s] = turn
      BY <1>1, <1>6 DEF WordsStay, TypeOK
    <3>2. QED
      BY <1>5, <1>6, <1>8, <2>2, <3>1
  <2>3. QED
    BY <2>1, <2>2
<1>13. WordsStay'
  <2>1. ASSUME NEW s \in Turn, respTurn'[s] # NoTurn
        PROVE  /\ stt'[s] \in {"accepted", "done"}
               /\ respTurn'[respTurn'[s]] = respTurn'[s]
               /\ s \in shown'[respTurn'[s]]
    <3>1. CASE s = t
      BY <1>6, <1>8, <1>10, <3>1
    <3>2. CASE s # t
      BY <1>8, <1>9, <2>1, <3>2
    <3>3. QED
      BY <3>1, <3>2
  <2>2. \A s \in Turn : respTurn'[s] # NoTurn /\ stt'[s] = "done" => s \in userText'[respTurn'[s]]
    BY <1>1, <1>2, <1>3, <1>8 DEF WordsStay
  <2>3. \A a, s \in Turn : stt'[a] = "accepted" /\ respTurn'[s] = respTurn'[a] => s \in respText'[a]
    BY <1>2, <1>8, <1>11
  <2>4. \A a, s \in Turn : s \in userText'[a] => respTurn'[s] = a
    <3>1. \A a, s \in Turn : s \in userText[a] => respTurn[s] = a /\ s # t
      BY <1>1, <1>5, TurnFacts DEF WordsStay
    <3>2. QED
      BY <1>3, <1>8, <3>1
  <2>5. ASSUME NEW v \in Turn, NEW s \in Turn, s \in respText'[v]
        PROVE  respTurn'[s] = respTurn'[v] /\ respTurn'[v] # NoTurn
    <3>1. CASE v = t
      BY <1>6, <1>8, <1>12, <2>5, <3>1
    <3>2. CASE v # t
      <4>1. respTurn[s] = respTurn[v] /\ respTurn[v] # NoTurn
        BY <1>1, <1>8, <2>5, <3>2 DEF WordsStay
      <4>2. QED
        BY <1>5, <1>8, <3>2, <4>1
    <3>3. QED
      BY <3>1, <3>2
  <2>6. pending' = NoTurn
    BY <1>3
  <2>7. QED
    BY <2>1, <2>2, <2>3, <2>4, <2>5, <2>6 DEF WordsStay
<1>14. AnswersTold'
  BY <1>1, <1>3, <1>4 DEF AnswersTold
<1>15. WordsKept'
  <2> SUFFICES ASSUME NEW s \in Turn, respTurn'[s] # NoTurn
               PROVE  Accounted(s)'
    BY DEF WordsKept
  <2>1. CASE respTurn'[s] = turn
    BY <1>8, <1>11, <2>1 DEF Accounted
  <2>2. CASE respTurn'[s] # turn
    <3>1. s # t /\ respTurn'[s] = respTurn[s]
      BY <1>8, <2>2
    <3>2. Accounted(s)
      BY <1>1, <1>2, <3>1 DEF WordsKept
    <3>3. pending # respTurn[s]
      BY <1>7, <2>2, <3>1
    <3>4. \A v \in Turn : s \in respText[v] => v # t \/ stt[v] # "accepted"
      BY <1>2
    <3>5. QED
      BY <1>2, <1>3, <3>1, <3>2, <3>3, <3>4 DEF Accounted
  <2>3. QED
    BY <2>1, <2>2
<1>16. StateShown'
  BY <1>2, <1>3, <1>4 DEF StateShown, Resting
<1>17. QED
  BY <1>13, <1>14, <1>15, <1>16

\* The response task for the transcript carries its words from here.
LEMMA StartResponseKeepsWords ==
  ASSUME NEW t \in Turn, WInv, StartResponse(t)
  PROVE  WordsStay' /\ AnswersTold' /\ WordsKept' /\ StateShown'
<1>1. IInv /\ TypeOK /\ WordsStay /\ AnswersTold /\ WordsKept
  BY DEF WInv, IInv
<1>2. /\ main = "awaitStt" /\ phase = "open" /\ stt[t] = "accepted"
      /\ \A v \in Turn : ~Live(v)
      /\ \A s \in Turn : s # t => stt[s] \in {"none", "done"}
      /\ current # t /\ t \notin cancelling
  BY <1>1, Handling DEF StartResponse
<1>3. respTurn[t] \in Turn /\ pending = NoTurn
  BY <1>1, <1>2, TurnFacts DEF IInv, TypeOK, TasksStarted, ToBeAnswered
<1>4. /\ userText' = [userText EXCEPT ![respTurn[t]] = respText[t]]
      /\ committed' = committed \ {respTurn[t]}
      /\ response' = [response EXCEPT ![t] = "created"]
      /\ stt' = [stt EXCEPT ![t] = "done"]
      /\ main' = "loop"
      /\ UNCHANGED <<phase, utterance, pending, respTurn, respText, ui, shown, answers,
                     answerText, terminals, stopped>>
  BY <1>2 DEF StartResponse, Resume, published
<1>5. cancelling \subseteq cancelling' /\ t \notin cancelling'
  BY <1>2 DEF StartResponse, CancelCurrent
<1>6. /\ stt'[t] = "done" /\ response'[t] = "created"
      /\ userText'[respTurn[t]] = respText[t]
      /\ \A s \in Turn : s # t => stt'[s] = stt[s] /\ response'[s] = response[s]
      /\ \A a \in Turn : a # respTurn[t] => userText'[a] = userText[a]
  BY <1>1, <1>3, <1>4 DEF TypeOK
<1>7. Live(t)' /\ \A v \in Turn : v # t => ~Live(v)'
  BY <1>2, <1>5, <1>6 DEF Live
<1>8. WordsStay'
  <2>1. \A s \in Turn : respTurn[s] # NoTurn => stt'[s] \in {"accepted", "done"}
    BY <1>1, <1>6 DEF WordsStay
  <2>2. ASSUME NEW s \in Turn, respTurn[s] # NoTurn, stt'[s] = "done"
        PROVE  s \in userText'[respTurn[s]]
    <3>1. CASE respTurn[s] = respTurn[t]
      BY <1>1, <1>2, <1>6, <3>1 DEF WordsStay
    <3>2. CASE respTurn[s] # respTurn[t]
      <4>1. respTurn[s] \in Turn /\ stt[s] = "done"
        BY <1>1, <1>6, <2>2, <3>2, TurnFacts DEF TypeOK
      <4>2. QED
        BY <1>1, <1>2, <1>6, <2>2, <3>2, <4>1 DEF WordsStay
    <3>3. QED
      BY <3>1, <3>2
  <2>3. \A s \in Turn : stt'[s] # "accepted"
    BY <1>2, <1>6
  <2>4. \A a, s \in Turn : s \in userText'[a] => respTurn[s] = a
    BY <1>1, <1>6 DEF WordsStay
  <2>5. /\ \A s \in Turn : respTurn[s] # NoTurn =>
             respTurn[respTurn[s]] = respTurn[s] /\ s \in shown[respTurn[s]]
        /\ \A v, s \in Turn : s \in respText[v] =>
             respTurn[s] = respTurn[v] /\ respTurn[v] # NoTurn
    BY <1>1 DEF WordsStay
  <2>6. QED
    BY <1>3, <1>4, <2>1, <2>2, <2>3, <2>4, <2>5 DEF WordsStay
<1>9. AnswersTold'
  <2>1. response'[t] \notin Answered /\ response'[t] # "llmError"
    BY <1>6 DEF Answered, Speaking
  <2>2. QED
    BY <1>1, <1>4, <1>7, <2>1 DEF AnswersTold
<1>10. WordsKept'
  BY <1>1, <1>2, <1>4, <1>7 DEF WordsKept, Accounted
<1>11. StateShown'
  BY <1>4, <1>6, <1>7 DEF StateShown, Resting
<1>12. QED
  BY <1>8, <1>9, <1>10, <1>11

\* An STT task that ends without a transcript had no words to lose, and tells
\* the client "listening" when it ends.
LEMMA SttEndKeepsWords ==
  ASSUME NEW t \in Turn, WInv, TypeOK',
         stt[t] \in {"streaming", "flushed", "errored"},
         \/ stt' = [stt EXCEPT ![t] = "errored"] /\ ui' = ui
         \/ stt' = [stt EXCEPT ![t] = "done"] /\ ui' = "listening",
         main' \in {main, "loop"},
         \A s \in Turn : terminals'[s] >= terminals[s],
         UNCHANGED <<phase, utterance, schedVars, committed, response, cancelling, shown,
                     answers, answerText, stopped>>
  PROVE  WordsStay' /\ AnswersTold' /\ WordsKept' /\ StateShown'
<1>1. IInv /\ TypeOK /\ WordsStay /\ AnswersTold /\ WordsKept /\ StateShown
  BY DEF WInv, IInv
<1>2. UNCHANGED <<phase, utterance, current, activeTurn, pending, userText, respTurn, respText,
                  committed, response, cancelling, shown, answers, answerText, stopped>>
  BY DEF schedVars
<1>3. /\ \/ stt'[t] = "errored" /\ ui' = ui
         \/ stt'[t] = "done" /\ ui' = "listening"
      /\ \A s \in Turn : s # t => stt'[s] = stt[s]
  BY <1>1 DEF TypeOK
<1>4. respTurn[t] = NoTurn
  BY <1>1 DEF WordsStay
<1>5. \A v \in Turn : Live(v)' = Live(v)
  BY <1>2 DEF Live
<1>6. \A s \in Turn : terminals[s] > 0 => terminals'[s] > 0
  <2>1. \A s \in Turn : terminals[s] \in Nat /\ terminals'[s] \in Nat
    BY <1>1 DEF TypeOK
  <2>2. QED
    BY <2>1
<1>7. \A s \in Turn : respTurn[s] # NoTurn => respTurn[s] \in Turn
  BY <1>1, TurnFacts DEF TypeOK
<1>8. WordsStay'
  <2>1. \A s \in Turn : respTurn[s] # NoTurn => stt'[s] = stt[s]
    BY <1>3, <1>4
  <2>2. \A s \in Turn : stt'[s] = "accepted" => stt[s] = "accepted"
    BY <1>3
  <2>3. QED
    BY <1>1, <1>2, <2>1, <2>2 DEF WordsStay
<1>9. AnswersTold'
  <2>1. \A v \in Turn : Live(v) => respTurn[v] \in Turn
    BY <1>1, <1>7 DEF Live, IInv, TasksStarted
  <2>2. QED
    BY <1>1, <1>2, <1>5, <1>6, <2>1 DEF AnswersTold
<1>10. WordsKept'
  <2>1. \A s \in Turn : stt[s] = "accepted" => stt'[s] = "accepted"
    BY <1>3
  <2>2. QED
    BY <1>1, <1>2, <1>5, <1>6, <1>7, <2>1 DEF WordsKept, Accounted
<1>11. StateShown'
  <2>1. main' = "bargeIn" => utterance' # NoTurn
    BY <1>1, <1>2 DEF StateShown
  <2>2. \A v \in Turn : Live(v)' /\ response'[v] = "safetyListening" => ui' = "listening"
    BY <1>1, <1>2, <1>3, <1>5 DEF StateShown
  <2>3. Resting'
    BY <1>3 DEF Resting, Hearing
  <2>4. QED
    BY <2>1, <2>2, <2>3 DEF StateShown
<1>12. QED
  BY <1>8, <1>9, <1>10, <1>11

\* Each step of an STT task is one of those above.
LEMMA SttTaskKeepsWords ==
  ASSUME NEW t \in Turn, WInv, IInv', SttTask(t)
  PROVE  WordsStay' /\ AnswersTold' /\ WordsKept' /\ StateShown'
<1>1. /\ TypeOK /\ TypeOK'
      /\ \A s \in Turn : terminals[s] >= terminals[s]
      /\ Terminal(t) => \A s \in Turn : terminals'[s] >= terminals[s]
  BY RecordsGrow DEF WInv, IInv
<1>2. Resume => main' \in {main, "loop"}
  BY DEF Resume
<1>3. CASE SttFinal(t) BY <1>3, SttFinalKeepsWords
<1>4. CASE StartResponse(t) BY <1>4, StartResponseKeepsWords
<1>5. CASE SttRepeat(t)
  BY <1>1, <1>2, <1>5, SttEndKeepsWords DEF SttRepeat, EmitState
<1>6. CASE SttError(t)
  BY <1>1, <1>6, SttEndKeepsWords DEF SttError
<1>7. CASE SttErrorListening(t)
  BY <1>1, <1>2, <1>7, SttEndKeepsWords DEF SttErrorListening, EmitState, published
<1>8. QED
  BY <1>3, <1>4, <1>5, <1>6, <1>7 DEF SttTask

\* The end of the session: what was said is no longer owed an answer.
LEMMA ShutdownKeepsWords ==
  ASSUME WInv, IInv', Shutdown
  PROVE  WordsStay' /\ AnswersTold' /\ WordsKept' /\ StateShown'
<1>1. IInv /\ WordsStay /\ AnswersTold
  BY DEF WInv
<1>2. /\ phase' = "closing" /\ main' = "loop"
      /\ stt' = [t \in Turn |-> IF stt[t] = "none" THEN "none" ELSE "done"]
      /\ UNCHANGED <<current, activeTurn, pending, userText, respTurn, respText, committed,
                     response, shown, answers>>
  BY DEF Shutdown, schedVars, published
<1>3. \A v \in Turn : ~Live(v)'
  BY <1>1, CancelSilences DEF Shutdown
<1>4. WordsStay'
  <2>1. \A t \in Turn : stt[t] \in {"accepted", "done"} => stt'[t] = "done"
    BY <1>2
  <2>2. \A t \in Turn : stt'[t] # "accepted"
    BY <1>2
  <2>3. QED
    BY <1>1, <1>2, <2>1, <2>2 DEF WordsStay
<1>5. AnswersTold'
  BY <1>1, <1>2, <1>3 DEF AnswersTold
<1>6. WordsKept' /\ StateShown'
  BY <1>2, <1>3 DEF WordsKept, StateShown, Resting
<1>7. QED
  BY <1>4, <1>5, <1>6

\* transport.disconnect, or a step that changes nothing.
LEMMA OnlyPhaseKeepsWords ==
  ASSUME WInv, phase' \in {phase, "closed"},
         UNCHANGED <<main, lastTurn, utterance, stt, current, activeTurn, pending,
                     userText, committed, response, respTurn, respText, cancelling,
                     speaking, ui, shown, answers, answerText, terminals, stopped>>
  PROVE  WordsStay' /\ AnswersTold' /\ WordsKept' /\ StateShown'
<1>1. WordsStay /\ AnswersTold /\ WordsKept /\ StateShown
  BY DEF WInv
<1>2. \A v \in Turn : Live(v)' = Live(v) /\ Hearing(v)' = Hearing(v)
  BY DEF Live, Hearing
<1>3. phase' = "open" => phase = "open"
  OBVIOUS
<1>4. WordsStay'
  BY <1>1, <1>3 DEF WordsStay
<1>5. AnswersTold'
  BY <1>1, <1>2 DEF AnswersTold
<1>6. WordsKept'
  BY <1>1, <1>2, <1>3 DEF WordsKept, Accounted
<1>7. StateShown'
  BY <1>1, <1>2, <1>3 DEF StateShown, Resting
<1>8. QED
  BY <1>4, <1>5, <1>6, <1>7

\* Nothing said, nothing owed.
LEMMA InitKeepsWords == Init => WInv
<1> SUFFICES ASSUME Init PROVE WInv
  OBVIOUS
<1>1. IInv
  BY InitEstablishes
<1>2. \A v \in Turn : respTurn[v] = NoTurn /\ userText[v] = {} /\ respText[v] = {} /\ ~Live(v)
  BY DEF Init, Live
<1>3. pending = NoTurn /\ committed = {} /\ main = "loop" /\ ui = "listening"
  BY DEF Init
<1>4. \A v \in Turn : stt[v] # "accepted"
  BY DEF Init
<1>5. WordsStay
  BY <1>2, <1>3, <1>4 DEF WordsStay
<1>6. AnswersTold /\ WordsKept /\ StateShown
  BY <1>2, <1>3 DEF AnswersTold, WordsKept, StateShown, Resting
<1>7. QED
  BY <1>1, <1>5, <1>6 DEF WInv

\* Every step of every task keeps account of the words.
LEMMA NextKeepsWords == WInv /\ [Next]_vars => WInv'
<1> SUFFICES ASSUME WInv, [Next]_vars
             PROVE  IInv' /\ WordsStay' /\ AnswersTold' /\ WordsKept' /\ StateShown'
  BY DEF WInv
<1>1. IInv'
  BY NextPreserves DEF WInv
<1>2. CASE MainLoop
  BY <1>1, <1>2, SpeechStartKeepsWords, SpeechStartedKeepsWords, EndpointCommitKeepsWords,
     ClientCancelKeepsWords DEF MainLoop
<1>3. CASE \E t \in Turn : SttTask(t)
  BY <1>1, <1>3, SttTaskKeepsWords
<1>4. CASE \E u \in Turn : ResponseTask(u)
  BY <1>1, <1>4, ResponseProgress, ProgressKeepsWords
<1>5. CASE Shutdown
  BY <1>1, <1>5, ShutdownKeepsWords
<1>6. CASE Disconnect
  BY <1>1, <1>6, OnlyPhaseKeepsWords DEF Disconnect, sttVars, schedVars, published
<1>7. CASE Stopped \/ UNCHANGED vars
  BY <1>1, <1>7, OnlyPhaseKeepsWords DEF Stopped, vars
<1>8. QED
  BY <1>2, <1>3, <1>4, <1>5, <1>6, <1>7 DEF Next

\* The strengthened invariant holds in every reachable state.
THEOREM WordsInvariance == Spec => []WInv
<1>1. Init => WInv
  BY InitKeepsWords
<1>2. WInv /\ [Next]_vars => WInv'
  BY NextKeepsWords
<1>3. QED
  BY <1>1, <1>2, PTL DEF Spec

\* What the user said is answered, being answered, waiting for its continuation,
\* reported as failed or cancelled by the client, for as long as the session is
\* open (the coalescing of _handle_endpoint_event and _handle_final_transcript).
THEOREM WordsNotLost == Spec => []NoLostWords
<1>1. WInv => NoLostWords
  <2> SUFFICES ASSUME WInv, NEW t \in Turn, phase = "open", respTurn[t] # NoTurn
               PROVE  \/ answers[respTurn[t]] > 0 /\ t \in answerText[respTurn[t]]
                      \/ \E u \in Turn : t \in respText[u] /\ (Live(u) \/ stt[u] = "accepted")
                      \/ pending = respTurn[t]
                      \/ terminals[respTurn[t]] > 0
                      \/ t \in stopped
    BY DEF NoLostWords
  <2>1. Accounted(t) /\ t \in shown[respTurn[t]]
    BY DEF WInv, WordsKept, WordsStay
  <2>2. respTurn[t] \in Turn
    BY TurnFacts DEF WInv, IInv, TypeOK
  <2>3. answers[respTurn[t]] > 0 => answerText[respTurn[t]] = shown[respTurn[t]]
    BY <2>2 DEF WInv, IInv, AnswerFitsTranscript
  <2>4. QED
    BY <2>1, <2>3 DEF Accounted
<1>2. QED
  BY <1>1, WordsInvariance, PTL

\* Once every task has ended the client is at "listening" (the states emitted by
\* _respond_to_final_transcript, _emit_stt_error and the command handlers).
THEOREM QuietListens == Spec => []QuietMeansListening
<1>1. WInv => QuietMeansListening
  BY DEF WInv, StateShown, Resting, QuietMeansListening, Hearing, Live
<1>2. QED
  BY <1>1, WordsInvariance, PTL

==============================================================================
