------------------------------ MODULE AgentTurn ------------------------------
(***************************************************************************)
(* The turn pipeline of one room agent: RealtimeAgentSession in            *)
(* services/realtime-agent/app/lifecycle.py.  Three kinds of asyncio task  *)
(* share the session object:                                               *)
(*                                                                         *)
(*   - the main loop (run, _loop_until_shutdown), which handles audio      *)
(*     frames, endpoint events and client commands one at a time;          *)
(*   - one STT task per confirmed utterance (_run_stt_stream), which the   *)
(*     main loop awaits once the endpoint has committed;                   *)
(*   - one response task per accepted transcript                           *)
(*     (_respond_to_final_transcript), cancelled by barge-in, by the       *)
(*     client, by the next transcript and by shutdown.                     *)
(*                                                                         *)
(* A step is what one task does between two awaits that another task can   *)
(* observe.  Task.cancel() only requests: the request is in "cancelling"   *)
(* until the task's next step raises CancelledError.                       *)
(*                                                                         *)
(* The words of an utterance are the utterance itself; the text of a       *)
(* coalesced turn is the set of utterances joined in it.                   *)
(***************************************************************************)
EXTENDS Naturals, FiniteSets

CONSTANT MaxTurn          \* bound: utterances confirmed during the session

ASSUME MaxTurnAssumption == MaxTurn \in Nat \ {0}

Turn == 1..MaxTurn        \* ids handed out by TurnIdFactory
NoTurn == 0               \* None

VARIABLES
  phase,          \* run(): "open", "closing" (its finally), "closed"
  main,           \* where the main loop is suspended
  lastTurn,       \* the last turn id handed out
  utterance,      \* endpointing.current_turn_id once speech is confirmed
  stt,            \* stt[t]: stage of the STT task of utterance t
  current,        \* _current_turn: the utterance whose response task it is
  activeTurn,     \* _active_response_turn_id
  pending,        \* _pending_coalesced_turn: its turn id
  userText,       \* _response_user_text
  committed,      \* _response_committed_turns
  response,       \* response[u]: stage of the response task u started
  respTurn,       \* respTurn[u]: the turn_id argument of that task
  respText,       \* respText[u]: its user_text argument
  cancelling,     \* response tasks with a cancellation not yet delivered
  speaking,       \* _assistant_speaking
  ui,             \* the last session_state published
  shown,          \* shown[t]: text of the last transcript_final of turn t
  answers,        \* answers[t]: assistant_transcript_final events of turn t
  answerText,     \* answerText[t]: the text the last of them answers
  terminals,      \* terminals[t]: turn_metrics records published for turn t
  stopped         \* history: words whose response the client cancelled

sttVars == <<stt, shown>>
schedVars == <<current, activeTurn, pending, userText, respTurn, respText>>
published == <<answers, answerText, terminals, stopped>>
vars == <<phase, main, lastTurn, utterance, stt, current, activeTurn, pending,
          userText, committed, response, respTurn, respText, cancelling,
          speaking, ui, shown, answers, answerText, terminals, stopped>>

SttStage == {"none", "streaming", "flushed", "accepted", "errored", "done"}
Composing == {"thinking", "lookup", "llm"}
Speaking == {"speaking", "tts"}
ResponseStage == {"none", "created", "done", "llmError", "safety", "safetyListening", "final", "ttsError", "ttsDone",
                  "reported", "stopAudio"} \cup Composing \cup Speaking
UiState == {"listening", "user_speaking", "thinking", "speaking"}

TypeOK ==
  /\ phase \in {"open", "closing", "closed"}
  /\ main \in {"loop", "bargeIn", "awaitStt"}
  /\ lastTurn \in 0..MaxTurn
  /\ utterance \in 0..MaxTurn
  /\ stt \in [Turn -> SttStage]
  /\ current \in 0..MaxTurn
  /\ activeTurn \in 0..MaxTurn
  /\ pending \in 0..MaxTurn
  /\ userText \in [Turn -> SUBSET Turn]
  /\ committed \in SUBSET Turn
  /\ response \in [Turn -> ResponseStage]
  /\ respTurn \in [Turn -> 0..MaxTurn]
  /\ respText \in [Turn -> SUBSET Turn]
  /\ cancelling \in SUBSET Turn
  /\ speaking \in BOOLEAN
  /\ ui \in UiState
  /\ shown \in [Turn -> SUBSET Turn]
  /\ answers \in [Turn -> Nat]
  /\ answerText \in [Turn -> SUBSET Turn]
  /\ terminals \in [Turn -> Nat]
  /\ stopped \in SUBSET Turn

Init ==
  /\ phase = "open"
  /\ main = "loop"
  /\ lastTurn = 0
  /\ utterance = NoTurn
  /\ stt = [t \in Turn |-> "none"]
  /\ current = NoTurn
  /\ activeTurn = NoTurn
  /\ pending = NoTurn
  /\ userText = [t \in Turn |-> {}]
  /\ committed = {}
  /\ response = [u \in Turn |-> "none"]
  /\ respTurn = [u \in Turn |-> NoTurn]
  /\ respText = [u \in Turn |-> {}]
  /\ cancelling = {}
  /\ speaking = FALSE
  /\ ui = "listening"
  /\ shown = [t \in Turn |-> {}]
  /\ answers = [t \in Turn |-> 0]
  /\ answerText = [t \in Turn |-> {}]
  /\ terminals = [t \in Turn |-> 0]
  /\ stopped = {}

------------------------------------------------------------------------------
(* Task and event helpers *)

\* Task.done() of _current_turn, with None counted as done.
Running == current # NoTurn /\ response[current] # "done"

\* cancel_current_turn on the task itself: a no-op unless it is running.
\* (Faulty variants, here and below, serve to show that properties can fail.)
CancelNothing == UNCHANGED cancelling
CancelCurrent ==
  cancelling' = IF Running THEN cancelling \cup {current} ELSE cancelling

\* _emit_state: the flag follows every state any task publishes.
EmitState(s) == ui' = s /\ speaking' = (s = "speaking")

\* _emit_turn_metrics: one more terminal record for turn t.
Terminal(t) == terminals' = [terminals EXCEPT ![t] = @ + 1]

\* _emit_assistant_final.
AssistantFinal(t, text) ==
  /\ answers' = [answers EXCEPT ![t] = @ + 1]
  /\ answerText' = [answerText EXCEPT ![t] = text]

------------------------------------------------------------------------------
(* The main loop *)

\* The running response has no answer yet, so its text can still be joined.
CoalescibleIfRunning ==
  /\ Running
  /\ activeTurn # NoTurn
  /\ userText[activeTurn] # {}
Coalescible ==
  /\ Running
  /\ activeTurn # NoTurn
  /\ activeTurn \notin committed
  /\ userText[activeTurn] # {}

\* What the next usable transcript will be joined to.
PendingForgotten == IF Coalescible THEN activeTurn ELSE NoTurn
PendingAfterSpeech == IF Coalescible THEN activeTurn ELSE pending

\* Anything of the assistant's to interrupt?
InterruptsAudioOnly == speaking
Interrupts == speaking \/ Running

\* speech_start up to stop_audio: the pre-speech flush has opened the STT task.
SpeechStart ==
  /\ phase = "open" /\ main = "loop"
  /\ utterance = NoTurn
  /\ lastTurn < MaxTurn
  /\ lastTurn' = lastTurn + 1
  /\ utterance' = lastTurn + 1
  /\ stt' = [stt EXCEPT ![lastTurn + 1] = "streaming"]
  /\ pending' = PendingAfterSpeech
  /\ IF Interrupts
       THEN CancelCurrent /\ speaking' = (speaking /\ ~Running)
       ELSE UNCHANGED <<cancelling, speaking>>
  /\ main' = "bargeIn"
  /\ UNCHANGED <<phase, current, activeTurn, userText, committed, response,
                 respTurn, respText, ui, shown, published>>

\* The rest of the speech_start handler, after the awaits of the barge-in.
SpeechStarted ==
  /\ phase = "open" /\ main = "bargeIn"
  /\ main' = "loop"
  /\ EmitState("user_speaking")
  /\ UNCHANGED <<phase, lastTurn, utterance, sttVars, schedVars, committed,
                 response, cancelling, published>>

\* speech_end and endpoint_commit: _finish_stt_turn closes the stream and
\* awaits its task, unless that task has already ended with an error.
EndpointCommit ==
  /\ phase = "open" /\ main = "loop"
  /\ utterance # NoTurn
  /\ utterance' = NoTurn
  /\ EmitState("listening")
  /\ stt' = [stt EXCEPT ![utterance] = IF @ = "streaming" THEN "flushed" ELSE @]
  /\ main' = IF stt[utterance] = "done" THEN "loop" ELSE "awaitStt"
  /\ UNCHANGED <<phase, lastTurn, schedVars, committed, response, cancelling,
                 shown, published>>

\* client_cancel_turn.
ClientCancel ==
  /\ phase = "open" /\ main = "loop"
  /\ CancelCurrent
  /\ EmitState("listening")
  /\ stopped' = IF Running THEN stopped \cup respText[current] ELSE stopped
  /\ UNCHANGED <<phase, main, lastTurn, utterance, sttVars, schedVars,
                 committed, response, answers, answerText, terminals>>

------------------------------------------------------------------------------
(* The STT task of utterance t *)

\* The main loop goes on when the STT task it awaits has ended.
Resume == main' = IF main = "awaitStt" THEN "loop" ELSE main

\* A usable final: _handle_final_transcript up to the transcript_final event.
SttFinal(t) ==
  /\ phase = "open" /\ stt[t] = "flushed"
  /\ LET turn == IF pending # NoTurn THEN pending ELSE t
         text == IF pending # NoTurn THEN userText[pending] \cup {t} ELSE {t}
     IN  /\ respTurn' = [respTurn EXCEPT ![t] = turn]
         /\ respText' = [respText EXCEPT ![t] = text]
         /\ shown' = [shown EXCEPT ![turn] = text]
  /\ pending' = NoTurn
  /\ stt' = [stt EXCEPT ![t] = "accepted"]
  /\ UNCHANGED <<phase, main, lastTurn, utterance, current, activeTurn,
                 userText, committed, response, cancelling, speaking, ui,
                 published>>

\* ... and after it: the response task replaces whatever was running.
StartResponse(t) ==
  /\ phase = "open" /\ stt[t] = "accepted"
  /\ CancelCurrent
  /\ speaking' = (speaking /\ ~Running)
  /\ activeTurn' = respTurn[t]
  /\ userText' = [userText EXCEPT ![respTurn[t]] = respText[t]]
  /\ committed' = committed \ {respTurn[t]}
  /\ current' = t
  /\ response' = [response EXCEPT ![t] = "created"]
  /\ stt' = [stt EXCEPT ![t] = "done"]
  /\ Resume
  /\ UNCHANGED <<phase, lastTurn, utterance, pending, respTurn, respText, ui,
                 shown, published>>

\* An empty or low-confidence final: the user is asked to repeat.
SttRepeat(t) ==
  /\ phase = "open" /\ stt[t] = "flushed"
  /\ stt' = [stt EXCEPT ![t] = "done"]
  /\ EmitState("listening")
  /\ Terminal(t)
  /\ Resume
  /\ UNCHANGED <<phase, lastTurn, utterance, schedVars, committed, response,
                 cancelling, shown, answers, answerText, stopped>>

\* _emit_stt_error: the provider may fail while the user still speaks.
SttError(t) ==
  /\ phase = "open" /\ stt[t] \in {"streaming", "flushed"}
  /\ stt' = [stt EXCEPT ![t] = "errored"]
  /\ Terminal(t)
  /\ UNCHANGED <<phase, main, lastTurn, utterance, schedVars, committed,
                 response, cancelling, speaking, ui, shown, answers, answerText, stopped>>

\* ... ends with a listening state, after the metrics have been sent.
SttErrorListening(t) ==
  /\ phase = "open" /\ stt[t] = "errored"
  /\ stt' = [stt EXCEPT ![t] = "done"]
  /\ EmitState("listening")
  /\ Resume
  /\ UNCHANGED <<phase, lastTurn, utterance, schedVars, committed, response,
                 cancelling, shown, published>>

------------------------------------------------------------------------------
(* The response task started by utterance u *)

Goto(u, stage) == response' = [response EXCEPT ![u] = stage]

\* What no step of a response task touches.
ResponseFrame ==
  UNCHANGED <<phase, main, lastTurn, utterance, sttVars, schedVars, cancelling>>

\* The task is at "stage" and its next step is not a CancelledError.
At(u, stage) == response[u] = stage /\ u \notin cancelling

Think(u) ==
  /\ At(u, "created")
  /\ Goto(u, "thinking")
  /\ EmitState("thinking")
  /\ ResponseFrame
  /\ UNCHANGED <<committed, published>>

\* The input classifier overrides the answer: it is committed at once.
SafetyOverride(u) ==
  /\ At(u, "thinking")
  /\ Goto(u, "safety")
  /\ committed' = committed \cup {respTurn[u]}
  /\ AssistantFinal(respTurn[u], respText[u])
  /\ ResponseFrame
  /\ UNCHANGED <<terminals, stopped, speaking, ui>>

SafetyListening(u) ==
  /\ At(u, "safety")
  /\ Goto(u, "safetyListening")
  /\ EmitState("listening")
  /\ ResponseFrame
  /\ UNCHANGED <<committed, published>>

SafetyReport(u) ==
  /\ At(u, "safetyListening")
  /\ Goto(u, "done")
  /\ Terminal(respTurn[u])
  /\ ResponseFrame
  /\ UNCHANGED <<committed, answers, answerText, stopped, speaking, ui>>

\* _request_memory_context_v2 or _lookup_turn_memory: a reply or a timeout.
MemoryLookup(u) ==
  /\ At(u, "thinking")
  /\ Goto(u, "lookup")
  /\ ResponseFrame
  /\ UNCHANGED <<committed, published, speaking, ui>>

StreamLLM(u) ==
  /\ At(u, "thinking") \/ At(u, "lookup")
  /\ Goto(u, "llm")
  /\ ResponseFrame
  /\ UNCHANGED <<committed, published, speaking, ui>>

\* _emit_llm_error up to and including the terminal record.
LLMError(u) ==
  /\ At(u, "lookup") \/ At(u, "llm")
  /\ Goto(u, "llmError")
  /\ Terminal(respTurn[u])
  /\ ResponseFrame
  /\ UNCHANGED <<committed, answers, answerText, stopped, speaking, ui>>

LLMErrorSilent(u) ==
  /\ At(u, "llmError")
  /\ Goto(u, "done")
  /\ ResponseFrame
  /\ UNCHANGED <<committed, published, speaking, ui>>

LLMErrorListening(u) ==
  /\ At(u, "llmError")
  /\ Goto(u, "done")
  /\ EmitState("listening")
  /\ ResponseFrame
  /\ UNCHANGED <<committed, published>>

\* The answer is ready (a memory directive needs no LLM): the turn is
\* committed unless another turn has become the active one.
Commit(u) ==
  /\ \E stage \in Composing : At(u, stage)
  /\ IF activeTurn # respTurn[u]
       THEN Goto(u, "done") /\ UNCHANGED <<committed, answers, answerText, stopped>>
       ELSE /\ Goto(u, "final")
            /\ committed' = committed \cup {respTurn[u]}
            /\ AssistantFinal(respTurn[u], respText[u])
  /\ ResponseFrame
  /\ UNCHANGED <<terminals, stopped, speaking, ui>>

\* _speak_text.
StartSpeaking(u) ==
  /\ At(u, "final")
  /\ Goto(u, "speaking")
  /\ EmitState("speaking")
  /\ ResponseFrame
  /\ UNCHANGED <<committed, published>>

Synthesize(u) ==
  /\ At(u, "speaking")
  /\ Goto(u, "tts")
  /\ ResponseFrame
  /\ UNCHANGED <<committed, published, speaking, ui>>

TtsComplete(u) ==
  /\ At(u, "tts")
  /\ Goto(u, "ttsDone")
  /\ ResponseFrame
  /\ UNCHANGED <<committed, published, speaking, ui>>

TtsError(u) ==
  /\ At(u, "tts")
  /\ Goto(u, "ttsError")
  /\ ResponseFrame
  /\ UNCHANGED <<committed, published, speaking, ui>>

\* turn_metrics "completed" or "tts_error".
ReportSpoken(u) ==
  /\ At(u, "ttsDone") \/ At(u, "ttsError")
  /\ Goto(u, "reported")
  /\ Terminal(respTurn[u])
  /\ ResponseFrame
  /\ UNCHANGED <<committed, answers, answerText, stopped, speaking, ui>>

FinishResponse(u) ==
  /\ At(u, "reported")
  /\ Goto(u, "done")
  /\ EmitState("listening")
  /\ ResponseFrame
  /\ UNCHANGED <<committed, published>>

\* CancelledError.  Only the synthesis loop catches it, to stop the audio and
\* report; everywhere else, that handler included, the task just ends.
Cancelled(u) ==
  /\ u \in cancelling
  /\ cancelling' = cancelling \ {u}
  /\ Goto(u, IF response[u] = "tts" THEN "stopAudio" ELSE "done")
  /\ UNCHANGED <<phase, main, lastTurn, utterance, sttVars, schedVars,
                 committed, published, speaking, ui>>

\* The rest of that handler; once the room is gone its publish raises.
ReportCancelled(u) ==
  /\ At(u, "stopAudio")
  /\ Goto(u, "done")
  /\ IF phase = "closed" THEN UNCHANGED terminals ELSE Terminal(respTurn[u])
  /\ ResponseFrame
  /\ UNCHANGED <<committed, answers, answerText, stopped, speaking, ui>>

------------------------------------------------------------------------------
(* Shutdown *)

\* run() leaves its loop (client left, idle, expiry) or is cancelled by the
\* supervisor; its finally cancels the response task and every STT task, the
\* awaited one included, before anything else runs in them.
Shutdown ==
  /\ phase = "open"
  /\ phase' = "closing"
  /\ main' = "loop"
  /\ utterance' = NoTurn
  /\ CancelCurrent
  /\ speaking' = (speaking /\ ~Running)
  /\ stt' = [t \in Turn |-> IF stt[t] = "none" THEN "none" ELSE "done"]
  /\ UNCHANGED <<lastTurn, schedVars, committed, response, ui, shown, published>>

\* transport.disconnect; the response task is not awaited before it.
Disconnect ==
  /\ phase = "closing"
  /\ phase' = "closed"
  /\ UNCHANGED <<main, lastTurn, utterance, sttVars, schedVars, committed,
                 response, cancelling, speaking, ui, published>>

\* The session is over and every task has ended.
Stopped ==
  /\ phase = "closed"
  /\ \A u \in Turn : response[u] \in {"none", "done"}
  /\ UNCHANGED vars

MainLoop == SpeechStart \/ SpeechStarted \/ EndpointCommit \/ ClientCancel

SttTask(t) ==
  \/ SttFinal(t) \/ StartResponse(t) \/ SttRepeat(t)
  \/ SttError(t) \/ SttErrorListening(t)

ResponseTask(u) ==
  \/ Think(u) \/ SafetyOverride(u) \/ SafetyListening(u) \/ SafetyReport(u)
  \/ MemoryLookup(u) \/ StreamLLM(u) \/ LLMError(u) \/ LLMErrorListening(u)
  \/ Commit(u) \/ StartSpeaking(u) \/ Synthesize(u) \/ TtsComplete(u)
  \/ TtsError(u) \/ ReportSpoken(u) \/ FinishResponse(u)
  \/ Cancelled(u) \/ ReportCancelled(u)

Next ==
  \/ MainLoop
  \/ \E t \in Turn : SttTask(t) \/ ResponseTask(t)
  \/ Shutdown \/ Disconnect \/ Stopped

\* Every await of a task ends: the providers have timeouts (memory lookup, LLM,
\* TTS, the STT response), and the event loop runs every ready task.  Nothing
\* obliges the user to speak, to stop or to leave.
Fairness ==
  /\ WF_vars(SpeechStarted)
  /\ \A t \in Turn : WF_vars(SttTask(t) /\ stt[t] # "streaming")
  /\ \A u \in Turn : WF_vars(ResponseTask(u))
  /\ WF_vars(Disconnect)

Spec == Init /\ [][Next]_vars /\ Fairness

------------------------------------------------------------------------------
(* Properties *)

\* The response task is at work and has not been told to stop.
Live(u) ==
  response[u] \notin {"none", "done", "stopAudio"} /\ u \notin cancelling

\* A turn gets at most one assistant_transcript_final, although a continuation
\* reopens the turn it extends under the same id: speech_start never takes a
\* committed turn, and the response it replaces is cancelled before it commits
\* (lifecycle.py _handle_endpoint_event, _handle_final_transcript).
OneAnswerPerTurn == \A t \in Turn : answers[t] <= 1

\* An answer is an answer to the transcript the client shows for its turn:
\* no response computed from the text before a continuation is published
\* after the joined transcript has replaced it.
AnswerFitsTranscript ==
  \A t \in Turn : answers[t] > 0 => answerText[t] = shown[t]

\* While an utterance is open, and while its transcript is awaited, no response
\* task is at work unless it has been told to stop: the assistant neither
\* talks over the user nor prepares an answer to the previous turn.
NoTalkOver ==
  (utterance # NoTurn \/ main # "loop") => \A u \in Turn : ~Live(u)

\* What the user said is never dropped in silence.  Until the session closes,
\* the words of an accepted transcript have been answered, are being answered,
\* wait to be joined to the next transcript, or their turn has failed with a
\* reported error or was cancelled by the client.
NoLostWords ==
  \A t \in Turn : (phase = "open" /\ respTurn[t] # NoTurn) =>
    LET turn == respTurn[t]
    IN  \/ answers[turn] > 0 /\ t \in answerText[turn]
        \/ \E u \in Turn : t \in respText[u] /\ (Live(u) \/ stt[u] = "accepted")
        \/ pending = turn
        \/ terminals[turn] > 0
        \/ t \in stopped

\* When nobody is at work the client shows the listening state: no error,
\* cancellation or repeat request leaves it at "thinking" or "speaking".
QuietMeansListening ==
  ( /\ phase = "open" /\ main = "loop" /\ utterance = NoTurn
    /\ \A t \in Turn : stt[t] \in {"none", "done"}
    /\ \A u \in Turn : response[u] \in {"none", "done"} ) => ui = "listening"

\* A client told that the assistant thinks is told something else in the end,
\* or the session closes.
ThinkingEnds == (ui = "thinking") ~> (ui # "thinking" \/ phase = "closed")

\* docs/architecture/observability_metrics.md calls the record of a turn its
\* immutable terminal record: a turn ends once.
OneTerminalRecord == \A t \in Turn : terminals[t] <= 1

==============================================================================
