------------------------------- MODULE SttStream -------------------------------
(***************************************************************************)
(* From the audio of an utterance to its transcript: the STT task of       *)
(* services/realtime-agent/app/lifecycle.py (_record_stt_audio,            *)
(* _run_stt_stream, _finish_stt_turn, close_stt_streams) over the          *)
(* providers of providers/stt.py.  The main loop waits for the task once   *)
(* the endpoint has committed, so there is one stream at a time.           *)
(*                                                                         *)
(* Sarvam is a task that sends audio, a task that receives, and a socket   *)
(* to a server; Vosk recognises each frame where it takes it; a provider   *)
(* that could not be built fails at the first frame.  A segment is what a  *)
(* provider recognises between two pauses, a text a sequence of segments.  *)
(* AgentTurn has what becomes of a final transcript.                       *)
(***************************************************************************)
EXTENDS Naturals, Sequences

CONSTANTS
  Segment,     \* bound: what a recogniser may hear between two pauses
  Chunk,       \* frames sent in one message (chunk_ms)
  MaxTurn,     \* bound: utterances
  MaxPush,     \* bound: frames of an utterance
  MaxResponse  \* bound: messages of the server, or results of Vosk, for an utterance

ASSUME StreamAssumption ==
  /\ Chunk \in Nat \ {0} /\ MaxTurn \in Nat /\ MaxPush \in Nat /\ MaxResponse \in Nat
  /\ "nothing" \notin Segment /\ "signal" \notin Segment /\ "error" \notin Segment

VARIABLES
  provider,    \* "sarvam", "vosk" or "unavailable"
  main,        \* the main loop
  streamTurn,  \* the turn of the stream
  stage,       \* its STT task
  pushed,      \* frames given to its queue
  taken,       \* frames taken from it
  closed,      \* the end is in the queue
  sender,      \* Sarvam's sending task
  pending,     \* frames taken and not sent yet
  inbox,       \* what the server sent and nobody has received
  responses,   \* how many messages or results there were
  broken,      \* the connection is lost
  got,         \* result of the receive task; "nothing" if it has none
  received,    \* received_segments, completed_segments
  tail,        \* last_partial of Vosk
  visible,     \* last_visible, last_emitted
  settled,     \* history: finished segments the client was shown
  final,       \* history: the text of the final transcript
  outcomes     \* history: outcomes[t]: what the client was told of turn t in the end

queue == <<pushed, taken, closed>>
socket == <<inbox, responses, broken>>
texts == <<received, tail, visible, settled>>
told == <<final, outcomes>>
streamVars ==
  <<provider, main, streamTurn, stage, queue, sender, pending, socket, got, texts, told>>

Turn == 1..MaxTurn
Ended == {"none", "done", "cancelled"}
SenderEnded == {"done", "failed", "cancelled"}

StreamInit ==
  /\ provider \in {"sarvam", "vosk", "unavailable"}
  /\ main = "loop" /\ streamTurn = 0 /\ stage = "none"
  /\ pushed = 0 /\ taken = 0 /\ closed = FALSE
  /\ sender = "none" /\ pending = 0
  /\ inbox = << >> /\ responses = 0 /\ broken = FALSE /\ got = "nothing"
  /\ received = << >> /\ tail = << >> /\ visible = << >> /\ settled = << >>
  /\ final = << >> /\ outcomes = [t \in Turn |-> << >>]

-----------------------------------------------------------------------------
(* The main loop.                                                          *)

\* _record_stt_audio, the first frame of a turn: a new stream and its task.
Begin ==
  /\ main = "loop" /\ (streamTurn = 0 \/ closed) /\ streamTurn < MaxTurn
  /\ streamTurn' = streamTurn + 1 /\ pushed' = 1 /\ taken' = 0 /\ closed' = FALSE
  /\ stage' = IF provider = "sarvam" THEN "connecting" ELSE "listening"
  /\ sender' = "none" /\ pending' = 0
  /\ inbox' = << >> /\ responses' = 0 /\ broken' = FALSE /\ got' = "nothing"
  /\ received' = << >> /\ tail' = << >> /\ visible' = << >> /\ settled' = << >>
  /\ final' = << >>
  /\ UNCHANGED <<provider, main, outcomes>>

\* ... and every other frame, whether or not the task still takes it.
Frame ==
  /\ main = "loop" /\ streamTurn > 0 /\ ~closed /\ pushed < MaxPush
  /\ pushed' = pushed + 1
  /\ UNCHANGED <<provider, main, streamTurn, stage, taken, closed, sender, pending, socket, got,
                 texts, told>>

\* endpoint_commit: _finish_stt_turn closes the queue and awaits the task.
FinishTurn ==
  /\ main = "loop" /\ streamTurn > 0 /\ ~closed
  /\ closed' = TRUE /\ main' = "awaiting"
  /\ UNCHANGED <<provider, streamTurn, stage, pushed, taken, sender, pending, socket,
                 got, texts, told>>

\* Awaiting a task that was cancelled raises CancelledError in the main loop:
\* run() goes to its finally and the session ends.
Resume ==
  /\ main = "awaiting" /\ stage \in {"done", "cancelled"}
  /\ main' = IF stage = "done" THEN "loop" ELSE "cut"
  /\ UNCHANGED <<provider, streamTurn, stage, queue, sender, pending, socket, got, texts, told>>

\* The session ends, or its agent is cancelled: close_stt_streams.
Leave ==
  /\ main \in {"loop", "awaiting"}
  /\ main' = "closing" /\ closed' = (streamTurn > 0)
  /\ UNCHANGED <<provider, streamTurn, stage, pushed, taken, sender, pending, socket,
                 got, texts, told>>

Closed ==
  /\ main = "closing" /\ stage \in Ended
  /\ main' = "closed"
  /\ UNCHANGED <<provider, streamTurn, stage, queue, sender, pending, socket, got, texts, told>>

-----------------------------------------------------------------------------
(* The end of a stream.                                                    *)

Running == main \in {"loop", "awaiting"}

\* The final transcript: _handle_final_transcript.
Final ==
  /\ Running /\ stage = "final"
  /\ stage' = "done"
  /\ final' = received
  /\ outcomes' = [outcomes EXCEPT ![streamTurn] = Append(@, "final")]
  /\ UNCHANGED <<provider, main, streamTurn, queue, sender, pending, socket, got, texts>>

\* _emit_stt_error; it is told even if the session is being closed.
Error ==
  /\ main # "closed" /\ stage = "error"
  /\ stage' = "done"
  /\ outcomes' = [outcomes EXCEPT ![streamTurn] = Append(@, "error")]
  /\ UNCHANGED <<provider, main, streamTurn, queue, sender, pending, socket, got, texts, final>>

\* The finally of SarvamSTTProvider.stream.  Awaiting the sender it has just
\* cancelled raises CancelledError, whatever ended the loop.
\* Faulty variants, here and below, serve to show that properties can fail.
FinalAnyway(sent) == "final"
AfterLoop(sent) ==
  CASE sent = "done" -> "final"
    [] sent = "failed" -> "error"
    [] OTHER -> "cancelled"

\* A cancellation of the task, which a sender that has failed turns to an error.
StreamCancelled ==
  /\ main = "closing" /\ stage \notin Ended \cup {"error"}
  /\ stage' = IF sender = "failed" /\ stage \in {"listening", "deadline"}
              THEN "error" ELSE "cancelled"
  /\ sender' = IF sender \in SenderEnded \cup {"none"} THEN sender ELSE "cancelled"
  /\ UNCHANGED <<provider, main, streamTurn, queue, pending, socket, got, texts, told>>

-----------------------------------------------------------------------------
(* Sarvam: the connection and the sender.                                  *)

Connect ==
  /\ Running /\ stage = "connecting"
  /\ \/ stage' = "listening" /\ sender' = "taking"
     \/ stage' = "error" /\ UNCHANGED sender
  /\ UNCHANGED <<provider, main, streamTurn, queue, pending, socket, got, texts, told>>

\* _send: a frame from the queue; a full chunk is sent.
Take ==
  /\ Running /\ sender = "taking" /\ taken < pushed
  /\ taken' = taken + 1 /\ pending' = pending + 1
  /\ sender' = IF pending + 1 >= Chunk THEN "sending" ELSE "taking"
  /\ UNCHANGED <<provider, main, streamTurn, stage, pushed, closed, socket, got, texts, told>>

\* The end of the queue: the rest is sent, then the flush.
TakeEnd ==
  /\ Running /\ sender = "taking" /\ taken = pushed /\ closed
  /\ sender' = IF pending > 0 THEN "sending" ELSE "flushing"
  /\ UNCHANGED <<provider, main, streamTurn, stage, queue, pending, socket, got, texts, told>>

Send ==
  /\ Running
  /\ \/ /\ sender = "sending" /\ pending' = 0
        /\ sender' = IF closed /\ taken = pushed /\ pending < Chunk THEN "flushing" ELSE "taking"
     \/ sender = "flushing" /\ sender' = "done" /\ UNCHANGED pending
     \/ sender \in {"sending", "flushing"} /\ broken /\ sender' = "failed" /\ UNCHANGED pending
  /\ UNCHANGED <<provider, main, streamTurn, stage, queue, socket, got, texts, told>>

-----------------------------------------------------------------------------
(* Sarvam: the server, external, and the receiver.                         *)

\* The server may send a transcript, an empty one or a signal once it has heard
\* something; the connection may be lost.
Server ==
  /\ Running /\ stage \in {"listening", "deadline", "telling"} /\ sender # "none" /\ ~broken
  /\ \/ /\ taken > pending /\ responses < MaxResponse
        /\ \E message \in Segment \cup {"signal"} : inbox' = Append(inbox, message)
        /\ responses' = responses + 1 /\ UNCHANGED broken
     \/ broken' = TRUE /\ UNCHANGED <<inbox, responses>>
  /\ UNCHANGED <<provider, main, streamTurn, stage, queue, sender, pending, got, texts, told>>

\* The receive task of _next_response.
Receive ==
  /\ Running /\ provider = "sarvam" /\ stage \in {"listening", "deadline"} /\ got = "nothing"
  /\ \/ /\ inbox # << >>
        /\ got' = Head(inbox) /\ inbox' = Tail(inbox)
     \/ inbox = << >> /\ broken /\ got' = "error" /\ UNCHANGED inbox
  /\ UNCHANGED <<provider, main, streamTurn, stage, queue, sender, pending, responses,
                 broken, texts, told>>

\* The sender has ended first: from here on the answer has to come in time.
NoDeadline == FALSE
Deadline == sender \in SenderEnded
AwaitLast ==
  /\ Running /\ provider = "sarvam" /\ stage = "listening" /\ got = "nothing" /\ Deadline
  /\ stage' = "deadline"
  /\ UNCHANGED <<provider, main, streamTurn, queue, sender, pending, socket, got, texts, told>>

\* response_timeout_seconds: the text so far is the transcript.
Timeout ==
  /\ Running /\ stage = "deadline" /\ got = "nothing"
  /\ stage' = AfterLoop(sender)
  /\ UNCHANGED <<provider, main, streamTurn, queue, sender, pending, socket, got, texts, told>>

\* A segment that repeats the one before is taken for a repeated message.
LatestOnly(segments, text) == <<text>>
Joined(segments, text) ==
  IF segments # << >> /\ segments[Len(segments)] = text THEN segments ELSE Append(segments, text)

\* Is a transcript that arrives now the last one?
LastAtOnce == TRUE
LastNow == sender \in SenderEnded

\* The stream has the result of a receive.
Received ==
  /\ Running /\ provider = "sarvam" /\ stage \in {"listening", "deadline"} /\ got # "nothing"
  /\ got' = "nothing"
  /\ IF got \in Segment
       THEN /\ received' = Joined(received, got)
            /\ IF LastNow
                 THEN stage' = AfterLoop(sender) /\ UNCHANGED <<visible, settled>>
                 ELSE IF received' # visible
                 THEN stage' = "telling" /\ visible' = received' /\ settled' = received'
                 ELSE stage' = "listening" /\ UNCHANGED <<visible, settled>>
       ELSE /\ stage' = IF got = "signal" THEN "listening"
                        ELSE IF sender = "done" THEN "error" ELSE AfterLoop(sender)
            /\ UNCHANGED <<received, visible, settled>>
  /\ sender' = IF stage' = "cancelled" THEN "cancelled" ELSE sender
  /\ UNCHANGED <<provider, main, streamTurn, queue, pending, socket, tail, told>>

\* _emit_transcript_partial has been sent.
Told ==
  /\ Running /\ stage = "telling"
  /\ stage' = "listening"
  /\ UNCHANGED <<provider, main, streamTurn, queue, sender, pending, socket, got, texts, told>>

-----------------------------------------------------------------------------
(* Vosk, and a provider that is not available.                             *)

Parts == received \o tail

\* A frame ends a segment, changes the partial text, or does neither.
Recognise ==
  /\ Running /\ provider = "vosk" /\ stage = "listening" /\ taken < pushed
  /\ taken' = taken + 1
  /\ \/ /\ responses < MaxResponse /\ responses' = responses + 1
        /\ \E result \in Segment \cup {"nothing"} :
             received' = IF result = "nothing" THEN received ELSE Joined(received, result)
        /\ tail' = << >>
        /\ IF received' # << >> /\ received' # visible
             THEN stage' = "telling" /\ visible' = received' /\ settled' = received'
             ELSE UNCHANGED <<stage, visible, settled>>
     \/ /\ responses < MaxResponse /\ responses' = responses + 1
        /\ \E partial \in Segment :
             IF Append(received, partial) # visible
             THEN /\ tail' = <<partial>> /\ visible' = Append(received, partial)
                  /\ stage' = "telling" /\ settled' = received
             ELSE UNCHANGED <<tail, visible, stage, settled>>
        /\ UNCHANGED received
     \/ UNCHANGED <<responses, received, tail, visible, settled, stage>>
  /\ UNCHANGED <<provider, main, streamTurn, pushed, closed, sender, pending, inbox,
                 broken, got, told>>

\* The end of the queue: the last segment, or the best partial if it is empty.
LastOnly(result) == IF result # "nothing" THEN <<result>> ELSE tail
Complete(result) == IF result # "nothing" THEN Joined(received, result) ELSE Parts
RecogniseEnd ==
  /\ Running /\ provider = "vosk" /\ stage = "listening" /\ taken = pushed /\ closed
  /\ \E result \in Segment \cup {"nothing"} : received' = Complete(result)
  /\ stage' = "final"
  /\ UNCHANGED <<provider, main, streamTurn, queue, sender, pending, socket, got, tail,
                 visible, settled, told>>

\* _UnavailableSTTProvider raises when it has seen a frame.
Unavailable ==
  /\ Running /\ provider = "unavailable" /\ stage = "listening" /\ taken < pushed
  /\ taken' = taken + 1 /\ stage' = "error"
  /\ UNCHANGED <<provider, main, streamTurn, pushed, closed, sender, pending, socket,
                 got, texts, told>>

-----------------------------------------------------------------------------

MainLoop == Begin \/ Frame \/ FinishTurn \/ Resume \/ Leave \/ Closed
Sarvam == Connect \/ Take \/ TakeEnd \/ Send \/ Receive \/ AwaitLast \/ Timeout \/ Received
Vosk == Recognise \/ RecogniseEnd \/ Unavailable
StreamNext == MainLoop \/ Sarvam \/ Server \/ Told \/ Vosk \/ Final \/ Error \/ StreamCancelled

\* Each task goes on when it can, a send ends or fails, and the clock runs.
\* Nothing is assumed of the user or of the server, but that the server does not
\* send signals for ever: each starts the wait for the transcript again.
Fairness ==
  /\ WF_streamVars(Resume) /\ WF_streamVars(Closed)
  /\ WF_streamVars(Connect) /\ WF_streamVars(Take) /\ WF_streamVars(TakeEnd) /\ WF_streamVars(Send)
  /\ WF_streamVars(AwaitLast) /\ WF_streamVars(Timeout) /\ WF_streamVars(Receive) /\ WF_streamVars(Received)
  /\ WF_streamVars(Told) /\ WF_streamVars(Vosk) /\ WF_streamVars(Final) /\ WF_streamVars(Error)
  /\ WF_streamVars(StreamCancelled)

StreamSpec == StreamInit /\ [][StreamNext]_streamVars /\ Fairness

-----------------------------------------------------------------------------
(* Properties.                                                             *)

StreamTypeOK ==
  /\ provider \in {"sarvam", "vosk", "unavailable"}
  /\ main \in {"loop", "awaiting", "closing", "closed", "cut"}
  /\ streamTurn \in 0..MaxTurn
  /\ stage \in {"none", "connecting", "listening", "deadline", "telling", "final", "error",
                "done", "cancelled"}
  /\ pushed \in Nat /\ taken \in 0..pushed /\ closed \in BOOLEAN
  /\ sender \in {"none", "taking", "sending", "flushing", "done", "failed", "cancelled"}
  /\ pending \in 0..taken
  /\ inbox \in Seq(Segment \cup {"signal"}) /\ responses \in Nat /\ broken \in BOOLEAN
  /\ got \in Segment \cup {"nothing", "signal", "error"}
  /\ received \in Seq(Segment) /\ tail \in Seq(Segment)
  /\ visible \in Seq(Segment) /\ settled \in Seq(Segment) /\ final \in Seq(Segment)
  /\ outcomes \in [Turn -> Seq({"final", "error"})]

\* stt.py:202, 223: the wait for segments ends only after all audio of the turn
\* was sent or recognised, so the final transcript is billed for every frame.
\* That it has every segment of that audio is another matter: see
\* TrailingSegmentKept.
FinalAfterAllAudio ==
  stage = "final" \/ (streamTurn > 0 /\ outcomes[streamTurn] = <<"final">>) =>
    closed /\ taken = pushed /\ pending = 0

\* voice_pipeline.md:113, stt.py:71, 192: a segment that was shown as finished
\* before a pause is in the final transcript, in its place.  Of segments that
\* were never shown it says nothing.
FinishedSegmentsKept ==
  streamTurn > 0 /\ outcomes[streamTurn] = <<"final">> =>
    Len(settled) <= Len(final) /\ SubSeq(final, 1, Len(settled)) = settled

\* lifecycle.py:602, 615: when the main loop goes on, the client was told either
\* the final transcript of the turn or its failure, once; a loop that is cut off
\* instead had lost the connection while audio was still to be sent.
OneOutcome ==
  /\ main = "loop" =>
       \A t \in Turn :
         t < streamTurn \/ (t = streamTurn /\ closed) => Len(outcomes[t]) = 1
  /\ main = "cut" => broken /\ sender = "cancelled" /\ outcomes[streamTurn] = << >>

\* lifecycle.py:615: the wait for the transcript ends although the server may be
\* silent, slow or gone.
CommitEnds == main = "awaiting" ~> main # "awaiting"

\* agent_lifecycle.md:183: an STT failure fails the turn and not the session.
FailureEndsTurnOnly == main # "cut"

\* voice_pipeline.md:112: an adapter retains the segments before a pause and
\* appends the trailing one before it emits the final transcript; none that the
\* server has sent for the turn is left behind.
TrailingSegmentKept ==
  streamTurn > 0 /\ outcomes[streamTurn] = <<"final">> /\ final # << >> =>
    \A i \in DOMAIN inbox : inbox[i] \notin Segment
=============================================================================
