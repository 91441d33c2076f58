----------------------------- MODULE SpeechOutput -----------------------------
(***************************************************************************)
(* How an answer becomes sound: _speak_text of the room agent              *)
(* (services/realtime-agent/app/lifecycle.py), the TTS providers it reads  *)
(* from (providers/tts.py) and the audio half of LiveKitAgentTransport.    *)
(*                                                                         *)
(* Two tasks meet here.  The response task draws frames out of an async    *)
(* generator and hands each to the transport; the main loop cancels it and *)
(* fades the audio out.  Both take _audio_publish_lock.  A generator runs  *)
(* only while its consumer awaits it, so the provider's code and the       *)
(* publishing of what it yielded are steps of one task.                    *)
(*                                                                         *)
(* A text is its script and its number of chunks, a provider's stream a    *)
(* number of PCM bytes that arrives in pieces.  LiveKit and the provider   *)
(* services are external: they answer, fail or are too slow.               *)
(***************************************************************************)
EXTENDS Naturals, FiniteSets

CONSTANTS
  MaxTurn,       \* bound: answers spoken during the session
  MaxChunks,     \* bound: TTS chunks of one answer
  FrameBytes,    \* _pcm16_frame_bytes: bytes of one 20 ms frame
  MaxBytes,      \* bound: bytes a stream delivers for one chunk
  Pieces,        \* bound: sizes of the pieces in which they arrive
  Setups         \* what create_tts_provider may have returned

ASSUME SpeechAssumption ==
  /\ MaxTurn \in Nat \ {0} /\ MaxChunks \in Nat \ {0} /\ MaxBytes \in Nat
  /\ FrameBytes \in Nat \ {0} /\ FrameBytes % 2 = 0 /\ Pieces \subseteq Nat \ {0}
  /\ Setups \subseteq {"failover", "single", "unavailable"}

Turn == 1..MaxTurn
Chunk == 1..MaxChunks
Voice == {"primary", "fallback"}

VARIABLES
  setup,       \* the session's provider: failover pair, one provider, none
  active,      \* FailoverTTSProvider._active
  events,      \* _fallback_events: the reasons not yet drained
  turn,        \* the answer being spoken, or the last one
  latin,       \* its text is Latin-only
  chunks,      \* the number of its chunks
  task,        \* where _speak_text is suspended
  voice,       \* the provider whose generator is running
  chunk,       \* the chunk being synthesized
  open,        \* its stream is open: Kokoro's asyncio.timeout is armed
  pending,     \* bytes received and not yet in a frame
  received,    \* received[c]: bytes that arrived for chunk c
  started,     \* audio_started of the failover
  cancelling,  \* a cancellation of the task is not yet delivered
  main,        \* the main loop in stop_audio after a barge-in
  lock,        \* holder of _audio_publish_lock
  source,      \* _audio_source exists and its track is published
  ui,          \* last session_state published
  frames,      \* frames[c]: frames of chunk c of the answer handed to LiveKit
  spokenBy,    \* spokenBy[t]: the providers the frames of answer t came from
  switchedIn,  \* history: the turn in which the provider was switched
  told,        \* turns in which tts_provider_changed was published
  asked,       \* turns whose cancellation the user or the client asked for
  silenced,    \* turns interrupted by a barge-in that has faded the audio
  outcome      \* outcome[t]: the terminal report of the turn

providerVars == <<active, events, switchedIn>>
streamVars == <<voice, chunk, open, pending, received, started>>
reportVars == <<told, asked, silenced, outcome>>
heardVars == <<frames, spokenBy>>
textVars == <<setup, turn, latin, chunks>>
transportVars == <<lock, source>>
vars == <<textVars, providerVars, streamVars, task, cancelling, main,
          transportVars, ui, heardVars, reportVars>>

\* Awaits inside the loop over frames, where CancelledError is handled.
InLoop == {"reading", "marking", "waiting", "capturing", "telling"}
Stage == InLoop \cup {"none", "announcing", "failed", "reporting", "fadeWait", "fading"}
Outcome == {"none", "completed", "tts_error", "cancelled", "dropped"}

TypeOK ==
  /\ setup \in Setups /\ active \in Voice /\ voice \in Voice
  /\ events \in SUBSET {"latin_only", "primary_before_audio", "primary_after_audio"}
  /\ turn \in 0..MaxTurn /\ latin \in BOOLEAN /\ chunks \in Chunk /\ chunk \in Chunk
  /\ task \in Stage /\ main \in {"loop", "stopping", "fading"}
  /\ open \in BOOLEAN /\ started \in BOOLEAN /\ cancelling \in BOOLEAN /\ source \in BOOLEAN
  /\ pending \in 0..MaxBytes /\ received \in [Chunk -> 0..MaxBytes]
  /\ lock \in {"free", "speech", "main"} /\ ui \in {"listening", "speaking", "user_speaking"}
  /\ frames \in [Chunk -> Nat] /\ spokenBy \in [Turn -> SUBSET Voice]
  /\ switchedIn \in 0..MaxTurn
  /\ told \in SUBSET Turn /\ asked \in SUBSET Turn /\ silenced \in SUBSET Turn
  /\ outcome \in [Turn -> Outcome]

Init ==
  /\ setup \in Setups /\ active = "primary" /\ events = {} /\ switchedIn = 0
  /\ turn = 0 /\ latin = FALSE /\ chunks = 1 /\ task = "none"
  /\ voice = "primary" /\ chunk = 1 /\ open = FALSE /\ pending = 0
  /\ received = [c \in Chunk |-> 0] /\ started = FALSE
  /\ cancelling = FALSE /\ main = "loop" /\ lock = "free" /\ source = FALSE
  /\ ui = "listening"
  /\ frames = [c \in Chunk |-> 0] /\ spokenBy = [t \in Turn |-> {}]
  /\ told = {} /\ asked = {} /\ silenced = {} /\ outcome = [t \in Turn |-> "none"]

-----------------------------------------------------------------------------
(* The failover.                                                           *)

\* self.primary's generator is running inside the failover.
OnPrimary == setup = "failover" /\ voice = "primary"

CutOver(reason) ==
  /\ active' = "fallback"
  /\ events' = events \cup {reason}
  /\ switchedIn' = turn

\* The generator of provider v starts with the first chunk.
OpenVoice(v) ==
  /\ voice' = v /\ chunk' = 1 /\ open' = TRUE /\ pending' = 0
  /\ received' = [c \in Chunk |-> 0] /\ started' = FALSE
  /\ task' = "reading"

\* _speak_text after the last frame: drain_fallback_events, and the await of
\* tts_provider_changed if there was one.  (Faulty variants, here and below,
\* serve to show that properties can fail.)
DrainOnly(reasons) == events' = {} /\ task' = "reporting"
Drain(reasons) ==
  /\ events' = {}
  /\ task' = IF reasons = {} THEN "reporting" ELSE "telling"

AudioForgotten == FALSE
AudioStarted == started

\* What an exception in the running generator leads to.  After audio the
\* failover ends quietly and the rest of the text is not spoken.
Fail ==
  \/ /\ OnPrimary /\ AudioStarted
     /\ active' = "fallback" /\ switchedIn' = turn
     /\ Drain(events \cup {"primary_after_audio"})
     /\ open' = FALSE
     /\ UNCHANGED <<voice, chunk, pending, received, started>>
  \/ /\ OnPrimary /\ ~AudioStarted
     /\ CutOver("primary_before_audio")
     /\ OpenVoice("fallback")
  \/ /\ ~OnPrimary
     /\ task' = "failed"
     /\ open' = FALSE
     /\ UNCHANGED <<providerVars, voice, chunk, pending, received, started>>

\* The task ends and its locals with it.
TaskEnds ==
  /\ task' = "none"
  /\ voice' = "primary" /\ chunk' = 1 /\ open' = FALSE /\ pending' = 0 /\ started' = FALSE
  /\ UNCHANGED received

-----------------------------------------------------------------------------
(* The response task.                                                      *)

\* The pipeline has published an answer and calls _speak_text.  It speaks
\* one answer at a time (AgentTurn) and takes no new one in a barge-in.
Speak(isLatin, n) ==
  /\ task = "none" /\ main = "loop" /\ turn < MaxTurn
  /\ turn' = turn + 1 /\ latin' = isLatin /\ chunks' = n
  /\ task' = "announcing" /\ received' = [c \in Chunk |-> 0] /\ frames' = [c \in Chunk |-> 0]
  /\ ui' = "speaking"
  /\ UNCHANGED <<setup, providerVars, voice, chunk, open, pending, started, cancelling, main, transportVars,
                 spokenBy, reportVars>>

\* FailoverTTSProvider.synthesize chooses the provider.
Synthesize ==
  /\ task = "announcing" /\ ~cancelling
  /\ \/ /\ setup = "unavailable"
        /\ task' = "failed"
        /\ UNCHANGED <<providerVars, streamVars>>
     \/ /\ setup = "single"
        /\ OpenVoice("primary")
        /\ UNCHANGED providerVars
     \/ /\ setup = "failover" /\ active = "fallback"
        /\ OpenVoice("fallback")
        /\ UNCHANGED providerVars
     \/ /\ setup = "failover" /\ active = "primary" /\ latin
        /\ CutOver("latin_only")
        /\ OpenVoice("fallback")
     \/ /\ setup = "failover" /\ active = "primary" /\ ~latin
        /\ OpenVoice("primary")
        /\ UNCHANGED providerVars
  /\ UNCHANGED <<textVars, cancelling, main, transportVars, ui, heardVars, reportVars>>

\* The first frame of an answer is announced by a playback marker.
Yielded == IF spokenBy[turn] = {} THEN "marking" ELSE "waiting"

\* A piece of the stream arrives.  A whole frame is yielded at once.
Receive(bytes) ==
  /\ task = "reading" /\ open /\ ~cancelling
  /\ pending < FrameBytes
  /\ received[chunk] + bytes <= MaxBytes
  /\ received' = [received EXCEPT ![chunk] = @ + bytes]
  /\ pending' = pending + bytes
  /\ task' = IF pending' >= FrameBytes THEN Yielded ELSE "reading"
  /\ started' = (started \/ pending' >= FrameBytes)
  /\ UNCHANGED <<textVars, providerVars, voice, chunk, open, cancelling, main, transportVars, ui,
                 heardVars, reportVars>>

\* Another whole frame is in the buffer.
TakeFrame ==
  /\ task = "reading" /\ open /\ ~cancelling
  /\ pending >= FrameBytes
  /\ task' = Yielded
  /\ UNCHANGED <<textVars, providerVars, streamVars, cancelling, main, transportVars, ui, heardVars,
                 reportVars>>

MoreChunks == chunk < chunks
NextChunk ==
  \/ /\ MoreChunks
     /\ chunk' = chunk + 1 /\ open' = TRUE /\ pending' = 0 /\ task' = "reading"
     /\ UNCHANGED <<events, voice, received, started>>
  \/ /\ ~MoreChunks
     /\ Drain(events)
     /\ open' = FALSE
     /\ UNCHANGED <<voice, chunk, pending, received, started>>

TailDropped == FALSE
TailLeft == pending > 0

\* The stream ends: half a sample, or no audio at all, is an error; what is
\* left is padded to a last frame, yielded outside the timeout.
StreamEnds ==
  /\ task = "reading" /\ open /\ ~cancelling
  /\ pending < FrameBytes
  /\ \/ /\ pending % 2 = 1 \/ received[chunk] = 0
        /\ Fail
     \/ /\ pending % 2 = 0 /\ TailLeft
        /\ task' = Yielded /\ open' = FALSE /\ started' = TRUE
        /\ UNCHANGED <<providerVars, voice, chunk, pending, received>>
     \/ /\ pending % 2 = 0 /\ ~TailLeft /\ received[chunk] > 0
        /\ NextChunk
        /\ UNCHANGED <<active, switchedIn>>
  /\ UNCHANGED <<textVars, cancelling, main, transportVars, ui, heardVars, reportVars>>

\* An HTTP error, a service error, or a timeout while the provider is awaited.
StreamFails ==
  /\ task = "reading" /\ open /\ ~cancelling
  /\ Fail
  /\ UNCHANGED <<textVars, cancelling, main, transportVars, ui, heardVars, reportVars>>

\* asyncio.timeout cancels the task it was entered in.  While the generator
\* is suspended at its yield that task is in the transport or in a handler,
\* outside the timeout block: nothing turns the cancellation into a TimeoutError.
TimeoutWhilePlaying ==
  /\ open /\ voice = "primary" /\ ~cancelling
  /\ task \notin {"none", "reading"}
  /\ cancelling' = TRUE
  /\ open' = FALSE
  /\ UNCHANGED <<textVars, providerVars, voice, chunk, pending, received, started, task, main,
                 transportVars, ui, heardVars, reportVars>>

Mark ==
  /\ task = "marking" /\ ~cancelling
  /\ task' = "waiting"
  /\ UNCHANGED <<textVars, providerVars, streamVars, cancelling, main, transportVars, ui, heardVars,
                 reportVars>>

\* publish_audio_frame: with the lock, the frame goes to the audio source and
\* the task waits for room in it.
Capture ==
  /\ task = "waiting" /\ lock = "free" /\ ~cancelling
  /\ task' = "capturing" /\ lock' = "speech" /\ source' = TRUE
  /\ frames' = [frames EXCEPT ![chunk] = @ + 1]
  /\ spokenBy' = [spokenBy EXCEPT ![turn] = @ \cup {voice}]
  /\ UNCHANGED <<textVars, providerVars, streamVars, cancelling, main, ui, reportVars>>

\* The generator is resumed after its yield.
Captured ==
  /\ task = "capturing" /\ ~cancelling
  /\ lock' = "free"
  /\ \/ /\ open
        /\ pending' = pending - FrameBytes /\ task' = "reading"
        /\ UNCHANGED <<events, voice, chunk, open, received, started>>
     \/ /\ ~open
        /\ NextChunk
  /\ UNCHANGED <<textVars, active, switchedIn, cancelling, main, source, ui, heardVars, reportVars>>

\* LiveKit refuses the frame.
CaptureFails ==
  /\ task = "capturing" /\ ~cancelling
  /\ task' = "failed" /\ lock' = "free"
  /\ UNCHANGED <<textVars, providerVars, streamVars, cancelling, main, source, ui, heardVars, reportVars>>

Told ==
  /\ task = "telling" /\ ~cancelling
  /\ told' = told \cup {turn}
  /\ task' = "reporting"
  /\ UNCHANGED <<textVars, providerVars, streamVars, cancelling, main, transportVars, ui, heardVars,
                 asked, silenced, outcome>>

\* The terminal record of an answer that was spoken, or of one that failed,
\* and the return to listening.
Report ==
  /\ task \in {"reporting", "failed"} /\ ~cancelling
  /\ outcome' = [outcome EXCEPT ![turn] = IF task = "reporting" THEN "completed" ELSE "tts_error"]
  /\ TaskEnds
  /\ ui' = "listening"
  /\ UNCHANGED <<textVars, providerVars, cancelling, main, transportVars, heardVars,
                 told, asked, silenced>>

-----------------------------------------------------------------------------
(* Cancellation.                                                           *)

KeptLocked == lock
Released == IF lock = "speech" THEN "free" ELSE lock

\* CancelledError in the loop over frames: its handler stops the audio.  The
\* failover passes the error on.  A generator suspended at its yield stays open.
CancelledInLoop ==
  /\ cancelling /\ task \in InLoop
  /\ task' = "fadeWait"
  /\ cancelling' = FALSE
  /\ open' = (open /\ task # "reading")
  /\ lock' = Released
  /\ UNCHANGED <<textVars, providerVars, voice, chunk, pending, received, started, main, source, ui,
                 heardVars, reportVars>>

\* CancelledError elsewhere ends the task without a report.
CancelledOutside ==
  /\ cancelling /\ task \in Stage \ (InLoop \cup {"none"})
  /\ TaskEnds
  /\ cancelling' = FALSE
  /\ lock' = Released
  /\ outcome' = [outcome EXCEPT ![turn] = "dropped"]
  /\ UNCHANGED <<textVars, providerVars, main, source, ui, heardVars, told, asked, silenced>>

\* The handler: stop_audio with the lock, then the record "cancelled".
FadeOut ==
  /\ task = "fadeWait" /\ lock = "free" /\ ~cancelling
  /\ task' = "fading"
  /\ lock' = IF source THEN "speech" ELSE "free"
  /\ UNCHANGED <<textVars, providerVars, streamVars, cancelling, main, source, ui, heardVars, reportVars>>

ReportCancelled ==
  /\ task = "fading" /\ ~cancelling
  /\ TaskEnds
  /\ lock' = Released
  /\ source' \in {source, FALSE}
  /\ outcome' = [outcome EXCEPT ![turn] = "cancelled"]
  /\ UNCHANGED <<textVars, providerVars, cancelling, main, ui, heardVars, told, asked, silenced>>

CancelForgotten == FALSE
CancelRequested == task # "none"

\* speech_start while an answer is being spoken: cancel_current_turn, then
\* stop_audio from the main loop.
BargeIn ==
  /\ main = "loop"
  /\ task # "none" \/ ui = "speaking"
  /\ cancelling' = CancelRequested
  /\ asked' = IF task # "none" THEN asked \cup {turn} ELSE asked
  /\ main' = "stopping"
  /\ UNCHANGED <<textVars, providerVars, streamVars, task, transportVars, ui, heardVars, told, silenced,
                 outcome>>

StopAudio ==
  /\ main = "stopping" /\ lock = "free"
  /\ main' = "fading"
  /\ lock' = IF source THEN "main" ELSE "free"
  /\ UNCHANGED <<textVars, providerVars, streamVars, task, cancelling, source, ui, heardVars, reportVars>>

AudioStopped ==
  /\ main = "fading"
  /\ main' = "loop"
  /\ lock' = IF lock = "main" THEN "free" ELSE lock
  /\ source' \in {source, FALSE}
  /\ silenced' = silenced \cup {turn}
  /\ ui' = "user_speaking"
  /\ UNCHANGED <<textVars, providerVars, streamVars, task, cancelling, heardVars, told, asked, outcome>>

\* client_cancel_turn: the same request, without stop_audio.
ClientCancel ==
  /\ main = "loop" /\ task # "none"
  /\ cancelling' = TRUE
  /\ asked' = asked \cup {turn}
  /\ ui' = "listening"
  /\ UNCHANGED <<textVars, providerVars, streamVars, task, main, transportVars, heardVars, told, silenced,
                 outcome>>

-----------------------------------------------------------------------------
SpeechTask ==
  \/ Synthesize \/ TakeFrame \/ StreamEnds \/ StreamFails \/ Mark \/ Capture \/ Captured
  \/ CaptureFails \/ Told \/ Report \/ CancelledInLoop \/ CancelledOutside \/ FadeOut \/ ReportCancelled
  \/ \E bytes \in Pieces : Receive(bytes)
MainLoop == StopAudio \/ AudioStopped

Next ==
  \/ SpeechTask \/ MainLoop \/ TimeoutWhilePlaying \/ BargeIn \/ ClientCancel
  \/ \E isLatin \in BOOLEAN, n \in Chunk : Speak(isLatin, n)

\* Streams end by their timeouts and LiveKit takes or refuses a frame, so a
\* task that can go on does; nobody has to speak or to interrupt.
Spec == Init /\ [][Next]_vars /\ WF_vars(SpeechTask) /\ WF_vars(MainLoop)

-----------------------------------------------------------------------------
(* Properties.                                                             *)

\* What the user hears of one answer comes from one provider, so nothing that
\* was heard is said again (docs/architecture/voice_pipeline.md, 8.5); once
\* the session has switched, later answers never come from the primary.
OneVoice ==
  \A t \in Turn :
    /\ Cardinality(spokenBy[t]) <= 1
    /\ (switchedIn # 0 /\ t > switchedIn) => "primary" \notin spokenBy[t]

Ceil(n, d) == (n + d - 1) \div d

\* An answer reported as completed was played to its last byte, every chunk in
\* whole frames, unless the primary broke off in the middle of it.
SpokenWhole ==
  (turn # 0 /\ task = "none" /\ outcome[turn] = "completed"
     /\ ~(switchedIn = turn /\ spokenBy[turn] = {"primary"}))
  => \A c \in 1..chunks : frames[c] = Ceil(received[c], FrameBytes) /\ received[c] > 0

\* After a barge-in has faded the audio out no frame of the interrupted answer
\* follows, whichever await the response task was in and whoever held the lock.
SilenceAfterStop == [][(turn \in silenced /\ turn' = turn) => frames' = frames]_vars

\* The client hears of a switch once at most, and has heard of it when the
\* answer in which it happened is reported as completed.
SwitchTold ==
  /\ Cardinality(told) <= 1
  /\ (switchedIn # 0 /\ outcome[switchedIn] = "completed") => switchedIn \in told

\* Speech comes to an end: neither a silent provider nor the lock that the two
\* tasks share can hold _speak_text for ever.
SpeechEnds == (task # "none") ~> (task = "none")

\* A cancelled answer was cancelled by somebody: the time limit of a provider
\* is a failure of the provider (tts.py turns it into TTSProviderUnavailable).
CancelledOnRequest == \A t \in Turn : outcome[t] = "cancelled" => t \in asked

\* docs/architecture/voice_pipeline.md:221: after a failure in the middle of an answer
\* the next chunk uses the fallback, so an answer reported as completed was heard of
\* every one of its chunks.
NextChunkFromFallback ==
  (turn # 0 /\ task = "none" /\ outcome[turn] = "completed") => \A c \in 1..chunks : frames[c] > 0

=============================================================================
