------------------------------ MODULE Endpointing ------------------------------
(***************************************************************************)
(* EndpointingStateMachine.process_frame of                                *)
(* services/realtime-agent/app/audio_pipeline.py: how a stream of audio    *)
(* frames becomes utterances, and which frames each utterance's STT stream *)
(* is given.  Time is counted in frames of one length; a frame is its      *)
(* number, and what the VAD says of it is one of three levels, because the *)
(* start threshold is the higher one:                                      *)
(*   "loud"   start_threshold <= p                                         *)
(*   "soft"   end_threshold <= p < start_threshold                         *)
(*   "quiet"  p < end_threshold                                            *)
(* The agent never passes force_endpoint.                                  *)
(***************************************************************************)
EXTENDS Naturals, Sequences

CONSTANTS
  MinSpeech,          \* min_confirmed_speech_ms
  PreBuffer,          \* pre_speech_buffer_ms
  EndpointSilence,    \* endpoint_silence_ms
  Continuation,       \* continuation_silence_ms
  Coalescing,         \* coalescing_silence_ms
  Forced,             \* forced_endpoint_ms
  MaxFrame            \* bound: frames of the session

\* The shape of the configured defaults.
ASSUME ThresholdAssumption ==
  /\ {MinSpeech, PreBuffer, EndpointSilence, Continuation, Coalescing,
      Forced, MaxFrame} \subseteq Nat
  /\ 2 <= MinSpeech /\ MinSpeech <= PreBuffer /\ MinSpeech < Forced
  /\ 0 < EndpointSilence /\ EndpointSilence <= Coalescing

VARIABLES
  state,          \* EndpointState
  turn,           \* current_turn_id
  lastTurn,       \* ids handed out by TurnIdFactory
  elapsed,        \* elapsed_ms: the number of the last frame
  candidate,      \* _candidate_ms
  speech,         \* _speech_ms
  silence,        \* _silence_ms
  turnAudio,      \* _turn_audio_ms
  preSpeech,      \* _pre_speech
  sent,           \* what the STT stream of the turn was given
  event,          \* what process_frame returned for the last frame
  onset,          \* history: the frame that made the last candidate
  voiced,         \* history: the last frame that was not quiet
  suggested,      \* history: the last frame came with a continuation marker
  cut,            \* history: the last frame of the last committed turn
  opened          \* history: the turn id of the last speech_start

vars == <<state, turn, lastTurn, elapsed, candidate, speech, silence, turnAudio,
          preSpeech, sent, event, onset, voiced, suggested, cut, opened>>

Level == {"loud", "soft", "quiet"}

TypeOK ==
  /\ state \in {"idle", "speech_candidate", "in_speech", "endpoint_candidate"}
  /\ turn \in Nat
  /\ lastTurn \in Nat
  /\ elapsed \in 0..MaxFrame
  /\ candidate \in 0..MinSpeech
  /\ speech \in 0..Forced
  /\ silence \in Nat
  /\ turnAudio \in Nat
  /\ preSpeech \in Seq(Nat)
  /\ sent \in Seq(Nat)
  /\ event \in {"none", "speech_start", "silence", "forced_endpoint"}
  /\ onset \in Nat /\ voiced \in Nat /\ cut \in Nat /\ opened \in Nat
  /\ suggested \in BOOLEAN

Init ==
  /\ state = "idle"
  /\ turn = 0
  /\ lastTurn = 0
  /\ elapsed = 0
  /\ candidate = 0
  /\ speech = 0
  /\ silence = 0
  /\ turnAudio = 0
  /\ preSpeech = <<>>
  /\ sent = <<>>
  /\ event = "none"
  /\ onset = 0
  /\ voiced = 0
  /\ suggested = FALSE
  /\ cut = 0
  /\ opened = 0

------------------------------------------------------------------------------
(* Helpers *)

InTurn == state \in {"in_speech", "endpoint_candidate"}

\* TurnIdFactory.next.  (Faulty variants, here and below, serve to show that
\* properties can fail.)
SameTurnId == IF lastTurn = 0 THEN 1 ELSE lastTurn
NextTurnId == lastTurn + 1

RememberAll(f) == Append(preSpeech, f)

\* _remember_pre_speech.
Remember(f) ==
  IF Len(preSpeech) < PreBuffer THEN Append(preSpeech, f)
                                ELSE Append(Tail(preSpeech), f)

RequiredSum(marker) == IF marker THEN Coalescing + Continuation ELSE Coalescing

\* The silence a commit takes.
Required(marker) ==
  IF marker /\ Continuation > Coalescing THEN Continuation ELSE Coalescing

\* Where silence leads.
StateAfterSilence(s) ==
  IF state = "in_speech" /\ s >= EndpointSilence THEN "endpoint_candidate" ELSE state

\* _reset_turn.  The pre-speech buffer is not part of it.
ResetTurn ==
  /\ state' = "idle"
  /\ turn' = 0
  /\ candidate' = 0
  /\ speech' = 0
  /\ silence' = 0
  /\ turnAudio' = 0
  /\ sent' = <<>>

\* Every frame is counted and remembered first.
Arrives(level, marker) ==
  /\ elapsed < MaxFrame
  /\ elapsed' = elapsed + 1
  /\ voiced' = IF level = "quiet" THEN voiced ELSE elapsed + 1
  /\ suggested' = marker

------------------------------------------------------------------------------
(* process_frame, by state *)

Silent(level, marker) ==
  /\ state = "idle" /\ level # "loud"
  /\ Arrives(level, marker)
  /\ preSpeech' = Remember(elapsed + 1)
  /\ event' = "none"
  /\ UNCHANGED <<state, turn, lastTurn, candidate, speech, silence, turnAudio,
                 sent, onset, cut, opened>>

BecomeCandidate(level, marker) ==
  /\ state = "idle" /\ level = "loud"
  /\ Arrives(level, marker)
  /\ preSpeech' = Remember(elapsed + 1)
  /\ event' = "none"
  /\ state' = "speech_candidate"
  /\ turn' = NextTurnId
  /\ lastTurn' = NextTurnId
  /\ candidate' = 1
  /\ onset' = elapsed + 1
  /\ UNCHANGED <<speech, silence, turnAudio, sent, cut, opened>>

FalseStart(level, marker) ==
  /\ state = "speech_candidate" /\ level # "loud"
  /\ Arrives(level, marker)
  /\ preSpeech' = Remember(elapsed + 1)
  /\ event' = "none"
  /\ ResetTurn
  /\ UNCHANGED <<lastTurn, onset, cut, opened>>

StillCandidate(level, marker) ==
  /\ state = "speech_candidate" /\ level = "loud"
  /\ candidate + 1 < MinSpeech
  /\ Arrives(level, marker)
  /\ preSpeech' = Remember(elapsed + 1)
  /\ event' = "none"
  /\ candidate' = candidate + 1
  /\ UNCHANGED <<state, turn, lastTurn, speech, silence, turnAudio, sent, onset, cut, opened>>

FlushBefore == sent' = preSpeech /\ preSpeech' = <<elapsed + 1>>

\* _flush_pre_speech: the buffer, this frame included, goes to STT.
Flush == sent' = Remember(elapsed + 1) /\ preSpeech' = <<>>

SpeechStart(level, marker) ==
  /\ state = "speech_candidate" /\ level = "loud"
  /\ candidate + 1 >= MinSpeech
  /\ Arrives(level, marker)
  /\ Flush
  /\ event' = "speech_start"
  /\ state' = "in_speech"
  /\ candidate' = candidate + 1
  /\ speech' = candidate + 1
  /\ silence' = 0
  /\ opened' = turn
  /\ UNCHANGED <<turn, lastTurn, turnAudio, onset, cut>>

SilenceKept(level) == IF level = "quiet" THEN silence + 1 ELSE silence

\* A frame of an open turn: what the counters become ...
SpeechAfter(level) == IF level = "quiet" THEN speech ELSE speech + 1
SilenceAfter(level) == IF level = "quiet" THEN silence + 1 ELSE 0
StateAfter(level) ==
  IF level = "quiet" THEN StateAfterSilence(silence + 1) ELSE "in_speech"

\* ... and what they decide.
ForcedNow(level) == SpeechAfter(level) >= Forced
SilentNow(level, marker) ==
  /\ StateAfter(level) = "endpoint_candidate"
  /\ SilenceAfter(level) >= Required(marker)

Continue(level, marker) ==
  /\ InTurn
  /\ ~ForcedNow(level) /\ ~SilentNow(level, marker)
  /\ Arrives(level, marker)
  /\ preSpeech' = Remember(elapsed + 1)
  /\ event' = "none"
  /\ state' = StateAfter(level)
  /\ speech' = SpeechAfter(level)
  /\ silence' = SilenceAfter(level)
  /\ turnAudio' = turnAudio + 1
  /\ sent' = Append(sent, elapsed + 1)
  /\ UNCHANGED <<turn, lastTurn, candidate, onset, cut, opened>>

\* _commit; the frame itself still belongs to the turn.
Commit(level, marker) ==
  /\ InTurn
  /\ ForcedNow(level) \/ SilentNow(level, marker)
  /\ Arrives(level, marker)
  /\ preSpeech' = Remember(elapsed + 1)
  /\ event' = IF ForcedNow(level) THEN "forced_endpoint" ELSE "silence"
  /\ ResetTurn
  /\ cut' = elapsed + 1
  /\ UNCHANGED <<lastTurn, onset, opened>>

ProcessFrame(level, marker) ==
  \/ Silent(level, marker) \/ BecomeCandidate(level, marker)
  \/ FalseStart(level, marker) \/ StillCandidate(level, marker)
  \/ SpeechStart(level, marker) \/ Continue(level, marker) \/ Commit(level, marker)

Next == \E level \in Level, marker \in BOOLEAN : ProcessFrame(level, marker)

Spec == Init /\ [][Next]_vars

------------------------------------------------------------------------------
(* Properties *)

\* The STT stream of an open turn has every frame once and in order, from the
\* frame that made the VAD suspect speech, or a little before, up to the last.
AudioUnbroken ==
  InTurn => /\ Len(sent) > 0
            /\ sent[1] <= onset
            /\ sent[Len(sent)] = elapsed
            /\ \A i \in 1..(Len(sent) - 1) : sent[i + 1] = sent[i] + 1

\* reset_turn keeps the pre-speech buffer, so a turn can begin with the last
\* frames of the turn before it; by no more than what the buffer holds beyond
\* the confirmation window (one 30 ms frame by default).
ReplayBounded == InTurn => cut < sent[1] + (PreBuffer - MinSpeech)

\* A pause shorter than the coalescing window never ends a turn, and after a
\* continuation marker a pause shorter than the continuation window neither
\* (docs/architecture/voice_pipeline.md 7.2).
PauseKeepsTurn ==
  event = "silence" => /\ elapsed - voiced >= Coalescing
                       /\ suggested => elapsed - voiced >= Continuation

\* A user who has stopped talking is not kept waiting longer than the longer
\* of the two windows.
StopEndsTurn ==
  InTurn => elapsed - voiced < Continuation \/ elapsed - voiced < Coalescing

\* Endpointing implements the utterance source of the turn pipeline.
OpenUtterance == IF InTurn THEN turn ELSE 0
Source == INSTANCE UtteranceSource
  WITH utterance <- OpenUtterance, lastUtterance <- opened
ImplementsSource == Source!Spec

\* "At 9 s, commit the best available transcript and continue"
\* (docs/architecture/endpointing.md): a turn is no longer than the forced
\* endpoint timeout.
ForcedEndpointCapsTurn == turnAudio <= Forced

==============================================================================
