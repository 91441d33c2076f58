-------------------------- MODULE SpeechOutputProofs --------------------------
(***************************************************************************)
(* Proofs about SpeechOutput for any number of answers and chunks, any     *)
(* frame size and any pieces: whose voice is heard, that a completed       *)
(* answer was played to its last byte, what the client is told of a        *)
(* switch, and the silence after a barge-in.                               *)
(***************************************************************************)
EXTENDS SpeechOutput, FiniteSetTheorems, TLAPS

\* A frame has been yielded and is on its way to LiveKit.
Playing == {"marking", "waiting", "capturing"}
Speaking == Playing \cup {"reading"}

\* Turns are numbered in order; the one at work has no outcome yet.
Turns ==
  /\ task # "none" \/ main # "loop" \/ ui = "speaking" => turn \in Turn
  /\ switchedIn <= turn
  /\ \A t \in silenced : t <= turn
  /\ \A t \in Turn : t > turn => spokenBy[t] = {} /\ outcome[t] = "none"
  /\ task # "none" => outcome[turn] = "none"

\* A whole frame is in the buffer while one is played from an open stream.
Buffered ==
  /\ pending <= received[chunk] /\ (task = "none" => pending = 0)
  /\ task \in Playing /\ open => pending >= FrameBytes

\* The primary is at work only before the switch.
Switched ==
  /\ switchedIn = 0 => active = "primary" /\ events = {} /\ told = {}
  /\ switchedIn # 0 => active = "fallback" /\ setup = "failover"
  /\ task = "announcing" => switchedIn < turn
  /\ task \in Speaking /\ OnPrimary => switchedIn = 0

\* Nothing has been heard before the first frame, and then only of one voice.
Voices ==
  /\ task = "announcing" \/ (task = "reading" /\ ~started) => spokenBy[turn] = {}
  /\ task \in Playing \/ (task = "reading" /\ pending >= FrameBytes) => started
  /\ task \in Speaking => spokenBy[turn] \subseteq {voice}
  /\ \A t \in Turn :
       /\ \A v, w \in spokenBy[t] : v = w
       /\ switchedIn # 0 /\ t > switchedIn => "primary" \notin spokenBy[t]

\* The event of the switch is drained once, at the latest when its turn ends.
Events ==
  /\ told # {} \/ task = "telling" => events = {} /\ switchedIn # 0
  /\ task = "telling" => told = {}
  /\ \A t, u \in told : t = u
  /\ task \in Speaking /\ switchedIn = turn => events # {}
  /\ task = "reporting" /\ switchedIn = turn => turn \in told
  /\ switchedIn # 0 /\ outcome[switchedIn] = "completed" => switchedIn \in told

\* From the barge-in on the task is over or on its way out.
Silence ==
  main # "loop" \/ turn \in silenced =>
    task = "none" \/ cancelling \/ task \in {"fadeWait", "fading"}

IInv ==
  /\ TypeOK
  /\ Turns
  /\ Buffered
  /\ Switched
  /\ Voices
  /\ Events
  /\ Silence

------------------------------------------------------------------------------
(* Parts of the steps *)

LEMMA FailCases ==
  ASSUME Fail
  PROVE  \/ /\ OnPrimary /\ started /\ active' = "fallback" /\ switchedIn' = turn
            /\ events' = {} /\ task' = "telling" /\ open' = FALSE
            /\ UNCHANGED <<voice, chunk, pending, received, started>>
         \/ /\ OnPrimary /\ ~started /\ active' = "fallback" /\ switchedIn' = turn
            /\ events' = events \cup {"primary_before_audio"}
            /\ voice' = "fallback" /\ chunk' = 1 /\ open' = TRUE /\ pending' = 0
            /\ received' = [c \in Chunk |-> 0] /\ started' = FALSE /\ task' = "reading"
         \/ /\ ~OnPrimary /\ task' = "failed" /\ open' = FALSE
            /\ UNCHANGED <<active, events, switchedIn, voice, chunk, pending, received, started>>
BY DEF Fail, AudioStarted, Drain, CutOver, OpenVoice, providerVars

LEMMA NextChunkCases ==
  ASSUME NextChunk
  PROVE  \/ /\ chunk < chunks /\ chunk' = chunk + 1 /\ open' = TRUE /\ pending' = 0
            /\ task' = "reading" /\ UNCHANGED <<events, voice, received, started>>
         \/ /\ ~(chunk < chunks) /\ events' = {} /\ open' = FALSE
            /\ task' = IF events = {} THEN "reporting" ELSE "telling"
            /\ UNCHANGED <<voice, chunk, pending, received, started>>
BY DEF NextChunk, MoreChunks, Drain

\* The variables that the end of a stream leaves alone.
Aside == <<setup, turn, latin, chunks, cancelling, main, source, ui, spokenBy, told, asked,
           silenced, outcome, frames>>

LEMMA FailKeeps ==
  ASSUME IInv, Fail, task = "reading", ~cancelling, lock' = lock, UNCHANGED Aside
  PROVE  IInv'
<1> USE SpeechAssumption DEF Aside
<1>0. TypeOK /\ Turns /\ Buffered /\ Switched /\ Voices /\ Events /\ Silence
  BY DEF IInv
<1>a. turn \in Turn /\ turn \in 0..MaxTurn /\ turn # 0 /\ 1 \in Chunk /\ 0 \in 0..MaxBytes
  BY <1>0 DEF Turns, Turn, Chunk
<1>b. [c \in Chunk |-> 0] \in [Chunk -> 0..MaxBytes] /\ [c \in Chunk |-> 0][1] = 0
  BY <1>a
<1>1. CASE /\ OnPrimary /\ started /\ active' = "fallback" /\ switchedIn' = turn
           /\ events' = {} /\ task' = "telling" /\ open' = FALSE
           /\ UNCHANGED <<voice, chunk, pending, received, started>>
  <2>1. switchedIn = 0 /\ setup = "failover" /\ told = {}
    BY <1>0, <1>1 DEF Switched, Speaking, OnPrimary
  <2>2. TypeOK'
    BY <1>0, <1>1, <1>a DEF TypeOK, Stage, InLoop, Voice
  <2>3. Turns'
    BY <1>0, <1>1, <1>a DEF TypeOK, Turns
  <2>4. Buffered' /\ Silence'
    BY <1>0, <1>1 DEF Buffered, Playing, Silence
  <2>5. Switched'
    BY <1>1, <1>a, <2>1 DEF Switched, Playing, Speaking
  <2>6. Voices'
    BY <1>0, <1>1, <1>a DEF TypeOK, Turns, Voices, Playing, Speaking, Turn
  <2>7. Events'
    BY <1>0, <1>1, <1>a, <2>1 DEF Turns, Events, Playing, Speaking
  <2>8. QED
    BY <2>2, <2>3, <2>4, <2>5, <2>6, <2>7 DEF IInv
<1>2. CASE /\ OnPrimary /\ ~started /\ active' = "fallback" /\ switchedIn' = turn
           /\ events' = events \cup {"primary_before_audio"}
           /\ voice' = "fallback" /\ chunk' = 1 /\ open' = TRUE /\ pending' = 0
           /\ received' = [c \in Chunk |-> 0] /\ started' = FALSE /\ task' = "reading"
  <2>1. switchedIn = 0 /\ setup = "failover" /\ told = {} /\ spokenBy[turn] = {}
    BY <1>0, <1>2 DEF Switched, Speaking, OnPrimary, Voices
  <2>2. TypeOK'
    BY <1>0, <1>2, <1>a, <1>b DEF TypeOK, Stage, InLoop, Voice
  <2>3. Turns'
    BY <1>0, <1>2, <1>a DEF TypeOK, Turns
  <2>4. Buffered'
    BY <1>2, <1>b DEF Buffered, Playing
  <2>5. Switched' /\ Silence'
    BY <1>0, <1>2, <1>a, <2>1 DEF Switched, OnPrimary, Silence
  <2>6. Voices'
    BY <1>0, <1>2, <1>a, <2>1 DEF TypeOK, Turns, Voices, Playing, Speaking, Turn
  <2>7. Events'
    BY <1>0, <1>2, <1>a, <2>1 DEF Turns, Events, Playing, Speaking
  <2>8. QED
    BY <2>2, <2>3, <2>4, <2>5, <2>6, <2>7 DEF IInv
<1>3. CASE /\ ~OnPrimary /\ task' = "failed" /\ open' = FALSE
           /\ UNCHANGED <<active, events, switchedIn, voice, chunk, pending, received, started>>
  <2>1. TypeOK'
    BY <1>0, <1>3 DEF TypeOK, Stage, InLoop
  <2>2. Turns'
    BY <1>0, <1>3, <1>a DEF Turns
  <2>3. Buffered' /\ Silence'
    BY <1>0, <1>3 DEF Buffered, Playing, Silence
  <2>4. Switched'
    BY <1>0, <1>3 DEF Switched, Playing, Speaking
  <2>5. Voices'
    BY <1>0, <1>3 DEF Voices, Playing, Speaking
  <2>6. Events'
    BY <1>0, <1>3 DEF Events, Playing, Speaking
  <2>7. QED
    BY <2>1, <2>2, <2>3, <2>4, <2>5, <2>6 DEF IInv
<1>4. QED
  BY <1>1, <1>2, <1>3, FailCases

LEMMA NextChunkKeeps ==
  ASSUME IInv, NextChunk, task \in {"reading", "capturing"}, ~cancelling,
         lock' \in {lock, "free"}, UNCHANGED Aside, UNCHANGED <<active, switchedIn>>
  PROVE  IInv'
<1> USE SpeechAssumption DEF Aside
<1>0. TypeOK /\ Turns /\ Buffered /\ Switched /\ Voices /\ Events /\ Silence
  BY DEF IInv
<1>a. turn \in Turn /\ turn # 0
  BY <1>0 DEF Turns, Turn
<1>1. CASE /\ chunk < chunks /\ chunk' = chunk + 1 /\ open' = TRUE /\ pending' = 0
           /\ task' = "reading" /\ UNCHANGED <<events, voice, received, started>>
  <2>1. chunk' \in Chunk
    BY <1>0, <1>1 DEF TypeOK, Chunk
  <2>2. TypeOK'
    BY <1>0, <1>1, <2>1 DEF TypeOK, Stage, InLoop
  <2>3. Turns'
    BY <1>0, <1>1, <1>a DEF Turns
  <2>4. Buffered'
    BY <1>0, <1>1, <2>1 DEF TypeOK, Buffered, Playing
  <2>5. Switched' /\ Silence'
    BY <1>0, <1>1 DEF Switched, OnPrimary, Playing, Speaking, Silence
  <2>6. Voices'
    BY <1>0, <1>1 DEF Voices, Playing, Speaking
  <2>7. Events'
    BY <1>0, <1>1 DEF Events, Playing, Speaking
  <2>8. QED
    BY <2>2, <2>3, <2>4, <2>5, <2>6, <2>7 DEF IInv
<1>2. CASE /\ events' = {} /\ open' = FALSE
           /\ task' = IF events = {} THEN "reporting" ELSE "telling"
           /\ UNCHANGED <<voice, chunk, pending, received, started>>
  <2>1. TypeOK'
    BY <1>0, <1>2 DEF TypeOK, Stage, InLoop
  <2>2. Turns'
    BY <1>0, <1>2, <1>a DEF Turns
  <2>3. Buffered' /\ Silence'
    BY <1>0, <1>2 DEF Buffered, Playing, Silence
  <2>4. Switched'
    BY <1>0, <1>2 DEF Switched, Playing, Speaking
  <2>5. Voices'
    BY <1>0, <1>2 DEF Voices, Playing, Speaking
  <2>6. Events'
    BY <1>0, <1>2 DEF Events, Switched, Playing, Speaking
  <2>7. QED
    BY <2>1, <2>2, <2>3, <2>4, <2>5, <2>6 DEF IInv
<1>3. QED
  BY <1>1, <1>2, NextChunkCases

LEMMA InitInvariant == Init => IInv
<1> SUFFICES ASSUME Init PROVE IInv
  OBVIOUS
<1>1. TypeOK
  <2>1. received \in [Chunk -> 0..MaxBytes] /\ frames \in [Chunk -> Nat]
        /\ spokenBy \in [Turn -> SUBSET Voice] /\ outcome \in [Turn -> Outcome]
    BY SpeechAssumption DEF Init, Outcome
  <2>2. open \in BOOLEAN /\ started \in BOOLEAN /\ cancelling \in BOOLEAN /\ source \in BOOLEAN
        /\ latin \in BOOLEAN
    BY DEF Init
  <2>3. turn \in 0..MaxTurn /\ switchedIn \in 0..MaxTurn /\ pending \in 0..MaxBytes
        /\ chunk \in Chunk /\ chunks \in Chunk
    BY SpeechAssumption DEF Init, Chunk
  <2>4. QED
    BY <2>1, <2>2, <2>3 DEF Init, TypeOK, Voice, Stage, InLoop
<1>2. Turns /\ Buffered /\ Switched /\ Voices /\ Events /\ Silence
  BY SpeechAssumption DEF Init, Turns, Buffered, Switched, Voices, Events, Silence, Playing,
     Speaking, Turn, Chunk
<1>3. QED
  BY <1>1, <1>2 DEF IInv

LEMMA SynthesizeKeeps ==
  ASSUME IInv, Synthesize
  PROVE  IInv'
<1> USE SpeechAssumption DEF Aside
<1>0. TypeOK /\ Turns /\ Buffered /\ Switched /\ Voices /\ Events /\ Silence
  BY DEF IInv
<1>a. task = "announcing" /\ ~cancelling /\ lock' = lock /\ UNCHANGED Aside
  BY DEF Synthesize, textVars, transportVars, heardVars, reportVars
<1>b. /\ turn \in Turn /\ turn \in 0..MaxTurn /\ turn # 0 /\ 1 \in Chunk /\ 0 \in 0..MaxBytes
      /\ switchedIn < turn /\ spokenBy[turn] = {}
  BY <1>0, <1>a DEF Turns, Turn, Chunk, Switched, Voices
<1>c. [c \in Chunk |-> 0] \in [Chunk -> 0..MaxBytes] /\ [c \in Chunk |-> 0][1] = 0
  BY <1>b
<1>1. CASE setup = "unavailable"
  <2>1. /\ task' = "failed"
        /\ UNCHANGED <<active, events, switchedIn, voice, chunk, open, pending, received, started>>
    BY <1>1 DEF Synthesize, providerVars, streamVars
  <2>2. TypeOK' /\ Turns'
    BY <1>0, <1>a, <1>b, <2>1 DEF TypeOK, Stage, InLoop, Turns
  <2>3. Buffered' /\ Silence' /\ Switched'
    BY <1>0, <1>a, <2>1 DEF Buffered, Playing, Speaking, Silence, Switched
  <2>4. Voices' /\ Events'
    BY <1>0, <1>a, <2>1 DEF Voices, Events, Playing, Speaking
  <2>5. QED
    BY <2>2, <2>3, <2>4 DEF IInv
<1>2. CASE setup # "unavailable"
  <2>1. /\ \/ voice' = "primary" /\ UNCHANGED <<active, events, switchedIn>>
              /\ (setup = "failover" => active = "primary")
           \/ voice' = "fallback" /\ UNCHANGED <<active, events, switchedIn>>
           \/ /\ voice' = "fallback" /\ active = "primary" /\ active' = "fallback"
              /\ events' = events \cup {"latin_only"} /\ switchedIn' = turn /\ setup = "failover"
        /\ chunk' = 1 /\ open' = TRUE /\ pending' = 0 /\ received' = [c \in Chunk |-> 0]
        /\ started' = FALSE /\ task' = "reading"
    BY <1>2 DEF Synthesize, OpenVoice, CutOver, providerVars
  <2>2. active = "primary" => switchedIn = 0
    BY <1>0 DEF Switched
  <2>3. /\ active' \in Voice /\ voice' \in Voice /\ switchedIn' \in 0..MaxTurn
        /\ events' \in SUBSET {"latin_only", "primary_before_audio", "primary_after_audio"}
    BY <1>0, <1>b, <2>1 DEF TypeOK, Voice
  <2>4. TypeOK'
    BY <1>0, <1>b, <1>c, <2>1, <2>3, <1>a DEF TypeOK, Stage, InLoop
  <2>5. Turns'
    BY <1>0, <1>a, <1>b, <2>1 DEF TypeOK, Turns
  <2>6. Buffered'
    BY <1>c, <2>1 DEF Buffered, Playing
  <2>7. Switched'
    BY <1>0, <1>a, <1>b, <2>1, <2>2 DEF Switched, OnPrimary
  <2>8. Voices' /\ Silence'
    BY <1>0, <1>a, <1>b, <2>1 DEF TypeOK, Turns, Voices, Playing, Speaking, Silence, Turn
  <2>9. Events'
    <3>1. CASE UNCHANGED <<active, events, switchedIn>>
      BY <1>0, <1>a, <1>b, <2>1, <3>1 DEF Events
    <3>2. CASE active = "primary" /\ switchedIn' = turn /\ events' = events \cup {"latin_only"}
      <4>1. told = {} /\ outcome[turn] = "none"
        BY <1>0, <1>a, <2>2, <3>2 DEF Switched, Turns
      <4>2. QED
        BY <1>a, <2>1, <3>2, <4>1 DEF Events
    <3>3. QED
      BY <2>1, <3>1, <3>2
  <2>10. QED
    BY <2>4, <2>5, <2>6, <2>7, <2>8, <2>9 DEF IInv
<1>3. QED
  BY <1>1, <1>2

LEMMA ReceiveKeeps ==
  ASSUME IInv, NEW bytes \in Pieces, Receive(bytes)
  PROVE  IInv'
<1> USE SpeechAssumption DEF textVars, providerVars, streamVars, reportVars, heardVars, transportVars
<1>0. TypeOK /\ Turns /\ Buffered /\ Switched /\ Voices /\ Events /\ Silence
  BY DEF IInv
<1>1. TypeOK'
  BY <1>0 DEF Receive, Yielded, TypeOK, Stage, InLoop, Buffered, Turn
<1>2. Turns'
  BY <1>0 DEF Receive, Turns
<1>3. Buffered'
  BY <1>0 DEF Receive, Yielded, TypeOK, Buffered
<1>4. Switched'
  BY <1>0 DEF Receive, Yielded, Switched, OnPrimary, Speaking
<1>5. Voices'
  BY <1>0 DEF Receive, Yielded, Voices, Speaking
<1>6. Events'
  BY <1>0 DEF Receive, Yielded, Events, Speaking
<1>7. Silence'
  BY <1>0 DEF Receive, Silence
<1>8. QED
  BY <1>1, <1>2, <1>3, <1>4, <1>5, <1>6, <1>7 DEF IInv

LEMMA TakeFrameKeeps ==
  ASSUME IInv, TakeFrame
  PROVE  IInv'
<1> USE SpeechAssumption DEF textVars, providerVars, streamVars, reportVars, heardVars, transportVars
<1>0. TypeOK /\ Turns /\ Buffered /\ Switched /\ Voices /\ Events /\ Silence
  BY DEF IInv
<1>1. TypeOK'
  BY <1>0 DEF TakeFrame, Yielded, TypeOK, Stage, InLoop
<1>2. Turns'
  BY <1>0 DEF TakeFrame, Turns
<1>3. Buffered'
  BY <1>0 DEF TakeFrame, Yielded, Buffered
<1>4. Switched'
  BY <1>0 DEF TakeFrame, Yielded, Switched, OnPrimary, Speaking
<1>5. Voices'
  BY <1>0 DEF TakeFrame, Yielded, Voices, Speaking
<1>6. Events'
  BY <1>0 DEF TakeFrame, Yielded, Events, Speaking
<1>7. Silence'
  BY <1>0 DEF TakeFrame, Silence
<1>8. QED
  BY <1>1, <1>2, <1>3, <1>4, <1>5, <1>6, <1>7 DEF IInv

LEMMA StreamEndsKeeps ==
  ASSUME IInv, StreamEnds
  PROVE  IInv'
<1> USE SpeechAssumption DEF textVars, providerVars, reportVars, heardVars, transportVars
<1>0. TypeOK /\ Turns /\ Buffered /\ Switched /\ Voices /\ Events /\ Silence
  BY DEF IInv
<1>a. task = "reading" /\ open /\ ~cancelling /\ lock' = lock /\ UNCHANGED Aside
  BY DEF StreamEnds, Aside
<1>1. CASE Fail
  BY <1>a, <1>1, FailKeeps
<1>2. CASE NextChunk /\ UNCHANGED <<active, switchedIn>>
  BY <1>a, <1>2, NextChunkKeeps
<1>3. CASE /\ task' = Yielded /\ open' = FALSE /\ started' = TRUE
           /\ UNCHANGED <<providerVars, voice, chunk, pending, received>>
  <2>1. task' \in {"marking", "waiting"} /\ UNCHANGED Aside /\ lock' = lock
    BY <1>a, <1>3 DEF Yielded
  <2>2. TypeOK'
    BY <1>0, <1>3, <2>1 DEF TypeOK, Stage, InLoop, Aside
  <2>3. Turns'
    BY <1>0, <1>a, <1>3, <2>1 DEF Turns, Aside
  <2>4. Buffered' /\ Silence'
    BY <1>0, <1>a, <1>3, <2>1 DEF Buffered, Silence, Aside
  <2>5. Switched'
    BY <1>0, <1>a, <1>3, <2>1 DEF Switched, OnPrimary, Playing, Speaking, Aside
  <2>6. Voices'
    BY <1>0, <1>a, <1>3, <2>1 DEF Voices, Playing, Speaking, Aside
  <2>7. Events'
    BY <1>0, <1>a, <1>3, <2>1 DEF Events, Playing, Speaking, Aside
  <2>8. QED
    BY <2>2, <2>3, <2>4, <2>5, <2>6, <2>7 DEF IInv
<1>4. QED
  BY <1>1, <1>2, <1>3 DEF StreamEnds

LEMMA StreamFailsKeeps ==
  ASSUME IInv, StreamFails
  PROVE  IInv'
BY FailKeeps DEF StreamFails, Aside, textVars, transportVars, heardVars, reportVars

LEMMA MarkKeeps ==
  ASSUME IInv, Mark
  PROVE  IInv'
<1> USE SpeechAssumption DEF textVars, providerVars, streamVars, reportVars, heardVars, transportVars
<1>0. TypeOK /\ Turns /\ Buffered /\ Switched /\ Voices /\ Events /\ Silence
  BY DEF IInv
<1>1. TypeOK'
  BY <1>0 DEF Mark, TypeOK, Stage, InLoop
<1>2. Turns'
  BY <1>0 DEF Mark, Turns
<1>3. Buffered'
  BY <1>0 DEF Mark, Buffered, Playing
<1>4. Switched'
  BY <1>0 DEF Mark, Switched, OnPrimary, Playing, Speaking
<1>5. Voices'
  BY <1>0 DEF Mark, Voices, Playing, Speaking
<1>6. Events'
  BY <1>0 DEF Mark, Events, Playing, Speaking
<1>7. Silence'
  BY <1>0 DEF Mark, Silence
<1>8. QED
  BY <1>1, <1>2, <1>3, <1>4, <1>5, <1>6, <1>7 DEF IInv

LEMMA CaptureKeeps ==
  ASSUME IInv, Capture
  PROVE  IInv'
<1> USE SpeechAssumption DEF textVars, providerVars, streamVars, reportVars, heardVars, transportVars
<1>0. TypeOK /\ Turns /\ Buffered /\ Switched /\ Voices /\ Events /\ Silence
  BY DEF IInv
<1>1. TypeOK'
  BY <1>0 DEF Capture, TypeOK, Stage, InLoop, Turns
<1>2. Turns'
  BY <1>0 DEF Capture, TypeOK, Turns
<1>3. Buffered'
  BY <1>0 DEF Capture, Buffered, Playing
<1>4. Switched'
  BY <1>0 DEF Capture, Switched, OnPrimary, Playing, Speaking
<1>5. Voices'
  BY <1>0 DEF Capture, Switched, Voices, OnPrimary, Playing, Speaking
<1>6. Events'
  BY <1>0 DEF Capture, Events, Playing, Speaking
<1>7. Silence'
  BY <1>0 DEF Capture, Silence
<1>8. QED
  BY <1>1, <1>2, <1>3, <1>4, <1>5, <1>6, <1>7 DEF IInv

LEMMA CapturedKeeps ==
  ASSUME IInv, Captured
  PROVE  IInv'
<1> USE SpeechAssumption DEF textVars, reportVars, heardVars
<1>0. TypeOK /\ Turns /\ Buffered /\ Switched /\ Voices /\ Events /\ Silence
  BY DEF IInv
<1>a. /\ task = "capturing" /\ ~cancelling /\ lock' = "free" /\ UNCHANGED Aside
      /\ UNCHANGED <<active, switchedIn>>
  BY DEF Captured, Aside
<1>1. CASE NextChunk
  BY <1>a, <1>1, NextChunkKeeps
<1>2. CASE /\ open /\ pending' = pending - FrameBytes /\ task' = "reading"
           /\ UNCHANGED <<events, voice, chunk, open, received, started>>
  <2>1. pending' \in 0..MaxBytes /\ pending' <= pending
    BY <1>0, <1>a, <1>2 DEF TypeOK, Buffered, Playing
  <2>2. TypeOK'
    BY <1>0, <1>a, <1>2, <2>1 DEF TypeOK, Stage, InLoop, Aside
  <2>3. Turns'
    BY <1>0, <1>a, <1>2 DEF Turns, Aside
  <2>4. Buffered'
    <3>1. pending \in Nat /\ received[chunk] \in Nat /\ pending <= received[chunk]
      BY <1>0 DEF TypeOK, Buffered
    <3>2. QED
      BY <1>2, <2>1, <3>1 DEF Buffered, Playing
  <2>5. Switched' /\ Silence'
    BY <1>0, <1>a, <1>2 DEF Switched, OnPrimary, Playing, Speaking, Silence, Aside
  <2>6. Voices'
    BY <1>0, <1>a, <1>2 DEF Voices, Playing, Speaking, Aside
  <2>7. Events'
    BY <1>0, <1>a, <1>2 DEF Events, Playing, Speaking, Aside
  <2>8. QED
    BY <2>2, <2>3, <2>4, <2>5, <2>6, <2>7 DEF IInv
<1>3. QED
  BY <1>1, <1>2 DEF Captured

LEMMA CaptureFailsKeeps ==
  ASSUME IInv, CaptureFails
  PROVE  IInv'
<1> USE SpeechAssumption DEF textVars, providerVars, streamVars, reportVars, heardVars, transportVars
<1>0. TypeOK /\ Turns /\ Buffered /\ Switched /\ Voices /\ Events /\ Silence
  BY DEF IInv
<1>1. TypeOK'
  BY <1>0 DEF CaptureFails, TypeOK, Stage
<1>2. Turns'
  BY <1>0 DEF CaptureFails, Turns
<1>3. Buffered'
  BY <1>0 DEF CaptureFails, Buffered, Playing
<1>4. Switched'
  BY <1>0 DEF CaptureFails, Switched, Playing, Speaking
<1>5. Voices'
  BY <1>0 DEF CaptureFails, Voices, Playing, Speaking
<1>6. Events'
  BY <1>0 DEF CaptureFails, Events, Playing, Speaking
<1>7. Silence'
  BY <1>0 DEF CaptureFails, Silence
<1>8. QED
  BY <1>1, <1>2, <1>3, <1>4, <1>5, <1>6, <1>7 DEF IInv

LEMMA ToldKeeps ==
  ASSUME IInv, Told
  PROVE  IInv'
<1> USE SpeechAssumption DEF textVars, providerVars, streamVars, reportVars, heardVars, transportVars
<1>0. TypeOK /\ Turns /\ Buffered /\ Switched /\ Voices /\ Events /\ Silence
  BY DEF IInv
<1>1. TypeOK'
  BY <1>0 DEF Told, TypeOK, Stage, Turns
<1>2. Turns'
  BY <1>0 DEF Told, Turns
<1>3. Buffered'
  BY <1>0 DEF Told, Buffered, Playing
<1>4. Switched'
  <2>1. switchedIn # 0 /\ UNCHANGED <<setup, active, switchedIn, events, turn>> /\ task' = "reporting"
    BY <1>0 DEF Told, Events
  <2>2. QED
    BY <1>0, <2>1 DEF Switched, Playing, Speaking
<1>5. Voices'
  BY <1>0 DEF Told, Voices, Playing, Speaking
<1>6. Events'
  BY <1>0 DEF Told, Events, Playing, Speaking
<1>7. Silence'
  BY <1>0 DEF Told, Silence
<1>8. QED
  BY <1>1, <1>2, <1>3, <1>4, <1>5, <1>6, <1>7 DEF IInv

LEMMA ReportKeeps ==
  ASSUME IInv, Report
  PROVE  IInv'
<1> USE SpeechAssumption DEF textVars, providerVars, streamVars, reportVars, heardVars, transportVars
<1>0. TypeOK /\ Turns /\ Buffered /\ Switched /\ Voices /\ Events /\ Silence
  BY DEF IInv
<1>1. TypeOK'
  <2>1. open' \in BOOLEAN /\ started' \in BOOLEAN /\ cancelling' \in BOOLEAN
        /\ source' \in BOOLEAN /\ latin' \in BOOLEAN
    BY <1>0 DEF Report, TaskEnds, TypeOK, Stage
  <2>2. /\ pending' \in 0..MaxBytes /\ received' \in [Chunk -> 0..MaxBytes]
        /\ chunk' \in Chunk /\ chunks' \in Chunk
    BY <1>0 DEF Report, TaskEnds, TypeOK, Chunk, Turns, Buffered, Playing
  <2>3. frames' \in [Chunk -> Nat] /\ spokenBy' \in [Turn -> SUBSET Voice]
    BY <1>0 DEF Report, TaskEnds, TypeOK, Voice
  <2>4. /\ told' \in SUBSET Turn /\ asked' \in SUBSET Turn /\ silenced' \in SUBSET Turn
        /\ outcome' \in [Turn -> Outcome]
    BY <1>0 DEF Report, TaskEnds, TypeOK, Turns, Outcome
  <2>5. /\ setup' \in Setups /\ active' \in Voice /\ voice' \in Voice
        /\ events' \in SUBSET {"latin_only", "primary_before_audio", "primary_after_audio"}
    BY <1>0 DEF Report, TaskEnds, TypeOK, Voice
  <2>6. /\ turn' \in 0..MaxTurn /\ switchedIn' \in 0..MaxTurn /\ task' \in Stage
        /\ main' \in {"loop", "stopping", "fading"} /\ lock' \in {"free", "speech", "main"}
        /\ ui' \in {"listening", "speaking", "user_speaking"}
    BY <1>0 DEF Report, TaskEnds, TypeOK, Stage, InLoop
  <2>7. QED
    BY <2>1, <2>2, <2>3, <2>4, <2>5, <2>6 DEF TypeOK
<1>2. Turns'
  BY <1>0 DEF Report, TaskEnds, TypeOK, Turns
<1>3. Buffered'
  BY <1>0 DEF Report, TaskEnds, TypeOK, Buffered, Chunk
<1>4. Switched'
  BY <1>0 DEF Report, TaskEnds, Switched, Playing, Speaking
<1>5. Voices'
  BY <1>0 DEF Report, TaskEnds, Voices, Playing, Speaking
<1>6. Events'
  BY <1>0 DEF Report, TaskEnds, Events, Playing, Speaking
<1>7. Silence'
  BY <1>0 DEF Report, Silence
<1>8. QED
  BY <1>1, <1>2, <1>3, <1>4, <1>5, <1>6, <1>7 DEF IInv

LEMMA CancelledInLoopKeeps ==
  ASSUME IInv, CancelledInLoop
  PROVE  IInv'
<1> USE SpeechAssumption DEF textVars, providerVars, streamVars, reportVars, heardVars, transportVars
<1>0. TypeOK /\ Turns /\ Buffered /\ Switched /\ Voices /\ Events /\ Silence
  BY DEF IInv
<1>1. TypeOK'
  BY <1>0 DEF CancelledInLoop, Released, TypeOK, Stage
<1>2. Turns'
  <2>1. task # "none" /\ task' = "fadeWait"
        /\ UNCHANGED <<turn, main, ui, switchedIn, silenced, spokenBy, outcome>>
    BY DEF CancelledInLoop, InLoop
  <2>2. QED
    BY <1>0, <2>1 DEF Turns
<1>3. Buffered'
  BY <1>0 DEF CancelledInLoop, Buffered, Playing
<1>4. Switched'
  BY <1>0 DEF CancelledInLoop, Switched, Playing, Speaking
<1>5. Voices'
  BY <1>0 DEF CancelledInLoop, Voices, Playing, Speaking
<1>6. Events'
  BY <1>0 DEF CancelledInLoop, Events, Playing, Speaking
<1>7. Silence'
  BY <1>0 DEF CancelledInLoop, Silence
<1>8. QED
  BY <1>1, <1>2, <1>3, <1>4, <1>5, <1>6, <1>7 DEF IInv

LEMMA CancelledOutsideKeeps ==
  ASSUME IInv, CancelledOutside
  PROVE  IInv'
<1> USE SpeechAssumption DEF textVars, providerVars, streamVars, reportVars, heardVars, transportVars
<1>0. TypeOK /\ Turns /\ Buffered /\ Switched /\ Voices /\ Events /\ Silence
  BY DEF IInv
<1>1. TypeOK'
  <2>1. open' \in BOOLEAN /\ started' \in BOOLEAN /\ cancelling' \in BOOLEAN
        /\ source' \in BOOLEAN /\ latin' \in BOOLEAN
    BY <1>0 DEF CancelledOutside, TaskEnds, Released, InLoop, Stage, TypeOK, Stage
  <2>2. /\ pending' \in 0..MaxBytes /\ received' \in [Chunk -> 0..MaxBytes]
        /\ chunk' \in Chunk /\ chunks' \in Chunk
    BY <1>0 DEF CancelledOutside, TaskEnds, Released, InLoop, Stage, TypeOK, Chunk, Turns,
       Buffered, Playing
  <2>3. frames' \in [Chunk -> Nat] /\ spokenBy' \in [Turn -> SUBSET Voice]
    BY <1>0 DEF CancelledOutside, TaskEnds, Released, InLoop, Stage, TypeOK, Voice
  <2>4. /\ told' \in SUBSET Turn /\ asked' \in SUBSET Turn /\ silenced' \in SUBSET Turn
        /\ outcome' \in [Turn -> Outcome]
    BY <1>0 DEF CancelledOutside, TaskEnds, Released, InLoop, Stage, TypeOK, Turns, Outcome
  <2>5. /\ setup' \in Setups /\ active' \in Voice /\ voice' \in Voice
        /\ events' \in SUBSET {"latin_only", "primary_before_audio", "primary_after_audio"}
    BY <1>0 DEF CancelledOutside, TaskEnds, Released, InLoop, Stage, TypeOK, Voice
  <2>6. /\ turn' \in 0..MaxTurn /\ switchedIn' \in 0..MaxTurn /\ task' \in Stage
        /\ main' \in {"loop", "stopping", "fading"} /\ lock' \in {"free", "speech", "main"}
        /\ ui' \in {"listening", "speaking", "user_speaking"}
    BY <1>0 DEF CancelledOutside, TaskEnds, Released, InLoop, Stage, TypeOK, Stage, InLoop
  <2>7. QED
    BY <2>1, <2>2, <2>3, <2>4, <2>5, <2>6 DEF TypeOK
<1>2. Turns'
  BY <1>0 DEF CancelledOutside, TaskEnds, TypeOK, Turns
<1>3. Buffered'
  BY <1>0 DEF CancelledOutside, TaskEnds, TypeOK, Buffered, Chunk
<1>4. Switched'
  BY <1>0 DEF CancelledOutside, TaskEnds, Switched, Playing, Speaking
<1>5. Voices'
  BY <1>0 DEF CancelledOutside, TaskEnds, Voices, Playing, Speaking
<1>6. Events'
  BY <1>0 DEF CancelledOutside, TaskEnds, Events, Playing, Speaking
<1>7. Silence'
  BY <1>0 DEF CancelledOutside, TaskEnds, Silence
<1>8. QED
  BY <1>1, <1>2, <1>3, <1>4, <1>5, <1>6, <1>7 DEF IInv

LEMMA FadeOutKeeps ==
  ASSUME IInv, FadeOut
  PROVE  IInv'
<1> USE SpeechAssumption DEF textVars, providerVars, streamVars, reportVars, heardVars, transportVars
<1>0. TypeOK /\ Turns /\ Buffered /\ Switched /\ Voices /\ Events /\ Silence
  BY DEF IInv
<1>1. TypeOK'
  BY <1>0 DEF FadeOut, TypeOK, Stage
<1>2. Turns'
  BY <1>0 DEF FadeOut, Turns
<1>3. Buffered'
  BY <1>0 DEF FadeOut, Buffered, Playing
<1>4. Switched'
  BY <1>0 DEF FadeOut, Switched, Playing, Speaking
<1>5. Voices'
  BY <1>0 DEF FadeOut, Voices, Playing, Speaking
<1>6. Events'
  BY <1>0 DEF FadeOut, Events, Playing, Speaking
<1>7. Silence'
  BY <1>0 DEF FadeOut, Silence
<1>8. QED
  BY <1>1, <1>2, <1>3, <1>4, <1>5, <1>6, <1>7 DEF IInv

LEMMA ReportCancelledKeeps ==
  ASSUME IInv, ReportCancelled
  PROVE  IInv'
<1> USE SpeechAssumption DEF textVars, providerVars, streamVars, reportVars, heardVars, transportVars
<1>0. TypeOK /\ Turns /\ Buffered /\ Switched /\ Voices /\ Events /\ Silence
  BY DEF IInv
<1>1. TypeOK'
  <2>1. open' \in BOOLEAN /\ started' \in BOOLEAN /\ cancelling' \in BOOLEAN
        /\ source' \in BOOLEAN /\ latin' \in BOOLEAN
    BY <1>0 DEF ReportCancelled, TaskEnds, Released, TypeOK, Stage
  <2>2. /\ pending' \in 0..MaxBytes /\ received' \in [Chunk -> 0..MaxBytes]
        /\ chunk' \in Chunk /\ chunks' \in Chunk
    BY <1>0 DEF ReportCancelled, TaskEnds, Released, TypeOK, Chunk, Turns, Buffered, Playing
  <2>3. frames' \in [Chunk -> Nat] /\ spokenBy' \in [Turn -> SUBSET Voice]
    BY <1>0 DEF ReportCancelled, TaskEnds, Released, TypeOK, Voice
  <2>4. /\ told' \in SUBSET Turn /\ asked' \in SUBSET Turn /\ silenced' \in SUBSET Turn
        /\ outcome' \in [Turn -> Outcome]
    BY <1>0 DEF ReportCancelled, TaskEnds, Released, TypeOK, Turns, Outcome
  <2>5. /\ setup' \in Setups /\ active' \in Voice /\ voice' \in Voice
        /\ events' \in SUBSET {"latin_only", "primary_before_audio", "primary_after_audio"}
    BY <1>0 DEF ReportCancelled, TaskEnds, Released, TypeOK, Voice
  <2>6. /\ turn' \in 0..MaxTurn /\ switchedIn' \in 0..MaxTurn /\ task' \in Stage
        /\ main' \in {"loop", "stopping", "fading"} /\ lock' \in {"free", "speech", "main"}
        /\ ui' \in {"listening", "speaking", "user_speaking"}
    BY <1>0 DEF ReportCancelled, TaskEnds, Released, TypeOK, Stage, InLoop
  <2>7. QED
    BY <2>1, <2>2, <2>3, <2>4, <2>5, <2>6 DEF TypeOK
<1>2. Turns'
  BY <1>0 DEF ReportCancelled, TaskEnds, TypeOK, Turns
<1>3. Buffered'
  BY <1>0 DEF ReportCancelled, TaskEnds, TypeOK, Buffered, Chunk
<1>4. Switched'
  BY <1>0 DEF ReportCancelled, TaskEnds, Switched, Playing, Speaking
<1>5. Voices'
  BY <1>0 DEF ReportCancelled, TaskEnds, Voices, Playing, Speaking
<1>6. Events'
  BY <1>0 DEF ReportCancelled, TaskEnds, Events, Playing, Speaking
<1>7. Silence'
  BY <1>0 DEF ReportCancelled, TaskEnds, Silence
<1>8. QED
  BY <1>1, <1>2, <1>3, <1>4, <1>5, <1>6, <1>7 DEF IInv

LEMMA StopAudioKeeps ==
  ASSUME IInv, StopAudio
  PROVE  IInv'
<1> USE SpeechAssumption DEF textVars, providerVars, streamVars, reportVars, heardVars, transportVars
<1>0. TypeOK /\ Turns /\ Buffered /\ Switched /\ Voices /\ Events /\ Silence
  BY DEF IInv
<1>1. TypeOK'
  BY <1>0 DEF StopAudio, TypeOK
<1>2. Turns'
  BY <1>0 DEF StopAudio, Turns
<1>3. Buffered'
  BY <1>0 DEF StopAudio, Buffered
<1>4. Switched'
  BY <1>0 DEF StopAudio, Switched, OnPrimary
<1>5. Voices'
  BY <1>0 DEF StopAudio, Voices
<1>6. Events'
  BY <1>0 DEF StopAudio, Events
<1>7. Silence'
  BY <1>0 DEF StopAudio, Silence
<1>8. QED
  BY <1>1, <1>2, <1>3, <1>4, <1>5, <1>6, <1>7 DEF IInv

LEMMA AudioStoppedKeeps ==
  ASSUME IInv, AudioStopped
  PROVE  IInv'
<1> USE SpeechAssumption DEF textVars, providerVars, streamVars, reportVars, heardVars, transportVars
<1>0. TypeOK /\ Turns /\ Buffered /\ Switched /\ Voices /\ Events /\ Silence
  BY DEF IInv
<1>1. TypeOK'
  <2>1. open' \in BOOLEAN /\ started' \in BOOLEAN /\ cancelling' \in BOOLEAN
        /\ source' \in BOOLEAN /\ latin' \in BOOLEAN
    BY <1>0 DEF AudioStopped, TypeOK, Stage
  <2>2. /\ pending' \in 0..MaxBytes /\ received' \in [Chunk -> 0..MaxBytes]
        /\ chunk' \in Chunk /\ chunks' \in Chunk
    BY <1>0 DEF AudioStopped, TypeOK, Chunk, Turns, Buffered, Playing
  <2>3. frames' \in [Chunk -> Nat] /\ spokenBy' \in [Turn -> SUBSET Voice]
    BY <1>0 DEF AudioStopped, TypeOK, Voice
  <2>4. /\ told' \in SUBSET Turn /\ asked' \in SUBSET Turn /\ silenced' \in SUBSET Turn
        /\ outcome' \in [Turn -> Outcome]
    BY <1>0 DEF AudioStopped, TypeOK, Turns, Outcome
  <2>5. /\ setup' \in Setups /\ active' \in Voice /\ voice' \in Voice
        /\ events' \in SUBSET {"latin_only", "primary_before_audio", "primary_after_audio"}
    BY <1>0 DEF AudioStopped, TypeOK, Voice
  <2>6. /\ turn' \in 0..MaxTurn /\ switchedIn' \in 0..MaxTurn /\ task' \in Stage
        /\ main' \in {"loop", "stopping", "fading"} /\ lock' \in {"free", "speech", "main"}
        /\ ui' \in {"listening", "speaking", "user_speaking"}
    BY <1>0 DEF AudioStopped, TypeOK, Stage, InLoop
  <2>7. QED
    BY <2>1, <2>2, <2>3, <2>4, <2>5, <2>6 DEF TypeOK
<1>2. Turns'
  BY <1>0 DEF AudioStopped, TypeOK, Turns
<1>3. Buffered'
  BY <1>0 DEF AudioStopped, Buffered
<1>4. Switched'
  BY <1>0 DEF AudioStopped, Switched, OnPrimary
<1>5. Voices'
  BY <1>0 DEF AudioStopped, Voices
<1>6. Events'
  BY <1>0 DEF AudioStopped, Events
<1>7. Silence'
  BY <1>0 DEF AudioStopped, Silence
<1>8. QED
  BY <1>1, <1>2, <1>3, <1>4, <1>5, <1>6, <1>7 DEF IInv

LEMMA TimeoutWhilePlayingKeeps ==
  ASSUME IInv, TimeoutWhilePlaying
  PROVE  IInv'
<1> USE SpeechAssumption DEF textVars, providerVars, streamVars, reportVars, heardVars, transportVars
<1>0. TypeOK /\ Turns /\ Buffered /\ Switched /\ Voices /\ Events /\ Silence
  BY DEF IInv
<1>1. TypeOK'
  <2>1. open' \in BOOLEAN /\ started' \in BOOLEAN /\ cancelling' \in BOOLEAN
        /\ source' \in BOOLEAN /\ latin' \in BOOLEAN
    BY <1>0 DEF TimeoutWhilePlaying, TypeOK, Stage
  <2>2. /\ pending' \in 0..MaxBytes /\ received' \in [Chunk -> 0..MaxBytes]
        /\ chunk' \in Chunk /\ chunks' \in Chunk
    BY <1>0 DEF TimeoutWhilePlaying, TypeOK, Chunk, Turns, Buffered, Playing
  <2>3. frames' \in [Chunk -> Nat] /\ spokenBy' \in [Turn -> SUBSET Voice]
    BY <1>0 DEF TimeoutWhilePlaying, TypeOK, Voice
  <2>4. /\ told' \in SUBSET Turn /\ asked' \in SUBSET Turn /\ silenced' \in SUBSET Turn
        /\ outcome' \in [Turn -> Outcome]
    BY <1>0 DEF TimeoutWhilePlaying, TypeOK, Turns, Outcome
  <2>5. /\ setup' \in Setups /\ active' \in Voice /\ voice' \in Voice
        /\ events' \in SUBSET {"latin_only", "primary_before_audio", "primary_after_audio"}
    BY <1>0 DEF TimeoutWhilePlaying, TypeOK, Voice
  <2>6. /\ turn' \in 0..MaxTurn /\ switchedIn' \in 0..MaxTurn /\ task' \in Stage
        /\ main' \in {"loop", "stopping", "fading"} /\ lock' \in {"free", "speech", "main"}
        /\ ui' \in {"listening", "speaking", "user_speaking"}
    BY <1>0 DEF TimeoutWhilePlaying, TypeOK, Stage, InLoop
  <2>7. QED
    BY <2>1, <2>2, <2>3, <2>4, <2>5, <2>6 DEF TypeOK
<1>2. Turns'
  BY <1>0 DEF TimeoutWhilePlaying, Turns
<1>3. Buffered'
  BY <1>0 DEF TimeoutWhilePlaying, Buffered
<1>4. Switched'
  BY <1>0 DEF TimeoutWhilePlaying, Switched, OnPrimary
<1>5. Voices'
  BY <1>0 DEF TimeoutWhilePlaying, Voices
<1>6. Events'
  BY <1>0 DEF TimeoutWhilePlaying, Events
<1>7. Silence'
  BY <1>0 DEF TimeoutWhilePlaying, Silence
<1>8. QED
  BY <1>1, <1>2, <1>3, <1>4, <1>5, <1>6, <1>7 DEF IInv

LEMMA BargeInKeeps ==
  ASSUME IInv, BargeIn
  PROVE  IInv'
<1> USE SpeechAssumption DEF textVars, providerVars, streamVars, reportVars, heardVars, transportVars
<1>0. TypeOK /\ Turns /\ Buffered /\ Switched /\ Voices /\ Events /\ Silence
  BY DEF IInv
<1>1. TypeOK'
  BY <1>0 DEF BargeIn, CancelRequested, TypeOK, Turns
<1>2. Turns'
  BY <1>0 DEF BargeIn, Turns
<1>3. Buffered'
  BY <1>0 DEF BargeIn, Buffered
<1>4. Switched'
  BY <1>0 DEF BargeIn, Switched, OnPrimary
<1>5. Voices'
  BY <1>0 DEF BargeIn, Voices
<1>6. Events'
  BY <1>0 DEF BargeIn, Events
<1>7. Silence'
  BY <1>0 DEF BargeIn, CancelRequested, Silence
<1>8. QED
  BY <1>1, <1>2, <1>3, <1>4, <1>5, <1>6, <1>7 DEF IInv

LEMMA ClientCancelKeeps ==
  ASSUME IInv, ClientCancel
  PROVE  IInv'
<1> USE SpeechAssumption DEF textVars, providerVars, streamVars, reportVars, heardVars, transportVars
<1>0. TypeOK /\ Turns /\ Buffered /\ Switched /\ Voices /\ Events /\ Silence
  BY DEF IInv
<1>1. TypeOK'
  <2>1. open' \in BOOLEAN /\ started' \in BOOLEAN /\ cancelling' \in BOOLEAN
        /\ source' \in BOOLEAN /\ latin' \in BOOLEAN
    BY <1>0 DEF ClientCancel, TypeOK, Stage
  <2>2. /\ pending' \in 0..MaxBytes /\ received' \in [Chunk -> 0..MaxBytes]
        /\ chunk' \in Chunk /\ chunks' \in Chunk
    BY <1>0 DEF ClientCancel, TypeOK, Chunk, Turns, Buffered, Playing
  <2>3. frames' \in [Chunk -> Nat] /\ spokenBy' \in [Turn -> SUBSET Voice]
    BY <1>0 DEF ClientCancel, TypeOK, Voice
  <2>4. /\ told' \in SUBSET Turn /\ asked' \in SUBSET Turn /\ silenced' \in SUBSET Turn
        /\ outcome' \in [Turn -> Outcome]
    BY <1>0 DEF ClientCancel, TypeOK, Turns, Outcome
  <2>5. /\ setup' \in Setups /\ active' \in Voice /\ voice' \in Voice
        /\ events' \in SUBSET {"latin_only", "primary_before_audio", "primary_after_audio"}
    BY <1>0 DEF ClientCancel, TypeOK, Voice
  <2>6. /\ turn' \in 0..MaxTurn /\ switchedIn' \in 0..MaxTurn /\ task' \in Stage
        /\ main' \in {"loop", "stopping", "fading"} /\ lock' \in {"free", "speech", "main"}
        /\ ui' \in {"listening", "speaking", "user_speaking"}
    BY <1>0 DEF ClientCancel, TypeOK, Stage, InLoop
  <2>7. QED
    BY <2>1, <2>2, <2>3, <2>4, <2>5, <2>6 DEF TypeOK
<1>2. Turns'
  BY <1>0 DEF ClientCancel, Turns
<1>3. Buffered'
  BY <1>0 DEF ClientCancel, Buffered
<1>4. Switched'
  BY <1>0 DEF ClientCancel, Switched, OnPrimary
<1>5. Voices'
  BY <1>0 DEF ClientCancel, Voices
<1>6. Events'
  BY <1>0 DEF ClientCancel, Events
<1>7. Silence'
  BY <1>0 DEF ClientCancel, Silence
<1>8. QED
  BY <1>1, <1>2, <1>3, <1>4, <1>5, <1>6, <1>7 DEF IInv

LEMMA SpeakKeeps ==
  ASSUME IInv, NEW isLatin \in BOOLEAN, NEW n \in Chunk, Speak(isLatin, n)
  PROVE  IInv'
<1> USE SpeechAssumption DEF textVars, providerVars, streamVars, reportVars, heardVars, transportVars
<1>0. TypeOK /\ Turns /\ Buffered /\ Switched /\ Voices /\ Events /\ Silence
  BY DEF IInv
<1>1. TypeOK'
  BY <1>0 DEF Speak, TypeOK, Stage
<1>2. Turns'
  BY <1>0 DEF Speak, TypeOK, Turns, Turn
<1>3. Buffered'
  <2>1. received' = [c \in Chunk |-> 0] /\ pending' = pending /\ chunk' = chunk
        /\ task' = "announcing" /\ task = "none"
    BY DEF Speak
  <2>2. pending = 0
    BY <1>0, <2>1 DEF Buffered
  <2>3. QED
    BY <1>0, <2>1, <2>2 DEF TypeOK, Buffered, Playing
<1>4. Switched'
  BY <1>0 DEF Speak, TypeOK, Turns, Switched, Playing, Speaking
<1>5. Voices'
  BY <1>0 DEF Speak, TypeOK, Turns, Voices, Playing, Turn
<1>6. Events'
  BY <1>0 DEF Speak, Events, Playing, Speaking
<1>7. Silence'
  BY <1>0 DEF Speak, TypeOK, Turns, Silence
<1>8. QED
  BY <1>1, <1>2, <1>3, <1>4, <1>5, <1>6, <1>7 DEF IInv

LEMMA NextInvariant ==
  ASSUME IInv, [Next]_vars
  PROVE  IInv'
<1>1. CASE UNCHANGED vars
  BY <1>1 DEF vars, textVars, providerVars, streamVars, reportVars, heardVars, transportVars,
     IInv,
     TypeOK, Turns, Buffered, Switched, Voices, Events, Silence, OnPrimary
<1>2. QED
  BY <1>1, SynthesizeKeeps, ReceiveKeeps, TakeFrameKeeps, StreamEndsKeeps, StreamFailsKeeps,
     MarkKeeps, CaptureKeeps, CapturedKeeps, CaptureFailsKeeps, ToldKeeps, ReportKeeps,
     CancelledInLoopKeeps, CancelledOutsideKeeps, FadeOutKeeps, ReportCancelledKeeps,
     StopAudioKeeps, AudioStoppedKeeps, TimeoutWhilePlayingKeeps, BargeInKeeps,
     ClientCancelKeeps, SpeakKeeps DEF Next, SpeechTask, MainLoop

------------------------------------------------------------------------------
(* Every byte of an answer is played: Played is inductive on top of IInv. *)

\* A chunk whose last byte has gone to LiveKit, the last frame padded.
Whole(c) == received[c] > 0 /\ frames[c] = Ceil(received[c], FrameBytes)

\* The bytes of the chunk at work are in frames or in the buffer; the frame in
\* the audio source is counted while its bytes still are in the buffer.
BytesOf(n) == n * FrameBytes
Accounted ==
  IF task = "capturing"
    THEN /\ frames[chunk] > 0
         /\ received[chunk] = BytesOf(frames[chunk] - 1) + pending
    ELSE received[chunk] = BytesOf(frames[chunk]) + pending

\* Chunks are played one after the other, each to its last byte.
InOrder ==
  /\ chunk <= chunks /\ Accounted
  /\ \A c \in Chunk : (c < chunk => Whole(c)) /\ (c > chunk => received[c] = 0 /\ frames[c] = 0)
  /\ task = "reading" => open
  /\ ~open => pending \in 1..FrameBytes

BrokenOff == switchedIn = turn /\ spokenBy[turn] = {"primary"}
Spoken == BrokenOff \/ \A c \in 1..chunks : Whole(c)

Played ==
  /\ task = "announcing" \/ (task = "reading" /\ ~started) => \A c \in Chunk : frames[c] = 0
  /\ task = "capturing" \/ (task = "reading" /\ started) => spokenBy[turn] # {}
  /\ task \in Speaking /\ ~cancelling => InOrder
  /\ task \in {"telling", "reporting"} => Spoken
  /\ task = "none" /\ turn # 0 /\ outcome[turn] = "completed" => Spoken

LEMMA DivisionWithRest ==
  ASSUME NEW n \in Nat, NEW d \in Nat \ {0}
  PROVE  n \div d \in Nat /\ n = (n \div d) * d + (n % d) /\ n % d \in 0..d - 1
OBVIOUS

LEMMA TimesGrows ==
  ASSUME NEW k \in Nat, NEW m \in Nat, NEW d \in Nat, k < m
  PROVE  k * d + d <= m * d
OBVIOUS

LEMMA TimesNext ==
  ASSUME NEW k \in Nat, NEW d \in Nat
  PROVE  (k + 1) * d = k * d + d /\ k * d \in Nat
OBVIOUS

\* k whole frames and a rest that is not empty need k + 1 frames.
LEMMA CeilOfRest ==
  ASSUME NEW d \in Nat \ {0}, NEW k \in Nat, NEW r \in 1..d
  PROVE  Ceil(k * d + r, d) = k + 1
<1> DEFINE n == k * d + r + d - 1
           q == n \div d
<1>1. n \in Nat /\ (k + 1) * d = k * d + d /\ k * d \in Nat
  BY TimesNext
<1>2. q \in Nat /\ n = q * d + (n % d) /\ n % d \in 0..d - 1
  BY <1>1, DivisionWithRest
<1>3. ~(q < k + 1)
  BY <1>1, <1>2, TimesGrows
<1>4. ~(k + 1 < q)
  BY <1>1, <1>2, TimesGrows
<1>5. QED
  BY <1>2, <1>3, <1>4 DEF Ceil

LEMMA CeilOfWhole ==
  ASSUME NEW d \in Nat \ {0}, NEW k \in Nat, k > 0
  PROVE  Ceil(k * d, d) = k /\ k * d > 0
<1>1. k - 1 \in Nat /\ (k - 1) + 1 = k
  OBVIOUS
<1>2. k * d = (k - 1) * d + d /\ (k - 1) * d \in Nat
  BY <1>1, TimesNext
<1>3. d \in 1..d
  OBVIOUS
<1>4. Ceil((k - 1) * d + d, d) = k
  BY <1>1, <1>3, CeilOfRest
<1>5. QED
  BY <1>2, <1>4

\* The chunk at work is whole when the generator asks for the next one.
LEMMA ChunkWhole ==
  ASSUME TypeOK, InOrder,
         \/ task = "capturing" /\ ~open
         \/ task = "reading" /\ pending = 0 /\ received[chunk] > 0
  PROVE  Whole(chunk)
<1>1. /\ chunk \in Chunk /\ frames[chunk] \in Nat /\ received[chunk] \in Nat /\ pending \in Nat
      /\ FrameBytes \in Nat \ {0}
  BY SpeechAssumption DEF TypeOK
<1>2. CASE task = "capturing" /\ ~open
  <2>1. /\ frames[chunk] - 1 \in Nat /\ pending \in 1..FrameBytes
        /\ received[chunk] = (frames[chunk] - 1) * FrameBytes + pending
    BY <1>1, <1>2 DEF InOrder, Accounted, BytesOf
  <2>2. Ceil(received[chunk], FrameBytes) = (frames[chunk] - 1) + 1
    BY <1>1, <2>1, CeilOfRest
  <2>3. received[chunk] > 0
    BY <1>1, <2>1, TimesNext
  <2>4. QED
    BY <1>1, <2>2, <2>3 DEF Whole
<1>3. CASE task = "reading" /\ pending = 0 /\ received[chunk] > 0
  <2>1. received[chunk] = frames[chunk] * FrameBytes + 0
    BY <1>3 DEF InOrder, Accounted, BytesOf
  <2>2. frames[chunk] # 0
    <3>1. 0 * FrameBytes = 0
      BY <1>1
    <3>2. QED
      BY <1>1, <1>3, <2>1, <3>1
  <2>3. received[chunk] = frames[chunk] * FrameBytes
    BY <1>1, <2>1, TimesNext
  <2>4. QED
    BY <1>1, <1>3, <2>2, <2>3, CeilOfWhole DEF Whole
<1>4. QED
  BY <1>2, <1>3

LEMMA FailPlayed ==
  ASSUME IInv, Played, Fail, task = "reading", ~cancelling, UNCHANGED Aside
  PROVE  Played'
<1>0. TypeOK /\ Turns /\ Voices /\ InOrder
  BY DEF IInv, Played, Speaking
<1>a. UNCHANGED <<turn, chunks, cancelling, spokenBy, outcome, frames>>
  BY DEF Aside
<1>1. CASE /\ OnPrimary /\ started /\ active' = "fallback" /\ switchedIn' = turn
           /\ events' = {} /\ task' = "telling" /\ open' = FALSE
           /\ UNCHANGED <<voice, chunk, pending, received, started>>
  <2>1. spokenBy[turn] # {} /\ spokenBy[turn] \subseteq {"primary"}
    BY <1>0, <1>1 DEF Played, Voices, Speaking, OnPrimary
  <2>2. Spoken'
    BY <1>1, <1>a, <2>1 DEF Spoken, BrokenOff
  <2>3. QED
    BY <1>1, <2>2 DEF Played, Speaking, Playing
<1>2. CASE /\ OnPrimary /\ ~started /\ active' = "fallback" /\ switchedIn' = turn
           /\ events' = events \cup {"primary_before_audio"}
           /\ voice' = "fallback" /\ chunk' = 1 /\ open' = TRUE /\ pending' = 0
           /\ received' = [c \in Chunk |-> 0] /\ started' = FALSE /\ task' = "reading"
  <2>1. \A c \in Chunk : frames[c] = 0
    BY <1>2 DEF Played
  <2>2. InOrder'
    <3>1. 1 \in Chunk /\ 1 <= chunks /\ \A c \in Chunk : c >= 1
      BY <1>0, SpeechAssumption DEF TypeOK, Chunk
    <3>2. 0 * FrameBytes = 0
      BY SpeechAssumption
    <3>3. QED
      BY <1>2, <1>a, <2>1, <3>1, <3>2 DEF InOrder, Accounted, BytesOf, Chunk
  <2>3. QED
    BY <1>2, <1>a, <2>1, <2>2 DEF Played
<1>3. CASE /\ ~OnPrimary /\ task' = "failed" /\ open' = FALSE
           /\ UNCHANGED <<active, events, switchedIn, voice, chunk, pending, received, started>>
  BY <1>3 DEF Played, Speaking, Playing
<1>4. QED
  BY <1>1, <1>2, <1>3, FailCases

LEMMA NextChunkPlayed ==
  ASSUME IInv, Played, NextChunk, ~cancelling, UNCHANGED Aside, UNCHANGED <<active, switchedIn>>,
         \/ task = "capturing" /\ ~open
         \/ task = "reading" /\ pending = 0 /\ received[chunk] > 0
  PROVE  Played'
<1>0. TypeOK /\ Turns /\ InOrder /\ Whole(chunk)
  BY ChunkWhole DEF IInv, Played, Speaking, Playing
<1>a. UNCHANGED <<turn, chunks, cancelling, spokenBy, outcome, frames, switchedIn>>
  BY DEF Aside
<1>b. chunk \in Chunk /\ chunks \in Chunk
  BY <1>0 DEF TypeOK
<1>1. CASE /\ chunk < chunks /\ chunk' = chunk + 1 /\ open' = TRUE /\ pending' = 0
           /\ task' = "reading" /\ UNCHANGED <<events, voice, received, started>>
  <2>1. \A c \in Chunk : Whole(c)' <=> Whole(c)
    BY <1>1, <1>a DEF Whole
  <2>2. chunk + 1 \in Chunk /\ chunk + 1 <= chunks
    BY <1>1, <1>b, SpeechAssumption DEF Chunk
  <2>3. \A c \in Chunk : /\ c < chunk + 1 => Whole(c)
                         /\ c > chunk => received[c] = 0 /\ frames[c] = 0
    BY <1>0, <1>b DEF InOrder, Chunk
  <2>4. Accounted'
    <3>1. 0 = 0 * FrameBytes + 0 /\ chunk + 1 > chunk
      BY SpeechAssumption, <1>b DEF Chunk
    <3>2. QED
      BY <1>1, <1>a, <2>2, <2>3, <3>1 DEF Accounted, BytesOf
  <2>5. InOrder'
    BY <1>1, <1>a, <1>b, <2>1, <2>2, <2>3, <2>4 DEF InOrder, Chunk
  <2>6. started => spokenBy[turn] # {}
    BY <1>0, <1>1 DEF Played, IInv, Voices, Speaking, Playing
  <2>7. ~started => \A c \in Chunk : frames[c] = 0
    BY DEF Played, IInv, Voices, Playing
  <2>8. QED
    BY <1>1, <1>a, <2>5, <2>6, <2>7 DEF Played
<1>2. CASE /\ ~(chunk < chunks) /\ events' = {} /\ open' = FALSE
           /\ task' = IF events = {} THEN "reporting" ELSE "telling"
           /\ UNCHANGED <<voice, chunk, pending, received, started>>
  <2>1. \A c \in 1..chunks : Whole(c)
    BY <1>0, <1>2, <1>b, SpeechAssumption DEF InOrder, Chunk
  <2>2. Spoken'
    BY <1>2, <1>a, <2>1 DEF Spoken, Whole
  <2>3. QED
    BY <1>2, <2>2 DEF Played, Speaking, Playing
<1>3. QED
  BY <1>1, <1>2, NextChunkCases

LEMMA PlayedInit == Init => Played
BY DEF Init, Played, Speaking, Playing

LEMMA PlayedByStreamEnds ==
  ASSUME IInv, Played, StreamEnds
  PROVE  Played'
<1>0. /\ task = "reading" /\ open /\ ~cancelling /\ pending < FrameBytes /\ UNCHANGED Aside
      /\ TypeOK /\ InOrder
  BY DEF StreamEnds, Aside, textVars, transportVars, heardVars, reportVars, IInv, Played, Speaking
<1>1. CASE Fail
  BY <1>0, <1>1, FailPlayed
<1>2. CASE /\ TailLeft /\ task' = Yielded /\ open' = FALSE /\ started' = TRUE
           /\ UNCHANGED <<providerVars, voice, chunk, pending, received>>
  <2>1. pending' \in 1..FrameBytes
    BY <1>0, <1>2, SpeechAssumption DEF TypeOK, TailLeft
  <2>2. task' \in {"marking", "waiting"}
    BY <1>2 DEF Yielded
  <2>3. InOrder'
    BY <1>0, <1>2, <2>1, <2>2 DEF InOrder, Accounted, BytesOf, Whole, Aside
  <2>4. QED
    BY <2>2, <2>3 DEF Played
<1>3. CASE ~TailLeft /\ received[chunk] > 0 /\ NextChunk /\ UNCHANGED <<active, switchedIn>>
  <2>1. pending = 0
    BY <1>0, <1>3 DEF TypeOK, TailLeft
  <2>2. QED
    BY <1>0, <1>3, <2>1, NextChunkPlayed
<1>4. QED
  BY <1>1, <1>2, <1>3 DEF StreamEnds

LEMMA PlayedByReceive ==
  ASSUME IInv, Played, NEW bytes \in Pieces, Receive(bytes)
  PROVE  Played'
<1>0. /\ task = "reading" /\ open /\ ~cancelling /\ TypeOK /\ InOrder
  BY DEF Receive, IInv, Played, Speaking
<1>1. /\ received' = [received EXCEPT ![chunk] = @ + bytes] /\ pending' = pending + bytes
      /\ task' = IF pending' >= FrameBytes THEN Yielded ELSE "reading"
      /\ started' = (started \/ pending' >= FrameBytes)
      /\ UNCHANGED <<chunk, chunks, open, cancelling, frames, spokenBy, turn, outcome>>
  BY DEF Receive, textVars, heardVars, reportVars
<1>2. /\ chunk \in Chunk /\ chunks \in Chunk /\ bytes \in Nat /\ pending \in Nat /\ FrameBytes \in Nat
      /\ received[chunk] \in Nat /\ frames[chunk] \in Nat /\ received \in [Chunk -> 0..MaxBytes]
  BY <1>0, SpeechAssumption DEF TypeOK
<1>3. task' \in {"marking", "waiting", "reading"}
  BY <1>1 DEF Yielded
<1>4. BytesOf(frames[chunk]) \in Nat
  BY <1>2, TimesNext DEF BytesOf
<1>5. Accounted'
  <2>1. received'[chunk] = BytesOf(frames[chunk]) + pending + bytes
    BY <1>0, <1>1, <1>2, <1>4 DEF InOrder, Accounted
  <2>2. QED
    BY <1>1, <1>2, <1>3, <1>4, <2>1 DEF Accounted, BytesOf
<1>6. \A c \in Chunk : c # chunk => received'[c] = received[c]
  BY <1>1, <1>2
<1>7. InOrder'
  BY <1>0, <1>1, <1>2, <1>5, <1>6, SpeechAssumption DEF InOrder, Whole, Chunk
<1>8. task' = "reading" => started' = started
  <2>1. started \in BOOLEAN
    BY <1>0 DEF TypeOK
  <2>2. task' = "reading" => ~(pending' >= FrameBytes)
    BY <1>1 DEF Yielded
  <2>3. QED
    BY <1>1, <2>1, <2>2
<1>9. QED
  BY <1>0, <1>1, <1>3, <1>7, <1>8 DEF Played

LEMMA PlayedByCapture ==
  ASSUME IInv, Played, Capture
  PROVE  Played'
<1>0. /\ task = "waiting" /\ ~cancelling /\ TypeOK /\ InOrder /\ turn \in Turn
  BY DEF Capture, IInv, Turns, Played, Speaking, Playing
<1>1. /\ task' = "capturing" /\ frames' = [frames EXCEPT ![chunk] = @ + 1]
      /\ spokenBy' = [spokenBy EXCEPT ![turn] = @ \cup {voice}]
      /\ UNCHANGED <<chunk, chunks, open, pending, received, cancelling, turn>>
  BY DEF Capture, textVars, streamVars
<1>2. chunk \in Chunk /\ frames[chunk] \in Nat /\ frames \in [Chunk -> Nat]
  BY <1>0 DEF TypeOK
<1>3. frames'[chunk] = frames[chunk] + 1 /\ \A c \in Chunk : c # chunk => frames'[c] = frames[c]
  BY <1>1, <1>2
<1>4. (frames[chunk] + 1) - 1 = frames[chunk] /\ frames[chunk] + 1 > 0
  BY <1>2
<1>5. Accounted'
  BY <1>0, <1>1, <1>3, <1>4 DEF InOrder, Accounted, BytesOf
<1>6. InOrder'
  BY <1>0, <1>1, <1>2, <1>3, <1>5, SpeechAssumption DEF InOrder, Whole, Chunk
<1>7. spokenBy'[turn] # {}
  BY <1>0, <1>1 DEF TypeOK
<1>8. QED
  BY <1>1, <1>6, <1>7 DEF Played

LEMMA PlayedByCaptured ==
  ASSUME IInv, Played, Captured
  PROVE  Played'
<1>0. /\ task = "capturing" /\ ~cancelling /\ TypeOK /\ Buffered /\ Voices /\ InOrder
      /\ spokenBy[turn] # {}
      /\ UNCHANGED Aside /\ UNCHANGED <<active, switchedIn>>
  BY DEF Captured, IInv, Played, Speaking, Playing, Aside, textVars, heardVars, reportVars
<1>1. CASE /\ open /\ pending' = pending - FrameBytes /\ task' = "reading"
           /\ UNCHANGED <<events, voice, chunk, open, received, started>>
  <2>1. /\ pending \in Nat /\ FrameBytes \in Nat \ {0} /\ frames[chunk] - 1 \in Nat
        /\ received[chunk] = BytesOf(frames[chunk] - 1) + pending
    BY <1>0, SpeechAssumption DEF InOrder, Accounted, TypeOK
  <2>2. /\ (frames[chunk] - 1) + 1 = frames[chunk]
        /\ ((frames[chunk] - 1) + 1) * FrameBytes = (frames[chunk] - 1) * FrameBytes + FrameBytes
        /\ (frames[chunk] - 1) * FrameBytes \in Nat
    BY <1>0, <2>1, TimesNext DEF TypeOK
  <2>3. received[chunk] = BytesOf(frames[chunk]) + (pending - FrameBytes)
    BY <2>1, <2>2 DEF BytesOf
  <2>4. Accounted'
    BY <1>0, <1>1, <2>3 DEF Accounted, BytesOf, Aside
  <2>5. InOrder'
    BY <1>0, <1>1, <2>4 DEF InOrder, Whole, Aside
  <2>6. started
    BY <1>0 DEF Voices, Playing
  <2>7. QED
    BY <1>0, <1>1, <2>5, <2>6 DEF Played, Aside
<1>2. CASE ~open /\ NextChunk
  BY <1>0, <1>2, NextChunkPlayed
<1>3. QED
  BY <1>1, <1>2 DEF Captured

LEMMA PlayedBySynthesize ==
  ASSUME IInv, Played, Synthesize
  PROVE  Played'
<1>0. /\ task = "announcing" /\ TypeOK /\ \A c \in Chunk : frames[c] = 0
      /\ UNCHANGED <<frames, chunks, turn, spokenBy, outcome, cancelling>>
  BY DEF Synthesize, IInv, Played, textVars, heardVars, reportVars
<1>1. CASE task' = "failed"
  BY <1>1 DEF Played, Speaking, Playing
<1>2. CASE \E v \in Voice : OpenVoice(v)
  <2>1. /\ chunk' = 1 /\ open' = TRUE /\ pending' = 0 /\ received' = [c \in Chunk |-> 0]
        /\ started' = FALSE /\ task' = "reading"
    BY <1>2 DEF OpenVoice
  <2>2. 1 \in Chunk /\ 1 <= chunks /\ \A c \in Chunk : c >= 1
    BY <1>0, SpeechAssumption DEF TypeOK, Chunk
  <2>3. 0 * FrameBytes = 0
    BY SpeechAssumption
  <2>4. InOrder'
    BY <1>0, <2>1, <2>2, <2>3 DEF InOrder, Accounted, BytesOf, Chunk
  <2>5. QED
    BY <1>0, <2>1, <2>4 DEF Played
<1>3. QED
  BY <1>1, <1>2 DEF Synthesize, Voice

\* The steps that leave the audio alone, and those that end the task.
LEMMA PlayedByOthers ==
  ASSUME IInv, Played,
         \/ TakeFrame \/ Mark \/ CaptureFails \/ Told \/ CancelledInLoop
         \/ CancelledOutside \/ FadeOut \/ ReportCancelled \/ StopAudio \/ AudioStopped
         \/ TimeoutWhilePlaying \/ BargeIn \/ ClientCancel
         \/ \E isLatin \in BOOLEAN, n \in Chunk : Speak(isLatin, n)
  PROVE  Played'
<1> USE DEF textVars, providerVars, streamVars, reportVars, heardVars, transportVars
<1>1. CASE TakeFrame
  <2>1. InOrder' /\ task' \in {"marking", "waiting"}
    BY <1>1 DEF TakeFrame, Yielded, Played, InOrder, Accounted, BytesOf, Whole, Speaking
  <2>2. QED
    BY <2>1 DEF Played
<1>2. CASE Mark
  <2>1. InOrder'
    BY <1>2 DEF Mark, Played, InOrder, Accounted, BytesOf, Whole, Speaking, Playing
  <2>2. QED
    BY <1>2, <2>1 DEF Mark, Played
<1>3. CASE CaptureFails \/ CancelledInLoop \/ FadeOut
  BY <1>3 DEF CaptureFails, CancelledInLoop, FadeOut, Played, Speaking, Playing
<1>4. CASE Told
  <2>1. Spoken'
    BY <1>4 DEF Told, Played, Spoken, BrokenOff, Whole
  <2>2. QED
    BY <1>4, <2>1 DEF Told, Played, Speaking, Playing
<1>5. CASE CancelledOutside \/ ReportCancelled
  <2>1. task' = "none" /\ outcome'[turn] # "completed" /\ turn' = turn
    BY <1>5 DEF CancelledOutside, ReportCancelled, TaskEnds, IInv, TypeOK, Turns, Stage
  <2>2. QED
    BY <2>1 DEF Played, Speaking, Playing
<1>6. CASE StopAudio \/ AudioStopped
  <2>1. /\ UNCHANGED <<task, started, spokenBy, turn, outcome, frames, chunks, chunk, open, pending,
                       received, cancelling, switchedIn>>
    BY <1>6 DEF StopAudio, AudioStopped
  <2>2. QED
    BY <2>1 DEF Played, InOrder, Accounted, BytesOf, Whole, Spoken, BrokenOff, Speaking, Playing
<1>7. CASE TimeoutWhilePlaying \/ BargeIn \/ ClientCancel
  <2>1. /\ task' = task /\ cancelling' = (task # "none")
        /\ UNCHANGED <<started, spokenBy, turn, outcome, frames, chunks, received, switchedIn>>
    BY <1>7 DEF TimeoutWhilePlaying, BargeIn, CancelRequested, ClientCancel
  <2>2. QED
    BY <2>1 DEF Played, Whole, Spoken, BrokenOff, Speaking, Playing
<1>8. CASE \E isLatin \in BOOLEAN, n \in Chunk : Speak(isLatin, n)
  BY <1>8 DEF Speak, Played, Speaking, Playing
<1>9. QED
  BY <1>1, <1>2, <1>3, <1>4, <1>5, <1>6, <1>7, <1>8

LEMMA PlayedNext ==
  ASSUME IInv, Played, [Next]_vars
  PROVE  Played'
<1>1. CASE UNCHANGED vars
  BY <1>1 DEF vars, textVars, providerVars, streamVars, reportVars, heardVars, Played, InOrder,
     Accounted, BytesOf, Whole, Spoken, BrokenOff, Speaking, Playing
<1>2. CASE StreamFails
  <2>1. task = "reading" /\ ~cancelling /\ Fail /\ UNCHANGED Aside
    BY <1>2 DEF StreamFails, Aside, textVars, transportVars, heardVars, reportVars
  <2>2. QED
    BY <2>1, FailPlayed
<1>3. CASE Report
  <2>1. /\ task' = "none" /\ task \in {"reporting", "failed"}
        /\ outcome'[turn] = IF task = "reporting" THEN "completed" ELSE "tts_error"
        /\ UNCHANGED <<turn, switchedIn, spokenBy, chunks, frames, received>>
    BY <1>3 DEF Report, TaskEnds, textVars, providerVars, heardVars, IInv, TypeOK, Turns
  <2>2. task = "reporting" => Spoken'
    BY <2>1 DEF Played, Spoken, BrokenOff, Whole
  <2>3. QED
    BY <2>1, <2>2 DEF Played, Speaking, Playing
<1>4. QED
  BY <1>1, <1>2, <1>3, PlayedByStreamEnds, PlayedByReceive, PlayedByCapture, PlayedByCaptured,
     PlayedBySynthesize, PlayedByOthers DEF Next, SpeechTask, MainLoop

------------------------------------------------------------------------------
(* The theorems *)

THEOREM Invariance == Spec => []IInv
<1>1. Init => IInv
  BY InitInvariant
<1>2. IInv /\ [Next]_vars => IInv'
  BY NextInvariant
<1>3. QED
  BY <1>1, <1>2, PTL DEF Spec

\* The variables keep their types.
THEOREM TypeCorrect == Spec => []TypeOK
<1>1. IInv => TypeOK
  BY DEF IInv
<1>2. QED
  BY <1>1, Invariance, PTL

LEMMA AtMostOne ==
  ASSUME NEW S, \A v, w \in S : v = w
  PROVE  Cardinality(S) <= 1
<1>1. CASE S = {}
  BY <1>1, FS_EmptySet
<1>2. CASE S # {}
  <2>1. PICK v \in S : TRUE
    BY <1>2
  <2>2. S = {v}
    BY <2>1
  <2>3. QED
    BY <2>2, FS_Singleton
<1>3. QED
  BY <1>1, <1>2

\* One answer is heard in one voice, and after the switch never in the
\* primary's (FailoverTTSProvider.synthesize).
THEOREM OneProvider == Spec => []OneVoice
<1>1. IInv => OneVoice
  <2>1. SUFFICES ASSUME IInv, NEW t \in Turn
                 PROVE  /\ Cardinality(spokenBy[t]) <= 1
                        /\ switchedIn # 0 /\ t > switchedIn => "primary" \notin spokenBy[t]
    BY DEF OneVoice
  <2>2. /\ \A v, w \in spokenBy[t] : v = w
        /\ switchedIn # 0 /\ t > switchedIn => "primary" \notin spokenBy[t]
    BY <2>1 DEF IInv, Voices
  <2>3. QED
    BY <2>2, AtMostOne
<1>2. QED
  BY <1>1, Invariance, PTL

\* A completed answer was played to its last byte, unless the primary broke off
\* in the middle of it (_speak_text, the padded last frame of the TTS streams).
THEOREM PlayedToTheEnd == Spec => []SpokenWhole
<1>1. Init => Played
  BY PlayedInit
<1>2. IInv /\ Played /\ [Next]_vars => Played'
  BY PlayedNext
<1>3. Played => SpokenWhole
  BY DEF Played, SpokenWhole, Spoken, BrokenOff, Whole
<1>4. QED
  BY <1>1, <1>2, <1>3, Invariance, PTL DEF Spec

\* The client is told of the switch once, and before the turn of the switch is
\* reported as completed (drain_fallback_events).
THEOREM SwitchReported == Spec => []SwitchTold
<1>1. IInv => SwitchTold
  <2>1. SUFFICES ASSUME IInv
                 PROVE  SwitchTold
    OBVIOUS
  <2>2. /\ \A t, u \in told : t = u
        /\ switchedIn # 0 /\ outcome[switchedIn] = "completed" => switchedIn \in told
    BY <2>1 DEF IInv, Events
  <2>3. QED
    BY <2>2, AtMostOne DEF SwitchTold
<1>2. QED
  BY <1>1, Invariance, PTL

\* No frame of an answer follows the fade that a barge-in has waited for
\* (stop_audio, publish_audio_frame).
THEOREM SilentAfterStop == Spec => SilenceAfterStop
<1>1. ASSUME IInv, [Next]_vars, turn \in silenced, turn' = turn
      PROVE  frames' = frames
  <2>1. task = "none" \/ cancelling \/ task \in {"fadeWait", "fading"}
    BY <1>1 DEF IInv, Silence
  <2>2. ~Capture
    BY <2>1 DEF Capture
  <2>3. turn + 1 # turn
    <3>1. turn \in Nat
      BY <1>1 DEF IInv, TypeOK
    <3>2. QED
      BY <3>1
  <2>4. \A isLatin \in BOOLEAN, n \in Chunk : ~Speak(isLatin, n)
    BY <1>1, <2>3 DEF Speak
  <2>5. QED
    BY <1>1, <2>2, <2>4 DEF vars, heardVars, Next, SpeechTask, MainLoop, Synthesize, Receive,
       TakeFrame, StreamEnds, StreamFails, Mark, Captured, CaptureFails, Told, Report,
       CancelledInLoop, CancelledOutside, FadeOut, ReportCancelled, StopAudio, AudioStopped,
       TimeoutWhilePlaying, BargeIn, ClientCancel
<1>2. IInv /\ [Next]_vars => [(turn \in silenced /\ turn' = turn) => frames' = frames]_vars
  BY <1>1
<1>3. QED
  BY <1>2, Invariance, PTL DEF Spec, SilenceAfterStop
==============================================================================
