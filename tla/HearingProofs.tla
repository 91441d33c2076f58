---------------------------- MODULE HearingProofs ----------------------------
(***************************************************************************)
(* Proofs about how the agent hears.  The first part is about Endpointing, *)
(* for every value of the thresholds that its assumption admits and for    *)
(* sessions of any length: the type invariant, what the STT stream of a    *)
(* turn holds, when silence ends a turn, and that endpointing implements   *)
(* UtteranceSource.  The second is about SttStream, for every vocabulary,  *)
(* chunk size and number of utterances, frames and messages.               *)
(***************************************************************************)
EXTENDS Endpointing, SttStream, SequenceTheorems, TLAPS

\* The frames of q are consecutive and the last of them is frame e.
Window(q, e) == \A i \in 1..Len(q) : q[i] + Len(q) = e + i

\* The pre-speech buffer is a window of at most PreBuffer frames.
BufferIsWindow == Len(preSpeech) <= PreBuffer /\ Window(preSpeech, elapsed)

\* An unconfirmed candidate: its frames are all in the buffer, and it began
\* after the last committed turn ended.
CandidateBuffered ==
  state = "speech_candidate" =>
    /\ candidate \in 1..(MinSpeech - 1)
    /\ candidate <= Len(preSpeech)
    /\ onset + candidate = elapsed + 1
    /\ cut < onset

\* What an open turn was given, and how its counters stand.
TurnStands ==
  InTurn =>
    /\ Len(sent) > 0 /\ Window(sent, elapsed)
    /\ sent[1] <= onset
    /\ cut < sent[1] + (PreBuffer - MinSpeech)
    /\ speech < Forced
    /\ elapsed = voiced + silence
    /\ silence < Continuation \/ silence < Coalescing
    /\ state = "in_speech" => silence < EndpointSilence

\* Turn ids: who holds one and which was last announced.
IdsStand ==
  /\ opened <= lastTurn
  /\ state = "idle" => turn = 0
  /\ state # "idle" => turn = lastTurn /\ turn > 0
  /\ state = "speech_candidate" => opened < turn
  /\ InTurn => opened = turn

\* No history is about the future.
HistoryPast == voiced <= elapsed /\ cut <= elapsed

IInv ==
  /\ TypeOK /\ BufferIsWindow /\ CandidateBuffered /\ TurnStands
  /\ IdsStand /\ HistoryPast /\ PauseKeepsTurn

------------------------------------------------------------------------------
(* The buffers *)

\* What the assumption says of each threshold.
LEMMA Thresholds ==
  /\ MinSpeech \in Nat /\ PreBuffer \in Nat /\ EndpointSilence \in Nat
  /\ Continuation \in Nat /\ Coalescing \in Nat /\ Forced \in Nat /\ MaxFrame \in Nat
  /\ 2 <= MinSpeech /\ MinSpeech <= PreBuffer /\ MinSpeech < Forced
  /\ 0 < EndpointSilence /\ EndpointSilence <= Coalescing
BY ThresholdAssumption

\* Appending the next frame keeps a window a window.
LEMMA AppendWindow ==
  ASSUME NEW q \in Seq(Nat), NEW e \in Nat, Window(q, e)
  PROVE  /\ Append(q, e + 1) \in Seq(Nat)
         /\ Len(Append(q, e + 1)) = Len(q) + 1
         /\ Len(q) > 0 => Append(q, e + 1)[1] = q[1]
         /\ Window(Append(q, e + 1), e + 1)
<1>1. e + 1 \in Nat /\ Len(q) \in Nat
  OBVIOUS
<1>2. /\ Append(q, e + 1) \in Seq(Nat)
      /\ Len(Append(q, e + 1)) = Len(q) + 1
      /\ \A i \in 1..Len(q) : Append(q, e + 1)[i] = q[i]
      /\ Append(q, e + 1)[Len(q) + 1] = e + 1
  BY <1>1, AppendProperties
<1> DEFINE r == Append(q, e + 1)
<1> HIDE DEF r
<1>3. /\ Len(r) = Len(q) + 1
      /\ \A i \in 1..Len(q) : r[i] = q[i]
      /\ r[Len(q) + 1] = e + 1
  BY <1>2 DEF r
<1>4. \A i \in 1..Len(q) : q[i] \in Nat /\ q[i] + Len(q) = e + i
  BY DEF Window
<1>5. ASSUME NEW i \in 1..(Len(q) + 1)
      PROVE  r[i] + (Len(q) + 1) = e + 1 + i
  <2>1. CASE i = Len(q) + 1 BY <2>1, <1>1, <1>3
  <2>2. CASE i \in 1..Len(q)
    <3>1. r[i] = q[i] /\ q[i] \in Nat /\ q[i] + Len(q) = e + i
      BY <2>2, <1>3, <1>4
    <3> HIDE <1>3, <1>4
    <3> QED BY <3>1, <1>1
  <2> QED BY <2>1, <2>2, <1>1
<1>6. Window(r, e + 1) BY <1>3, <1>5 DEF Window
<1>7. Len(q) > 0 => r[1] = q[1] BY <1>1, <1>3
<1> QED BY <1>2, <1>6, <1>7 DEF r

\* So does dropping its first frame.
LEMMA TailWindow ==
  ASSUME NEW q \in Seq(Nat), NEW e \in Nat, Window(q, e), Len(q) > 0
  PROVE  /\ Tail(q) \in Seq(Nat)
         /\ Len(Tail(q)) = Len(q) - 1
         /\ Window(Tail(q), e)
<1>1. Len(q) \in Nat /\ q # <<>>
  OBVIOUS
<1>2. /\ Tail(q) \in Seq(Nat)
      /\ Len(Tail(q)) = Len(q) - 1
      /\ \A i \in 1..Len(Tail(q)) : Tail(q)[i] = q[i + 1]
  BY <1>1, HeadTailProperties
<1> DEFINE r == Tail(q)
<1> HIDE DEF r
<1>3. /\ Len(r) = Len(q) - 1
      /\ \A i \in 1..Len(r) : r[i] = q[i + 1]
  BY <1>2 DEF r
<1>4. \A i \in 1..Len(q) : q[i] \in Nat /\ q[i] + Len(q) = e + i
  BY DEF Window
<1>5. ASSUME NEW i \in 1..Len(r) PROVE r[i] + Len(r) = e + i
  <2>1. i + 1 \in 1..Len(q) BY <1>1, <1>3
  <2>2. q[i + 1] + Len(q) = e + (i + 1) BY <2>1, <1>4
  <2>3. r[i] = q[i + 1] /\ q[i + 1] \in Nat BY <2>1, <1>3, <1>4
  <2>4. Len(r) = Len(q) - 1 /\ i \in Nat BY <1>3
  <2>5. \A x, n \in Nat : x + n = e + (i + 1) => x + (n - 1) = e + i
    BY <2>4
  <2> QED BY <2>2, <2>3, <2>4, <2>5, <1>1
<1>6. Window(r, e) BY <1>5 DEF Window
<1> QED BY <1>2, <1>6 DEF r

\* _remember_pre_speech keeps the buffer a window, and within its bound.
LEMMA RememberWindow ==
  ASSUME TypeOK, BufferIsWindow
  PROVE  /\ Remember(elapsed + 1) \in Seq(Nat)
         /\ Len(Remember(elapsed + 1)) \in Nat
         /\ Len(Remember(elapsed + 1)) <= PreBuffer
         /\ Window(Remember(elapsed + 1), elapsed + 1)
         /\ Len(Remember(elapsed + 1)) =
              IF Len(preSpeech) < PreBuffer THEN Len(preSpeech) + 1 ELSE PreBuffer
<1>1. /\ preSpeech \in Seq(Nat) /\ Len(preSpeech) \in Nat /\ elapsed \in Nat
      /\ Len(preSpeech) <= PreBuffer /\ Window(preSpeech, elapsed)
  BY Thresholds DEF TypeOK, BufferIsWindow
<1>2. CASE Len(preSpeech) < PreBuffer
  <2>1. Remember(elapsed + 1) = Append(preSpeech, elapsed + 1)
    BY <1>2 DEF Remember
  <2>2. /\ Append(preSpeech, elapsed + 1) \in Seq(Nat)
        /\ Len(Append(preSpeech, elapsed + 1)) = Len(preSpeech) + 1
        /\ Window(Append(preSpeech, elapsed + 1), elapsed + 1)
    BY <1>1, AppendWindow
  <2>3. Len(preSpeech) + 1 \in Nat /\ Len(preSpeech) + 1 <= PreBuffer
    BY <1>1, <1>2, Thresholds
  <2> QED BY <1>2, <2>1, <2>2, <2>3
<1>3. CASE Len(preSpeech) = PreBuffer
  <2>1. Remember(elapsed + 1) = Append(Tail(preSpeech), elapsed + 1)
    BY <1>3, Thresholds DEF Remember
  <2>2. /\ Tail(preSpeech) \in Seq(Nat) /\ Window(Tail(preSpeech), elapsed)
        /\ Len(Tail(preSpeech)) = PreBuffer - 1
    BY <1>1, <1>3, TailWindow, Thresholds
  <2>3. /\ Append(Tail(preSpeech), elapsed + 1) \in Seq(Nat)
        /\ Len(Append(Tail(preSpeech), elapsed + 1)) = (PreBuffer - 1) + 1
        /\ Window(Append(Tail(preSpeech), elapsed + 1), elapsed + 1)
    BY <1>1, <2>2, AppendWindow
  <2>4. (PreBuffer - 1) + 1 = PreBuffer /\ PreBuffer <= PreBuffer
    BY Thresholds
  <2>5. /\ Remember(elapsed + 1) \in Seq(Nat)
        /\ Len(Remember(elapsed + 1)) = PreBuffer
        /\ Window(Remember(elapsed + 1), elapsed + 1)
    BY <2>1, <2>3, <2>4
  <2>6. ~(Len(preSpeech) < PreBuffer) BY <1>3, Thresholds
  <2> QED BY <2>5, <2>6, Thresholds
<1> QED BY <1>1, <1>2, <1>3, Thresholds

\* The same, of the buffer after the frame.
LEMMA Remembered ==
  ASSUME TypeOK, BufferIsWindow,
         preSpeech' = Remember(elapsed + 1), elapsed' = elapsed + 1
  PROVE  /\ preSpeech' \in Seq(Nat) /\ BufferIsWindow'
         /\ Len(preSpeech) \in Nat /\ Len(preSpeech') \in Nat
         /\ Len(preSpeech') =
              IF Len(preSpeech) < PreBuffer THEN Len(preSpeech) + 1 ELSE PreBuffer
<1>1. Len(preSpeech) \in Nat BY DEF TypeOK
<1> QED BY <1>1, RememberWindow DEF BufferIsWindow

------------------------------------------------------------------------------
(* The steps *)

\* Frames outside a turn that change neither candidate nor turn.
LEMMA SilentPreserves ==
  ASSUME IInv, NEW level \in Level, NEW marker \in BOOLEAN, Silent(level, marker)
  PROVE  IInv'
<1> USE Remembered, Thresholds DEF IInv, Silent, Arrives
<1>1. TypeOK' BY DEF TypeOK
<1>2. BufferIsWindow' BY DEF BufferIsWindow, TypeOK
<1>3. CandidateBuffered' /\ TurnStands' /\ IdsStand' /\ PauseKeepsTurn'
  BY DEF CandidateBuffered, TurnStands, IdsStand, PauseKeepsTurn, InTurn
<1>4. HistoryPast' BY DEF HistoryPast, TypeOK
<1> QED BY <1>1, <1>2, <1>3, <1>4

\* The first loud frame takes a turn id and starts the candidate.
LEMMA BecomeCandidatePreserves ==
  ASSUME IInv, NEW level \in Level, NEW marker \in BOOLEAN,
         BecomeCandidate(level, marker)
  PROVE  IInv'
<1> USE Remembered, Thresholds DEF IInv, BecomeCandidate, Arrives, NextTurnId
<1>1. TypeOK' BY DEF TypeOK
<1>2. BufferIsWindow' BY DEF BufferIsWindow, TypeOK
<1>3. CandidateBuffered'
  <2>1. Len(preSpeech') \in Nat /\ 1 <= Len(preSpeech')
    OBVIOUS
  <2>2. /\ candidate' = 1 /\ 1 \in 1..(MinSpeech - 1)
        /\ onset' = elapsed + 1 /\ elapsed' = elapsed + 1 /\ elapsed \in Nat
        /\ cut' = cut /\ cut < elapsed + 1
    BY DEF HistoryPast, TypeOK
  <2> QED BY <2>1, <2>2 DEF CandidateBuffered
<1>4. TurnStands' /\ IdsStand' /\ PauseKeepsTurn'
  BY DEF TurnStands, IdsStand, PauseKeepsTurn, InTurn, TypeOK
<1>5. HistoryPast' BY DEF HistoryPast, TypeOK
<1> QED BY <1>1, <1>2, <1>3, <1>4, <1>5

\* A candidate given up: the turn id is spent, the buffer stays.
LEMMA FalseStartPreserves ==
  ASSUME IInv, NEW level \in Level, NEW marker \in BOOLEAN,
         FalseStart(level, marker)
  PROVE  IInv'
<1> USE Remembered, Thresholds DEF IInv, FalseStart, Arrives, ResetTurn
<1>1. TypeOK' BY DEF TypeOK
<1>2. BufferIsWindow' BY DEF BufferIsWindow, TypeOK
<1>3. CandidateBuffered' /\ TurnStands' /\ IdsStand' /\ PauseKeepsTurn'
  BY DEF CandidateBuffered, TurnStands, IdsStand, PauseKeepsTurn, InTurn
<1>4. HistoryPast' BY DEF HistoryPast, TypeOK
<1> QED BY <1>1, <1>2, <1>3, <1>4

\* A candidate one frame longer is still within the buffer.
LEMMA StillCandidatePreserves ==
  ASSUME IInv, NEW level \in Level, NEW marker \in BOOLEAN,
         StillCandidate(level, marker)
  PROVE  IInv'
<1> USE Remembered, Thresholds DEF IInv, StillCandidate, Arrives
<1>1. TypeOK' BY DEF TypeOK
<1>2. BufferIsWindow' BY DEF BufferIsWindow, TypeOK
<1>3. CandidateBuffered'
  <2>1. /\ candidate \in 1..(MinSpeech - 1) /\ candidate + 1 < MinSpeech
        /\ candidate <= Len(preSpeech)
        /\ onset + candidate = elapsed + 1 /\ cut < onset
        /\ onset \in Nat /\ elapsed \in Nat /\ candidate' = candidate + 1
    BY DEF CandidateBuffered, TypeOK
  <2>2. candidate + 1 <= Len(preSpeech') BY <2>1
  <2>3. onset + (candidate + 1) = (elapsed + 1) + 1
    BY <2>1
  <2> QED BY <2>1, <2>2, <2>3 DEF CandidateBuffered
<1>4. TurnStands' /\ IdsStand' /\ PauseKeepsTurn'
  BY DEF TurnStands, IdsStand, PauseKeepsTurn, InTurn
<1>5. HistoryPast' BY DEF HistoryPast, TypeOK
<1> QED BY <1>1, <1>2, <1>3, <1>4, <1>5

\* speech_start: the flushed buffer covers the candidate.
LEMMA SpeechStartPreserves ==
  ASSUME IInv, NEW level \in Level, NEW marker \in BOOLEAN,
         SpeechStart(level, marker)
  PROVE  IInv'
<1> USE Thresholds DEF IInv, SpeechStart, Arrives, Flush
<1>0. /\ sent' = Remember(elapsed + 1) /\ preSpeech' = <<>>
      /\ elapsed' = elapsed + 1 /\ voiced' = elapsed + 1
      /\ state' = "in_speech" /\ silence' = 0
      /\ candidate + 1 = MinSpeech /\ speech' = MinSpeech /\ candidate' = MinSpeech
  BY DEF CandidateBuffered, TypeOK
<1>1. TypeOK' BY <1>0, RememberWindow DEF TypeOK
<1>2. BufferIsWindow' BY <1>0 DEF BufferIsWindow, Window, TypeOK
<1>3. /\ candidate \in Nat /\ candidate <= Len(preSpeech) /\ Len(preSpeech) \in Nat
      /\ onset + candidate = elapsed + 1 /\ cut < onset
      /\ onset \in Nat /\ elapsed \in Nat /\ cut \in Nat
  BY DEF CandidateBuffered, TypeOK
<1>4. Len(sent') \in Nat /\ MinSpeech <= Len(sent') /\ Len(sent') <= PreBuffer
  BY <1>0, <1>3, RememberWindow
<1>5. Window(sent', elapsed') BY <1>0, RememberWindow
<1>6. sent'[1] \in Nat /\ sent'[1] + Len(sent') = elapsed + 2
  <2>1. 1 \in 1..Len(sent') BY <1>4
  <2>2. sent' \in Seq(Nat) BY <1>1 DEF TypeOK
  <2>3. sent'[1] \in Nat BY <2>1, <2>2, ElementOfSeq
  <2>4. sent'[1] + Len(sent') = elapsed' + 1 BY <2>1, <1>5 DEF Window
  <2> QED BY <2>3, <2>4, <1>0, <1>3
<1>7. TurnStands'
  <2>1. sent'[1] <= onset /\ cut < sent'[1] + (PreBuffer - MinSpeech)
    BY <1>0, <1>3, <1>4, <1>6
  <2>2. /\ onset' = onset /\ cut' = cut /\ Len(sent') > 0
        /\ speech' < Forced /\ elapsed' = voiced' + silence'
        /\ silence' < Coalescing /\ silence' < EndpointSilence
    BY <1>0, <1>3, <1>4
  <2> QED BY <2>1, <2>2, <1>5 DEF TurnStands
<1>8. state' # "speech_candidate" /\ state' # "idle" /\ event' # "silence"
  BY <1>0
<1>9. CandidateBuffered' /\ PauseKeepsTurn'
  BY <1>8 DEF CandidateBuffered, PauseKeepsTurn
<1>10. IdsStand' BY <1>8 DEF IdsStand, TypeOK
<1>11. HistoryPast' BY <1>0, <1>3 DEF HistoryPast, TypeOK
<1> QED BY <1>1, <1>2, <1>7, <1>9, <1>10, <1>11

\* A frame that leaves the turn open.
LEMMA ContinuePreserves ==
  ASSUME IInv, NEW level \in Level, NEW marker \in BOOLEAN,
         Continue(level, marker)
  PROVE  IInv'
<1> USE Thresholds DEF IInv, Continue, Arrives
<1>1. /\ state \in {"in_speech", "endpoint_candidate"}
      /\ state' \in {"in_speech", "endpoint_candidate"}
      /\ elapsed' = elapsed + 1
  BY DEF InTurn, StateAfter, StateAfterSilence
<1>2. speech' \in 0..Forced /\ speech' < Forced
  BY DEF ForcedNow, SpeechAfter, TypeOK
<1>3. silence' \in Nat /\ elapsed' = voiced' + silence' /\ voiced' \in Nat
  BY <1>1 DEF SilenceAfter, TurnStands, InTurn, TypeOK
<1>4. state' = "in_speech" => silence' < EndpointSilence
  BY <1>1 DEF StateAfter, StateAfterSilence, SilenceAfter, TurnStands, InTurn, TypeOK
<1>5. silence' < Continuation \/ silence' < Coalescing
  <2>1. CASE state' = "in_speech" BY <2>1, <1>3, <1>4
  <2>2. CASE state' = "endpoint_candidate"
    BY <2>2, <1>3 DEF SilentNow, Required
  <2> QED BY <1>1, <2>1, <2>2
<1>6. /\ sent' \in Seq(Nat) /\ Len(sent') > 0 /\ sent'[1] = sent[1]
      /\ Window(sent', elapsed')
  BY <1>1, AppendWindow DEF TurnStands, InTurn, TypeOK
<1>7. TypeOK' BY <1>1, <1>2, <1>3, <1>6, RememberWindow DEF TypeOK
<1>8. BufferIsWindow' BY RememberWindow DEF BufferIsWindow, TypeOK
<1>9. TurnStands'
  BY <1>1, <1>2, <1>3, <1>4, <1>5, <1>6 DEF TurnStands, InTurn
<1>10. CandidateBuffered' /\ IdsStand' /\ PauseKeepsTurn'
  BY <1>1 DEF CandidateBuffered, IdsStand, PauseKeepsTurn, InTurn
<1>11. HistoryPast' BY <1>1 DEF HistoryPast, TypeOK
<1> QED BY <1>7, <1>8, <1>9, <1>10, <1>11

\* The frame that ends the turn: by silence only after a pause long enough.
LEMMA CommitPreserves ==
  ASSUME IInv, NEW level \in Level, NEW marker \in BOOLEAN,
         Commit(level, marker)
  PROVE  IInv'
<1> USE Thresholds DEF IInv, Commit, Arrives, ResetTurn
<1>1. TypeOK' BY RememberWindow DEF TypeOK
<1>2. BufferIsWindow' BY RememberWindow DEF BufferIsWindow, TypeOK
<1>3. CandidateBuffered' /\ TurnStands' /\ IdsStand'
  BY DEF CandidateBuffered, TurnStands, IdsStand, InTurn
<1>4. HistoryPast' BY DEF HistoryPast, TypeOK
<1>5. PauseKeepsTurn'
  <2> SUFFICES ASSUME event' = "silence" PROVE PauseKeepsTurn'
    BY DEF PauseKeepsTurn
  <2>1. SilentNow(level, marker) /\ suggested' = marker
    OBVIOUS
  <2>2. level = "quiet"
    BY <2>1 DEF SilentNow, StateAfter
  <2>3. elapsed' - voiced' = silence + 1
    BY <2>2 DEF TurnStands, TypeOK
  <2>4. silence + 1 >= Required(marker)
    BY <2>1, <2>2 DEF SilentNow, SilenceAfter
  <2> QED BY <2>1, <2>3, <2>4 DEF PauseKeepsTurn, Required, TypeOK
<1> QED BY <1>1, <1>2, <1>3, <1>4, <1>5

------------------------------------------------------------------------------
(* The theorems *)

\* The counters start at zero.
LEMMA InitEstablishes == Init => IInv
<1> SUFFICES ASSUME Init PROVE IInv
  OBVIOUS
<1>1. TypeOK
  <2>1. <<>> \in Seq(Nat) OBVIOUS
  <2>2. /\ 0 \in 0..MaxFrame /\ 0 \in 0..MinSpeech /\ 0 \in 0..Forced
    BY Thresholds
  <2> QED BY <2>1, <2>2 DEF Init, TypeOK
<1>2. BufferIsWindow BY Thresholds DEF Init, BufferIsWindow, Window
<1>3. CandidateBuffered /\ TurnStands
  BY DEF Init, CandidateBuffered, TurnStands, InTurn
<1>4. IdsStand /\ HistoryPast /\ PauseKeepsTurn
  BY DEF Init, IdsStand, HistoryPast, PauseKeepsTurn, InTurn
<1> QED BY <1>1, <1>2, <1>3, <1>4 DEF IInv

\* Every frame, in every state, preserves the invariant.
LEMMA NextPreserves == IInv /\ [Next]_vars => IInv'
<1> SUFFICES ASSUME IInv, [Next]_vars PROVE IInv'
  OBVIOUS
<1>1. CASE Next
  <2> PICK level \in Level, marker \in BOOLEAN : ProcessFrame(level, marker)
    BY <1>1 DEF Next
  <2> QED
    BY SilentPreserves, BecomeCandidatePreserves, FalseStartPreserves,
       StillCandidatePreserves, SpeechStartPreserves, ContinuePreserves,
       CommitPreserves DEF ProcessFrame
<1>2. CASE UNCHANGED vars
  BY <1>2
     DEF vars, IInv, TypeOK, BufferIsWindow, Window, CandidateBuffered, TurnStands,
         IdsStand, HistoryPast, PauseKeepsTurn, InTurn
<1> QED BY <1>1, <1>2

\* The inductive invariant holds in every reachable state.
THEOREM Invariance == Spec => []IInv
<1>1. Init => IInv BY InitEstablishes
<1>2. IInv /\ [Next]_vars => IInv' BY NextPreserves
<1> QED BY <1>1, <1>2, PTL DEF Spec

\* Every variable keeps its type; the speech counter never passes Forced.
THEOREM TypeCorrect == Spec => []TypeOK
<1>1. IInv => TypeOK BY DEF IInv
<1> QED BY <1>1, Invariance, PTL

\* The STT stream of a turn misses no frame and repeats none.
THEOREM NoFrameLost == Spec => []AudioUnbroken
<1>1. IInv => AudioUnbroken
  <2> SUFFICES ASSUME IInv, InTurn
               PROVE  /\ Len(sent) > 0
                      /\ sent[1] <= onset
                      /\ sent[Len(sent)] = elapsed
                      /\ \A i \in 1..(Len(sent) - 1) : sent[i + 1] = sent[i] + 1
    BY DEF AudioUnbroken
  <2>1. /\ sent \in Seq(Nat) /\ Len(sent) \in Nat /\ Len(sent) > 0 /\ elapsed \in Nat
        /\ \A i \in 1..Len(sent) : sent[i] \in Nat
        /\ sent[1] <= onset
        /\ \A i \in 1..Len(sent) : sent[i] + Len(sent) = elapsed + i
    BY DEF IInv, TypeOK, TurnStands, Window
  <2>2. sent[Len(sent)] = elapsed
    BY <2>1
  <2>3. ASSUME NEW i \in 1..(Len(sent) - 1) PROVE sent[i + 1] = sent[i] + 1
    <3>1. i \in 1..Len(sent) /\ i + 1 \in 1..Len(sent) BY <2>1
    <3>2. /\ sent[i] + Len(sent) = elapsed + i
          /\ sent[i + 1] + Len(sent) = elapsed + (i + 1)
          /\ sent[i] \in Nat /\ sent[i + 1] \in Nat
      BY <2>1, <3>1
    <3>3. Len(sent) \in Nat /\ elapsed \in Nat /\ i \in Nat BY <2>1
    <3> QED BY <3>2, <3>3
  <2> QED BY <2>1, <2>2, <2>3
<1> QED BY <1>1, Invariance, PTL

\* A turn begins with at most PreBuffer - MinSpeech frames of the turn before.
THEOREM ReplayIsBounded == Spec => []ReplayBounded
<1>1. IInv => ReplayBounded BY DEF IInv, ReplayBounded, TurnStands
<1> QED BY <1>1, Invariance, PTL

\* No pause shorter than the window in force ends a turn.
THEOREM PausesTolerated == Spec => []PauseKeepsTurn
<1>1. IInv => PauseKeepsTurn BY DEF IInv
<1> QED BY <1>1, Invariance, PTL

\* Silence as long as the longer window has ended the turn.
THEOREM SilenceEndsTurn == Spec => []StopEndsTurn
<1>1. IInv => StopEndsTurn BY DEF IInv, StopEndsTurn, TurnStands, TypeOK
<1> QED BY <1>1, Invariance, PTL

------------------------------------------------------------------------------
(* Refinement *)

\* A frame is speech_start, an endpoint, or nothing the turn pipeline sees.
LEMMA StepsMap == IInv /\ [Next]_vars => [Source!Next]_(Source!vars)
<1> SUFFICES ASSUME IInv, [Next]_vars PROVE [Source!Next]_(Source!vars)
  OBVIOUS
<1> USE DEF Source!Next, Source!vars, OpenUtterance, InTurn
<1>1. CASE UNCHANGED vars BY <1>1 DEF vars
<1>2. CASE Next
  <2> PICK level \in Level, marker \in BOOLEAN : ProcessFrame(level, marker)
    BY <1>2 DEF Next
  <2>1. CASE Silent(level, marker) BY <2>1 DEF Silent
  <2>2. CASE BecomeCandidate(level, marker) BY <2>2 DEF BecomeCandidate
  <2>3. CASE FalseStart(level, marker) BY <2>3 DEF FalseStart, ResetTurn
  <2>4. CASE StillCandidate(level, marker) BY <2>4 DEF StillCandidate
  <2>5. CASE SpeechStart(level, marker)
    BY <2>5 DEF SpeechStart, Source!Open, IInv, IdsStand, TypeOK
  <2>6. CASE Continue(level, marker)
    BY <2>6 DEF Continue, StateAfter, StateAfterSilence
  <2>7. CASE Commit(level, marker)
    BY <2>7 DEF Commit, ResetTurn, Source!Commit, IInv, IdsStand, TypeOK
  <2> QED BY <2>1, <2>2, <2>3, <2>4, <2>5, <2>6, <2>7 DEF ProcessFrame
<1> QED BY <1>1, <1>2

\* Endpointing implements the utterance source the turn pipeline relies on.
THEOREM Implements == Spec => ImplementsSource
<1>1. Init => Source!Init
  BY DEF Init, Source!Init, OpenUtterance, InTurn
<1>2. IInv /\ [Next]_vars => [Source!Next]_(Source!vars)
  BY StepsMap
<1> QED BY <1>1, <1>2, Invariance, PTL DEF Spec, ImplementsSource, Source!Spec

-----------------------------------------------------------------------------
(* SttStream: the audio of a turn on its way to its transcript. *)

\* The tasks of a stream and the main loop keep step.
TasksInStep ==
  /\ stage = "none" <=> streamTurn = 0
  /\ closed => streamTurn > 0
  /\ stage = "connecting" => provider = "sarvam" /\ sender = "none"
  /\ sender # "none" => provider = "sarvam"
  /\ stage = "deadline" => sender \in SenderEnded
  /\ sender = "cancelled" => stage = "cancelled"
  /\ main = "awaiting" => closed
  /\ main = "loop" /\ closed => stage = "done"
  /\ main = "cut" => stage = "cancelled"

\* Unless the session is being closed, only a lost connection cancels a stream.
CancelledByLoss ==
  /\ got = "error" => broken
  /\ stage = "cancelled" /\ main \in {"loop", "awaiting", "cut"} =>
       broken /\ sender = "cancelled"

WholeTurnSent == closed /\ taken = pushed /\ pending = 0

\* The sender ends after the last frame, a final transcript is of them all.
SentBeforeFinal ==
  /\ sender = "none" => pending = 0
  /\ sender \in {"flushing", "done"} => WholeTurnSent
  /\ stage = "final" => WholeTurnSent /\ sender \in {"none", "done"}
  /\ streamTurn > 0 /\ outcomes[streamTurn] = <<"final">> =>
       WholeTurnSent /\ sender \in {"none", "done"}

\* An ended task has told one outcome, one at work or cancelled none.
ToldOnce ==
  \A t \in Turn :
    outcomes[t] \in
      IF t < streamTurn \/ (t = streamTurn /\ stage = "done") THEN {<<"final">>, <<"error">>} ELSE {<< >>}

Prefix(short, long) ==
  Len(short) <= Len(long) /\ \A i \in 1..Len(short) : long[i] = short[i]

\* The segments shown as finished are the first of those received.
ShownFirst ==
  /\ Prefix(settled, received)
  /\ streamTurn > 0 /\ outcomes[streamTurn] = <<"final">> => Prefix(settled, final)

StreamInv == StreamTypeOK /\ TasksInStep /\ CancelledByLoss /\ SentBeforeFinal /\ ToldOnce /\ ShownFirst

------------------------------------------------------------------------------
(* Sequences of segments *)

LEMMA JoinedKeeps ==
  ASSUME NEW segments \in Seq(Segment), NEW text \in Segment
  PROVE  /\ Joined(segments, text) \in Seq(Segment)
         /\ Prefix(segments, Joined(segments, text))
BY DEF Joined, Prefix

LEMMA CompleteKeeps ==
  ASSUME NEW result \in Segment \cup {"nothing"}, received \in Seq(Segment), tail \in Seq(Segment)
  PROVE  /\ Complete(result) \in Seq(Segment)
         /\ Prefix(received, Complete(result))
<1>1. CASE result # "nothing"
  <2>1. result \in Segment
    BY <1>1
  <2>2. QED
    BY <2>1, <1>1, JoinedKeeps DEF Complete
<1>2. CASE result = "nothing"
  BY <1>2 DEF Complete, Parts, Prefix
<1>3. QED
  BY <1>1, <1>2

LEMMA PrefixTransitive ==
  ASSUME NEW a \in Seq(Segment), NEW b \in Seq(Segment), NEW c \in Seq(Segment),
         Prefix(a, b), Prefix(b, c)
  PROVE  Prefix(a, c)
BY DEF Prefix

LEMMA PrefixReflexive == ASSUME NEW a \in Seq(Segment) PROVE Prefix(a, a)
BY DEF Prefix

LEMMA PrefixIsSubSeq ==
  ASSUME NEW a \in Seq(Segment), NEW b \in Seq(Segment), Prefix(a, b)
  PROVE  Len(a) <= Len(b) /\ SubSeq(b, 1, Len(a)) = a
BY DEF Prefix

------------------------------------------------------------------------------
(* The invariant *)

LEMMA InitInvariant == StreamInit => StreamInv
<1> SUFFICES ASSUME StreamInit PROVE StreamInv
  OBVIOUS
<1>1. StreamTypeOK
  <2>1. << >> \in Seq(Segment) /\ << >> \in Seq(Segment \cup {"signal"})
    OBVIOUS
  <2>2. outcomes \in [Turn -> Seq({"final", "error"})]
    <3>1. << >> \in Seq({"final", "error"})
      OBVIOUS
    <3>2. QED
      BY <3>1 DEF StreamInit
  <2>3. pushed \in Nat /\ taken \in 0..pushed /\ pending \in 0..taken /\ streamTurn \in 0..MaxTurn
    BY StreamAssumption DEF StreamInit
  <2>4. QED
    BY <2>1, <2>2, <2>3, StreamAssumption DEF StreamInit, StreamTypeOK
<1>2. TasksInStep /\ CancelledByLoss /\ SentBeforeFinal
  BY StreamAssumption DEF StreamInit, TasksInStep, CancelledByLoss, SentBeforeFinal, SenderEnded
<1>3. ToldOnce /\ ShownFirst
  BY StreamAssumption DEF StreamInit, ToldOnce, ShownFirst, Prefix, Turn
<1>4. QED
  BY <1>1, <1>2, <1>3 DEF StreamInv

\* A turn has a place among the outcomes; it has none yet while its task works.
LEMMA TurnTold ==
  ASSUME StreamTypeOK, streamTurn > 0
  PROVE  streamTurn \in Turn
<1>1. streamTurn \in 0..MaxTurn
  BY DEF StreamTypeOK
<1>2. QED
  BY <1>1, StreamAssumption DEF Turn

LEMMA NothingTold ==
  ASSUME StreamTypeOK, ToldOnce, streamTurn > 0, stage # "done"
  PROVE  outcomes[streamTurn] = << >>
BY TurnTold, StreamAssumption DEF ToldOnce, StreamTypeOK

LEMMA OneMore ==
  ASSUME NEW segment \in Segment
  PROVE  /\ <<segment>> \in Seq(Segment)
         /\ \A segments \in Seq(Segment) : Append(segments, segment) \in Seq(Segment)
OBVIOUS

LEMMA OutcomeTyped ==
  /\ << >> \in Seq({"final", "error"})
  /\ Append(<< >>, "final") = <<"final">> /\ <<"final">> \in Seq({"final", "error"})
  /\ Append(<< >>, "error") = <<"error">> /\ <<"error">> \in Seq({"final", "error"})
  /\ <<"final">> # << >> /\ <<"error">> # << >> /\ <<"final">> # <<"error">>
OBVIOUS

LEMMA NextInvariant ==
  ASSUME StreamInv, [StreamNext]_streamVars
  PROVE  StreamInv'
<1> USE StreamAssumption DEF queue, socket, texts, told, Running, SenderEnded
<1>0. StreamTypeOK /\ TasksInStep /\ CancelledByLoss /\ SentBeforeFinal /\ ToldOnce /\ ShownFirst
  BY DEF StreamInv
<1>1. CASE Begin
  <2>1. StreamTypeOK'
    <3>1. << >> \in Seq(Segment) /\ << >> \in Seq(Segment \cup {"signal"})
      OBVIOUS
    <3>2. pushed' \in Nat /\ taken' \in 0..pushed' /\ pending' \in 0..taken' /\ streamTurn' \in 0..MaxTurn
      BY <1>0, <1>1 DEF Begin, queue, StreamTypeOK
    <3>3. QED
      BY <1>0, <1>1, <3>1, <3>2 DEF Begin, StreamTypeOK
  <2>2. TasksInStep'
    BY <1>0, <1>1 DEF Begin, StreamTypeOK, TasksInStep
  <2>3. CancelledByLoss'
    BY <1>0, <1>1 DEF Begin, StreamTypeOK, TasksInStep, CancelledByLoss
  <2>4. SentBeforeFinal'
    <3>1. streamTurn' \in Turn /\ streamTurn \in Nat /\ streamTurn' = streamTurn + 1
      BY <1>0, <1>1 DEF Begin, StreamTypeOK, Turn
    <3>2. streamTurn > 0 => stage = "done"
      BY <1>0, <1>1 DEF Begin, TasksInStep, StreamTypeOK
    <3>3. outcomes[streamTurn'] = << >>
      BY <1>0, <3>1 DEF ToldOnce
    <3>4. QED
      BY <1>0, <1>1, <3>1, <3>3, OutcomeTyped DEF Begin, StreamTypeOK, TasksInStep,
         SentBeforeFinal, WholeTurnSent
  <2>5. ToldOnce'
    <3>1. streamTurn' \in Turn /\ streamTurn \in Nat /\ streamTurn' = streamTurn + 1
      BY <1>0, <1>1 DEF Begin, StreamTypeOK, Turn
    <3>2. streamTurn > 0 => stage = "done"
      BY <1>0, <1>1 DEF Begin, TasksInStep, StreamTypeOK
    <3>3. outcomes[streamTurn'] = << >>
      BY <1>0, <3>1 DEF ToldOnce
    <3>4. outcomes' = outcomes /\ stage' # "done"
      BY <1>1 DEF Begin
    <3>5. ASSUME NEW t \in Turn
          PROVE  outcomes[t] \in IF t < streamTurn' THEN {<<"final">>, <<"error">>} ELSE {<< >>}
      <4>1. t \in Nat
        BY DEF Turn
      <4>2. t < streamTurn' <=> t < streamTurn \/ t = streamTurn
        BY <3>1, <4>1
      <4>3. t = streamTurn => streamTurn > 0
        BY <4>1, StreamAssumption DEF Turn
      <4>4. QED
        BY <1>0, <3>2, <4>2, <4>3 DEF ToldOnce
    <3>6. QED
      BY <3>4, <3>5 DEF ToldOnce
  <2>6. ShownFirst'
    <3>1. streamTurn' \in Turn /\ streamTurn \in Nat /\ streamTurn' = streamTurn + 1
      BY <1>0, <1>1 DEF Begin, StreamTypeOK, Turn
    <3>2. streamTurn > 0 => stage = "done"
      BY <1>0, <1>1 DEF Begin, TasksInStep, StreamTypeOK
    <3>3. outcomes[streamTurn'] = << >>
      BY <1>0, <3>1 DEF ToldOnce
    <3>4. Prefix(<< >>, << >>)
      BY DEF Prefix
    <3>5. QED
      BY <1>0, <1>1, <3>1, <3>3, <3>4, OutcomeTyped DEF Begin, ShownFirst
  <2>7. QED
    BY <2>1, <2>2, <2>3, <2>4, <2>5, <2>6 DEF StreamInv
<1>2. CASE Frame
  <2>1. StreamTypeOK'
    BY <1>0, <1>2 DEF Frame, StreamTypeOK
  <2>2. TasksInStep'
    BY <1>0, <1>2 DEF Frame, StreamTypeOK, TasksInStep
  <2>3. CancelledByLoss'
    BY <1>0, <1>2 DEF Frame, StreamTypeOK, TasksInStep, CancelledByLoss
  <2>4. SentBeforeFinal'
    BY <1>0, <1>2 DEF Frame, StreamTypeOK, TasksInStep, SentBeforeFinal, WholeTurnSent
  <2>5. ToldOnce'
    BY <1>0, <1>2 DEF Frame, StreamTypeOK, TasksInStep, ToldOnce
  <2>6. ShownFirst'
    BY <1>0, <1>2 DEF Frame, StreamTypeOK, TasksInStep, ToldOnce, ShownFirst
  <2>7. QED
    BY <2>1, <2>2, <2>3, <2>4, <2>5, <2>6 DEF StreamInv
<1>3. CASE FinishTurn
  <2>1. StreamTypeOK'
    BY <1>0, <1>3 DEF FinishTurn, StreamTypeOK
  <2>2. TasksInStep'
    BY <1>0, <1>3 DEF FinishTurn, StreamTypeOK, TasksInStep
  <2>3. CancelledByLoss'
    BY <1>0, <1>3 DEF FinishTurn, StreamTypeOK, TasksInStep, CancelledByLoss
  <2>4. SentBeforeFinal'
    BY <1>0, <1>3 DEF FinishTurn, StreamTypeOK, TasksInStep, SentBeforeFinal, WholeTurnSent
  <2>5. ToldOnce'
    BY <1>0, <1>3 DEF FinishTurn, StreamTypeOK, TasksInStep, ToldOnce
  <2>6. ShownFirst'
    BY <1>0, <1>3 DEF FinishTurn, StreamTypeOK, TasksInStep, ToldOnce, ShownFirst
  <2>7. QED
    BY <2>1, <2>2, <2>3, <2>4, <2>5, <2>6 DEF StreamInv
<1>4. CASE Resume
  <2>1. StreamTypeOK'
    BY <1>0, <1>4 DEF Resume, StreamTypeOK
  <2>2. TasksInStep'
    BY <1>0, <1>4 DEF Resume, StreamTypeOK, TasksInStep
  <2>3. CancelledByLoss'
    BY <1>0, <1>4 DEF Resume, StreamTypeOK, TasksInStep, CancelledByLoss
  <2>4. SentBeforeFinal'
    BY <1>0, <1>4 DEF Resume, StreamTypeOK, TasksInStep, SentBeforeFinal, WholeTurnSent
  <2>5. ToldOnce'
    BY <1>0, <1>4 DEF Resume, StreamTypeOK, TasksInStep, ToldOnce
  <2>6. ShownFirst'
    BY <1>0, <1>4 DEF Resume, StreamTypeOK, TasksInStep, ToldOnce, ShownFirst
  <2>7. QED
    BY <2>1, <2>2, <2>3, <2>4, <2>5, <2>6 DEF StreamInv
<1>5. CASE Leave
  <2>1. StreamTypeOK'
    BY <1>0, <1>5 DEF Leave, StreamTypeOK
  <2>2. TasksInStep'
    BY <1>0, <1>5 DEF Leave, StreamTypeOK, TasksInStep
  <2>3. CancelledByLoss'
    BY <1>0, <1>5 DEF Leave, StreamTypeOK, TasksInStep, CancelledByLoss
  <2>4. SentBeforeFinal'
    BY <1>0, <1>5 DEF Leave, StreamTypeOK, TasksInStep, SentBeforeFinal, WholeTurnSent
  <2>5. ToldOnce'
    BY <1>0, <1>5 DEF Leave, StreamTypeOK, TasksInStep, ToldOnce
  <2>6. ShownFirst'
    BY <1>0, <1>5 DEF Leave, StreamTypeOK, TasksInStep, ToldOnce, ShownFirst
  <2>7. QED
    BY <2>1, <2>2, <2>3, <2>4, <2>5, <2>6 DEF StreamInv
<1>6. CASE Closed
  <2>1. StreamTypeOK'
    BY <1>0, <1>6 DEF Closed, Ended, StreamTypeOK
  <2>2. TasksInStep'
    BY <1>0, <1>6 DEF Closed, Ended, StreamTypeOK, TasksInStep
  <2>3. CancelledByLoss'
    BY <1>0, <1>6 DEF Closed, Ended, StreamTypeOK, TasksInStep, CancelledByLoss
  <2>4. SentBeforeFinal'
    BY <1>0, <1>6 DEF Closed, Ended, StreamTypeOK, TasksInStep, SentBeforeFinal, WholeTurnSent
  <2>5. ToldOnce'
    BY <1>0, <1>6 DEF Closed, Ended, StreamTypeOK, TasksInStep, ToldOnce
  <2>6. ShownFirst'
    BY <1>0, <1>6 DEF Closed, Ended, StreamTypeOK, TasksInStep, ToldOnce, ShownFirst
  <2>7. QED
    BY <2>1, <2>2, <2>3, <2>4, <2>5, <2>6 DEF StreamInv
<1>7. CASE Connect
  <2>1. StreamTypeOK'
    BY <1>0, <1>7 DEF Connect, StreamTypeOK
  <2>2. TasksInStep'
    BY <1>0, <1>7 DEF Connect, StreamTypeOK, TasksInStep
  <2>3. CancelledByLoss'
    BY <1>0, <1>7 DEF Connect, StreamTypeOK, TasksInStep, CancelledByLoss
  <2>4. SentBeforeFinal'
    <3>1. streamTurn > 0 => outcomes[streamTurn] = << >>
      BY <1>0, <1>7, NothingTold DEF Connect, TasksInStep
    <3>2. QED
      BY <1>0, <1>7, <3>1, OutcomeTyped DEF Connect, StreamTypeOK, TasksInStep, SentBeforeFinal,
         WholeTurnSent
  <2>5. ToldOnce'
    BY <1>0, <1>7 DEF Connect, StreamTypeOK, TasksInStep, ToldOnce
  <2>6. ShownFirst'
    BY <1>0, <1>7 DEF Connect, StreamTypeOK, TasksInStep, ToldOnce, ShownFirst
  <2>7. QED
    BY <2>1, <2>2, <2>3, <2>4, <2>5, <2>6 DEF StreamInv
<1>8. CASE Take
  <2>1. StreamTypeOK'
    BY <1>0, <1>8 DEF Take, StreamTypeOK
  <2>2. TasksInStep'
    BY <1>0, <1>8 DEF Take, StreamTypeOK, TasksInStep
  <2>3. CancelledByLoss'
    BY <1>0, <1>8 DEF Take, StreamTypeOK, TasksInStep, CancelledByLoss
  <2>4. SentBeforeFinal'
    BY <1>0, <1>8 DEF Take, StreamTypeOK, TasksInStep, SentBeforeFinal, WholeTurnSent
  <2>5. ToldOnce'
    BY <1>0, <1>8 DEF Take, StreamTypeOK, TasksInStep, ToldOnce
  <2>6. ShownFirst'
    BY <1>0, <1>8 DEF Take, StreamTypeOK, TasksInStep, ToldOnce, ShownFirst
  <2>7. QED
    BY <2>1, <2>2, <2>3, <2>4, <2>5, <2>6 DEF StreamInv
<1>9. CASE TakeEnd
  <2>1. StreamTypeOK'
    BY <1>0, <1>9 DEF TakeEnd, StreamTypeOK
  <2>2. TasksInStep'
    BY <1>0, <1>9 DEF TakeEnd, StreamTypeOK, TasksInStep
  <2>3. CancelledByLoss'
    BY <1>0, <1>9 DEF TakeEnd, StreamTypeOK, TasksInStep, CancelledByLoss
  <2>4. SentBeforeFinal'
    BY <1>0, <1>9 DEF TakeEnd, StreamTypeOK, TasksInStep, SentBeforeFinal, WholeTurnSent
  <2>5. ToldOnce'
    BY <1>0, <1>9 DEF TakeEnd, StreamTypeOK, TasksInStep, ToldOnce
  <2>6. ShownFirst'
    BY <1>0, <1>9 DEF TakeEnd, StreamTypeOK, TasksInStep, ToldOnce, ShownFirst
  <2>7. QED
    BY <2>1, <2>2, <2>3, <2>4, <2>5, <2>6 DEF StreamInv
<1>10. CASE Send
  <2>1. StreamTypeOK'
    BY <1>0, <1>10 DEF Send, StreamTypeOK
  <2>2. TasksInStep'
    BY <1>0, <1>10 DEF Send, StreamTypeOK, TasksInStep
  <2>3. CancelledByLoss'
    BY <1>0, <1>10 DEF Send, StreamTypeOK, TasksInStep, CancelledByLoss
  <2>4. SentBeforeFinal'
    BY <1>0, <1>10 DEF Send, StreamTypeOK, TasksInStep, SentBeforeFinal, WholeTurnSent
  <2>5. ToldOnce'
    BY <1>0, <1>10 DEF Send, StreamTypeOK, TasksInStep, ToldOnce
  <2>6. ShownFirst'
    BY <1>0, <1>10 DEF Send, StreamTypeOK, TasksInStep, ToldOnce, ShownFirst
  <2>7. QED
    BY <2>1, <2>2, <2>3, <2>4, <2>5, <2>6 DEF StreamInv
<1>11. CASE Receive
  <2>1. StreamTypeOK'
    <3>1. CASE inbox # << >> /\ got' = Head(inbox) /\ inbox' = Tail(inbox)
      <4>1. got' \in Segment \cup {"signal"} /\ inbox' \in Seq(Segment \cup {"signal"})
        BY <1>0, <3>1 DEF StreamTypeOK
      <4>2. QED
        BY <1>0, <1>11, <4>1 DEF Receive, StreamTypeOK
    <3>2. CASE got' = "error" /\ UNCHANGED inbox
      BY <1>0, <1>11, <3>2 DEF Receive, StreamTypeOK
    <3>3. QED
      BY <1>11, <3>1, <3>2 DEF Receive
  <2>2. TasksInStep'
    BY <1>0, <1>11 DEF Receive, StreamTypeOK, TasksInStep
  <2>3. CancelledByLoss'
    BY <1>0, <1>11 DEF Receive, StreamTypeOK, TasksInStep, CancelledByLoss
  <2>4. SentBeforeFinal'
    BY <1>0, <1>11 DEF Receive, StreamTypeOK, TasksInStep, SentBeforeFinal, WholeTurnSent
  <2>5. ToldOnce'
    BY <1>0, <1>11 DEF Receive, StreamTypeOK, TasksInStep, ToldOnce
  <2>6. ShownFirst'
    BY <1>0, <1>11 DEF Receive, StreamTypeOK, TasksInStep, ToldOnce, ShownFirst
  <2>7. QED
    BY <2>1, <2>2, <2>3, <2>4, <2>5, <2>6 DEF StreamInv
<1>12. CASE AwaitLast
  <2>1. StreamTypeOK'
    BY <1>0, <1>12 DEF AwaitLast, Deadline, StreamTypeOK
  <2>2. TasksInStep'
    BY <1>0, <1>12 DEF AwaitLast, Deadline, StreamTypeOK, TasksInStep
  <2>3. CancelledByLoss'
    BY <1>0, <1>12 DEF AwaitLast, Deadline, StreamTypeOK, TasksInStep, CancelledByLoss
  <2>4. SentBeforeFinal'
    BY <1>0, <1>12 DEF AwaitLast, Deadline, StreamTypeOK, TasksInStep, SentBeforeFinal, WholeTurnSent
  <2>5. ToldOnce'
    BY <1>0, <1>12 DEF AwaitLast, Deadline, StreamTypeOK, TasksInStep, ToldOnce
  <2>6. ShownFirst'
    BY <1>0, <1>12 DEF AwaitLast, Deadline, StreamTypeOK, TasksInStep, ToldOnce, ShownFirst
  <2>7. QED
    BY <2>1, <2>2, <2>3, <2>4, <2>5, <2>6 DEF StreamInv
<1>13. CASE Timeout
  <2>1. StreamTypeOK'
    BY <1>0, <1>13 DEF Timeout, AfterLoop, LastNow, StreamTypeOK
  <2>2. TasksInStep'
    BY <1>0, <1>13 DEF Timeout, AfterLoop, LastNow, StreamTypeOK, TasksInStep
  <2>3. CancelledByLoss'
    BY <1>0, <1>13 DEF Timeout, AfterLoop, LastNow, StreamTypeOK, TasksInStep, CancelledByLoss
  <2>4. SentBeforeFinal'
    BY <1>0, <1>13 DEF Timeout, AfterLoop, LastNow, StreamTypeOK, TasksInStep, SentBeforeFinal,
       WholeTurnSent
  <2>5. ToldOnce'
    BY <1>0, <1>13 DEF Timeout, AfterLoop, LastNow, StreamTypeOK, TasksInStep, ToldOnce
  <2>6. ShownFirst'
    BY <1>0, <1>13 DEF Timeout, AfterLoop, LastNow, StreamTypeOK, TasksInStep, ToldOnce, ShownFirst
  <2>7. QED
    BY <2>1, <2>2, <2>3, <2>4, <2>5, <2>6 DEF StreamInv
<1>14. CASE Received
  <2>1. StreamTypeOK'
    <3>1. received' \in Seq(Segment)
      BY <1>0, <1>14, JoinedKeeps DEF Received, StreamTypeOK
    <3>2. visible' \in Seq(Segment) /\ settled' \in Seq(Segment)
      BY <1>0, <1>14, <3>1 DEF Received, StreamTypeOK
    <3>3. QED
      BY <1>0, <1>14, <3>1, <3>2 DEF Received, AfterLoop, LastNow, StreamTypeOK
  <2>2. TasksInStep'
    BY <1>0, <1>14 DEF Received, AfterLoop, LastNow, StreamTypeOK, TasksInStep
  <2>3. CancelledByLoss'
    BY <1>0, <1>14 DEF Received, AfterLoop, LastNow, StreamTypeOK, TasksInStep, CancelledByLoss
  <2>4. SentBeforeFinal'
    <3>1. streamTurn > 0 => outcomes[streamTurn] = << >>
      BY <1>0, <1>14, NothingTold DEF Received, TasksInStep
    <3>2. QED
      BY <1>0, <1>14, <3>1, OutcomeTyped DEF Received, AfterLoop, LastNow, StreamTypeOK,
         TasksInStep, SentBeforeFinal, WholeTurnSent
  <2>5. ToldOnce'
    BY <1>0, <1>14 DEF Received, AfterLoop, LastNow, StreamTypeOK, TasksInStep, ToldOnce
  <2>6. ShownFirst'
    <3>1. streamTurn > 0 => outcomes[streamTurn] = << >>
      BY <1>0, <1>14, NothingTold DEF Received, TasksInStep
    <3>2. Prefix(received, received') /\ received' \in Seq(Segment)
      BY <1>0, <1>14, JoinedKeeps, PrefixReflexive DEF Received, StreamTypeOK
    <3>3. settled' = settled \/ settled' = received'
      BY <1>14 DEF Received
    <3>4. Prefix(settled', received')
      BY <1>0, <3>2, <3>3, PrefixTransitive, PrefixReflexive DEF ShownFirst, StreamTypeOK
    <3>5. QED
      BY <1>14, <3>1, <3>4, OutcomeTyped DEF Received, told, ShownFirst
  <2>7. QED
    BY <2>1, <2>2, <2>3, <2>4, <2>5, <2>6 DEF StreamInv
<1>15. CASE Server
  <2>1. StreamTypeOK'
    <3>0. inbox \in Seq(Segment \cup {"signal"}) /\ responses \in Nat /\ broken \in BOOLEAN
      BY <1>0 DEF StreamTypeOK
    <3>1. inbox' \in Seq(Segment \cup {"signal"})
      BY <3>0, <1>15 DEF Server
    <3>2. responses' = responses \/ responses' = responses + 1
      BY <1>15 DEF Server
    <3>3. broken' = broken \/ broken' = TRUE
      BY <1>15 DEF Server
    <3>4. responses' \in Nat
      BY <3>0, <3>2
    <3>5. broken' \in BOOLEAN
      BY <3>0, <3>3
    <3>6. QED
      BY <1>0, <1>15, <3>1, <3>4, <3>5 DEF Server, queue, texts, told, StreamTypeOK
  <2>2. TasksInStep'
    BY <1>0, <1>15 DEF Server, StreamTypeOK, TasksInStep
  <2>3. CancelledByLoss'
    BY <1>0, <1>15 DEF Server, StreamTypeOK, TasksInStep, CancelledByLoss
  <2>4. SentBeforeFinal'
    BY <1>0, <1>15 DEF Server, StreamTypeOK, TasksInStep, SentBeforeFinal, WholeTurnSent
  <2>5. ToldOnce'
    BY <1>0, <1>15 DEF Server, StreamTypeOK, TasksInStep, ToldOnce
  <2>6. ShownFirst'
    BY <1>0, <1>15 DEF Server, StreamTypeOK, TasksInStep, ToldOnce, ShownFirst
  <2>7. QED
    BY <2>1, <2>2, <2>3, <2>4, <2>5, <2>6 DEF StreamInv
<1>16. CASE Told
  <2>1. StreamTypeOK'
    BY <1>0, <1>16 DEF Told, StreamTypeOK
  <2>2. TasksInStep'
    BY <1>0, <1>16 DEF Told, StreamTypeOK, TasksInStep
  <2>3. CancelledByLoss'
    BY <1>0, <1>16 DEF Told, StreamTypeOK, TasksInStep, CancelledByLoss
  <2>4. SentBeforeFinal'
    BY <1>0, <1>16 DEF Told, StreamTypeOK, TasksInStep, SentBeforeFinal, WholeTurnSent
  <2>5. ToldOnce'
    BY <1>0, <1>16 DEF Told, StreamTypeOK, TasksInStep, ToldOnce
  <2>6. ShownFirst'
    BY <1>0, <1>16 DEF Told, StreamTypeOK, TasksInStep, ToldOnce, ShownFirst
  <2>7. QED
    BY <2>1, <2>2, <2>3, <2>4, <2>5, <2>6 DEF StreamInv
<1>17. CASE Recognise
  <2>1. StreamTypeOK'
    <3>1. /\ received \in Seq(Segment) /\ tail \in Seq(Segment) /\ responses \in Nat
          /\ visible \in Seq(Segment) /\ settled \in Seq(Segment)
      BY <1>0 DEF StreamTypeOK
    <3>2. received' = received \/ \E result \in Segment : received' = Joined(received, result)
      BY <1>17 DEF Recognise
    <3>3. received' \in Seq(Segment)
      BY <3>1, <3>2, JoinedKeeps
    <3>4. tail' = tail \/ tail' = << >> \/ \E partial \in Segment : tail' = <<partial>>
      BY <1>17 DEF Recognise
    <3>5. /\ visible' \in {visible, received'} \/ \E partial \in Segment : visible' = Append(received, partial)
          /\ settled' \in {settled, received, received'}
      BY <1>17 DEF Recognise
    <3>6. responses' = responses \/ responses' = responses + 1
      BY <1>17 DEF Recognise
    <3>7. tail' \in Seq(Segment)
      <4>1. ASSUME NEW partial \in Segment, tail' = <<partial>> PROVE tail' \in Seq(Segment)
        BY <4>1, OneMore
      <4>2. << >> \in Seq(Segment)
        OBVIOUS
      <4>3. QED
        BY <3>1, <3>4, <4>1, <4>2
    <3>8. visible' \in Seq(Segment) /\ settled' \in Seq(Segment)
      BY <3>1, <3>3, <3>5, OneMore
    <3>9. responses' \in Nat
      BY <3>1, <3>6
    <3>10. QED
      BY <1>0, <1>17, <3>3, <3>7, <3>8, <3>9 DEF Recognise, StreamTypeOK
  <2>2. TasksInStep'
    BY <1>0, <1>17 DEF Recognise, StreamTypeOK, TasksInStep
  <2>3. CancelledByLoss'
    BY <1>0, <1>17 DEF Recognise, StreamTypeOK, TasksInStep, CancelledByLoss
  <2>4. SentBeforeFinal'
    BY <1>0, <1>17 DEF Recognise, StreamTypeOK, TasksInStep, SentBeforeFinal, WholeTurnSent
  <2>5. ToldOnce'
    BY <1>0, <1>17 DEF Recognise, StreamTypeOK, TasksInStep, ToldOnce
  <2>6. ShownFirst'
    <3>1. streamTurn > 0 => outcomes[streamTurn] = << >>
      BY <1>0, <1>17, NothingTold DEF Recognise, TasksInStep
    <3>2. Prefix(received, received') /\ received' \in Seq(Segment)
      BY <1>0, <1>17, JoinedKeeps, PrefixReflexive DEF Recognise, StreamTypeOK
    <3>3. settled' = settled \/ settled' = received' \/ (settled' = received /\ received' = received)
      BY <1>17 DEF Recognise
    <3>4. Prefix(settled', received')
      BY <1>0, <3>2, <3>3, PrefixTransitive, PrefixReflexive DEF ShownFirst, StreamTypeOK
    <3>5. QED
      BY <1>17, <3>1, <3>4, OutcomeTyped DEF Recognise, told, ShownFirst
  <2>7. QED
    BY <2>1, <2>2, <2>3, <2>4, <2>5, <2>6 DEF StreamInv
<1>18. CASE RecogniseEnd
  <2>1. StreamTypeOK'
    <3>1. received' \in Seq(Segment)
      BY <1>0, <1>18, CompleteKeeps DEF RecogniseEnd, StreamTypeOK
    <3>2. QED
      BY <1>0, <1>18, <3>1 DEF RecogniseEnd, StreamTypeOK
  <2>2. TasksInStep'
    BY <1>0, <1>18 DEF RecogniseEnd, StreamTypeOK, TasksInStep
  <2>3. CancelledByLoss'
    BY <1>0, <1>18 DEF RecogniseEnd, StreamTypeOK, TasksInStep, CancelledByLoss
  <2>4. SentBeforeFinal'
    BY <1>0, <1>18 DEF RecogniseEnd, StreamTypeOK, TasksInStep, SentBeforeFinal, WholeTurnSent
  <2>5. ToldOnce'
    BY <1>0, <1>18 DEF RecogniseEnd, StreamTypeOK, TasksInStep, ToldOnce
  <2>6. ShownFirst'
    <3>1. streamTurn > 0 => outcomes[streamTurn] = << >>
      BY <1>0, <1>18, NothingTold DEF RecogniseEnd, TasksInStep
    <3>2. Prefix(received, received') /\ received' \in Seq(Segment)
      BY <1>0, <1>18, CompleteKeeps DEF RecogniseEnd, StreamTypeOK
    <3>3. Prefix(settled', received')
      BY <1>0, <1>18, <3>2, PrefixTransitive DEF RecogniseEnd, ShownFirst, StreamTypeOK
    <3>4. QED
      BY <1>18, <3>1, <3>3, OutcomeTyped DEF RecogniseEnd, told, ShownFirst
  <2>7. QED
    BY <2>1, <2>2, <2>3, <2>4, <2>5, <2>6 DEF StreamInv
<1>19. CASE Unavailable
  <2>1. StreamTypeOK'
    BY <1>0, <1>19 DEF Unavailable, StreamTypeOK
  <2>2. TasksInStep'
    BY <1>0, <1>19 DEF Unavailable, StreamTypeOK, TasksInStep
  <2>3. CancelledByLoss'
    BY <1>0, <1>19 DEF Unavailable, StreamTypeOK, TasksInStep, CancelledByLoss
  <2>4. SentBeforeFinal'
    BY <1>0, <1>19 DEF Unavailable, StreamTypeOK, TasksInStep, SentBeforeFinal, WholeTurnSent
  <2>5. ToldOnce'
    BY <1>0, <1>19 DEF Unavailable, StreamTypeOK, TasksInStep, ToldOnce
  <2>6. ShownFirst'
    BY <1>0, <1>19 DEF Unavailable, StreamTypeOK, TasksInStep, ToldOnce, ShownFirst
  <2>7. QED
    BY <2>1, <2>2, <2>3, <2>4, <2>5, <2>6 DEF StreamInv
<1>20. CASE Final
  <2>0. streamTurn \in Turn /\ outcomes' = [outcomes EXCEPT ![streamTurn] = <<"final">>]
    <3>1. streamTurn > 0 /\ stage # "done"
      BY <1>0, <1>20 DEF Final, TasksInStep, StreamTypeOK
    <3>2. outcomes[streamTurn] = << >> /\ streamTurn \in Turn
      BY <1>0, <3>1, NothingTold, TurnTold
    <3>3. QED
      BY <1>20, <3>2, OutcomeTyped DEF Final
  <2>1. StreamTypeOK'
    <3>1. outcomes' \in [Turn -> Seq({"final", "error"})]
      BY <1>0, <2>0, OutcomeTyped DEF StreamTypeOK
    <3>2. QED
      BY <1>0, <1>20, <3>1 DEF Final, StreamTypeOK
  <2>2. TasksInStep'
    BY <1>0, <1>20 DEF Final, StreamTypeOK, TasksInStep
  <2>3. CancelledByLoss'
    BY <1>0, <1>20 DEF Final, StreamTypeOK, TasksInStep, CancelledByLoss
  <2>4. SentBeforeFinal'
    BY <1>0, <1>20, <2>0, OutcomeTyped DEF Final, StreamTypeOK, TasksInStep, SentBeforeFinal,
       WholeTurnSent
  <2>5. ToldOnce'
    BY <1>0, <1>20, <2>0 DEF Final, StreamTypeOK, TasksInStep, ToldOnce
  <2>6. ShownFirst'
    <3>1. Prefix(settled, received)
      BY <1>0 DEF ShownFirst
    <3>2. QED
      BY <1>0, <1>20, <3>1 DEF Final, texts, ShownFirst
  <2>7. QED
    BY <2>1, <2>2, <2>3, <2>4, <2>5, <2>6 DEF StreamInv
<1>21. CASE Error
  <2>0. streamTurn \in Turn /\ outcomes' = [outcomes EXCEPT ![streamTurn] = <<"error">>]
    <3>1. streamTurn > 0 /\ stage # "done"
      BY <1>0, <1>21 DEF Error, TasksInStep, StreamTypeOK
    <3>2. outcomes[streamTurn] = << >> /\ streamTurn \in Turn
      BY <1>0, <3>1, NothingTold, TurnTold
    <3>3. QED
      BY <1>21, <3>2, OutcomeTyped DEF Error
  <2>1. StreamTypeOK'
    <3>1. outcomes' \in [Turn -> Seq({"final", "error"})]
      BY <1>0, <2>0, OutcomeTyped DEF StreamTypeOK
    <3>2. QED
      BY <1>0, <1>21, <3>1 DEF Error, StreamTypeOK
  <2>2. TasksInStep'
    BY <1>0, <1>21 DEF Error, StreamTypeOK, TasksInStep
  <2>3. CancelledByLoss'
    BY <1>0, <1>21 DEF Error, StreamTypeOK, TasksInStep, CancelledByLoss
  <2>4. SentBeforeFinal'
    BY <1>0, <1>21, <2>0, OutcomeTyped DEF Error, StreamTypeOK, TasksInStep, SentBeforeFinal,
       WholeTurnSent
  <2>5. ToldOnce'
    BY <1>0, <1>21, <2>0 DEF Error, StreamTypeOK, TasksInStep, ToldOnce
  <2>6. ShownFirst'
    BY <1>0, <1>21, <2>0, OutcomeTyped DEF Error, StreamTypeOK, TasksInStep, ToldOnce, ShownFirst
  <2>7. QED
    BY <2>1, <2>2, <2>3, <2>4, <2>5, <2>6 DEF StreamInv
<1>22. CASE StreamCancelled
  <2>1. StreamTypeOK'
    BY <1>0, <1>22 DEF StreamCancelled, Ended, StreamTypeOK
  <2>2. TasksInStep'
    BY <1>0, <1>22 DEF StreamCancelled, Ended, StreamTypeOK, TasksInStep
  <2>3. CancelledByLoss'
    BY <1>0, <1>22 DEF StreamCancelled, Ended, StreamTypeOK, TasksInStep, CancelledByLoss
  <2>4. SentBeforeFinal'
    BY <1>0, <1>22 DEF StreamCancelled, Ended, StreamTypeOK, TasksInStep, SentBeforeFinal,
       WholeTurnSent
  <2>5. ToldOnce'
    BY <1>0, <1>22 DEF StreamCancelled, Ended, StreamTypeOK, TasksInStep, ToldOnce
  <2>6. ShownFirst'
    BY <1>0, <1>22 DEF StreamCancelled, Ended, StreamTypeOK, TasksInStep, ToldOnce, ShownFirst
  <2>7. QED
    BY <2>1, <2>2, <2>3, <2>4, <2>5, <2>6 DEF StreamInv
<1>23. CASE UNCHANGED streamVars
  BY <1>0, <1>23 DEF streamVars, StreamInv, StreamTypeOK, TasksInStep, CancelledByLoss, SentBeforeFinal,
     WholeTurnSent, ToldOnce, ShownFirst
<1>24. QED
  BY <1>1, <1>2, <1>3, <1>4, <1>5, <1>6, <1>7, <1>8, <1>9, <1>10, <1>11, <1>12, <1>13, <1>14,
     <1>15, <1>16, <1>17, <1>18, <1>19, <1>20, <1>21, <1>22, <1>23 DEF StreamNext, MainLoop,
     Sarvam, Vosk

------------------------------------------------------------------------------
(* The theorems *)

THEOREM StreamInvariance == StreamSpec => []StreamInv
<1>1. StreamInit => StreamInv
  BY InitInvariant
<1>2. StreamInv /\ [StreamNext]_streamVars => StreamInv'
  BY NextInvariant
<1>3. QED
  BY <1>1, <1>2, PTL DEF StreamSpec

THEOREM StreamTypeCorrect == StreamSpec => []StreamTypeOK
<1>1. StreamInv => StreamTypeOK
  BY DEF StreamInv
<1>2. QED
  BY <1>1, StreamInvariance, PTL

\* A final transcript comes after all audio of the utterance was sent.
THEOREM AllAudioSent == StreamSpec => []FinalAfterAllAudio
<1>1. StreamInv => FinalAfterAllAudio
  BY DEF StreamInv, SentBeforeFinal, WholeTurnSent, FinalAfterAllAudio
<1>2. QED
  BY <1>1, StreamInvariance, PTL

\* No segment shown as finished is missing from it.
THEOREM SegmentsKept == StreamSpec => []FinishedSegmentsKept
<1>1. StreamInv => FinishedSegmentsKept
  BY PrefixIsSubSeq DEF StreamInv, StreamTypeOK, ShownFirst, FinishedSegmentsKept
<1>2. QED
  BY <1>1, StreamInvariance, PTL

\* Every utterance is told one outcome before the main loop goes on.
THEOREM OutcomeOnce == StreamSpec => []OneOutcome
<1>1. ASSUME StreamInv PROVE OneOutcome
  <2>1. ASSUME NEW t \in Turn, main = "loop", t < streamTurn \/ (t = streamTurn /\ closed)
        PROVE  Len(outcomes[t]) = 1
    BY <1>1, <2>1 DEF StreamInv, TasksInStep, ToldOnce
  <2>2. ASSUME main = "cut" PROVE broken /\ sender = "cancelled" /\ outcomes[streamTurn] = << >>
    <3>1. stage = "cancelled" /\ streamTurn \in 0..MaxTurn /\ streamTurn # 0
      BY <1>1, <2>2 DEF StreamInv, TasksInStep, StreamTypeOK
    <3>2. QED
      BY <1>1, <2>2, <3>1, NothingTold, StreamAssumption DEF StreamInv, CancelledByLoss
  <2>3. QED
    BY <2>1, <2>2 DEF OneOutcome
<1>2. QED
  BY <1>1, StreamInvariance, PTL
==============================================================================
