---------------------------- MODULE UtteranceSource ----------------------------
(***************************************************************************)
(* What the turn pipeline may rely on from endpointing: confirmed          *)
(* utterances come one at a time, each under a turn id of its own that is  *)
(* larger than every earlier one, and each is committed before the next    *)
(* one starts.  AgentTurn's SpeechStart and EndpointCommit consume exactly *)
(* these two events; Endpointing is shown to implement this module.        *)
(***************************************************************************)
EXTENDS Naturals

VARIABLES
  utterance,      \* the turn id of the open utterance, 0 for none
  lastUtterance   \* the turn id of the last one opened

vars == <<utterance, lastUtterance>>

Init == utterance = 0 /\ lastUtterance = 0

\* speech_start: false starts may have used up ids in between.
Open ==
  /\ utterance = 0
  /\ utterance' \in Nat
  /\ utterance' > lastUtterance
  /\ lastUtterance' = utterance'

\* speech_end and endpoint_commit.
Commit ==
  /\ utterance # 0
  /\ utterance' = 0
  /\ UNCHANGED lastUtterance

Next == Open \/ Commit

Spec == Init /\ [][Next]_vars

==============================================================================
