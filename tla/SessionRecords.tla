---------------------------- MODULE SessionRecords ----------------------------
(***************************************************************************)
(* What a session leaves behind: the telemetry records of its turns        *)
(* (services/realtime-agent/app/telemetry.py, the callers in lifecycle.py, *)
(* POST /v1/telemetry of services/api/app/main.py, telemetry_store.py) and *)
(* the messages on the phone.  Both are keyed by session and turn.         *)
(*                                                                         *)
(* Costs are added to a turn while it is worked on; a terminal outcome     *)
(* makes an envelope of what has been added so far, which the task that    *)
(* ended publishes and then posts once.  A continuation is answered under  *)
(* the turn it continues, so a turn may end more than once.  The phone     *)
(* reports judged memories later, perhaps twice.  create_session gives a   *)
(* restarted app the session it had, and a new agent: its dictionaries are *)
(* empty and its turn ids start at 1 again.                                *)
(*                                                                         *)
(* One unit stands for the cost of one provider call with a price.         *)
(***************************************************************************)
EXTENDS Integers, Sequences, SequencesExt

CONSTANTS
  MaxUtterance,  \* bound: utterances during the session
  MaxAgent,      \* bound: agents that serve the session, one after the other
  MaxNotice,     \* bound: judged memories, one per turn
  SttSources,    \* cost sources stt_cost_micro_inr may return
  LlmSources,    \* ... llm_cost_micro_inr
  TtsSources     \* ... tts_cost_micro_inr

Source == {"none", "provider_reported", "estimated", "unknown"}
ASSUME RecordsAssumption ==
  /\ MaxUtterance \in Nat /\ MaxAgent \in Nat \ {0} /\ MaxNotice \in 0..MaxUtterance
  /\ SttSources \subseteq Source /\ LlmSources \subseteq Source /\ TtsSources \subseteq Source

Utterance == 1..MaxUtterance
Turn == Utterance            \* turn ids, which every agent counts from 1
Item == {"stt", "llm", "tts"}
Notice == 1..MaxNotice

VARIABLES
  agent,      \* which agent serves the session
  uttered,    \* utterances so far
  counter,    \* TurnIdFactory._counter
  cost,       \* cost[t]: costs_micro_inr of turn t, by item
  source,     \* source[t]: cost_sources of turn t, by item
  unpriced,   \* history: <<turn, item>> that had a cost without a price
  response,   \* the response task: its turn (0: none), the words it answers
  joining,    \* _pending_coalesced_turn
  relayed,    \* _relayed_memory_notice_ids
  ended,      \* terminal envelopes made so far; stands for the clock
  posting,    \* envelopes published and being posted
  rows,       \* telemetry_operation_records, oldest first
  messages,   \* messages[t]: the words of the user message of turn t
  shown       \* history: utterances whose final transcript was stored

metricVars == <<cost, source, unpriced>>
vars == <<agent, uttered, counter, metricVars, response, joining, relayed, ended,
          posting, rows, messages, shown>>

Idle == [turn |-> 0, words |-> {}, stage |-> "none"]   \* thinking, speaking, ending
NoTurn == [turn |-> 0, words |-> {}]

\* "priced" is history: whether every cost in the total had a price.
Record == [id : [kind : {"voice", "judge"}, turn : Turn, number : Nat],
           agent : 1..MaxAgent, by : {"task", "response"},
           total : Nat, complete : BOOLEAN, priced : BOOLEAN]

TypeOK ==
  /\ agent \in 1..MaxAgent /\ uttered \in 0..MaxUtterance /\ counter \in 0..uttered
  /\ cost \in [Turn -> [Item -> Nat]] /\ source \in [Turn -> [Item -> Source]]
  /\ unpriced \subseteq Turn \X Item
  /\ response \in [turn : 0..MaxUtterance, words : SUBSET Utterance,
                   stage : {"none", "thinking", "speaking", "ending"}]
  /\ joining \in [turn : 0..MaxUtterance, words : SUBSET Utterance]
  /\ relayed \subseteq Notice /\ ended \in Nat
  /\ posting \subseteq Record /\ rows \in Seq(Record)
  /\ messages \in [Turn -> SUBSET Utterance] /\ shown \subseteq Utterance

NoCost == [t \in Turn |-> [i \in Item |-> 0]]
NoSource == [t \in Turn |-> [i \in Item |-> "none"]]

Init ==
  /\ agent = 1 /\ uttered = 0 /\ counter = 0
  /\ cost = NoCost /\ source = NoSource /\ unpriced = {}
  /\ response = Idle /\ joining = NoTurn /\ relayed = {} /\ ended = 0
  /\ posting = {} /\ rows = <<>> /\ messages = [t \in Turn |-> {}] /\ shown = {}

-----------------------------------------------------------------------------
(* TurnMetrics.                                                            *)

\* _combined_cost_source: the least certain of the two.  (Faulty variants,
\* here and below, serve to show that properties can fail.)
Latest(previous, current) == current
Combined(previous, current) ==
  IF "unknown" \in {previous, current} THEN "unknown"
  ELSE IF "estimated" \in {previous, current} THEN "estimated"
  ELSE IF "provider_reported" \in {previous, current} THEN "provider_reported"
  ELSE "none"

\* What a call costs: nothing if it is free or its price is not known.
Amount(from) == IF from \in {"estimated", "provider_reported"} THEN 1 ELSE 0

AddCost(turn, item, from) ==
  /\ cost' = [cost EXCEPT ![turn][item] = @ + Amount(from)]
  /\ source' = [source EXCEPT ![turn][item] = Combined(@, from)]
  /\ unpriced' = IF from = "unknown" THEN unpriced \cup {<<turn, item>>} ELSE unpriced

\* total_cost_micro_inr.
Total(costs) == costs["stt"] + costs["llm"] + costs["tts"]

\* envelope and, unless the agent gave it one, the record id of ingest.
Envelope(turn, by, costs, sources, hidden) ==
  [id |-> [kind |-> "voice", turn |-> turn, number |-> ended], agent |-> agent, by |-> by,
   total |-> Total(costs),
   complete |-> \A i \in Item : sources[i] # "unknown",
   priced |-> hidden = {}]

UnpricedOf(turn) == {i \in Item : <<turn, i>> \in unpriced}

\* The collector keeps the metrics of a turn that has ended.
Discarded(turn) ==
  /\ cost' = [cost EXCEPT ![turn] = NoCost[turn]] /\ UNCHANGED <<source, unpriced>>
Retained(turn) == UNCHANGED metricVars

\* terminal, _emit_turn_metrics: the envelope is published and then posted.
Terminal(turn, by) ==
  /\ Retained(turn)
  /\ ended' = ended + 1
  /\ posting' = posting \cup {Envelope(turn, by, cost[turn], source[turn], UnpricedOf(turn))}

-----------------------------------------------------------------------------
(* The voice turn.                                                         *)

\* The text of a final transcript: what was heard, after what it continues.
AllWords == joining.words \cup {uttered + 1}

\* _handle_final_transcript.  The cost of the transcription is booked under
\* the turn of the utterance, also if its words are joined to an earlier one.
\* An unusable transcript asks for a repeat.  (A response at work is cancelled
\* first: ClientCancel.)
UsableFinal ==
  /\ uttered < MaxUtterance /\ response.turn = 0
  /\ uttered' = uttered + 1 /\ counter' = counter + 1
  /\ \E from \in SttSources : AddCost(counter + 1, "stt", from)
  /\ LET turn == IF joining.turn = 0 THEN counter + 1 ELSE joining.turn
     IN  /\ messages' = [messages EXCEPT ![turn] = AllWords]
         /\ response' = [turn |-> turn, words |-> AllWords, stage |-> "thinking"]
  /\ shown' = shown \cup {uttered + 1}
  /\ joining' = NoTurn
  /\ UNCHANGED <<agent, relayed, ended, posting, rows>>

UnusableFinal ==
  /\ uttered < MaxUtterance /\ response.turn = 0
  /\ uttered' = uttered + 1 /\ counter' = counter + 1
  /\ \E from \in SttSources :
       /\ AddCost(counter + 1, "stt", from)
       /\ ended' = ended + 1
       /\ posting' = posting \cup
            {Envelope(counter + 1, "task", cost'[counter + 1], source'[counter + 1],
                      IF from = "unknown" THEN {"stt"} ELSE {})}
  /\ UNCHANGED <<agent, response, joining, relayed, rows, messages, shown>>

\* _emit_stt_error: a turn without costs.
SttError ==
  /\ uttered < MaxUtterance /\ response.turn = 0
  /\ uttered' = uttered + 1 /\ counter' = counter + 1
  /\ Terminal(counter + 1, "task")
  /\ UNCHANGED <<agent, response, joining, relayed, rows, messages, shown>>

\* The stream of the language model has been read; the answer is published.
LlmComplete ==
  /\ response.stage = "thinking"
  /\ \E from \in LlmSources : AddCost(response.turn, "llm", from)
  /\ response' = [response EXCEPT !.stage = "speaking"]
  /\ UNCHANGED <<agent, uttered, counter, joining, relayed, ended, posting, rows, messages, shown>>

\* The first frame of a chunk that a provider charges for; bounded.
TtsChunk ==
  /\ response.stage = "speaking" /\ cost[response.turn]["tts"] < 2
  /\ \E from \in TtsSources : AddCost(response.turn, "tts", from)
  /\ UNCHANGED <<agent, uttered, counter, response, joining, relayed, ended, posting, rows,
                 messages, shown>>

\* safety_override and llm_error end a turn before it speaks, completed and
\* tts_error after.
TurnEnds ==
  /\ response.stage \in {"thinking", "speaking"}
  /\ Terminal(response.turn, "response")
  /\ response' = [response EXCEPT !.stage = "ending"]
  /\ UNCHANGED <<agent, uttered, counter, joining, relayed, rows, messages, shown>>

Finished ==
  /\ response.stage = "ending" /\ ~\E r \in posting : r.by = "response"
  /\ response' = Idle
  /\ UNCHANGED <<agent, uttered, counter, metricVars, joining, relayed, ended, posting, rows,
                 messages, shown>>

\* The user speaks again, or the client cancels: the task is cancelled, in
\* the middle of its post perhaps.  Only _speak_text reports it.
Cancel(rejoin) ==
  /\ response.turn # 0
  /\ \/ /\ response.stage = "speaking"
        /\ \/ Terminal(response.turn, "task")
           \/ UNCHANGED <<ended, posting, metricVars>>
     \/ /\ response.stage # "speaking"
        /\ posting' = {r \in posting : r.by # "response"}
        /\ UNCHANGED <<ended, metricVars>>
  /\ joining' = IF rejoin THEN [turn |-> response.turn, words |-> response.words] ELSE joining
  /\ response' = Idle
  /\ UNCHANGED <<agent, uttered, counter, relayed, rows, messages, shown>>

\* While an LLM error is being reported the response still counts as one that
\* the user may continue.
SpeechStart == Cancel(response.stage = "thinking")
SpeechStartAtError == response.stage = "ending" /\ Cancel(TRUE)
ClientCancel == Cancel(FALSE)

-----------------------------------------------------------------------------
(* Judged memories, the store, restarts.                                   *)

\* The notice id is made of the job and its outcome.
RecordIdByTime(turn, notice) == [kind |-> "judge", turn |-> turn, number |-> ended]
RecordIdOf(turn, notice) == [kind |-> "judge", turn |-> turn, number |-> notice]

\* memory_judge_notice, first or again.  Without a price it is incomplete.
JudgeNotice ==
  \E n \in Notice \ relayed :
    /\ messages[n] # {}
    /\ relayed' = relayed \cup {n}
    /\ ended' = ended + 1
    /\ \E priced \in BOOLEAN :
         posting' = posting \cup
           {[id |-> RecordIdOf(n, n), agent |-> agent, by |-> "task",
             total |-> IF priced THEN 1 ELSE 0, complete |-> priced, priced |-> priced]}
    /\ UNCHANGED <<agent, uttered, counter, metricVars, response, joining, rows, messages, shown>>

\* INSERT ... ON CONFLICT (record_id) DO NOTHING.
Inserted(r) == IF \E q \in Range(rows) : q.id = r.id THEN rows ELSE Append(rows, r)

\* The post arrives; its caller may give up all the same, or before.
Ingest ==
  \E r \in posting :
    /\ rows' \in {rows, Inserted(r)}
    /\ posting' = posting \ {r}
    /\ UNCHANGED <<agent, uttered, counter, metricVars, response, joining, relayed, ended,
                   messages, shown>>

\* purge_before: the records received before some time.
Purge ==
  /\ rows # <<>>
  /\ \E n \in 2..Len(rows) + 1 : rows' = SubSeq(rows, n, Len(rows))
  /\ UNCHANGED <<agent, uttered, counter, metricVars, response, joining, relayed, ended,
                 posting, messages, shown>>

\* The agent has left, or its process has died, and the app is back.
NewAgent ==
  /\ agent < MaxAgent
  /\ agent' = agent + 1 /\ counter' = 0
  /\ cost' = NoCost /\ source' = NoSource /\ unpriced' = {}
  /\ response' = Idle /\ joining' = NoTurn /\ relayed' = {} /\ posting' = {}
  /\ UNCHANGED <<uttered, ended, rows, messages, shown>>

Next ==
  \/ UsableFinal \/ UnusableFinal \/ SttError \/ LlmComplete \/ TtsChunk \/ TurnEnds \/ Finished
  \/ SpeechStart \/ SpeechStartAtError \/ ClientCancel \/ JudgeNotice \/ Ingest \/ Purge \/ NewAgent

Spec == Init /\ [][Next]_vars

-----------------------------------------------------------------------------
(* Properties.                                                             *)

\* The records one agent makes of one turn add up: a later one contains the
\* cost of an earlier one.  (So they must not be added to each other, which
\* is what session_summary does.)
RecordsCumulative ==
  \A r, q \in Range(rows) \cup posting :
    /\ r.id.kind = "voice" /\ q.id.kind = "voice" /\ r.agent = q.agent
    /\ r.id.turn = q.id.turn /\ r.id.number < q.id.number
    => r.total <= q.total

\* A record says its cost is complete if and only if every call in it had a
\* price, in whatever order calls with and without came.
CompleteIsHonest == \A r \in Range(rows) \cup posting : r.complete = r.priced

\* However often the phone reports it, and to whichever agent, a judgement is
\* counted once.
JudgedOnce ==
  \A i, j \in DOMAIN rows :
    /\ rows[i].id.kind = "judge" /\ rows[j].id.kind = "judge"
    /\ rows[i].id.turn = rows[j].id.turn
    => i = j

\* events.py:58: a turn id is of one agent and turn, so the messages of another
\* agent never replace those the phone has shown.  (They do: both count from one.)
MessagesKept == shown = UNION Range(messages)
=============================================================================
