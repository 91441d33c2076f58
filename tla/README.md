# Companion AI in TLA+

TLA+ specifications of the parts of Companion AI where the order of events
decides what the user hears, sees and keeps: the turn pipeline of the realtime
agent with its endpointing, speech recognition, memory lookup, prompts and
speech output; the way a session gets and loses its agent; the records it leaves
behind; and the services and the queue that turn a conversation into memories.
TLC checks them on small instances; TLAPS proves the central theorems for every
value of the constants.

Paths are relative to the repository. `RA` stands for
`services/realtime-agent/app`, `API` for `services/api/app`, `MOB` for
`apps/mobile/lib/features`.

## The system and its parts

| Component | State | Operations | Talks to |
|---|---|---|---|
| Turn pipeline (`RA/lifecycle.py`, `RealtimeAgentSession`) | `_current_turn`, `_active_response_turn_id`, `_pending_coalesced_turn`, `_response_user_text`, `_response_committed_turns`, `_assistant_speaking`, `_stt_streams` | audio frame, endpoint event, STT final/error, response task, client commands, shutdown | endpointing (call), providers (await), client (data channel), supervisor (task cancellation) |
| Endpointing (`RA/audio_pipeline.py`) | endpoint state, counters, pre-speech buffer | `process_frame` | VAD, turn pipeline, STT stream |
| Agent dispatch (`API/main.py`, `session_store.py`, `agent_assignment.py`; `AgentSupervisor`) | session rows, counters, table of agent tasks | create, token, end, assign, cancel, reap | app, API and agent service over HTTP, LiveKit |
| LiveKit transport (`LiveKitAgentTransport`) | room, activity queue, audio source | connect, publish, stop audio, disconnect | external LiveKit server |
| Prompt context (`RA/context.py`) | remembered turns, memory blocks of the session | build messages, remember an exchange | turn pipeline |
| Safety and memory routing (`RA/safety.py`, `memory_router.py`, `memory_planner.py`, lookup in `lifecycle.py`) | futures of memory requests, a sequence number | classify, route, plan, look up | phone (data channel), planner |
| STT and LLM providers (`RA/providers/stt.py`, `llm.py`) | per stream: sender, receiver, segments | stream | external services, turn pipeline |
| TTS failover (`RA/providers/tts.py`, `_speak_text`) | the active provider, fallback events | synthesize, cut over, drain events | external services, LiveKit |
| Telemetry (`RA/telemetry.py`, `API/telemetry_store.py`) | metrics per turn, append-only records | terminal, ingest, summarise, purge | turn pipeline, API |
| Memory judge and compiler services (`API/memory_extraction.py`, `memory_v3_compiler.py`) | none | one request each | model providers, app |
| Judge job queue (`MOB/chat_history/data`: `app_database.dart`, `long_term_memory_service.dart`) | jobs with status, attempts, next attempt; candidates; decision ledger | enqueue, claim, judge, apply, fail, clear history | API, vector index |
| V3 compile queue (`memory_v3_compiler_store.dart`, `_service.dart`) | leased jobs, ledger | enqueue, claim, compile, apply, fail | API |
| Claim ledger (`companion_memory_store.dart`) | claims, active state | resolve, activate, supersede, clear | judge job queue |
| Vector index sync (`memory_embedding_service.dart`) | vectors by memory id | sync, rebuild, erase | API, local database |
| Encryption migration (`database_encryption.dart`) | three files | migrate, recover | file system |
| Voice client (`voice_chat_controller.dart`, `livekit_session`) | phase, active session, event queue | start, end, critical events, clear history | API, LiveKit |

### What is hard, and what makes each part correct

* *Turn pipeline.* Three kinds of asyncio task change one object; a
  cancellation is a request that takes effect at the victim's next await; a
  continuation reopens a turn under its old id. Correct means: at most one
  answer per turn, an answer for the text on the screen, silence while the user
  talks, no words dropped, and the client left in the listening state.
* *Endpointing.* Five thresholds, a buffer of bounded length that survives the
  end of a turn, a marker that comes and goes. Correct means: a gapless STT
  stream, bounded replay, pauses tolerated and silence ended, fresh ids.
* *Agent dispatch.* Retries whose first attempt is still running, cancellations
  that get lost, a table keyed by session and read before an await. Correct
  means: one active session per device, no conversation text left in a row,
  every request answered, one agent per room, an agent that leaves.
* *Speech.* A stream of audio is sent while its transcript arrives; a lookup is
  given up and its reply comes later, for the same turn perhaps; a generator of
  frames is interrupted under a lock by another task, or by its own time limit.
  Correct means: a transcript after all of the utterance and one outcome of it, the
  memories of the question that was asked, one voice, whole chunks, silence after
  a stop, and an end to each wait.
* *What the model is shown and what it proposes.* Filters, ranking and trimming
  over indices of a list; proposals that quote a window of turns. Correct means:
  nothing unfit gets into a prompt, the newest turns stay, and what becomes a memory
  was said, by the right speaker, and is not private.
* *Records.* A turn can end several times; posts are lost or late; agents come one
  after the other. Correct means: records that add up, say honestly whether
  they are complete, and count a judgement once.
* *Job queues and erasure.* An enqueue of several statements outside a
  transaction, claims and applications separated by a network call, history
  cleared in between, a process killed between two steps. Correct means: each
  exchange in one job and judged, each decision applied once, nothing remembered
  of what was erased, every job tried.

`PROJECT.json` lists every hazard at its line with the property that covers it.

## Modules

| Module | Models | Run | Proofs |
|---|---|---|---|
| `AgentTurn` | main loop, STT and response tasks of `RA/lifecycle.py` | `agent_turn` | `AgentTurnProofs` |
| `UtteranceSource`, `Endpointing` | what the pipeline may rely on, and `RA/audio_pipeline.py` that implements it | `endpointing` | `HearingProofs` |
| `SttStream` | an utterance's audio on its way to a transcript | `stt` | `HearingProofs` |
| `MemoryLookup` | routing, planning, requests to the phone and their replies | `memory_lookup` | `MemoryLookupProofs` |
| `PromptContext`, `MCPromptContext` | what the language model is shown | `prompt_context` | `LanguageModelProofs` |
| `SpeechOutput` | an answer on its way to sound | `speech` | `SpeechOutputProofs` |
| `SessionRecords` | telemetry records, stored messages | `session_records` | `SessionRecordsProofs` |
| `AgentDispatch`, `MCAgentDispatch` | sessions, assignment, supervisor, agent tasks | `dispatch`, `dispatch_progress` | `AgentDispatchProofs` |
| `SemanticAtoms`, `MemoryFormation`, `MCMemoryFormation` | the memory endpoints of the API | `memory_formation` | `LanguageModelProofs` |
| `JudgeJobs` | the extraction queue of the phone | `judge_jobs`, `judge_jobs_progress` | `JudgeJobsProofs` |

`UtteranceSource` is what the turn pipeline may rely on: utterances one at a
time, each with a larger id, each committed before the next opens.
`Endpointing` implements it (a refinement that TLC checks and TLAPS proves);
`AgentTurn` consumes it in `SpeechStart` and `EndpointCommit`. Four modules open
what is one step of `AgentTurn`: `SttStream` the task of one utterance,
`MemoryLookup` the way from a transcript to the messages of a request,
`SpeechOutput` the synthesis loop, `SessionRecords` what each outcome adds to the
books. Each keeps of the rest only what it needs: an interruption, a cancellation,
a continuation. `PromptContext` takes the memories that `MemoryLookup` brings as
an argument, `JudgeJobs` the decisions that `MemoryFormation` lets through.

### AgentTurn

`RealtimeAgentSession`. A step is what one task does between two awaits that
another task can observe; consecutive awaits without a visible effect in between
are one step.

| Specification | Code |
|---|---|
| `main` | where the main loop is suspended: reading activity, in the barge-in, awaiting an STT task |
| `stt[t]` | `_run_stt_stream` of utterance `t` |
| `current`, `activeTurn`, `pending`, `userText`, `committed`, `speaking` | `_current_turn`, `_active_response_turn_id`, `_pending_coalesced_turn`, `_response_user_text`, `_response_committed_turns`, `_assistant_speaking` |
| `response[u]`, `respTurn[u]`, `respText[u]` | the response task created for the transcript of utterance `u`, and its two arguments |
| `cancelling` | `Task.cancel()` requested, `CancelledError` not yet raised |
| `ui`, `shown`, `answers`, `answerText`, `terminals` | what the client has been sent: `session_state`, `transcript_final`, `assistant_transcript_final`, `turn_metrics` |
| `stopped` | history: words whose response the client cancelled |

The words of an utterance are the utterance; a coalesced text is a set of
utterances, so "which text is answered" is decidable and nothing is concatenated.
`userText[pending]` stands for the copy of the text in `_pending_coalesced_turn`:
the entry of a turn changes only when a response for it starts, and that clears
`pending`. Cancellation is handled as asyncio does it: outside the synthesis loop
the task ends at its next await; inside it the handler stops the audio and
reports, and a second cancellation there ends it without a report. The memory
lookup is one step with any result, the LLM and TTS streams end or fail. Finals
that are empty or of low confidence are not recorded in `shown`: they ask for a
repeat and start no response. Every provider delivers one final per stream
(`RA/providers/stt.py`, `mock.py`).

Not in the module: `client_fake_turn` (a development command), the contents of
partial transcripts and prompts.

### Endpointing

`EndpointingStateMachine.process_frame`, one action per branch; each action
includes the statements before the branch (`Arrives`, the buffer) and the reset
after it. Time is counted in frames of one length. A VAD probability matters only
by comparison with the two thresholds, hence three levels, with
`start_threshold >= end_threshold` as configured. The STT stream of the turn is
the sequence `sent` of frame numbers; `onset`, `voiced`, `suggested`, `cut` and
`opened` are history. `force_endpoint` is never passed by the agent.

### SttStream

The task that turns the audio of one utterance into its transcript
(`_record_stt_audio`, `_run_stt_stream`, `_finish_stt_turn`, `close_stt_streams`)
over the providers of `providers/stt.py`. `AgentTurn` has this task as `stt[t]`.

| Specification | Code |
|---|---|
| `provider` | what `create_stt_provider` built: Sarvam, Vosk or `UnavailableSTTProvider` |
| `main`, `streamTurn`, `stage` | the main loop, the turn of the stream, where its STT task is suspended |
| `pushed`, `taken`, `closed` | the queue between `push_stt_audio` and the stream: frames put in and taken out, and the `None` that ends it |
| `sender`, `pending` | `send_audio` of Sarvam and its buffer |
| `inbox`, `broken` | the socket: what the server has sent, and whether it is lost |
| `got` | the result of `receive_task`, perhaps of one that `asyncio.wait` left running |
| `received`, `tail`, `visible` | `received_segments` or `completed_segments`, `last_partial`, `last_visible` or `last_emitted` |
| `settled`, `final`, `outcomes` | history: finished segments the client was shown, the final text, what the client was told of each turn in the end |

Audio is frames counted by the queue, a text is a sequence of segments, so that
"the final text keeps what was shown" is a prefix of a sequence. The server sends
a segment, a voice signal, an error or nothing at any time, at most `MaxResponse`
times for an utterance. Vosk recognises where it takes a frame: `Parts` is any
partial or finished segment. Left out: encodings, languages, confidences.

### MemoryLookup

What the agent asks the phone before it answers (`_respond_to_final_transcript`,
`_llm_messages`, `_request_memory_context_v2`, `_lookup_turn_memory` and the reply
handlers), with the route of `memory_router.py`, the plan of `memory_planner.py`
and the override of `safety.py`.

| Specification | Code |
|---|---|
| `response`, `turnOf`, `text`, `stage` | the response task, its arguments, where it is suspended |
| `joining` | `_pending_coalesced_turn` |
| `v2` | `_client_supports_memory_v2` |
| `asking`, `sequence` | the request that is awaited and the number of `EventSequencer` |
| `futures` | the keys of `_pending_memory_context_requests` and `_pending_memory_requests` |
| `requests` | what is on the data channel or with the phone |
| `found` | the result of the future, with the response it was looked up for |
| `used`, `unsent` | history: lookups that went into an answer, requests abandoned while being published |

A text is the set of word lists it matches; `Rules` are those of
`route_memory_query` in their order. A reply repeats the turn and the number of a
request, as the phone does (`voice_chat_controller.dart:518`, `:598`); it may come
late, several times or never, and a request may be answered differently each time.
Left out: what a memory says, directives
of the phone.

### PromptContext

`PromptContextBuilder`. The state is small: `recent` and `blocks` are
`recent_turns` and `memory_blocks`, `prompt` the messages of the last request,
`latest` and `packets` what it was built from. The algorithms are operators of the
names the code uses: deduplication and filters of `SelectRecent`, scores, ranks and
caps of `SelectMemory`, the dialogue state, and `Bounded`, which trims by index as
`_bounded_messages` does. A sort is an order of places (`Stable`, `Arranged`), a loop
over a list a recursive function of the place. A text is a set of words and its length their number;
each word list is represented by a few members. `MCPromptContext` chooses texts,
histories and blocks so that every filter, cap and cue applies to one of them and
does not apply to another. Left out: the wording of the sections, the parsing of
the phone's packets.

### SpeechOutput

`_speak_text`, the providers of `providers/tts.py` it reads from, and the audio
half of `LiveKitAgentTransport`. In `AgentTurn` this is the stage `synthesizing`.

| Specification | Code |
|---|---|
| `setup`, `active`, `events` | the provider of the session, `FailoverTTSProvider._active`, `_fallback_events` |
| `task`, `main` | where `_speak_text` and, in a barge-in, the main loop are suspended |
| `voice`, `chunk`, `open`, `pending`, `received`, `started` | the generator that runs, its chunk, whether its stream and `asyncio.timeout` are open, bytes not yet in a frame, bytes received, `audio_started` |
| `cancelling` | a cancellation requested and not yet delivered |
| `lock`, `source`, `ui` | `_audio_publish_lock`, `_audio_source`, the last `session_state` |
| `frames`, `spokenBy` | what LiveKit was handed, and from which provider |
| `switchedIn`, `told`, `asked`, `silenced`, `outcome` | history: when the voice was switched, what the client and the records were told, whose cancellation was asked for, who was faded out |

A stream is a number of bytes that arrives in pieces; whole frames are cut from
it and a tail may remain. A generator runs only while it is awaited, so its clock
(`asyncio.timeout`) may fire while the task publishes what it yielded: then it is
the task that is cancelled (`TimeoutWhilePlaying`). Left out: the splitting of
text into chunks, audio formats, the readiness probe.

### SessionRecords

`TurnMetrics`, the callers that add to it, `POST /v1/telemetry`,
`telemetry_store.py`, and the messages on the phone. Both records and messages are
keyed by session and turn.

| Specification | Code |
|---|---|
| `agent`, `uttered`, `counter` | the agent that serves the session, utterances, `TurnIdFactory._counter` |
| `cost`, `source` | `costs_micro_inr` and `cost_sources` of each turn |
| `response`, `joining` | the response task, `_pending_coalesced_turn` |
| `relayed`, `ended` | `_relayed_memory_notice_ids`, terminal envelopes made (stands for the clock) |
| `posting`, `rows` | envelopes published and on their way, rows of `telemetry_operation_records` |
| `messages`, `shown` | `msg_<session>_<turn>_user` on the phone; history: transcripts that were stored |
| `unpriced` | history: costs for which there was no price |

A provider call with a price costs one unit. An envelope is posted once, and may
be lost or arrive late or after another. `NewAgent` is the restart of the
app in an active session. Left out: latencies, token counts, summaries.

### AgentDispatch

The API handlers, the rows of one device, the supervisor's handlers (one per
posted request, because the handler outlives a lost reply) and the agent tasks.

| Specification | Code |
|---|---|
| `status`, `context` | columns `status` and `recent_context_json`; `"overdue"` is an active row past `expires_at_ms` that nothing has swept yet |
| `pc`, `target`, `attempt` | `create_session` and the loop of `AgentAssigner.assign` |
| `ending` | `end_session` between the update and the cancel request |
| `handler`, `waitsFor` | `AgentSupervisor.assign` and the task it waits for |
| `tracked` | `AgentSupervisor._tasks` |
| `run`, `started`, `cancelling` | `RealtimeAgentSession.run`, its `started` event, a pending cancellation |

Each store operation is one SQLite transaction and one step. A create request
over the daily limit raises and is rolled back: no fresh session is left and
nothing changes. `TransportError` covers a lost request (the handler never
begins), a lost reply and a timeout (it goes on). `MCAgentDispatch` adds the
symmetry of callers. LiveKit is external: `Connect` succeeds, fails or hangs.

### JudgeJobs

One conversation on the phone: `enqueueMemoryExtractionJob`, the drain of
`LongTermMemoryCoordinator`, and the user beside them. Dart runs one isolate, so
a step is what happens between two awaits; one SQL statement or one transaction is
one step.

| Specification | Code |
|---|---|
| `kept` | exchanges whose messages are in `chat_messages` |
| `handled` | `memory_judge_skips`, exchanges that exact-fact admission dealt with |
| `status[j]`, `endTurn[j]`, `attempts[j]`, `waits[j]` | the row of `memory_extraction_jobs` that starts with exchange `j`: its status, last exchange, attempts, and whether `next_attempt_at` or a fresh lease keeps it from being claimed |
| `ledger`, `recurrence[t]`, `audit` | `memory_judge_operations`, `recurrence_count` of the memory made of exchange `t`, `memory_candidates` |
| `enq` | the enqueue under way: the statement that comes next and the pending row it has read |
| `worker`, `drained`, `requested`, `timer` | `_drain`: its stage, the row it claimed, the window and the reply; the jobs of this drain; a drain waiting in `_queue`; `_idleTimer` |
| `judged`, `lost`, `forgotten` | history: exchanges in an applied window, exchanges the code drops (below), memories the user deleted |

Exchanges are numbers in the order in which they were completed; the id of a row
is a hash of its first turn, so rows go by that number. The judge's answer is any
subset of the window, at most one decision per exchange, identified as the API
does it by job and content. Backoff and lease times are a flag that `TimePasses`
clears. A request fails in a retryable way or not. `Restart` keeps the database
and nothing else. Not in the module: content validation of decisions,
notices, the vector sync after an apply, pruning of old rows.

### SemanticAtoms and MemoryFormation

`POST /v1/memory/compile` and `POST /v1/memory-judge`: what the server makes of a
language model's proposals about a window of turns. `SemanticAtoms` has the pure
part: `Rejection` and `Observation` are `_construct_memory_observation` (evidence,
speaker, grounding, sensitivity, doubt, identity), `Coherent` the validator of the
result, `SourceSafe` is `filter_source_safe_candidates`. `MemoryFormation` has the
requests.

| Specification | Code |
|---|---|
| `setup`, `priced` | settings: disabled, unconfigured or ready; reviewed token rates |
| `window` | the turns of the request |
| `attempt`, `stage` | requests of one job, the one under way |
| `answer`, `usage` | what the model proposed and the tokens it reported |
| `done`, `built`, `outcomes` | the loop over proposals: candidates so far, `construction_outcomes` |
| `replies` | history: what the phone was answered |

`Request`, `ProviderFails`, `ProviderAnswers`, `Construct`, `Filter` and `Respond`
are the steps of a request; the server keeps nothing between two. A text is a
sequence of words, a quote a part of it. A proposal may be anything of the schema:
`MCMemoryFormation` has a good one and one for every way of departing from it that
a check looks for, and the model may propose something else when asked again.
Left out: the wording of the prompts, the utility scores, the affect scale, the
embedding and model services, which compute without state.

## What TLC checks

All runs pass.

| Run | Properties | Bounds | Distinct states |
|---|---|---|---|
| `agent_turn` | `OneAnswerPerTurn`, `AnswerFitsTranscript`, `NoTalkOver`, `NoLostWords`, `QuietMeansListening`, `ThinkingEnds` | 3 utterances | 216 000 |
| `endpointing` | `AudioUnbroken`, `ReplayBounded`, `PauseKeepsTurn`, `StopEndsTurn`, `ImplementsSource` | 18 frames, thresholds 3/4/2/4/3/6 | 34 000 |
| `stt` | `FinalAfterAllAudio`, `FinishedSegmentsKept`, `OneOutcome`, `CommitEnds` | 2 utterances of 3 frames, 2 frames per message, 2 segments, 3 responses | 114 000 |
| `memory_lookup` | `MemoryFitsQuestion`, `OnlyUnsentLeft` | 3 responses, 7 texts, plans of 1 and 6 memories | 714 000 |
| `prompt_context` | `OnlyFitContext`, `TrimmedInOrder` | 2 exchanges, at most 4 recent messages, 3 blocks, 13 words | 13 000 |
| `speech` | `OneVoice`, `SpokenWhole`, `SwitchTold`, `SilenceAfterStop`, `SpeechEnds` | 2 answers of 2 chunks of at most 8 bytes, frames of 4 bytes, pieces of 3 and 5 | 1 193 000 |
| `session_records` | `RecordsCumulative`, `CompleteIsHonest`, `JudgedOnce` | 2 utterances, 2 agents, 1 notice | 94 000 |
| `dispatch` | `SingleActiveSession`, `ContextInTransit` | 2 callers, 2 sessions, 2 tasks, 2 attempts, 1 agent place | 750 000 |
| `dispatch_progress` | `CreateAnswered`, `AgentsEnd` | 1 caller, 1 session, 3 tasks, 3 attempts | 68 000 |
| `memory_formation` | `SaidInWindow`, `PrivateKeptOut`, `DoubtKept` | 8 windows, 2 requests per job | 465 000 |
| `judge_jobs` | `NothingFromErased`, `DecidedOnce`, `OneJobPerExchange`, `NoExchangeForgotten` | 3 exchanges, 2 per job, 2 attempts, 1 job per drain, 1 restart, 1 Clear History | 680 000 |
| `judge_jobs_progress` | `PendingClaimed` | 2 exchanges, 1 per job, 3 attempts, 1 restart, 1 Clear History | 110 000 |

`TypeOK` is in none of them because eight modules have it proved (`TypeCorrect`).

### What the properties say

* `agent_turn`. A turn has one answer, for the words the client shows, never
  over the user's voice; the words of an interrupted part reach a later
  response unless the client cancelled them; when nothing is at work the client
  shows `listening`, and `thinking` ends.
* `endpointing`. The frames of a turn form one unbroken run that begins with
  the confirmation window; little is replayed; a pause shorter than the window
  that applies keeps the turn, a longer silence ends it; ids grow.
* `stt`. A final transcript comes after every frame has been sent or
  recognised, and begins with the finished segments the client was shown (of segments
  that were never shown it says nothing: `TrailingSegmentKept` below); when the main
  loop goes on the client has been told one outcome of the turn, and it does go
  on.
* `memory_lookup`. The memories in a prompt were looked up for its own
  question, however late or often it was answered; a request stays in the tables only
  if it was abandoned while being published.
* `prompt_context`. No safety override, doubtful transcript, sensitive text or
  rejected, outdated or unsourced memory reaches the model again; what is trimmed is
  the oldest, then the context, then the last turn, and no more than the budget asks
  for.
* `speech`. What is heard of one answer comes from one provider, and never
  from the primary after a switch; an answer reported as completed was played to its
  last byte; a switch is told once, before that answer is reported; after the fade of
  a barge-in no frame of the answer comes; speech ends.
* `session_records`. Of two records of a turn the later contains the cost of the
  earlier; a record calls itself complete if and only if every call in it had a
  price; a judgement has one row.
* `dispatch`. A device has one active session; conversation text stays in a row
  only while an assignment can still use it; callers are answered, agents of an
  ended session leave.
* `memory_formation`. What is remembered was said in the window by the right
  speaker, in messages not marked `safety_override`; its normalized value was said
  there too, is canonical, or is a number of the model's; it has no private word, but
  for such a number; and it is no surer than it was heard.
* `judge_jobs`. Nothing is remembered of what was erased; a decision takes
  effect once; rows do not overlap; every stored exchange is in an open job, was
  judged, or fell into a window named below; a new job is claimed without further
  help from the user.

*Why these bounds.* Three utterances are what a chain of coalescing needs: one
answered or cancelled, one that extends it, one that interrupts the extension.
Two callers are the smallest number that share a session, two sessions the
smallest in which one replaces another. The thresholds of `endpointing` keep the
order of the defaults (confirmation < buffer < forced, endpoint silence <
coalescing) with a continuation window longer than the coalescing one, so that the
marker matters; 18 frames hold two whole turns and a false start. With the shipped
defaults the continuation window (1100 ms) is shorter than the coalescing window
(1500 ms) and the marker changes nothing.
Three frames at two per message leave a rest for the end of a stream, two segments
can repeat or differ, three responses are a segment, a signal and a failure in any
order, and the second utterance shows what a stream leaves to the next. Three
responses let a late reply meet the wrong request while a third one waits; they may
have one turn or several. Pieces of 3 and 5 bytes make odd remainders of frames of 4; two chunks
are what a switch between chunks needs, two answers what an event of a former answer
needs. Two agents are a restart; two utterances a continuation or two turns.
Two requests of a job are a retry with a changed answer.
Three exchanges and two per job let a job fill, be sealed and be followed by
another, and let the third arrive while the first job is with the judge; two
attempts are the smallest number with both a retry and a last attempt; one job
per drain makes every drain end in `DrainFull` once. In `judge_jobs_progress` a
third attempt outlives the restart. `dispatch` uses the symmetry of callers, which
is sound because it has no liveness property.

*Deadlock.* It is checked in `agent_turn`, where only a closed session may stop
(`Stopped`), and in the runs of `JudgeJobs`, where a drain can always be requested.
In the other runs the bounds on sessions, tasks, frames, utterances, exchanges or
requests stop the system, so the check is off.

*Fairness.* `AgentTurn`: the event loop runs every ready task and every provider
call ends, because the HTTP clients and lookups have timeouts; nothing obliges
the user to speak, stop or leave, nor the session to close. `SttStream`: the tasks
and the clock go on; of the server only that it does not send signals for ever.
`SpeechOutput`: streams end by their time limits and LiveKit takes or refuses a
frame; nobody need speak or interrupt. `AgentDispatch`: a handler that has begun
goes on, requests time out (`httpx` timeout, the 3 s of `wait_for`), and the loop
of an agent ends by expiry at the latest (`_loop_until_shutdown`). A connection need
never succeed, a lost cancel request is never repeated, and nothing obliges anybody
to create or end a session. `JudgeJobs`: statements and requests end (the HTTP
client has a timeout), a timer that is set fires, backoffs and leases run out; the
user need not speak, the session need not end and the app need not be started
again. `MemoryLookup`, `PromptContext`, `SessionRecords` and `MemoryFormation`
have safety properties only and no fairness.

### Promises that do not hold

Fourteen sentences of the documentation or the comments are not true of the code in
every order of events. Each is stated as a property beside the module, with a
configuration of its own that shows the counterexample
(`tlc -config <file>.cfg <module>`).

| Property | Configuration | Module |
|---|---|---|
| `OneTerminalRecord` | `MCAgentTurnTerminal` | `AgentTurn` |
| `ForcedEndpointCapsTurn` | `MCEndpointingForced` | `Endpointing` |
| `FailureEndsTurnOnly` | `MCSttStreamSocket` | `SttStream` |
| `TrailingSegmentKept` | `MCSttStreamTrailing` | `SttStream` |
| `ExchangePreserved` | `MCPromptContextExchange` | `MCPromptContext` |
| `CancelledOnRequest` | `MCSpeechOutputTimeout` | `SpeechOutput` |
| `NextChunkFromFallback` | `MCSpeechOutputChunks` | `SpeechOutput` |
| `MessagesKept` | `MCSessionRecordsRestart` | `SessionRecords` |
| `StartupFailureSurfaces` | `MCAgentDispatchStartup` | `MCAgentDispatch` |
| `OneAgentPerRoom` | `MCAgentDispatchOneAgent` | `MCAgentDispatch` |
| `MentionsSaid` | `MCMemoryFormationMention` | `MCMemoryFormation` |
| `NumbersKeptOut` | `MCMemoryFormationNumber` | `MCMemoryFormation` |
| `AuditErased` | `MCJudgeJobsErase` | `JudgeJobs` |
| `LeasesReclaimed` | `MCJudgeJobsLease` | `JudgeJobs` |

* `OneTerminalRecord`: `_emit_llm_error` sends the terminal record and suspends
  before its task is done. A `speech_start` in that moment finds the turn running
  and uncommitted and coalesces it, and its later answer sends a second record
  for the same turn. `docs/architecture/observability_metrics.md:122` calls the
  record immutable and terminal.
* `ForcedEndpointCapsTurn`: the forced endpoint counts voiced frames only, so
  pauses below the coalescing window extend a turn past the 9 s of
  `docs/architecture/endpointing.md:120`.
* `FailureEndsTurnOnly`: when the socket fails while audio is still being sent,
  the `finally` of `SarvamSTTProvider.stream` cancels the sender and awaits it; the
  `CancelledError` of that await replaces the error (`providers/stt.py:217`). No
  `stt_error` is emitted, and the await of the task at the endpoint raises
  `CancelledError` in the main loop, which ends the session.
  `docs/architecture/agent_lifecycle.md:185` wants the turn to fail and the error to
  be visible.
* `TrailingSegmentKept`: the stream of Sarvam takes the first segment it reads after
  the sender is done for the last (`providers/stt.py:202`). If two are then on their
  way the second is lost, and if the first is of the part before a pause the final is
  half of what was said. `docs/architecture/voice_pipeline.md:112` wants the trailing
  segment appended before the final.
* `ExchangePreserved`: `_bounded_messages` counts the latest user text among the
  last two messages it keeps, so one recent message is left and not the exchange of
  the comments at `context.py:798` and `:802`.
* `CancelledOnRequest`: `asyncio.timeout` in the Kokoro provider spans the yield
  (`providers/tts.py:65`). When it fires while the response task publishes a frame,
  that task is cancelled: no fallback voice, no event, a turn reported as cancelled,
  and no `listening`, although `docs/architecture/voice_pipeline.md:221` describes a
  fallback.
* `NextChunkFromFallback`: when the primary fails after a frame of the answer, the
  failover ends its stream (`providers/tts.py`): the rest of the answer, with the
  chunks that follow, is dropped, and the answer is reported as completed. Only the
  next answer uses the fallback, whereas `docs/architecture/voice_pipeline.md:221`
  says the next chunk does.
* `MessagesKept`: a restarted app gets its session back and a new agent, whose
  turn ids start at 1 again (`events.py:58`); the phone stores messages by session
  and turn and overwrites those of the first agent. `docs/SPRINTS.md:152` says that
  messages survive a restart.
* `StartupFailureSurfaces`: `assign` answers for any entry in the table, also
  that of a task still connecting. A second create request is told that the
  session has an agent; when the start then fails only the first caller learns it
  (`docs/architecture/agent_lifecycle.md:35`).
* `OneAgentPerRoom`: after a failed start `assign` pops the entry by session id.
  If that entry already belongs to a newer task, the newer one is no longer
  tracked, and the next assign starts a second agent in the room
  (`docs/architecture/agent_lifecycle.md:32`).
* `MentionsSaid`: the words of the target mention are looked for in the joined
  quotes (`memory_v3_compiler.py:717`), so a mention may span the end of one quote
  and the start of another and be something nobody said.
* `NumbersKeptOut`: a number or truth value that the model proposes as the normalized
  value is taken over as it is (`memory_v3_compiler.py:1045`), without a look at the
  quotes or at its privacy, while the same digits in a quote would be restricted
  (`:934`). `docs/architecture/memory_v3_compiler.md:36` says that what is ungrounded or
  restricted never reaches the phone.
* `AuditErased`: `applyMemoryJudgeDecisions` reads its evidence again and rejects
  a decision whose exchanges are gone, but enters the rejected decision in
  `memory_candidates` all the same. An answer that arrives after Clear History so
  leaves an audit row of erased text, although
  `docs/architecture/long_term_memory.md:973` says that Clear History deletes the
  candidate audits.
* `LeasesReclaimed`: a stale claim is taken over only below the attempt limit, and
  nothing else ends a row in `processing`. A process killed during the last attempt
  leaves the row there for ever, neither tried again nor marked dead.

### Observations

Things the models show or had to follow, for which no text promises otherwise.

*Speech recognition.* An immediate repetition of a segment collapses; each voice signal restarts the response timeout; a server that closes
after the flush turns the segments already received into an error; a transcript
that comes after the sender has failed is dropped; `receive_task` is left running
when the stream is cancelled; nothing limits the time the sender spends in `send`.

*Memory lookup.* A future stays in its dictionary when its request is abandoned
while being published (`lifecycle.py:897`, `:1037`; `unsent`). A failed publication
of a version 2 request ends the response with neither `llm_error` nor `listening`.
`_memory_lookup_latency_ms` keeps the value of the last lookup. A barge-in while the
answer is published leaves an answer on the screen that the prompts do not know
(`lifecycle.py:784`).

*Prompts.* A memory sent with the session and with the turn appears twice;
`del bounded[1]` removes the ground rules with the context; a crisis text without a
word of `_sensitive` stays in later prompts; `history.messages = 0` keeps everything.

*Speech output.* The fallback event of a failed or cancelled answer is reported
with a later one; an event that is drained and then cancelled while published is
lost. A chunk of text may be one character longer than the limit.

*Records.* `session_summary` adds records that are cumulative. The STT cost of a
continuation is booked under its own turn, which has no record. Two outcomes of one
kind in one turn may have one id and collapse.

*Memory formation.* An `stt_confidence` of 0 counts as 0.5. The place in the answer
is part of an observation's id, so a retry in another order has other ids. The
compile route looks for private words in the quotes only, the judge in whole turns.
`no_atom_reason` is accepted beside candidates. The phone sends the message of the
user and the reply of an exchange with one turn id
(`memory_v3_compiler_store.dart:131`), and `bounded_unique_turns` rejects a request
with a turn id twice (`memory_v3_compiler.py:153`): the compile windows of
`memory_formation` are those the server accepts, and no window the phone builds today
is one of them.

*Judge jobs.* The enqueue is not a transaction and updates its row by id: an
exchange added to a row that the drain has just claimed is in no window and is not
judged when the row succeeds (`lost`, which `NoExchangeForgotten` exempts, as it does
an exchange whose enqueue a crash cut off); a row sealed after it succeeded goes back
to `ready` and is judged again, which the ledger makes harmless (`DecidedOnce`). A
row inserted just after Clear History starts with an exchange that is no longer
stored; the next exchange joins it, finds an empty window, and the job is marked
dead. A failed job has no timer of its own: it is tried at the next drain, whatever
starts it.

*Dispatch.* A create request that fails ends the session also of another one that was
given it and succeeded (`main.py:526`).

*Agent.* The `finally` of `RealtimeAgentSession.run()` awaits twice before it
disconnects, and a cancellation there skips the disconnect (`CancelFinally` in
`AgentDispatch`). `_suggests_continuation` strips trailing dots before it tests for
an ellipsis, so that branch never fires; `_reset_turn` keeps the pre-speech buffer,
so the last frame of a turn can be the first of the next (`ReplayBounded` says how
much).

## What is proved

For each module there is an invariant that is inductive (`IInv`; `StreamInv`,
`FormationInv` and `PromptInv` where one module of proofs treats two components), one
lemma per action or kind of action, and theorems for the properties above, among them
all the invariants and action properties that a run checks. `TypeCorrect`
(`StreamTypeCorrect`) is proved for the eight modules that state a type invariant. The
theorems hold for every value of the constants under the assumptions named.

`AgentTurnProofs`, from `MaxTurn \in Nat \ {0}` only:
`NeverTalksOver`, `AnswersOnce`, `AnswersWhatIsShown`, `WordsNotLost`,
`QuietListens`.
None of these is inductive. Two answers to one turn are excluded because a
response that reopens a turn was created from an uncommitted one and is the only
task at work. `IInv` says so in parts: ids are handed out in order
(`IdsInOrder`); one utterance is open or awaited at a time (`OneUtterance`); a
response task exists only for a handled transcript, and `_current_turn` belongs
to the active turn (`TasksStarted`); nobody but `_current_turn` is at work
(`OneResponse`); what is pending, accepted or being computed has no answer yet
and is the text on the screen (`ToBeAnswered`); what has an answer is committed
(`AnsweredIsCommitted`). The steps of a response task fall into two kinds, those
that publish an answer and those that do not (`ResponseSteps`), and each kind is
treated once. A second invariant `WInv` on top of it follows each word from its
transcript to the text of a response (`WordsStay`, `AnswersTold`, `WordsKept`) and
the state the client shows from one task to the next (`StateShown`).

`HearingProofs`, first part, from `ThresholdAssumption` (the shape of the defaults), for
sessions of any length: `NoFrameLost`, `ReplayIsBounded`, `PausesTolerated`,
`SilenceEndsTurn`, and `Implements`, the refinement of `UtteranceSource`. The buffer
is described as a window (consecutive frames ending now), kept by `Append` and `Tail`
(`AppendWindow`, `TailWindow`); a candidate fits into it because confirmation is not
longer than the buffer. `Implements` shows that the initial states map to initial
states and that a frame is `Open`, `Commit` or a stutter.

`HearingProofs`, second part, from `StreamAssumption`: `AllAudioSent`,
`SegmentsKept`, `OutcomeOnce`. The stages of the stream, its sender and the main loop go together
(`TasksInStep`), and a sender that is done has taken and sent everything
(`SentBeforeFinal`). A
task ends only by telling an outcome, unless it was cancelled by the loss of the
connection or by the end of the session (`CancelledByLoss`, `ToldOnce`). What was
shown as finished is a prefix of what was received (`ShownFirst`).

`MemoryLookupProofs`, from `LookupAssumption`: `FitsQuestion`, `FuturesLeft` (the
dictionaries hold the awaited future and those of `unsent`). Every
request ever sent has a number of its own (`Numbers`, `RequestsApart`), so a reply
whose key is the awaited one was looked up for the response that waits
(`FoundForResponse`); a future that was left behind never has that key
(`FuturesKnown`).

`SpeechOutputProofs`, from `SpeechAssumption` (even frame size, positive bounds):
`OneProvider`, `PlayedToTheEnd`, `SwitchReported`, `SilentAfterStop`. The primary is at work only
before the switch (`Switched`), and what was heard of the answer is of the voice at
work (`Voices`); the event of the switch is in the list, being told or told
(`Events`); a task whose audio
has been faded has a cancellation that will be delivered, or is beyond its last frame
(`Silence`). `PlayedToTheEnd` (`SpokenWhole`) has a second invariant, `Played`, on top
of these: every byte received of a chunk is in a frame LiveKit was handed or in the
buffer (`Accounted`), chunks are played one after the other (`InOrder`), and an answer
that is being reported has all of them or is one whose primary voice broke off
(`Spoken`). Frames are counted by a division, so
the accounts are kept in products, from which the last, padded frame follows
(`DivisionWithRest`, `TimesGrows`).

`SessionRecordsProofs`, from `RecordsAssumption`: `RecordsAddUp`,
`CompletenessHonest`, `JudgementsOnce`. Costs of a turn only grow under one agent, and
a record made is bounded by them (`RecordsBehind`); a source is what the least
certain cost makes of it (`SourceHonest`); ids are unique in the store
(`IdsUnique`).

`AgentDispatchProofs`, from `DispatchAssumption` (limits are positive): `OneActiveSession`, `ContextRemoved`. A caller has a target
that exists (`TargetKnown`) and attempts left while it retries (`AttemptLeft`), a
handler waits for a task that was started (`TaskAwaited`); sweep, reuse and insert
are one transaction, so the active session is one, and a caller that still tries or
is about to clean up answers for each context in a row.

`JudgeJobsProofs`, from `JobsAssumption` (limits are positive), for any number of
exchanges, restarts and uses of Clear History: `ErasedStaysErased`, `DecidesOnce`,
`JobsApart`, `NothingForgotten`. The argument for `DecidesOnce`:
the ledger identifies a decision by its job, so a second decision about an
exchange could only come from a second job; rows never overlap, and what is
remembered, or was deleted, was decided in the row that covers its exchange
(`DecidedInOwnJob`). Rows never overlap, although the enqueue acts on what it read
some statements ago, because the row it read is still the last one and no other is
pending (`EnqueueKnowsLast`, `PendingIsLast`), and a new row starts beyond all others
(`JobSpans`, `ExchangesInOrder`). The drain's copy of its row stays good as long
as its first exchange is stored (`DrainHasRow`); after Clear History it is not,
and the evidence read in `ApplyDecisions` is empty (`DecisionIsFirst`). The steps of the
drain that leave the database alone are treated as one kind (`DrainMoves`), those
that change rows but not their extent as another (`RowsStay`).
`NothingForgotten` has a second invariant `CInv` on top of `IInv`. An exchange drops
out when the row that covers it succeeds, so its window must have been in the request:
what the enqueue admits to a row fits one request (`RowsFit`, with the cardinalities of
finite sets in `WindowIsAll`), the drain's copy leaves out only exchanges that were
added after the claim (`DrainCovers`), a row the enqueue has read cannot be the one the
drain holds once that is sealed, and a row is only gone when its exchanges are
(`ErasedWithRow`).

`LanguageModelProofs` is about the two components that work on lists: for any texts,
histories, windows and proposals. A loop over a list is a recursive function of the
place, and no induction theorem can be applied to it here; its result is proved by the
least place at which the claim could fail (`Least`, from the well-foundedness of `<`,
and `UpTo`).

* `MemoryFormation`, from `FormationAssumption` and `WordsAssumption` (proposals are
  of the schema; turns have a role, words and a confidence in per cent; ids of turns are
  distinct, in a judge's window at least for each role; a compile window has a turn of the
  user; canonical values have no private word; of numbers it is not assumed): `SpokenByItsSpeaker`,
  `NothingPrivate`, `DoubtNotOutvoted`. `FormationInv` says that what is
  listed, under construction or answered, is a candidate that the checks let through
  (`Found`, `Approved`), and that observations come in the order in which they were
  proposed (`Listed`). The rest is what the checks are worth: each word of an
  observation is traced back to a turn of the window by way of the quotes (`ObjectSaid`,
  `ObservationWords`), a value to the object, the canonical ones or the numbers
  (`ValueIs`), and a confidence to the
  smallest of the turns it rests on (`MinIs`).
* `PromptContext`, from `PromptAssumption` (texts and scores are finite, lists are lists,
  positive limits): `FitForTheModel`, `TrimmedByAge`. `PromptInv` says that the recent
  turns are in the order of their time and none is there twice (`Recents`), and that the
  prompt of a question that waits for its answer is `Bounded` applied to the messages of
  what the builder still holds, so it is never older than that. Below that
  are the operators: a sorted list has the members of the unsorted one, each once, at
  places that increase with their rank (`ArrangedPlaces`, `ByTime`); of equal turns
  deduplication keeps one, and the order of the others (`DedupeOf`); what is selected of
  the memories passed every filter (`SelectedMemory`); trimming leaves out the oldest
  turns, then the context, then the last turn, and the last only if what remained was
  still too long (`BoundedIs`, `Trimmed`).

Only model-checked: the liveness properties (`ThinkingEnds`, `CreateAnswered`,
`AgentsEnd`, `PendingClaimed`, `SpeechEnds`, `CommitEnds`), because fairness and
ENABLED are outside the prover's reach.

## Not modelled

* The V3 compile queue and the claim ledger of the phone. The first is a second lease
  queue, with attempt fencing; when it coalesces jobs it drops exchanges older than the
  last twelve messages (`memory_v3_compiler_store.dart:186`).
* The sync of the vector index, the encryption migration, and the voice client with its
  `clearHistory` (`voice_chat_controller.dart:279`).
* A crash of the API between the insert and the clearing of a context
  (`main.py:523`): the row keeps its text until its session ends or expires.
* Text heuristics (word lists, the splitting of text, `_suggests_continuation`), VAD
  arithmetic and resampling, latencies and summaries, the embedding service, the
  LiveKit library, and `client_fake_turn`: they have no state that other components
  race with.
* Deployment scripts and offline evaluation.
