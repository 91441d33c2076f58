----------------------------- MODULE MemoryLookup -----------------------------
(***************************************************************************)
(* What the agent asks the phone before it answers, and what it does with  *)
(* the reply: _respond_to_final_transcript, _request_memory_context_v2,    *)
(* _llm_messages, _lookup_turn_memory and the reply handlers of            *)
(* services/realtime-agent/app/lifecycle.py, with the route of             *)
(* memory_router.py, the plan of memory_planner.py and the classifier of   *)
(* safety.py.                                                              *)
(*                                                                         *)
(* The memories are on the phone.  A request is published with the turn    *)
(* and a sequence number and leaves a future in a dictionary; the phone    *)
(* repeats both in its reply (voice_chat_controller.dart:518, :598), which *)
(* the main loop handles late, more than once, or never.  Meanwhile the    *)
(* user may go on talking: the response is cancelled and another one,      *)
(* perhaps for the same turn, asks again.                                  *)
(*                                                                         *)
(* A text is the set of word lists it matches; a memory is the response    *)
(* whose text the phone looked it up for.  AgentTurn has the scheduling    *)
(* of responses in full and the lookup as one step; here a response that   *)
(* is cancelled has ended: it is the only one, and CancelledError meets    *)
(* no await before the next one begins.                                    *)
(***************************************************************************)
EXTENDS Naturals, FiniteSets

CONSTANTS
  MaxResponse,   \* bound: responses started during the session
  Texts,         \* bound: the texts users say
  Plans,         \* bound: budgets (top_k) an enabled planner may return
  Planner        \* memory_strategy.planner is qwen3_planner, and it is enabled

\* Word lists and length rules of memory_router.py, safety.py and
\* _live_data_unavailable_response.
Short == {"tiny", "greeting", "brief"}
Marks == Short \cup {"crisis", "safety", "profile", "summary", "reference", "episodic",
                     "question", "temporal", "semantic", "weather"}

ASSUME LookupAssumption ==
  /\ MaxResponse \in Nat /\ Texts \subseteq SUBSET Marks
  /\ Plans \subseteq 1..6 /\ Planner \in BOOLEAN

Response == 1..MaxResponse
Turn == Response

VARIABLES
  response,   \* number of responses started; the last one is the current task
  turnOf,     \* the turn id each was started with
  text,       \* user_text of the current one
  joining,    \* _pending_coalesced_turn: its turn (0: None) and its text
  stage,      \* where the response task is suspended
  v2,         \* _client_supports_memory_v2
  asking,     \* the request awaited: protocol version and sequence number
  sequence,   \* EventSequencer, memory requests only
  futures,    \* keys of the two dictionaries of pending requests
  requests,   \* requests that got to the phone
  found,      \* result of the future: the response looked up for, and what
  used,       \* used[r]: the responses whose lookups went into answer r
  unsent      \* history: keys of requests abandoned while they were published

vars == <<response, turnOf, text, joining, stage, v2, asking, sequence, futures,
          requests, found, used, unsent>>

Waiting == {"waiting", "answered", "expired"}
Stage == Waiting \cup {"idle", "thinking", "sending", "planning", "streaming",
                       "failing", "publishing", "overriding", "speaking"}
Committed == {"publishing", "overriding", "speaking"}
Request == [version : {1, 2}, turn : Turn, sequence : 1..2 * MaxResponse, about : Response]
Nothing == [about |-> 0, kind |-> "none"]
Found == [about : 0..MaxResponse, kind : {"none", "direct", "resolved", "unresolved", "packets"}]
NoTurn == [turn |-> 0, text |-> {}]

TypeOK ==
  /\ response \in 0..MaxResponse /\ turnOf \in [Response -> Turn]
  /\ text \in SUBSET Marks /\ joining \in [turn : 0..MaxResponse, text : SUBSET Marks]
  /\ stage \in Stage /\ v2 \in BOOLEAN
  /\ asking \in [version : {1, 2}, sequence : 0..2 * MaxResponse]
  /\ sequence \in 0..2 * MaxResponse
  /\ \A k \in futures : k[1] \in {1, 2} /\ k[2] \in Turn /\ k[3] \in 1..sequence
  /\ requests \subseteq Request
  /\ found \in Found
  /\ stage = "answered" => (found.kind = "packets") = (asking.version = 1)
  /\ used \in [Response -> SUBSET Response]
  /\ unsent \subseteq futures

Init ==
  /\ response = 0 /\ turnOf = [r \in Response |-> r] /\ text = {}
  /\ joining = NoTurn /\ stage = "idle" /\ v2 = FALSE
  /\ asking = [version |-> 2, sequence |-> 0] /\ sequence = 0
  /\ futures = {} /\ requests = {} /\ found = Nothing
  /\ used = [r \in Response |-> {}] /\ unsent = {}

-----------------------------------------------------------------------------
(* Classifier, router, planner.                                            *)

\* classify_input.
Overridden(marks) == "crisis" \in marks

\* route_memory_query: the first rule that applies decides.
Rules == <<
  [marks |-> {"tiny"},      route |-> "none",         blocks |-> 0],
  [marks |-> {"safety"},    route |-> "safety",       blocks |-> 0],
  [marks |-> {"greeting"},  route |-> "none",         blocks |-> 0],
  [marks |-> {"brief"},     route |-> "none",         blocks |-> 0],
  [marks |-> {"profile"},   route |-> "core_profile", blocks |-> 3],
  [marks |-> {"summary"},   route |-> "summary",      blocks |-> 6],
  [marks |-> {"reference"}, route |-> "episodic",     blocks |-> 6],
  [marks |-> {"episodic"},  route |-> "episodic",     blocks |-> 6],
  [marks |-> {"question", "temporal"}, route |-> "episodic", blocks |-> 6],
  [marks |-> {"semantic"},  route |-> "semantic",     blocks |-> 5],
  [marks |-> {},            route |-> "broad_safe",   blocks |-> 0] >>

Route(marks) ==
  Rules[CHOOSE i \in DOMAIN Rules :
          /\ Rules[i].marks \subseteq marks
          /\ \A j \in 1..i - 1 : ~(Rules[j].marks \subseteq marks)]

\* _parse_plan: a valid plan, or None for whatever else came back.
Planned(marks) ==
  {Route(marks)}
    \cup {[marks |-> {}, route |-> "none", blocks |-> 0]}
    \cup [marks : {{}}, blocks : Plans,
          route : {"core_profile", "semantic", "episodic", "summary", "broad_safe"}]

\* The route that makes _llm_messages ask the phone.
Asks(route) == route.route \notin {"none", "safety"} /\ route.blocks > 0

-----------------------------------------------------------------------------
(* Steps of the response task.                                             *)

\* The key under which the future of a request waits for the reply.
\* (Faulty variants, here and below, serve to show that properties can fail.)
KeyOfTurn(version, turn, number) == <<1, turn, 1>>
Key(version, turn, number) == <<version, turn, number>>

CurrentKey == Key(asking.version, turnOf[response], asking.sequence)

\* The futures without that of the request that was awaited.
Dropped == futures \ {CurrentKey}

\* Register the future, then start to publish the request.
Ask(version, others) ==
  /\ stage' = "sending"
  /\ sequence' = sequence + 1
  /\ asking' = [version |-> version, sequence |-> sequence + 1]
  /\ futures' = others \cup {Key(version, turnOf[response], sequence + 1)}

Proceed(next, others) ==
  /\ stage' = next /\ futures' = others /\ UNCHANGED <<asking, sequence>>

\* The messages are built after another lookup or, if the phone has resolved
\* the question or the route asks for nothing, at once.
AfterRoute(route, context, others) ==
  \/ /\ context.kind # "resolved" /\ Asks(route)
     /\ Ask(1, others)
  \/ /\ context.kind = "resolved" \/ ~Asks(route)
     /\ Proceed("streaming", others)

Replannable == Planner /\ Route(text).route = "broad_safe"

\* The rest of the response once the context is known, {} included: the
\* directive of the phone, no live data, or the language model.
AfterContext(context, others) ==
  /\ used' = [used EXCEPT ![response] = @ \cup ({context.about} \ {0})]
  /\ \/ /\ context.kind = "direct" \/ "weather" \in text
        /\ Proceed("publishing", others) /\ found' = Nothing
     \/ /\ context.kind # "direct" /\ "weather" \notin text /\ Replannable
        /\ Proceed("planning", others) /\ found' = context
     \/ /\ context.kind # "direct" /\ "weather" \notin text /\ ~Replannable
        /\ AfterRoute(Route(text), context, others) /\ found' = Nothing

sessionVars == <<response, turnOf, text, joining, v2>>
askVars == <<asking, sequence, futures, unsent>>

\* The state "thinking" has been published.
Classify ==
  /\ stage = "thinking"
  /\ \/ /\ Overridden(text)
        /\ Proceed("overriding", futures) /\ UNCHANGED <<used, found>>
     \/ /\ ~Overridden(text) /\ v2
        /\ Ask(2, futures) /\ UNCHANGED <<used, found>>
     \/ /\ ~Overridden(text) /\ ~v2
        /\ AfterContext(Nothing, futures)
  /\ UNCHANGED <<sessionVars, requests, unsent>>

CurrentRequest == [version |-> asking.version, turn |-> turnOf[response],
                   sequence |-> asking.sequence, about |-> response]

Sent ==
  /\ stage = "sending" /\ stage' = "waiting"
  /\ requests' = requests \cup {CurrentRequest}
  /\ UNCHANGED <<sessionVars, askVars, found, used>>

\* publish_data raises, outside the try statement of the request: the future
\* stays in its dictionary.  Nobody handles the error of the first request.
SendFails ==
  /\ stage = "sending"
  /\ stage' = IF asking.version = 2 THEN "idle" ELSE "failing"
  /\ unsent' = unsent \cup {CurrentKey}
  /\ UNCHANGED <<sessionVars, asking, sequence, futures, requests, found, used>>

\* wait_for runs out, also when the reply is there but not yet read.
Expiring == {"waiting", "answered"}

Expire ==
  /\ stage \in Expiring
  /\ stage' = "expired" /\ found' = Nothing
  /\ UNCHANGED <<sessionVars, askVars, requests, used>>

\* The task reads the reply, or goes on without one.
ContextReady ==
  /\ stage \in {"answered", "expired"} /\ asking.version = 2
  /\ AfterContext(found, Dropped)
  /\ UNCHANGED <<sessionVars, requests, unsent>>

Plan ==
  /\ stage = "planning"
  /\ \E route \in Planned(text) : AfterRoute(route, found, futures)
  /\ found' = Nothing
  /\ UNCHANGED <<sessionVars, requests, used, unsent>>

LookupReady ==
  /\ stage \in {"answered", "expired"} /\ asking.version = 1
  /\ used' = [used EXCEPT ![response] = @ \cup ({found.about} \ {0})]
  /\ Proceed("streaming", Dropped) /\ found' = Nothing
  /\ UNCHANGED <<sessionVars, requests, unsent>>

\* The stream ends with a text, or without content or with an error.
StreamEnds ==
  /\ stage = "streaming" /\ stage' \in {"publishing", "failing"}
  /\ UNCHANGED <<sessionVars, askVars, requests, found, used>>

\* The answer is on the screen, and an exchange of PromptContext.
Answered ==
  /\ stage \in {"publishing", "overriding"} /\ stage' = "speaking"
  /\ UNCHANGED <<sessionVars, askVars, requests, found, used>>

\* The answer has been spoken, or the error reported; listening is published.
Finished ==
  /\ stage \in {"speaking", "failing"} /\ stage' = "idle"
  /\ UNCHANGED <<sessionVars, askVars, requests, found, used>>

-----------------------------------------------------------------------------
(* The main loop and the phone.                                            *)

\* cancel_current_turn.  A cancellation in wait_for runs the finally clause;
\* while the request is being published it does not.  What is being published
\* may or may not reach the phone.
DropsIfExpired == {"expired"}
Drops == Waiting

Cancelled ==
  /\ found' = Nothing
  /\ futures' = IF stage \in Drops THEN Dropped ELSE futures
  /\ unsent' = IF stage = "sending" THEN unsent \cup {CurrentKey} ELSE unsent
  /\ \/ UNCHANGED requests
     \/ stage = "sending" /\ requests' = requests \cup {CurrentRequest}
  /\ UNCHANGED <<asking, sequence, used>>

\* speech_start during a response.
SpeechStart ==
  /\ stage # "idle"
  /\ joining' = IF stage \in Committed THEN joining
                ELSE [turn |-> turnOf[response], text |-> text]
  /\ Cancelled /\ stage' = "idle"
  /\ UNCHANGED <<response, turnOf, text, v2>>

\* A usable transcript, joined to the text it continues.
Joined(first, second) == (first \cup second) \ Short
Transcript ==
  /\ response < MaxResponse
  /\ response' = response + 1
  /\ \E marks \in Texts :
       IF joining.turn = 0
         THEN text' = marks /\ UNCHANGED turnOf
         ELSE /\ text' = Joined(joining.text, marks)
              /\ turnOf' = [turnOf EXCEPT ![response + 1] = joining.turn]
  /\ joining' = NoTurn
  /\ stage' = "thinking"
  /\ IF stage = "idle"
       THEN UNCHANGED <<askVars, requests, found, used>>
       ELSE Cancelled
  /\ UNCHANGED v2

\* client_session_started, with or without version 2.
ClientStarted ==
  /\ v2' = ~v2
  /\ UNCHANGED <<response, turnOf, text, joining, stage, askVars, requests, found, used>>

\* A reply is for the future under its key.  If there is none, or it is done,
\* the reply is stale; if its task is gone, the result is read by nobody.  The
\* request stays: its reply may come again, after the key is no longer awaited.
ReplyKinds(version) == IF version = 2 THEN {"direct", "resolved", "unresolved"} ELSE {"packets"}

Reply ==
  \E q \in requests :
    /\ \/ /\ stage = "waiting" /\ Key(q.version, q.turn, q.sequence) = CurrentKey
          /\ \E kind \in ReplyKinds(q.version) : found' = [about |-> q.about, kind |-> kind]
          /\ stage' = "answered"
       \/ /\ ~(stage = "waiting" /\ Key(q.version, q.turn, q.sequence) = CurrentKey)
          /\ UNCHANGED <<found, stage>>
    /\ UNCHANGED <<sessionVars, askVars, requests, used>>

Task == Classify \/ Sent \/ SendFails \/ Expire \/ ContextReady \/ Plan \/ LookupReady
          \/ StreamEnds \/ Answered \/ Finished

Next == Task \/ SpeechStart \/ Transcript \/ ClientStarted \/ Reply

\* Publishing, the planner and the language model end or fail, the phone
\* answers or does not: nothing here is assumed to happen.
Spec == Init /\ [][Next]_vars

-----------------------------------------------------------------------------
(* Properties.                                                             *)

\* Whatever the phone found for one text never goes into the answer to
\* another, not even to an earlier text of the same turn: a reply that comes
\* late or again is never taken for the one awaited (lifecycle.py:1169, :1216).
MemoryFitsQuestion ==
  /\ \A r \in Response : used[r] \subseteq {r}
  /\ stage = "answered" => found.about = response

\* A lookup that is answered, given up or cancelled while it waits takes its
\* future along (the finally clauses at lifecycle.py:916 and :1058).  Left in
\* the dictionaries for the rest of the session are those of requests that were
\* abandoned while being published, before the try statement; no more, no less.
OnlyUnsentLeft ==
  futures = unsent \cup IF stage \in Waiting \cup {"sending"} THEN {CurrentKey} ELSE {}
=============================================================================
