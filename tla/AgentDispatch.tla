---------------------------- MODULE AgentDispatch ----------------------------
(***************************************************************************)
(* How a session gets its room agent and loses it again, for one device.   *)
(* Three programs take part:                                               *)
(*                                                                         *)
(*   - the API service: POST /v1/session and /v1/session/end               *)
(*     (services/api/app/main.py), the SQLite rows of SessionStore, and    *)
(*     AgentAssigner, which posts to the agent service with retries;       *)
(*   - the agent service: AgentSupervisor.assign and cancel, one handler   *)
(*     per request (services/realtime-agent/app/lifecycle.py);             *)
(*   - one agent task per assigned session: RealtimeAgentSession.run.      *)
(*                                                                         *)
(* Handlers are asyncio tasks of two processes: a step is what one of them *)
(* does between two awaits.  A request may be lost, a reply may be lost    *)
(* while its handler goes on, and a retry is a request of its own.         *)
(***************************************************************************)
EXTENDS Naturals, FiniteSets

CONSTANTS
  Caller,         \* POST /v1/session requests in flight at the same time
  MaxSession,     \* bound: sessions created (session_create_limit_per_day)
  MaxTask,        \* bound: agent tasks started
  MaxAttempts,    \* agent_assignment_max_attempts
  MaxAgents       \* max_concurrent_agents

ASSUME DispatchAssumption ==
  /\ MaxSession \in Nat \ {0} /\ MaxTask \in Nat \ {0}
  /\ MaxAttempts \in Nat \ {0} /\ MaxAgents \in Nat \ {0}

Session == 1..MaxSession
Task == 1..MaxTask
Handler == Caller \X (1..MaxAttempts)     \* one per posted assign request
None == 0

VARIABLES
  status,         \* status[s]: the row of session s; "overdue" is a row that
                  \* still says active past its expires_at_ms
  context,        \* sessions whose row holds recent turns and memory blocks
  pc,             \* pc[c]: stage of POST /v1/session
  target,         \* target[c]: the session it works on
  attempt,        \* attempt[c]: assign requests it has posted
  ending,         \* sessions ended by the app, agent not yet cancelled
  handler,        \* handler[h]: stage of an assign request at the supervisor
  waitsFor,       \* waitsFor[h]: the task it started
  tracked,        \* AgentSupervisor._tasks
  run,            \* run[k]: stage of agent task k
  runSession,     \* runSession[k]: its assignment
  started,        \* tasks whose started event is set
  cancelling      \* tasks with a cancellation not yet delivered

storeVars == <<status, context>>
callerVars == <<pc, target, attempt>>
superVars == <<handler, waitsFor, tracked>>
taskVars == <<run, runSession, started, cancelling>>
vars == <<storeVars, callerVars, ending, superVars, taskVars>>

TypeOK ==
  /\ status \in [Session -> {"none", "active", "overdue", "ended", "expired"}]
  /\ context \in SUBSET Session
  /\ pc \in [Caller -> {"idle", "assign", "sent", "cancel", "end",
                        "ok", "failed"}]
  /\ target \in [Caller -> 0..MaxSession]
  /\ attempt \in [Caller -> 0..MaxAttempts]
  /\ ending \in SUBSET Session
  /\ handler \in [Handler -> {"none", "queued", "starting", "gone",
                              "assigned", "unavailable", "error"}]
  /\ waitsFor \in [Handler -> 0..MaxTask]
  /\ tracked \in [Session -> 0..MaxTask]
  /\ run \in [Task -> {"none", "connecting", "running", "closing", "done",
                        "cutShort"}]
  /\ runSession \in [Task -> 0..MaxSession]
  /\ started \in SUBSET Task
  /\ cancelling \in SUBSET Task

Init ==
  /\ status = [s \in Session |-> "none"]
  /\ context = {}
  /\ pc = [c \in Caller |-> "idle"]
  /\ target = [c \in Caller |-> None]
  /\ attempt = [c \in Caller |-> 0]
  /\ ending = {}
  /\ handler = [h \in Handler |-> "none"]
  /\ waitsFor = [h \in Handler |-> None]
  /\ tracked = [s \in Session |-> None]
  /\ run = [k \in Task |-> "none"]
  /\ runSession = [k \in Task |-> None]
  /\ started = {}
  /\ cancelling = {}

------------------------------------------------------------------------------
(* The session rows *)

\* _expire_old_sessions, first statement of create_session and of the token
\* endpoint's get_active_session.
ExpireStatus == [s \in Session |->
  IF status[s] = "overdue" THEN "expired" ELSE status[s]]
Expired == {s \in Session : status[s] = "overdue"}

\* Faulty variant: every create makes a row.
ReusableNever == {}

\* The sessions create_session hands out again instead of creating one.
Reusable == {s \in Session : status[s] = "active"}

Fresh == {s \in Session : status[s] = "none"}

\* end_session: rows it changes, and with them their context.
Ends(s) == status[s] \in {"active", "overdue"}

\* Faulty variant: the row keeps its context.
ContextKept(s) == context
ContextAfterEnd(s) == IF Ends(s) THEN context \ {s} ELSE context
StatusAfterEnd(s) == IF Ends(s) THEN [status EXCEPT ![s] = "ended"] ELSE status

TimeUp(s) ==
  /\ status[s] = "active"
  /\ status' = [status EXCEPT ![s] = "overdue"]
  /\ UNCHANGED <<context, callerVars, ending, superVars, taskVars>>

\* A token request sweeps the expired rows.
TokenRequest ==
  /\ Expired # {}
  /\ status' = ExpireStatus
  /\ context' = context \ Expired
  /\ UNCHANGED <<callerVars, ending, superVars, taskVars>>

------------------------------------------------------------------------------
(* POST /v1/session *)

\* create_session is one transaction: the sweep, then the active session of
\* the device or a new row.  At the daily limit the exception rolls it back.
CreateSession(c) ==
  /\ pc[c] = "idle"
  /\ \E s \in IF Reusable # {} THEN Reusable ELSE Fresh :
       /\ Reusable = {} => \A f \in Fresh : s <= f
       /\ status' = [ExpireStatus EXCEPT ![s] = "active"]
       /\ context' = (context \ Expired) \cup (IF Reusable = {} THEN {s} ELSE {})
       /\ target' = [target EXCEPT ![c] = s]
  /\ pc' = [pc EXCEPT ![c] = "assign"]
  /\ UNCHANGED <<attempt, ending, superVars, taskVars>>

\* AgentAssigner.assign posts one attempt.
Post(c) ==
  /\ pc[c] = "assign"
  /\ pc' = [pc EXCEPT ![c] = "sent"]
  /\ attempt' = [attempt EXCEPT ![c] = @ + 1]
  /\ handler' = [handler EXCEPT ![<<c, attempt[c] + 1>>] = "queued"]
  /\ UNCHANGED <<storeVars, target, ending, waitsFor, tracked, taskVars>>

ReplyTo(c) == handler[<<c, attempt[c]>>]

\* A status below 400: the context is cleared and the request answered.
Accepted(c) ==
  /\ pc[c] = "sent" /\ ReplyTo(c) = "assigned"
  /\ pc' = [pc EXCEPT ![c] = "ok"]
  /\ context' = context \ {target[c]}
  /\ UNCHANGED <<status, target, attempt, ending, superVars, taskVars>>

\* Faulty variant: the last failure is not raised.
WaitAgain(c) == IF attempt[c] < MaxAttempts THEN "assign" ELSE "sent"

\* After a retryable failure: the next attempt, or the failure path.
RetryOrGiveUp(c) == IF attempt[c] < MaxAttempts THEN "assign" ELSE "cancel"

Refused(c) ==
  /\ pc[c] = "sent" /\ ReplyTo(c) \in {"unavailable", "error"}
  /\ pc' = [pc EXCEPT ![c] = IF ReplyTo(c) = "error" THEN "cancel"
                                                   ELSE RetryOrGiveUp(c)]
  /\ UNCHANGED <<storeVars, target, attempt, ending, superVars, taskVars>>

\* httpx.TransportError: the request or its reply is lost, or late.
TransportError(c) ==
  /\ pc[c] = "sent"
  /\ pc' = [pc EXCEPT ![c] = RetryOrGiveUp(c)]
  /\ handler' = [handler EXCEPT ![<<c, attempt[c]>>] =
                   IF @ = "starting" THEN @ ELSE "gone"]
  /\ UNCHANGED <<storeVars, target, attempt, ending, waitsFor, tracked, taskVars>>

\* task.done().
Over(k) == run[k] \in {"done", "cutShort"}

\* AgentSupervisor.cancel: the task stays in the table until it is reaped.
Cancellable(s) == IF tracked[s] # None /\ ~Over(tracked[s])
                    THEN {tracked[s]} ELSE {}

\* AgentAssignmentFailed: cancel the agent (best effort) ...
CancelAfterFailure(c) ==
  /\ pc[c] = "cancel"
  /\ pc' = [pc EXCEPT ![c] = "end"]
  /\ \/ cancelling' = cancelling \cup Cancellable(target[c])
     \/ UNCHANGED cancelling
  /\ UNCHANGED <<storeVars, target, attempt, ending, superVars, run, runSession,
                 started>>

\* ... then end the session, whoever else was given it.
EndAfterFailure(c) ==
  /\ pc[c] = "end"
  /\ pc' = [pc EXCEPT ![c] = "failed"]
  /\ status' = StatusAfterEnd(target[c])
  /\ context' = ContextAfterEnd(target[c])
  /\ UNCHANGED <<target, attempt, ending, superVars, taskVars>>

------------------------------------------------------------------------------
(* POST /v1/session/end *)

EndSession(s) ==
  /\ Ends(s)
  /\ \E c \in Caller : pc[c] = "ok" /\ target[c] = s     \* the app knows s
  /\ status' = StatusAfterEnd(s)
  /\ context' = ContextAfterEnd(s)
  /\ ending' = ending \cup {s}
  /\ UNCHANGED <<callerVars, superVars, taskVars>>

CancelAfterEnd(s) ==
  /\ s \in ending
  /\ ending' = ending \ {s}
  /\ \/ cancelling' = cancelling \cup Cancellable(s)
     \/ UNCHANGED cancelling
  /\ UNCHANGED <<storeVars, callerVars, superVars, run, runSession, started>>

------------------------------------------------------------------------------
(* AgentSupervisor.assign, one handler per request *)

\* _reap_finished.
Reaped == [s \in Session |->
  IF tracked[s] # None /\ Over(tracked[s]) THEN None ELSE tracked[s]]
Occupied == {s \in Session : Reaped[s] # None}
FreeTask == {k \in Task : run[k] = "none"}

\* Handler h ends with reply r, if its caller still waits for it.
Reply(h, r) ==
  handler' = [handler EXCEPT ![h] =
    IF pc[h[1]] = "sent" /\ attempt[h[1]] = h[2] THEN r ELSE "gone"]

\* ... and no longer waits for a task.
Waited(h, r) == Reply(h, r) /\ waitsFor' = [waitsFor EXCEPT ![h] = None]

\* The session is in the table: nothing to do, whatever state its task is in.
AlreadyAssigned(h) ==
  LET s == target[h[1]] IN
  /\ handler[h] = "queued" /\ Reaped[s] # None
  /\ tracked' = Reaped
  /\ Reply(h, "assigned")
  /\ UNCHANGED <<storeVars, callerVars, ending, waitsFor, taskVars>>

AtCapacity(h) ==
  /\ handler[h] = "queued" /\ Reaped[target[h[1]]] = None
  /\ Cardinality(Occupied) >= MaxAgents
  /\ tracked' = Reaped
  /\ Reply(h, "unavailable")
  /\ UNCHANGED <<storeVars, callerVars, ending, waitsFor, taskVars>>

StartTask(h) ==
  LET s == target[h[1]] IN
  /\ handler[h] = "queued" /\ Reaped[s] = None
  /\ Cardinality(Occupied) < MaxAgents
  /\ \E k \in FreeTask :
       /\ \A j \in FreeTask : k <= j
       /\ run' = [run EXCEPT ![k] = "connecting"]
       /\ runSession' = [runSession EXCEPT ![k] = s]
       /\ tracked' = [Reaped EXCEPT ![s] = k]
       /\ waitsFor' = [waitsFor EXCEPT ![h] = k]
  /\ handler' = [handler EXCEPT ![h] = "starting"]
  /\ UNCHANGED <<storeVars, callerVars, ending, started, cancelling>>

\* _wait_until_started returns ...
StartSeen(h) ==
  /\ handler[h] = "starting" /\ waitsFor[h] \in started
  /\ Waited(h, "assigned")
  /\ UNCHANGED <<storeVars, callerVars, ending, tracked, taskVars>>

\* ... or raises.  An error of run() pops the session's entry, whichever task
\* it names by now, and is an HTTP 500; a cancelled task's CancelledError
\* passes the handler by and leaves the entry.
StartFailed(h) ==
  LET k == waitsFor[h] IN
  /\ handler[h] = "starting" /\ Over(k) /\ k \notin started
  /\ Waited(h, "error")
  /\ tracked' \in {[tracked EXCEPT ![runSession[k]] = None], tracked}
  /\ UNCHANGED <<storeVars, callerVars, ending, taskVars>>

\* ... or times out after 3 s: the task is cancelled, its entry popped, 503.
StartTimeout(h) ==
  LET k == waitsFor[h] IN
  /\ handler[h] = "starting" /\ ~Over(k) /\ k \notin started
  /\ Waited(h, "unavailable")
  /\ cancelling' = cancelling \cup {k}
  /\ tracked' = [tracked EXCEPT ![runSession[k]] = None]
  /\ UNCHANGED <<storeVars, callerVars, ending, run, runSession,
                 started>>

------------------------------------------------------------------------------
(* An agent task: RealtimeAgentSession.run *)

Connect(k) ==
  /\ run[k] = "connecting" /\ k \notin cancelling
  /\ run' = [run EXCEPT ![k] = "running"]
  /\ started' = started \cup {k}
  /\ UNCHANGED <<storeVars, callerVars, ending, superVars, runSession, cancelling>>

\* Faulty variant: only a failed connection ends the loop.
LeaveUnconnected(k) ==
  /\ run[k] = "connecting" /\ k \notin cancelling
  /\ run' = [run EXCEPT ![k] = "closing"]
  /\ UNCHANGED <<storeVars, callerVars, ending, superVars, runSession, started,
                 cancelling>>

\* connect raises, or the loop returns: client left, idle, expired.
Leave(k) ==
  /\ run[k] \in {"connecting", "running"} /\ k \notin cancelling
  /\ run' = [run EXCEPT ![k] = "closing"]
  /\ UNCHANGED <<storeVars, callerVars, ending, superVars, runSession, started,
                 cancelling>>

\* CancelledError at an await of the body: its finally runs.
CancelBody(k) ==
  /\ run[k] \in {"connecting", "running"} /\ k \in cancelling
  /\ run' = [run EXCEPT ![k] = "closing"]
  /\ cancelling' = cancelling \ {k}
  /\ UNCHANGED <<storeVars, callerVars, ending, superVars, runSession, started>>

\* The finally: close the STT streams and the TTS provider, then disconnect.
Disconnect(k) ==
  /\ run[k] = "closing" /\ k \notin cancelling
  /\ run' = [run EXCEPT ![k] = "done"]
  /\ UNCHANGED <<storeVars, callerVars, ending, superVars, runSession, started, cancelling>>

\* CancelledError at an await of the finally: what is left of it is skipped.
CancelFinally(k) ==
  /\ run[k] = "closing" /\ k \in cancelling
  /\ run' = [run EXCEPT ![k] = "cutShort"]
  /\ cancelling' = cancelling \ {k}
  /\ UNCHANGED <<storeVars, callerVars, ending, superVars, runSession, started>>

ApiStep(c) ==
  \/ CreateSession(c) \/ Post(c) \/ Accepted(c) \/ Refused(c)
  \/ TransportError(c) \/ CancelAfterFailure(c) \/ EndAfterFailure(c)

Supervise(h) ==
  \/ AlreadyAssigned(h) \/ AtCapacity(h) \/ StartTask(h)
  \/ StartSeen(h) \/ StartFailed(h) \/ StartTimeout(h)

AgentStep(k) ==
  Connect(k) \/ Leave(k) \/ CancelBody(k) \/ Disconnect(k) \/ CancelFinally(k)

Next ==
  \/ \E c \in Caller : ApiStep(c)
  \/ \E h \in Handler : Supervise(h)
  \/ \E k \in Task : AgentStep(k)
  \/ \E s \in Session : TimeUp(s) \/ EndSession(s) \/ CancelAfterEnd(s)
  \/ TokenRequest

\* A handler that has begun is carried on; an agent's loop ends by expiry at the
\* latest.  Nothing obliges anyone to create or end a session, a connection to
\* succeed, or a row to be swept.
Fairness ==
  /\ \A c \in Caller : WF_vars(ApiStep(c) /\ pc[c] # "idle")
  /\ \A h \in Handler : WF_vars(Supervise(h))
  /\ \A k \in Task : WF_vars(AgentStep(k))
  /\ \A s \in Session : WF_vars(CancelAfterEnd(s))

Spec == Init /\ [][Next]_vars /\ Fairness

------------------------------------------------------------------------------
(* Properties *)

\* The device never has two sessions it could get a token for, however its
\* create requests overlap, fail or find an expired row (SessionStore).
SingleActiveSession ==
  \A s, t \in Session : status[s] = "active" /\ status[t] = "active" => s = t

\* Conversation context is in a row only while a create request still needs it
\* to assign the agent: success, failure, end and expiry all remove it.
ContextInTransit ==
  \A s \in context :
    /\ Ends(s)
    /\ \E c \in Caller : target[c] = s /\ pc[c] \in {"assign", "sent", "cancel", "end"}

\* Whoever asks for a session is answered, after at most MaxAttempts attempts.
CreateAnswered ==
  \A c \in Caller : (pc[c] = "assign") ~> (pc[c] \in {"ok", "failed"})

\* Once a session is over its agent tasks end, even one whose cancellation was
\* lost or which was started after the cancellation.
AgentsEnd ==
  \A s \in Session : (status[s] \in {"ended", "expired"}) ~>
    (\A k \in Task : runSession[k] = s => Over(k))

\* "If agent startup fails, the session creation flow must surface an
\* app-visible error state" (docs/architecture/agent_lifecycle.md): a request
\* that was answered with a session has an agent that started, or still may.
StartupFailureSurfaces ==
  \A c \in Caller : pc[c] = "ok" =>
    \E k \in Task : runSession[k] = target[c] /\ (k \in started \/ ~Over(k))

\* "A room has at most one active assistant agent"
\* (docs/architecture/agent_lifecycle.md): the table names every agent that is
\* at work in a room and has not been told to stop.
OneAgentPerRoom ==
  \A j, k \in Task :
    ( /\ runSession[j] = runSession[k]
      /\ run[j] = "running" /\ run[k] = "running"
      /\ {j, k} \cap cancelling = {} ) => j = k

==============================================================================
