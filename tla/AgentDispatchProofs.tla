-------------------------- MODULE AgentDispatchProofs --------------------------
(***************************************************************************)
(* Proofs about AgentDispatch for any number of callers, sessions, tasks,  *)
(* attempts and agents: what the rows of SessionStore keep to.  What the   *)
(* supervisor and the agent tasks do in between plays a part only in the   *)
(* types.                                                                  *)
(***************************************************************************)
EXTENDS AgentDispatch, TLAPS

\* A request at work has a session; one still to be posted has an attempt left.
TargetKnown == \A c \in Caller : pc[c] # "idle" => target[c] \in Session
AttemptLeft == \A c \in Caller : pc[c] \in {"idle", "assign"} => attempt[c] < MaxAttempts

\* A handler that waits for a task to start has started one.
TaskAwaited == \A h \in Handler : handler[h] = "starting" => waitsFor[h] \in Task

IInv ==
  /\ TypeOK
  /\ TargetKnown
  /\ AttemptLeft
  /\ TaskAwaited
  /\ SingleActiveSession
  /\ ContextInTransit

------------------------------------------------------------------------------
(* Operators of the model *)

LEMMA EndTyped ==
  ASSUME TypeOK, NEW s
  PROVE  /\ StatusAfterEnd(s) \in [Session -> {"none", "active", "overdue", "ended", "expired"}]
         /\ ContextAfterEnd(s) \in SUBSET Session
BY DEF TypeOK, StatusAfterEnd, ContextAfterEnd

LEMMA ReapedTyped ==
  ASSUME TypeOK
  PROVE  Reaped \in [Session -> 0..MaxTask]
BY DispatchAssumption DEF TypeOK, Reaped, None

LEMMA ReplyTyped ==
  ASSUME TypeOK, NEW h \in Handler, NEW r \in {"assigned", "unavailable", "error"}, Reply(h, r)
  PROVE  handler' \in [Handler -> {"none", "queued", "starting", "gone", "assigned", "unavailable",
                                   "error"}]
BY DEF TypeOK, Reply

LEMMA CancellableTyped ==
  ASSUME TypeOK, NEW s \in Session
  PROVE  Cancellable(s) \in SUBSET Task
<1>1. tracked[s] \in 0..MaxTask
  BY DEF TypeOK
<1>2. tracked[s] # 0 => tracked[s] \in Task
  BY <1>1, DispatchAssumption DEF Task
<1>3. QED
  BY <1>2 DEF Cancellable, None

\* Ending a session leaves the other rows alone and a context only in rows
\* that are not over.
LEMMA EndKeeps ==
  ASSUME TypeOK, SingleActiveSession, NEW t,
         status' = StatusAfterEnd(t), context' = ContextAfterEnd(t),
         \A s \in context : Ends(s)
  PROVE  /\ SingleActiveSession'
         /\ \A s \in context' : s # t /\ s \in context /\ Ends(s)'
<1>1. \A s \in Session : s # t => status'[s] = status[s]
  BY DEF TypeOK, StatusAfterEnd
<1>2. \A s \in Session : status'[s] = "active" => status[s] = "active"
  BY DEF TypeOK, StatusAfterEnd
<1>3. SingleActiveSession'
  BY <1>2 DEF SingleActiveSession
<1>4. \A s \in context' : s # t /\ s \in context
  BY DEF ContextAfterEnd
<1>5. \A s \in context' : Ends(s)'
  BY <1>1, <1>4 DEF Ends, TypeOK
<1>6. QED
  BY <1>3, <1>4, <1>5

------------------------------------------------------------------------------
(* The invariant *)

LEMMA InitInvariant == Init => IInv
<1> SUFFICES ASSUME Init PROVE IInv
  OBVIOUS
<1>1. TypeOK
  BY DispatchAssumption DEF Init, TypeOK, None
<1>2. TargetKnown /\ AttemptLeft /\ TaskAwaited /\ SingleActiveSession /\ ContextInTransit
  BY DispatchAssumption DEF Init, TargetKnown, AttemptLeft, TaskAwaited, SingleActiveSession,
     ContextInTransit
<1>3. QED
  BY <1>1, <1>2 DEF IInv

LEMMA TypeKept ==
  ASSUME TypeOK, TargetKnown, AttemptLeft, TaskAwaited, [Next]_vars
  PROVE  TypeOK'
<1> USE DispatchAssumption DEF storeVars, callerVars, superVars, taskVars, None
<1>1. ASSUME NEW c \in Caller, ApiStep(c)
      PROVE  TypeOK'
  <2>1. CASE CreateSession(c)
    <3>1. PICK s \in IF Reusable # {} THEN Reusable ELSE Fresh :
            /\ status' = [ExpireStatus EXCEPT ![s] = "active"]
            /\ context' = (context \ Expired) \cup (IF Reusable = {} THEN {s} ELSE {})
            /\ target' = [target EXCEPT ![c] = s]
      BY <2>1 DEF CreateSession
    <3>2. s \in Session /\ s \in 0..MaxSession
      BY DEF Reusable, Fresh, Session
    <3>3. ExpireStatus \in [Session -> {"none", "active", "overdue", "ended", "expired"}]
      BY DEF ExpireStatus, TypeOK
    <3>4. status' \in [Session -> {"none", "active", "overdue", "ended", "expired"}]
      BY <3>1, <3>3
    <3>5. context' \in SUBSET Session /\ target' \in [Caller -> 0..MaxSession]
      BY <3>1, <3>2 DEF TypeOK
    <3>6. pc' \in [Caller -> {"idle", "assign", "sent", "cancel", "end", "ok", "failed"}]
      BY <2>1 DEF CreateSession, TypeOK
    <3>7. QED
      BY <2>1, <3>4, <3>5, <3>6 DEF CreateSession, TypeOK
  <2>2. CASE Post(c)
    <3>1. attempt[c] + 1 \in 1..MaxAttempts
      BY <2>2 DEF Post, TypeOK, AttemptLeft
    <3>2. attempt' \in [Caller -> 0..MaxAttempts]
      BY <2>2, <3>1 DEF Post, TypeOK
    <3>3. handler' \in [Handler -> {"none", "queued", "starting", "gone", "assigned",
                                    "unavailable", "error"}]
      BY <2>2 DEF Post, TypeOK
    <3>4. pc' \in [Caller -> {"idle", "assign", "sent", "cancel", "end", "ok", "failed"}]
      BY <2>2 DEF Post, TypeOK
    <3>5. QED
      BY <2>2, <3>2, <3>3, <3>4 DEF Post, TypeOK
  <2>3. CASE Accepted(c)
    BY <2>3 DEF Accepted, TypeOK
  <2>4. CASE Refused(c)
    BY <2>4 DEF Refused, RetryOrGiveUp, TypeOK
  <2>5. CASE TransportError(c)
    <3>1. handler' \in [Handler -> {"none", "queued", "starting", "gone", "assigned",
                                    "unavailable", "error"}]
      BY <2>5 DEF TransportError, TypeOK
    <3>2. pc' \in [Caller -> {"idle", "assign", "sent", "cancel", "end", "ok", "failed"}]
      BY <2>5 DEF TransportError, RetryOrGiveUp, TypeOK
    <3>3. QED
      BY <2>5, <3>1, <3>2 DEF TransportError, TypeOK
  <2>6. CASE CancelAfterFailure(c)
    <3>1. cancelling' \in SUBSET Task
      BY <2>6, CancellableTyped DEF CancelAfterFailure, TargetKnown, TypeOK
    <3>2. pc' \in [Caller -> {"idle", "assign", "sent", "cancel", "end", "ok", "failed"}]
      BY <2>6 DEF CancelAfterFailure, TypeOK
    <3>3. QED
      BY <2>6, <3>1, <3>2 DEF CancelAfterFailure, TypeOK
  <2>7. CASE EndAfterFailure(c)
    <3>1. /\ status' \in [Session -> {"none", "active", "overdue", "ended", "expired"}]
          /\ context' \in SUBSET Session
      BY <2>7, EndTyped DEF EndAfterFailure
    <3>2. pc' \in [Caller -> {"idle", "assign", "sent", "cancel", "end", "ok", "failed"}]
      BY <2>7 DEF EndAfterFailure, TypeOK
    <3>3. QED
      BY <2>7, <3>1, <3>2 DEF EndAfterFailure, TypeOK
  <2>8. QED
    BY <1>1, <2>1, <2>2, <2>3, <2>4, <2>5, <2>6, <2>7 DEF ApiStep
<1>2. ASSUME NEW h \in Handler, Supervise(h)
      PROVE  TypeOK'
  <2>1. CASE AlreadyAssigned(h) \/ AtCapacity(h)
    <3>1. handler' \in [Handler -> {"none", "queued", "starting", "gone", "assigned",
                                    "unavailable", "error"}]
      BY <2>1, ReplyTyped DEF AlreadyAssigned, AtCapacity
    <3>2. tracked' \in [Session -> 0..MaxTask]
      BY <2>1, ReapedTyped DEF AlreadyAssigned, AtCapacity
    <3>3. QED
      BY <2>1, <3>1, <3>2 DEF AlreadyAssigned, AtCapacity, TypeOK
  <2>2. CASE StartTask(h)
    <3>1. PICK k \in FreeTask :
            /\ run' = [run EXCEPT ![k] = "connecting"]
            /\ runSession' = [runSession EXCEPT ![k] = target[h[1]]]
            /\ tracked' = [Reaped EXCEPT ![target[h[1]]] = k]
            /\ waitsFor' = [waitsFor EXCEPT ![h] = k]
      BY <2>2 DEF StartTask
    <3>2. k \in Task /\ k \in 0..MaxTask /\ target[h[1]] \in 0..MaxSession
      BY DEF FreeTask, Task, Handler, TypeOK
    <3>3. tracked' \in [Session -> 0..MaxTask]
      BY <3>1, <3>2, ReapedTyped
    <3>4. /\ run' \in [Task -> {"none", "connecting", "running", "closing", "done", "cutShort"}]
          /\ runSession' \in [Task -> 0..MaxSession] /\ waitsFor' \in [Handler -> 0..MaxTask]
      BY <3>1, <3>2 DEF TypeOK
    <3>5. handler' \in [Handler -> {"none", "queued", "starting", "gone", "assigned",
                                    "unavailable", "error"}]
      BY <2>2 DEF StartTask, TypeOK
    <3>6. QED
      BY <2>2, <3>3, <3>4, <3>5 DEF StartTask, TypeOK
  <2>3. CASE StartSeen(h) \/ StartFailed(h) \/ StartTimeout(h)
    <3>1. /\ handler' \in [Handler -> {"none", "queued", "starting", "gone", "assigned",
                                       "unavailable", "error"}]
          /\ waitsFor' \in [Handler -> 0..MaxTask]
      BY <2>3, ReplyTyped DEF StartSeen, StartFailed, StartTimeout, Waited, TypeOK
    <3>2. tracked' \in [Session -> 0..MaxTask]
      BY <2>3 DEF StartSeen, StartFailed, StartTimeout, TypeOK
    <3>3. cancelling' \in SUBSET Task
      <4>1. CASE StartTimeout(h)
        <5>1. waitsFor[h] \in Task
          BY <4>1 DEF StartTimeout, TaskAwaited
        <5>2. QED
          BY <4>1, <5>1 DEF StartTimeout, TypeOK
      <4>2. CASE StartSeen(h) \/ StartFailed(h)
        BY <4>2 DEF StartSeen, StartFailed, TypeOK
      <4>3. QED
        BY <2>3, <4>1, <4>2
    <3>4. QED
      BY <2>3, <3>1, <3>2, <3>3 DEF StartSeen, StartFailed, StartTimeout, TypeOK
  <2>4. QED
    BY <1>2, <2>1, <2>2, <2>3 DEF Supervise
<1>3. ASSUME NEW k \in Task, AgentStep(k)
      PROVE  TypeOK'
  <2>1. /\ run' \in [Task -> {"none", "connecting", "running", "closing", "done", "cutShort"}]
        /\ started' \in SUBSET Task /\ cancelling' \in SUBSET Task
    BY <1>3 DEF AgentStep, Connect, Leave, CancelBody, Disconnect, CancelFinally, TypeOK
  <2>2. UNCHANGED <<storeVars, callerVars, ending, superVars, runSession>>
    BY <1>3 DEF AgentStep, Connect, Leave, CancelBody, Disconnect, CancelFinally
  <2>3. QED
    BY <2>1, <2>2 DEF TypeOK
<1>4. ASSUME NEW s \in Session, TimeUp(s) \/ EndSession(s) \/ CancelAfterEnd(s)
      PROVE  TypeOK'
  <2>1. CASE TimeUp(s)
    BY <2>1 DEF TimeUp, TypeOK
  <2>2. CASE EndSession(s)
    <3>1. /\ status' \in [Session -> {"none", "active", "overdue", "ended", "expired"}]
          /\ context' \in SUBSET Session
      BY <2>2, EndTyped DEF EndSession
    <3>2. QED
      BY <2>2, <3>1 DEF EndSession, TypeOK
  <2>3. CASE CancelAfterEnd(s)
    <3>1. cancelling' \in SUBSET Task
      BY <2>3, CancellableTyped DEF CancelAfterEnd, TypeOK
    <3>2. QED
      BY <2>3, <3>1 DEF CancelAfterEnd, TypeOK
  <2>4. QED
    BY <1>4, <2>1, <2>2, <2>3
<1>5. CASE TokenRequest
  <2>1. ExpireStatus \in [Session -> {"none", "active", "overdue", "ended", "expired"}]
    BY DEF ExpireStatus, TypeOK
  <2>2. QED
    BY <1>5, <2>1 DEF TokenRequest, TypeOK
<1>6. CASE UNCHANGED vars
  BY <1>6 DEF vars, TypeOK
<1>7. QED
  BY <1>1, <1>2, <1>3, <1>4, <1>5, <1>6 DEF Next

LEMMA AwaitedKept ==
  ASSUME TypeOK, TaskAwaited, [Next]_vars
  PROVE  TaskAwaited'
<1> USE DEF storeVars, callerVars, superVars, taskVars
<1>1. SUFFICES ASSUME NEW g \in Handler, handler'[g] = "starting"
               PROVE  waitsFor'[g] \in Task
  BY DEF TaskAwaited
<1>2. CASE \E h \in Handler : StartTask(h)
  <2>1. PICK h \in Handler, k \in FreeTask :
          /\ waitsFor' = [waitsFor EXCEPT ![h] = k]
          /\ handler' = [handler EXCEPT ![h] = "starting"]
    BY <1>2 DEF StartTask
  <2>2. QED
    BY <1>1, <2>1 DEF TypeOK, TaskAwaited, FreeTask
<1>3. CASE \E h \in Handler : StartSeen(h) \/ StartFailed(h) \/ StartTimeout(h)
  <2>1. PICK h \in Handler, r \in {"assigned", "unavailable", "error"} : Waited(h, r)
    BY <1>3 DEF StartSeen, StartFailed, StartTimeout
  <2>2. g # h
    BY <1>1, <2>1 DEF Waited, Reply, TypeOK
  <2>3. QED
    BY <1>1, <2>1, <2>2 DEF Waited, Reply, TypeOK, TaskAwaited
<1>4. CASE \E h \in Handler : AlreadyAssigned(h) \/ AtCapacity(h)
  <2>1. PICK h \in Handler, r \in {"assigned", "unavailable"} : Reply(h, r)
    BY <1>4 DEF AlreadyAssigned, AtCapacity
  <2>2. waitsFor' = waitsFor
    BY <1>4 DEF AlreadyAssigned, AtCapacity
  <2>3. QED
    BY <1>1, <2>1, <2>2 DEF Reply, TypeOK, TaskAwaited
<1>5. CASE \E c \in Caller : Post(c) \/ TransportError(c)
  BY <1>1, <1>5 DEF Post, TransportError, TypeOK, TaskAwaited
<1>6. CASE UNCHANGED <<handler, waitsFor>>
  BY <1>1, <1>6 DEF TaskAwaited
<1>7. QED
  BY <1>2, <1>3, <1>4, <1>5, <1>6 DEF Next, ApiStep, Supervise, AgentStep, CreateSession,
     Accepted,
     Refused, CancelAfterFailure, EndAfterFailure, TimeUp, EndSession, CancelAfterEnd, TokenRequest,
     Connect, Leave, CancelBody, Disconnect, CancelFinally, vars

LEMMA TargetKept ==
  ASSUME TypeOK, TargetKnown, [Next]_vars
  PROVE  TargetKnown'
<1> USE DEF storeVars, callerVars, superVars, taskVars
<1>1. ASSUME NEW c \in Caller, CreateSession(c)
      PROVE  TargetKnown'
  <2>1. \E s \in Session : target' = [target EXCEPT ![c] = s]
    BY <1>1 DEF CreateSession, Reusable, Fresh
  <2>2. \A d \in Caller : d # c => pc'[d] = pc[d] /\ target'[d] = target[d]
    BY <1>1, <2>1 DEF CreateSession, TypeOK
  <2>3. QED
    BY <2>1, <2>2 DEF TargetKnown, TypeOK
<1>2. ASSUME NEW c \in Caller, Post(c) \/ Accepted(c) \/ Refused(c) \/ TransportError(c)
                               \/ CancelAfterFailure(c) \/ EndAfterFailure(c)
      PROVE  TargetKnown'
  <2>1. target' = target /\ \A d \in Caller : d # c => pc'[d] = pc[d]
    BY <1>2 DEF Post, Accepted, Refused, TransportError, CancelAfterFailure, EndAfterFailure,
       TypeOK
  <2>2. pc[c] # "idle"
    BY <1>2 DEF Post, Accepted, Refused, TransportError, CancelAfterFailure, EndAfterFailure
  <2>3. QED
    BY <2>1, <2>2 DEF TargetKnown
<1>3. CASE UNCHANGED <<pc, target>>
  BY <1>3 DEF TargetKnown
<1>4. QED
  BY <1>1, <1>2, <1>3 DEF Next, ApiStep, Supervise, AlreadyAssigned, AtCapacity, StartTask,
     StartSeen,
     StartFailed, StartTimeout, AgentStep, TimeUp, EndSession, CancelAfterEnd, TokenRequest,
     Connect, Leave, CancelBody, Disconnect, CancelFinally, vars

\* The steps that reach neither the rows nor the requests leave the rest be.
LEMMA RowsUntouched ==
  ASSUME IInv, UNCHANGED <<storeVars, callerVars>>
  PROVE  AttemptLeft' /\ SingleActiveSession' /\ ContextInTransit'
BY DEF IInv, storeVars, callerVars, AttemptLeft, SingleActiveSession, ContextInTransit, Ends

LEMMA RowsKept ==
  ASSUME IInv, [Next]_vars
  PROVE  AttemptLeft' /\ SingleActiveSession' /\ ContextInTransit'
<1> USE DEF storeVars, callerVars
<1>0. TypeOK /\ AttemptLeft /\ SingleActiveSession /\ ContextInTransit
  BY DEF IInv
<1>a. /\ status \in [Session -> {"none", "active", "overdue", "ended", "expired"}]
      /\ context \subseteq Session /\ target \in [Caller -> 0..MaxSession]
      /\ pc \in [Caller -> {"idle", "assign", "sent", "cancel", "end", "ok", "failed"}]
      /\ attempt \in [Caller -> 0..MaxAttempts] /\ MaxAttempts \in Nat
      /\ \A s \in context : Ends(s)
  BY <1>0, DispatchAssumption DEF TypeOK, ContextInTransit
<1>1. ASSUME NEW c \in Caller, CreateSession(c)
      PROVE  AttemptLeft' /\ SingleActiveSession' /\ ContextInTransit'
  <2>1. PICK s \in IF Reusable # {} THEN Reusable ELSE Fresh :
          /\ status' = [ExpireStatus EXCEPT ![s] = "active"]
          /\ context' = (context \ Expired) \cup (IF Reusable = {} THEN {s} ELSE {})
          /\ target' = [target EXCEPT ![c] = s]
    BY <1>1 DEF CreateSession
  <2>2. s \in Session /\ pc[c] = "idle" /\ pc' = [pc EXCEPT ![c] = "assign"] /\ attempt' = attempt
    BY <1>1, <2>1 DEF CreateSession, Reusable, Fresh
  <2>3. \A t \in Session :
          /\ status'[t] = "active" => t = s \/ status[t] = "active"
          /\ t # s /\ status[t] = "active" => status'[t] = "active"
          /\ t = s => status'[t] = "active"
    BY <1>a, <2>1, <2>2 DEF ExpireStatus
  <2>4. AttemptLeft'
    BY <1>0, <1>a, <2>2 DEF AttemptLeft
  <2>5. SingleActiveSession'
    <3>1. \A t \in Session : status[t] = "active" => t = s
      BY <1>0, <2>1, <2>2 DEF Reusable, SingleActiveSession
    <3>2. QED
      BY <2>3, <3>1 DEF SingleActiveSession
  <2>6. ContextInTransit'
    <3>1. SUFFICES ASSUME NEW t \in context'
                   PROVE  /\ Ends(t)'
                          /\ \E d \in Caller : target'[d] = t
                                               /\ pc'[d] \in {"assign", "sent", "cancel", "end"}
      BY DEF ContextInTransit
    <3>2. CASE t = s
      BY <1>a, <2>1, <2>2, <2>3, <3>2 DEF Ends
    <3>3. CASE t # s
      <4>1. t \in context /\ t \notin Expired
        BY <2>1, <3>3
      <4>2. status[t] = "active"
        BY <1>a, <4>1 DEF Ends, Expired
      <4>3. PICK d \in Caller : target[d] = t /\ pc[d] \in {"assign", "sent", "cancel", "end"}
        BY <1>0, <4>1 DEF ContextInTransit
      <4>4. d # c
        BY <2>2, <4>3
      <4>5. QED
        BY <1>a, <2>1, <2>2, <2>3, <3>3, <4>1, <4>2, <4>3, <4>4 DEF Ends
    <3>4. QED
      BY <3>2, <3>3
  <2>7. QED
    BY <2>4, <2>5, <2>6
<1>2. ASSUME NEW c \in Caller, Post(c) \/ Refused(c) \/ TransportError(c) \/ CancelAfterFailure(c)
      PROVE  AttemptLeft' /\ SingleActiveSession' /\ ContextInTransit'
  <2>1. /\ UNCHANGED <<status, context, target>>
        /\ pc[c] \in {"assign", "sent", "cancel"}
        /\ \E stage \in {"assign", "sent", "cancel", "end"} :
             /\ pc' = [pc EXCEPT ![c] = stage]
             /\ stage = "assign" => attempt' = attempt /\ attempt[c] < MaxAttempts
             /\ stage # "assign" => \A d \in Caller \ {c} : attempt'[d] = attempt[d]
    BY <1>2, <1>a DEF Post, Refused, TransportError, CancelAfterFailure, RetryOrGiveUp
  <2>2. AttemptLeft'
    BY <1>0, <1>a, <2>1 DEF AttemptLeft
  <2>3. SingleActiveSession'
    BY <1>0, <2>1 DEF SingleActiveSession
  <2>4. \A d \in Caller : pc[d] \in {"assign", "sent", "cancel", "end"} =>
                            pc'[d] \in {"assign", "sent", "cancel", "end"}
    BY <1>a, <2>1
  <2>5. ContextInTransit'
    BY <1>0, <2>1, <2>4 DEF ContextInTransit, Ends
  <2>6. QED
    BY <2>2, <2>3, <2>5
<1>3. ASSUME NEW c \in Caller, Accepted(c)
      PROVE  AttemptLeft' /\ SingleActiveSession' /\ ContextInTransit'
  <2>1. /\ pc' = [pc EXCEPT ![c] = "ok"] /\ context' = context \ {target[c]}
        /\ UNCHANGED <<status, target, attempt>>
    BY <1>3 DEF Accepted
  <2>2. AttemptLeft' /\ SingleActiveSession'
    BY <1>0, <1>a, <2>1 DEF AttemptLeft, SingleActiveSession
  <2>3. ContextInTransit'
    BY <1>0, <1>a, <2>1 DEF ContextInTransit, Ends
  <2>4. QED
    BY <2>2, <2>3
<1>4. ASSUME NEW c \in Caller, EndAfterFailure(c)
      PROVE  AttemptLeft' /\ SingleActiveSession' /\ ContextInTransit'
  <2>1. /\ pc' = [pc EXCEPT ![c] = "failed"] /\ UNCHANGED <<target, attempt>>
        /\ status' = StatusAfterEnd(target[c]) /\ context' = ContextAfterEnd(target[c])
    BY <1>4 DEF EndAfterFailure
  <2>2. /\ SingleActiveSession'
        /\ \A s \in context' : s # target[c] /\ s \in context /\ Ends(s)'
    BY <1>0, <1>a, <2>1, EndKeeps
  <2>3. AttemptLeft'
    BY <1>0, <1>a, <2>1 DEF AttemptLeft
  <2>4. ContextInTransit'
    BY <1>0, <1>a, <2>1, <2>2 DEF ContextInTransit
  <2>5. QED
    BY <2>2, <2>3, <2>4
<1>5. ASSUME NEW t \in Session, EndSession(t)
      PROVE  AttemptLeft' /\ SingleActiveSession' /\ ContextInTransit'
  <2>1. /\ status' = StatusAfterEnd(t) /\ context' = ContextAfterEnd(t)
        /\ UNCHANGED <<pc, target, attempt>>
    BY <1>5 DEF EndSession
  <2>2. SingleActiveSession' /\ \A s \in context' : s \in context /\ Ends(s)'
    BY <1>0, <1>a, <2>1, EndKeeps
  <2>3. AttemptLeft' /\ ContextInTransit'
    BY <1>0, <2>1, <2>2 DEF AttemptLeft, ContextInTransit
  <2>4. QED
    BY <2>2, <2>3
<1>6. ASSUME NEW t \in Session, TimeUp(t)
      PROVE  AttemptLeft' /\ SingleActiveSession' /\ ContextInTransit'
  <2>1. status' = [status EXCEPT ![t] = "overdue"] /\ UNCHANGED <<context, pc, target, attempt>>
    BY <1>6 DEF TimeUp
  <2>2. AttemptLeft' /\ SingleActiveSession'
    BY <1>0, <1>a, <2>1 DEF AttemptLeft, SingleActiveSession
  <2>3. ContextInTransit'
    BY <1>0, <1>a, <2>1 DEF ContextInTransit, Ends
  <2>4. QED
    BY <2>2, <2>3
<1>7. CASE TokenRequest
  <2>1. status' = ExpireStatus /\ context' = context \ Expired /\ UNCHANGED <<pc, target, attempt>>
    BY <1>7 DEF TokenRequest
  <2>2. \A s \in Session : status'[s] = IF status[s] = "overdue" THEN "expired" ELSE status[s]
    BY <2>1 DEF ExpireStatus
  <2>3. AttemptLeft' /\ SingleActiveSession'
    BY <1>0, <2>1, <2>2 DEF AttemptLeft, SingleActiveSession
  <2>4. ContextInTransit'
    BY <1>0, <1>a, <2>1, <2>2 DEF ContextInTransit, Ends, Expired
  <2>5. QED
    BY <2>3, <2>4
<1>8. CASE \/ \E h \in Handler : Supervise(h)
           \/ \E k \in Task : AgentStep(k)
           \/ \E s \in Session : CancelAfterEnd(s)
           \/ UNCHANGED vars
  <2>1. UNCHANGED <<storeVars, callerVars>>
    BY <1>8 DEF Supervise, AlreadyAssigned, AtCapacity, StartTask, StartSeen, StartFailed,
                StartTimeout, AgentStep, Connect, Leave, CancelBody, Disconnect, CancelFinally,
                CancelAfterEnd, vars
  <2>2. QED
    BY <2>1, RowsUntouched
<1>9. QED
  BY <1>1, <1>2, <1>3, <1>4, <1>5, <1>6, <1>7, <1>8 DEF Next, ApiStep

------------------------------------------------------------------------------
(* The theorems *)

\* The types, the facts about requests and handlers they rest on, and what is
\* proved about the rows are inductive.
THEOREM Invariance == Spec => []IInv
<1>1. Init => IInv
  BY InitInvariant
<1>2. IInv /\ [Next]_vars => IInv'
  BY TypeKept, TargetKept, AwaitedKept, RowsKept DEF IInv
<1>3. QED
  BY <1>1, <1>2, PTL DEF Spec

\* The variables keep their types; a request is posted MaxAttempts times at
\* most (AgentAssigner.assign).
THEOREM TypeCorrect == Spec => []TypeOK
<1>1. IInv => TypeOK
  BY DEF IInv
<1>2. QED
  BY <1>1, Invariance, PTL

\* The device never has two active sessions, however many create requests
\* overlap (SessionStore.create_session).
THEOREM OneActiveSession == Spec => []SingleActiveSession
<1>1. IInv => SingleActiveSession
  BY DEF IInv
<1>2. QED
  BY <1>1, Invariance, PTL

\* The context of a conversation is in a row only while a request that needs it
\* is under way (create_session, clear_session_context, end_session).
THEOREM ContextRemoved == Spec => []ContextInTransit
<1>1. IInv => ContextInTransit
  BY DEF IInv
<1>2. QED
  BY <1>1, Invariance, PTL
==============================================================================
