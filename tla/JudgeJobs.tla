------------------------------- MODULE JudgeJobs -------------------------------
(***************************************************************************)
(* The memory extraction queue of the phone, for one conversation: every   *)
(* completed exchange becomes part of a job row of memory_extraction_jobs  *)
(* (AppDatabase.enqueueMemoryExtractionJob), LongTermMemoryCoordinator     *)
(* drains the rows, asks the API's memory judge about the exchanges of a   *)
(* row and applies its decisions.                                          *)
(*                                                                         *)
(* Dart runs one isolate: a step is what happens between two awaits.  A    *)
(* statement or a transaction of the database is one step; the statements  *)
(* of enqueueMemoryExtractionJob are NOT in a transaction, so the drain    *)
(* and Clear History come between them.  The database survives a crash,    *)
(* nothing else does.                                                      *)
(*                                                                         *)
(* Exchanges are numbered; a row is named after the exchange it starts     *)
(* with, as its id is (a hash of session and first turn).  What the judge  *)
(* says of an exchange is one decision, identified as the API does it by   *)
(* job and content; the memory it makes is identified by content alone.    *)
(***************************************************************************)
EXTENDS Naturals, FiniteSets

CONSTANTS
  MaxWindow,      \* exchanges in a job: 4 (8 messages)
  MaxAttempts,    \* claims of a job: 5
  MaxDrain,       \* maxJobsPerDrain
  MaxTurn,        \* bound: exchanges
  MaxCrash,       \* bound: crashes
  MaxClear        \* bound: uses of Clear History

ASSUME JobsAssumption ==
  /\ MaxWindow \in Nat \ {0} /\ MaxAttempts \in Nat \ {0} /\ MaxDrain \in Nat \ {0}
  /\ MaxTurn \in Nat \ {0} /\ MaxCrash \in Nat /\ MaxClear \in Nat

Turn == 1..MaxTurn
None == 0

VARIABLES
  \* The database.
  kept,           \* exchanges whose messages are in chat_messages
  handled,        \* memory_judge_skips
  status,         \* status[j] of the row of job j; "none": no row
  endTurn,        \* endTurn[j]
  attempts,       \* attempts[j]
  waits,          \* next_attempt_at is ahead, or the lease of a claim is fresh
  ledger,         \* memory_judge_operations: the decisions taken
  recurrence,     \* recurrence[t]: recurrence_count of the memory made of t, 0:
                  \* no such record
  audit,          \* exchanges quoted in a row of memory_candidates
  \* The app.
  said,           \* exchanges completed so far
  enq,            \* the enqueue under way, and the pending job it has read
  worker,         \* the drain: its stage, the claimed row, its window and reply
  drained,        \* jobs of this drain
  requested,      \* a drain is waiting in _queue
  timer,          \* _idleTimer is running
  \* History.
  judged,         \* exchanges that were part of a window that was applied
  lost,           \* exchanges cut off by a crash or added to a claimed job
  forgotten,      \* memories the user had deleted
  crashes, clears

tableVars == <<status, endTurn, attempts, waits>>
memoryVars == <<ledger, recurrence, audit>>
drainVars == <<worker, drained, requested>>
historyVars == <<judged, lost, forgotten, crashes, clears>>
vars == <<kept, handled, tableVars, memoryVars, said, enq, drainVars, timer, historyVars>>

JobStatus == {"none", "pending", "ready", "retry", "processing", "succeeded", "dead"}
NoEnqueue == [pc |-> "idle", job |-> None]
NoJob == [pc |-> "idle", job |-> None, end |-> None, attempt |-> 0,
          window |-> {}, reply |-> {}, retryable |-> FALSE]

TypeOK ==
  /\ kept \in SUBSET Turn /\ handled \in SUBSET Turn
  /\ status \in [Turn -> JobStatus]
  /\ endTurn \in [Turn -> Turn]
  /\ attempts \in [Turn -> 0..MaxAttempts]
  /\ waits \in [Turn -> BOOLEAN]
  /\ ledger \in SUBSET (Turn \X Turn)
  /\ recurrence \in [Turn -> Nat]
  /\ audit \in SUBSET Turn
  /\ said \in 0..MaxTurn
  /\ enq \in [pc : {"idle", "find", "measure", "extend", "seal", "insert"},
              job : Turn \cup {None}]
  /\ worker \in [pc : {"idle", "claim", "read", "judge", "apply", "fail"},
                 job : Turn \cup {None}, end : Turn \cup {None},
                 attempt : 0..MaxAttempts, window : SUBSET Turn,
                 reply : SUBSET Turn, retryable : BOOLEAN]
  /\ drained \in 0..MaxDrain
  /\ requested \in BOOLEAN /\ timer \in BOOLEAN
  /\ judged \in SUBSET Turn /\ lost \in SUBSET Turn /\ forgotten \in SUBSET Turn
  /\ crashes \in 0..MaxCrash /\ clears \in 0..MaxClear

Init ==
  /\ kept = {} /\ handled = {}
  /\ status = [j \in Turn |-> "none"]
  /\ endTurn = [j \in Turn |-> j]
  /\ attempts = [j \in Turn |-> 0]
  /\ waits = [j \in Turn |-> FALSE]
  /\ ledger = {} /\ recurrence = [t \in Turn |-> 0] /\ audit = {}
  /\ said = 0
  /\ enq = NoEnqueue
  /\ worker = NoJob
  /\ drained = 0
  /\ requested = TRUE          \* VoiceChatController.build
  /\ timer = FALSE
  /\ judged = {} /\ lost = {} /\ forgotten = {}
  /\ crashes = 0 /\ clears = 0

------------------------------------------------------------------------------
(* What the tables say *)

\* Rows the drain may take.  (Faulty variants, here and below, serve to show that
\* properties can fail.)
Claimable(j) ==
  /\ status[j] \in {"pending", "ready", "retry", "processing"}
  /\ ~waits[j]
  /\ attempts[j] < MaxAttempts

\* The completed exchanges from first to last, at most as many as a request
\* takes; none when either end is gone.
Window(first, last) ==
  LET between == {t \in kept : first <= t /\ t <= last}
  IN IF {first, last} \subseteq kept
       THEN {t \in between : Cardinality({u \in between : u < t}) < MaxWindow}
       ELSE {}

\* Exchanges a pending job would cover if this one were added.
Bounded(first, last) ==
  IF first \in kept THEN {t \in kept : first <= t /\ t <= last} ELSE {}

------------------------------------------------------------------------------
(* enqueueMemoryExtractionJob.  Exchanges come one after the other: the       *)
(* client handles critical events in a queue.                                 *)

\* A final assistant message completes an exchange.  The exchange may be one
\* that exact-fact admission has already dealt with.
CompleteExchange(exact) ==
  /\ enq.pc = "idle"
  /\ said < MaxTurn
  /\ said' = said + 1
  /\ kept' = kept \cup {said + 1}
  /\ handled' = IF exact THEN handled \cup {said + 1} ELSE handled
  /\ enq' = [enq EXCEPT !.pc = "find"]
  /\ UNCHANGED <<tableVars, memoryVars, drainVars, timer, historyVars>>

EnqueueQuietly == enq' = NoEnqueue /\ UNCHANGED timer

\* The idle timer is set again whatever the enqueue did.
EnqueueReturns == enq' = NoEnqueue /\ timer' = TRUE

Skipped(t) == t \in handled \/ t \notin kept \/ \E j \in Turn : status[j] # "none" /\ endTurn[j] = t

NothingToEnqueue ==
  /\ enq.pc = "find"
  /\ Skipped(said)
  /\ EnqueueReturns
  /\ UNCHANGED <<kept, handled, tableVars, memoryVars, said, drainVars, historyVars>>

PendingJobs == {j \in Turn : status[j] = "pending"}

FindPending ==
  /\ enq.pc = "find"
  /\ ~Skipped(said)
  /\ \/ \E j \in PendingJobs :
          /\ \A k \in PendingJobs : k <= j
          /\ enq' = [pc |-> "measure", job |-> j]
     \/ PendingJobs = {} /\ enq' = [pc |-> "insert", job |-> None]
  /\ UNCHANGED <<kept, handled, tableVars, memoryVars, said, drainVars, timer, historyVars>>

FitsOneMore(exchanges) == Cardinality(exchanges) <= MaxWindow + 1
Fits(exchanges) == Cardinality(exchanges) <= MaxWindow

MeasureWindow ==
  /\ enq.pc = "measure"
  /\ enq' = [enq EXCEPT !.pc = IF Fits(Bounded(enq.job, said)) THEN "extend" ELSE "seal"]
  /\ UNCHANGED <<kept, handled, tableVars, memoryVars, said, drainVars, timer, historyVars>>

InsertAsWell == enq' = [pc |-> "insert", job |-> None] /\ UNCHANGED timer

\* An exchange that was added to a job gets none of its own.
AfterExtend == EnqueueReturns

\* The update goes by id: it does not ask whether the row is still pending.
\* updated_at is also the lease of a claimed row.
ExtendJob ==
  /\ enq.pc = "extend"
  /\ LET j == enq.job IN
     IF status[j] = "none"
       THEN UNCHANGED <<endTurn, waits, lost>>
       ELSE /\ endTurn' = [endTurn EXCEPT ![j] = said]
            /\ waits' = [waits EXCEPT ![j] = @ \/ status[j] = "processing"]
            /\ lost' = IF status[j] \in {"processing", "succeeded"}
                         THEN lost \cup {said} ELSE lost
  /\ AfterExtend
  /\ UNCHANGED <<kept, handled, status, attempts, memoryVars, said, drainVars,
                 judged, forgotten, crashes, clears>>

\* A full job is marked ready, again by id, and a job of its own follows.
SealJob ==
  /\ enq.pc = "seal"
  /\ LET j == enq.job IN
     IF status[j] = "none"
       THEN UNCHANGED <<status, waits>>
       ELSE /\ status' = [status EXCEPT ![j] = "ready"]
            /\ waits' = [waits EXCEPT ![j] = @ /\ status[j] # "processing"]
  /\ enq' = [pc |-> "insert", job |-> None]
  /\ UNCHANGED <<kept, handled, endTurn, attempts, memoryVars, said, drainVars,
                 timer, historyVars>>

InsertJob ==
  /\ enq.pc = "insert"
  /\ status' = [status EXCEPT ![said] = "pending"]
  /\ endTurn' = [endTurn EXCEPT ![said] = said]
  /\ attempts' = [attempts EXCEPT ![said] = 0]
  /\ waits' = [waits EXCEPT ![said] = FALSE]
  /\ EnqueueReturns
  /\ UNCHANGED <<kept, handled, memoryVars, said, drainVars, historyVars>>

Enqueue ==
  \/ NothingToEnqueue \/ FindPending \/ MeasureWindow
  \/ ExtendJob \/ SealJob \/ InsertJob

------------------------------------------------------------------------------
(* LongTermMemoryCoordinator: drains follow each other in _queue.             *)

\* The app starts, a session ends.
ProcessPending ==
  /\ ~requested
  /\ requested' = TRUE
  /\ UNCHANGED <<kept, handled, tableVars, memoryVars, said, enq, worker, drained,
                 timer, historyVars>>

TimerFires ==
  /\ timer
  /\ timer' = FALSE
  /\ requested' = TRUE
  /\ UNCHANGED <<kept, handled, tableVars, memoryVars, said, enq, worker, drained,
                 historyVars>>

StartDrain ==
  /\ worker.pc = "idle" /\ requested
  /\ requested' = FALSE
  /\ worker' = [NoJob EXCEPT !.pc = "claim"]
  /\ UNCHANGED <<kept, handled, tableVars, memoryVars, said, enq, drained, timer,
                 historyVars>>

\* claimNextMemoryExtractionJob: the oldest row, in one transaction.
ClaimJob ==
  /\ worker.pc = "claim" /\ drained < MaxDrain
  /\ \E j \in Turn :
       /\ Claimable(j)
       /\ \A k \in Turn : Claimable(k) => j <= k
       /\ status' = [status EXCEPT ![j] = "processing"]
       /\ attempts' = [attempts EXCEPT ![j] = @ + 1]
       /\ waits' = [waits EXCEPT ![j] = TRUE]
       /\ worker' = [NoJob EXCEPT !.pc = "read", !.job = j, !.end = endTurn[j],
                                  !.attempt = attempts[j] + 1]
  /\ UNCHANGED <<kept, handled, endTurn, memoryVars, said, enq, drained,
                 requested, timer, historyVars>>

\* No row: the drain returns and sets no timer.
NothingToClaim ==
  /\ worker.pc = "claim" /\ drained < MaxDrain
  /\ \A j \in Turn : ~Claimable(j)
  /\ worker' = NoJob
  /\ drained' = 0
  /\ UNCHANGED <<kept, handled, tableVars, memoryVars, said, enq, requested,
                 timer, historyVars>>

DrainFull ==
  /\ worker.pc = "claim" /\ drained = MaxDrain
  /\ timer' = TRUE
  /\ worker' = NoJob
  /\ drained' = 0
  /\ UNCHANGED <<kept, handled, tableVars, memoryVars, said, enq, requested,
                 historyVars>>

ReadWindow ==
  /\ worker.pc = "read"
  /\ LET turns == Window(worker.job, worker.end)
     IN worker' = IF turns = {} THEN [worker EXCEPT !.pc = "fail", !.retryable = FALSE]
                                ELSE [worker EXCEPT !.pc = "judge", !.window = turns]
  /\ UNCHANGED <<kept, handled, tableVars, memoryVars, said, enq, drained,
                 requested, timer, historyVars>>

\* The judge answers with decisions about some of the exchanges ...
JudgeAnswers ==
  /\ worker.pc = "judge"
  /\ \E reply \in SUBSET worker.window :
       worker' = [worker EXCEPT !.pc = "apply", !.reply = reply]
  /\ UNCHANGED <<kept, handled, tableVars, memoryVars, said, enq, drained,
                 requested, timer, historyVars>>

\* ... or the request fails, times out or brings nonsense.
JudgeFails ==
  /\ worker.pc = "judge"
  /\ \E r \in BOOLEAN :
       worker' = [worker EXCEPT !.pc = "fail", !.window = {}, !.retryable = r]
  /\ UNCHANGED <<kept, handled, tableVars, memoryVars, said, enq, drained,
                 requested, timer, historyVars>>

JobDone == worker' = [NoJob EXCEPT !.pc = "claim"] /\ drained' = drained + 1

AllDecisions == worker.reply

\* Decisions the ledger does not have.
NewDecisions == {t \in worker.reply : <<worker.job, t>> \notin ledger}

EvidenceOfRequest == worker.window

\* Evidence is read again, in the transaction.
Evidence == Window(worker.job, worker.end)

\* applyMemoryJudgeDecisions, one transaction.  A decision without evidence is
\* rejected, and entered in the audit and the ledger all the same.
ApplyDecisions ==
  /\ worker.pc = "apply"
  /\ recurrence' = [t \in Turn |-> IF t \in NewDecisions \cap Evidence
                                     THEN recurrence[t] + 1 ELSE recurrence[t]]
  /\ audit' = audit \cup NewDecisions
  /\ ledger' = ledger \cup {<<worker.job, t>> : t \in NewDecisions}
  /\ IF status[worker.job] = "none"
       THEN UNCHANGED <<status, waits>>
       ELSE /\ status' = [status EXCEPT ![worker.job] = "succeeded"]
            /\ waits' = [waits EXCEPT ![worker.job] = FALSE]
  /\ judged' = judged \cup worker.window
  /\ JobDone
  /\ UNCHANGED <<kept, handled, endTurn, attempts, said, enq, requested, timer,
                 lost, forgotten, crashes, clears>>

\* failMemoryExtractionJob.
FailJob ==
  /\ worker.pc = "fail"
  /\ LET terminal == ~worker.retryable \/ worker.attempt >= MaxAttempts IN
     IF status[worker.job] = "none"
       THEN UNCHANGED <<status, waits>>
       ELSE /\ status' = [status EXCEPT ![worker.job] = IF terminal THEN "dead" ELSE "retry"]
            /\ waits' = [waits EXCEPT ![worker.job] = ~terminal]
  /\ JobDone
  /\ UNCHANGED <<kept, handled, endTurn, attempts, memoryVars, said, enq,
                 requested, timer, historyVars>>

Drain ==
  \/ StartDrain \/ ClaimJob \/ NothingToClaim \/ DrainFull \/ ReadWindow
  \/ JudgeAnswers \/ JudgeFails \/ ApplyDecisions \/ FailJob

------------------------------------------------------------------------------
(* The user, time and the process *)

\* A backoff ends, a lease goes stale.
TimePasses(j) ==
  /\ waits[j]
  /\ waits' = [waits EXCEPT ![j] = FALSE]
  /\ UNCHANGED <<kept, handled, status, endTurn, attempts, memoryVars, said, enq,
                 drainVars, timer, historyVars>>

\* forgetMemory: the record and the audit rows that point to it.  The ledger
\* keeps the decision.
Forget(t) ==
  /\ recurrence[t] > 0
  /\ recurrence' = [recurrence EXCEPT ![t] = 0]
  /\ audit' = audit \ {t}
  /\ forgotten' = forgotten \cup {t}
  /\ UNCHANGED <<kept, handled, tableVars, ledger, said, enq, drainVars, timer,
                 judged, lost, crashes, clears>>

\* clearAllHistoryAndCompanionMemory, one transaction.
ClearHistory ==
  /\ clears < MaxClear
  /\ clears' = clears + 1
  /\ kept' = {} /\ handled' = {}
  /\ status' = [j \in Turn |-> "none"]
  /\ endTurn' = [j \in Turn |-> j]
  /\ attempts' = [j \in Turn |-> 0]
  /\ waits' = [j \in Turn |-> FALSE]
  /\ ledger' = {} /\ recurrence' = [t \in Turn |-> 0] /\ audit' = {}
  /\ judged' = {} /\ lost' = {} /\ forgotten' = {}
  /\ UNCHANGED <<said, enq, drainVars, timer, crashes>>

\* The process ends and is started again; an exchange whose enqueue was under
\* way is stored, and nobody enqueues it again.
Restart ==
  /\ crashes < MaxCrash
  /\ crashes' = crashes + 1
  /\ lost' = IF enq.pc = "idle" THEN lost ELSE lost \cup {said}
  /\ enq' = NoEnqueue
  /\ worker' = NoJob
  /\ drained' = 0
  /\ requested' = TRUE
  /\ timer' = FALSE
  /\ UNCHANGED <<kept, handled, tableVars, memoryVars, said, judged, forgotten, clears>>

Next ==
  \/ \E exact \in BOOLEAN : CompleteExchange(exact)
  \/ Enqueue \/ Drain \/ ProcessPending \/ TimerFires
  \/ \E t \in Turn : TimePasses(t) \/ Forget(t)
  \/ ClearHistory \/ Restart

\* Awaited statements and requests end (the HTTP client has a timeout), timers
\* fire and time goes on; the user need not do anything.
Fairness ==
  /\ WF_vars(Enqueue) /\ WF_vars(Drain) /\ WF_vars(TimerFires)
  /\ \A t \in Turn : WF_vars(TimePasses(t))

Spec == Init /\ [][Next]_vars /\ Fairness

------------------------------------------------------------------------------
(* Properties *)

Live(j) == status[j] # "none"

\* Nothing is remembered of an erased conversation, not even when the judge's
\* answer about it arrives after Clear History.
NothingFromErased == \A t \in Turn : recurrence[t] > 0 => t \in kept

\* A decision takes effect once, though a job can be judged again after it
\* succeeded; so a memory the user has deleted stays deleted (the ledger,
\* "a replayed decision ID is a no-op").
DecidedOnce ==
  \A t \in Turn : /\ recurrence[t] <= 1
                  /\ t \in forgotten => recurrence[t] = 0

\* No exchange is part of two jobs.
OneJobPerExchange ==
  \A j, k \in Turn : Live(j) /\ Live(k) /\ j < k => endTurn[j] < k

\* Every stored exchange is being enqueued, waits in a job, was judged or is in
\* a job that was given up; lost are only those a crash cut off or that
\* were added to a job the drain had claimed in the meantime.
NoExchangeForgotten ==
  \A t \in kept \ (handled \cup lost) :
    \/ enq.pc # "idle" /\ t = said
    \/ t \in judged
    \/ \E j \in Turn : /\ status[j] \notin {"none", "succeeded"}
                       /\ j <= t /\ t <= endTurn[j]

\* A job nobody has tried is tried, with no help from the user: by the idle
\* timer, the continuation timer of a full drain, or the start of the app.
PendingClaimed == \A j \in Turn : (status[j] = "pending") ~> (status[j] # "pending")

\* "Clear History deletes [...] jobs/candidate audits"
\* (docs/architecture/long_term_memory.md): no audit row quotes an exchange that
\* is not stored.
AuditErased == audit \subseteq kept

\* "Stale worker leases are reclaimed" (docs/architecture/long_term_memory.md):
\* no row is left in processing that nobody works on and nobody may claim.
LeasesReclaimed ==
  \A j \in Turn : status[j] = "processing" /\ worker.job # j => attempts[j] < MaxAttempts

==============================================================================
