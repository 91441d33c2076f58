--------------------------- MODULE JudgeJobsProofs ---------------------------
(***************************************************************************)
(* Proofs about JudgeJobs for every number of exchanges, restarts and uses *)
(* of Clear History, and every window, attempt and drain limit.  The last   *)
(* part shows that no exchange is forgotten.                               *)
(***************************************************************************)
EXTENDS JudgeJobs, FiniteSetTheorems, TLAPS

\* The drain has claimed a row and works on it.
AtWork == worker.pc \in {"read", "judge", "apply", "fail"}

\* The enqueue has read a pending row and not yet written to it.
HasRead == enq.pc \in {"measure", "extend", "seal"}

\* Exchanges are numbered in order; nothing is known of later ones.
ExchangesInOrder ==
  /\ \A t \in kept : t <= said
  /\ enq.pc # "idle" => said \in Turn
  /\ AtWork => worker.job <= said
  /\ HasRead => enq.job < said

\* A row spans exchanges up to the last enqueued one.
JobSpans ==
  \A j \in Turn : Live(j) =>
    /\ j <= endTurn[j] /\ endTurn[j] <= said
    /\ enq.pc # "idle" => endTurn[j] < said

\* Only the last row is pending, and none is while a new one is due.
PendingIsLast ==
  \A j \in Turn : status[j] = "pending" =>
    /\ \A k \in Turn : Live(k) => k <= j
    /\ enq.pc # "insert"

\* What the enqueue has read is still the last row, unless it was erased, and
\* no other is pending.
EnqueueKnowsLast ==
  HasRead =>
    /\ enq.job \in Turn
    /\ \A k \in Turn : Live(enq.job) /\ Live(k) => k <= enq.job
    /\ \A k \in Turn : status[k] = "pending" => k = enq.job

\* The drain counts its jobs, and its copy of a row is good: the row still exists
\* and covers the copy, unless the conversation was erased.
DrainHasRow ==
  AtWork =>
    /\ drained < MaxDrain
    /\ worker.job \in Turn /\ worker.end \in Turn
    /\ worker.job \in kept => Live(worker.job) /\ worker.end <= endTurn[worker.job]

\* Whatever was remembered of a stored exchange was decided in its own job.
DecidedInOwnJob ==
  \A t \in kept : recurrence[t] > 0 \/ t \in forgotten =>
    \E j \in Turn : /\ <<j, t>> \in ledger
                    /\ Live(j) /\ j <= t /\ t <= endTurn[j]

IInv ==
  /\ TypeOK
  /\ ExchangesInOrder
  /\ JobSpans
  /\ PendingIsLast
  /\ EnqueueKnowsLast
  /\ DrainHasRow
  /\ forgotten \subseteq kept
  /\ NothingFromErased
  /\ OneJobPerExchange
  /\ DecidedInOwnJob
  /\ DecidedOnce

------------------------------------------------------------------------------
(* Numbers, windows, types *)

\* Exchanges are positive numbers; None is not one of them.
LEMMA TurnFacts ==
  /\ None \notin Turn
  /\ \A t \in Turn : t \in Nat /\ t > 0
  /\ \A t : t \in 0..MaxTurn <=> t = None \/ t \in Turn
BY JobsAssumption DEF Turn, None

\* A window lies between two stored exchanges.
LEMMA WindowFacts ==
  ASSUME NEW first, NEW last, NEW t \in Window(first, last)
  PROVE  t \in kept /\ first \in kept /\ last \in kept /\ first <= t /\ t <= last
BY DEF Window

\* A window is a set of exchanges.
LEMMA WindowTyped ==
  ASSUME NEW first, NEW last, kept \in SUBSET Turn
  PROVE  Window(first, last) \in SUBSET Turn
BY DEF Window

\* Steps that move the drain on, along the row it has claimed or away from it.
DrainMoves ==
  /\ AtWork' => /\ AtWork /\ drained' = drained
                /\ worker'.job = worker.job /\ worker'.end = worker.end
  /\ UNCHANGED <<kept, handled, tableVars, memoryVars, said, enq, historyVars>>

\* What the steps of the drain that leave the database alone have in common.
LEMMA DrainSteps ==
  ASSUME TypeOK,
         StartDrain \/ NothingToClaim \/ DrainFull \/ ReadWindow \/ JudgeAnswers \/ JudgeFails
  PROVE  DrainMoves /\ TypeOK'
<1>1. worker \in [pc : {"idle", "claim", "read", "judge", "apply", "fail"},
                  job : Turn \cup {None}, end : Turn \cup {None},
                  attempt : 0..MaxAttempts, window : SUBSET Turn,
                  reply : SUBSET Turn, retryable : BOOLEAN]
  BY DEF TypeOK
<1>2. Window(worker.job, worker.end) \in SUBSET Turn
  BY WindowTyped DEF TypeOK
<1>3. 0 \in 0..MaxAttempts /\ 0 \in 0..MaxDrain
  BY JobsAssumption
<1> USE <1>1, <1>3 DEF DrainMoves, AtWork, NoJob, TypeOK, tableVars, memoryVars, historyVars
<1>a. CASE StartDrain BY <1>a DEF StartDrain
<1>b. CASE NothingToClaim BY <1>b DEF NothingToClaim
<1>c. CASE DrainFull BY <1>c DEF DrainFull
<1>d. CASE ReadWindow BY <1>d, <1>2 DEF ReadWindow
<1>e. CASE JudgeAnswers BY <1>e DEF JudgeAnswers
<1>f. CASE JudgeFails BY <1>f DEF JudgeFails
<1> QED BY <1>a, <1>b, <1>c, <1>d, <1>e, <1>f

\* They preserve the invariant.
LEMMA DrainMovesPreserves ==
  ASSUME IInv, DrainMoves, TypeOK'
  PROVE  IInv'
<1>1. UNCHANGED <<kept, status, endTurn, ledger, recurrence, said, enq, forgotten>>
  BY DEF DrainMoves, tableVars, memoryVars, historyVars
<1>2. ExchangesInOrder' /\ DrainHasRow'
  BY <1>1 DEF IInv, DrainMoves, ExchangesInOrder, DrainHasRow, HasRead, Live
<1>3. JobSpans' /\ PendingIsLast' /\ EnqueueKnowsLast'
  BY <1>1 DEF IInv, JobSpans, PendingIsLast, EnqueueKnowsLast, HasRead, Live
<1>4. /\ (forgotten \subseteq kept)' /\ NothingFromErased' /\ OneJobPerExchange'
      /\ DecidedInOwnJob' /\ DecidedOnce'
  BY <1>1 DEF IInv, NothingFromErased, OneJobPerExchange, DecidedInOwnJob, DecidedOnce, Live
<1> QED BY <1>2, <1>3, <1>4 DEF IInv

------------------------------------------------------------------------------
(* The claimed row *)

\* Steps that touch neither rows' extent, nor the enqueue, nor a memory.
RowsStay ==
  /\ \A j \in Turn : Live(j)' <=> Live(j)
  /\ \A j \in Turn : status'[j] = "pending" => status[j] = "pending"
  /\ UNCHANGED <<kept, endTurn, said, enq>>

\* Rows that keep their extent stay in order.
LEMMA RowsStayInOrder ==
  ASSUME IInv, RowsStay
  PROVE  JobSpans' /\ PendingIsLast' /\ EnqueueKnowsLast' /\ OneJobPerExchange'
<1>1. JobSpans' BY DEF IInv, RowsStay, JobSpans
<1>2. PendingIsLast' BY DEF IInv, RowsStay, PendingIsLast
<1>3. EnqueueKnowsLast' BY DEF IInv, RowsStay, EnqueueKnowsLast, HasRead
<1>4. OneJobPerExchange' BY DEF IInv, RowsStay, OneJobPerExchange
<1> QED BY <1>1, <1>2, <1>3, <1>4

\* What was remembered stays decided as long as memories and ledger stay.
LEMMA MemoriesStay ==
  ASSUME IInv, RowsStay, UNCHANGED <<ledger, recurrence, forgotten>>
  PROVE  /\ (forgotten \subseteq kept)' /\ NothingFromErased'
         /\ DecidedInOwnJob' /\ DecidedOnce'
BY DEF IInv, RowsStay, NothingFromErased, DecidedInOwnJob, DecidedOnce

\* The oldest claimable row is taken: it exists, and the copy is exact.
LEMMA ClaimPreserves ==
  ASSUME IInv, ClaimJob
  PROVE  IInv'
<1>1. TypeOK /\ JobSpans BY DEF IInv
<1>2. PICK j \in Turn :
        /\ status[j] \in {"pending", "ready", "retry", "processing"}
        /\ attempts[j] < MaxAttempts
        /\ status' = [status EXCEPT ![j] = "processing"]
        /\ attempts' = [attempts EXCEPT ![j] = @ + 1]
        /\ waits' = [waits EXCEPT ![j] = TRUE]
        /\ worker' = [NoJob EXCEPT !.pc = "read", !.job = j, !.end = endTurn[j],
                                   !.attempt = attempts[j] + 1]
  BY DEF ClaimJob, Claimable
<1>3. UNCHANGED <<kept, handled, endTurn, ledger, recurrence, audit, said, enq, drained,
                  requested, timer, judged, lost, forgotten, crashes, clears>>
  BY DEF ClaimJob, memoryVars, historyVars
<1>4. attempts[j] + 1 \in 0..MaxAttempts /\ endTurn[j] \in Turn
  BY <1>1, <1>2, JobsAssumption DEF TypeOK
<1>5. /\ worker'.pc = "read" /\ worker'.job = j /\ worker'.end = endTurn[j]
      /\ status'[j] = "processing" /\ \A k \in Turn : k # j => status'[k] = status[k]
  BY <1>1, <1>2 DEF NoJob, TypeOK
<1>6. TypeOK'
  <2>1. status' \in [Turn -> JobStatus] /\ attempts' \in [Turn -> 0..MaxAttempts]
        /\ waits' \in [Turn -> BOOLEAN]
    BY <1>1, <1>2, <1>4 DEF TypeOK, JobStatus
  <2>2. worker' = [pc |-> "read", job |-> j, end |-> endTurn[j], attempt |-> attempts[j] + 1,
                   window |-> {}, reply |-> {}, retryable |-> FALSE]
    BY <1>2 DEF NoJob
  <2> QED BY <1>1, <1>3, <1>4, <2>1, <2>2 DEF TypeOK
<1>7. RowsStay
  BY <1>2, <1>3, <1>5 DEF RowsStay, Live
<1>8. ExchangesInOrder'
  <2>1. j <= said
    BY <1>1, <1>2, <1>4, TurnFacts DEF JobSpans, Live, TypeOK
  <2> QED BY <1>3, <1>5, <2>1 DEF IInv, ExchangesInOrder, HasRead
<1>9. DrainHasRow'
  BY <1>3, <1>4, <1>5, TurnFacts DEF ClaimJob, DrainHasRow, Live
<1> QED BY <1>3, <1>6, <1>7, <1>8, <1>9, RowsStayInOrder, MemoriesStay DEF IInv

\* The row of a failed attempt stays where it is.
LEMMA FailPreserves ==
  ASSUME IInv, FailJob
  PROVE  IInv'
<1>1. TypeOK /\ worker.job \in Turn /\ drained < MaxDrain
  BY DEF IInv, DrainHasRow, AtWork, FailJob
<1>2. UNCHANGED <<kept, handled, endTurn, attempts, ledger, recurrence, audit, said, enq,
                  requested, timer, judged, lost, forgotten, crashes, clears>>
  BY DEF FailJob, memoryVars, historyVars
<1>3. /\ worker' = [pc |-> "claim", job |-> None, end |-> None, attempt |-> 0,
                    window |-> {}, reply |-> {}, retryable |-> FALSE]
      /\ drained' = drained + 1
  BY DEF FailJob, JobDone, NoJob
<1>4. /\ status' \in [Turn -> JobStatus] /\ waits' \in [Turn -> BOOLEAN]
      /\ \A j \in Turn : Live(j)' <=> Live(j)
      /\ \A j \in Turn : status'[j] = "pending" => status[j] = "pending"
  BY <1>1 DEF FailJob, TypeOK, JobStatus, Live
<1>5. TypeOK'
  BY <1>1, <1>2, <1>3, <1>4, JobsAssumption DEF TypeOK
<1>6. RowsStay
  BY <1>2, <1>4 DEF RowsStay
<1>7. ExchangesInOrder' /\ DrainHasRow'
  BY <1>2, <1>3 DEF IInv, ExchangesInOrder, HasRead, DrainHasRow, AtWork
<1> QED BY <1>2, <1>5, <1>6, <1>7, RowsStayInOrder, MemoriesStay DEF IInv

\* A decision that takes effect is about an exchange between the ends of a stored
\* job, which nothing was remembered of before: whatever was, was decided in
\* the one row that covers the exchange, and that is this row.
LEMMA DecisionIsFirst ==
  ASSUME IInv, ApplyDecisions, NEW t \in NewDecisions \cap Evidence
  PROVE  /\ t \in kept /\ recurrence[t] = 0 /\ t \notin forgotten
         /\ Live(worker.job) /\ worker.job <= t /\ t <= endTurn[worker.job]
<1>1. TypeOK /\ DrainHasRow /\ DecidedInOwnJob /\ OneJobPerExchange /\ JobSpans
  BY DEF IInv
<1>2. AtWork BY DEF ApplyDecisions, AtWork
<1>3. /\ t \in kept /\ worker.job \in kept /\ worker.job <= t /\ t <= worker.end
  BY WindowFacts DEF Evidence
<1>4. /\ t \in Turn /\ worker.job \in Turn /\ worker.end \in Turn
      /\ endTurn[worker.job] \in Turn
  BY <1>1, <1>2, <1>3 DEF DrainHasRow, TypeOK
<1>5. Live(worker.job) /\ t <= endTurn[worker.job]
  BY <1>1, <1>2, <1>3, <1>4, TurnFacts DEF DrainHasRow
<1>6. ~(recurrence[t] > 0 \/ t \in forgotten)
  <2> SUFFICES ASSUME recurrence[t] > 0 \/ t \in forgotten
               PROVE  FALSE
    OBVIOUS
  <2>1. PICK j \in Turn : <<j, t>> \in ledger /\ Live(j) /\ j <= t /\ t <= endTurn[j]
    BY <1>1, <1>3 DEF DecidedInOwnJob
  <2>2. j = worker.job
    <3>1. /\ j \in Nat /\ t \in Nat /\ worker.job \in Nat
          /\ endTurn[j] \in Nat /\ endTurn[worker.job] \in Nat
      BY <1>1, <1>4, TurnFacts DEF TypeOK
    <3>2. ~(j < worker.job)
      BY <1>1, <1>3, <1>4, <1>5, <2>1, <3>1 DEF OneJobPerExchange
    <3>3. ~(worker.job < j)
      BY <1>1, <1>4, <1>5, <2>1, <3>1 DEF OneJobPerExchange
    <3> QED BY <3>1, <3>2, <3>3
  <2> QED BY <2>1, <2>2 DEF NewDecisions
<1> QED
  BY <1>1, <1>3, <1>4, <1>5, <1>6 DEF TypeOK

\* The answer is applied to the row it was asked for, or to nothing.
LEMMA ApplyPreserves ==
  ASSUME IInv, ApplyDecisions
  PROVE  IInv'
<1> DEFINE row == worker.job
           taken == NewDecisions \cap Evidence
<1>1. /\ TypeOK /\ DecidedInOwnJob /\ NothingFromErased /\ DecidedOnce /\ forgotten \subseteq kept
      /\ row \in Turn /\ drained < MaxDrain
  BY DEF IInv, DrainHasRow, AtWork, ApplyDecisions
<1>2. UNCHANGED <<kept, handled, endTurn, attempts, said, enq, requested, timer,
                  lost, forgotten, crashes, clears>>
  BY DEF ApplyDecisions
<1>3. /\ worker' = [pc |-> "claim", job |-> None, end |-> None, attempt |-> 0,
                    window |-> {}, reply |-> {}, retryable |-> FALSE]
      /\ drained' = drained + 1
  BY DEF ApplyDecisions, JobDone, NoJob
<1>4. /\ status' \in [Turn -> JobStatus] /\ waits' \in [Turn -> BOOLEAN]
      /\ \A j \in Turn : Live(j)' <=> Live(j)
      /\ \A j \in Turn : status'[j] = "pending" => status[j] = "pending"
  BY <1>1 DEF ApplyDecisions, TypeOK, JobStatus, Live
<1>5. /\ recurrence' \in [Turn -> Nat]
      /\ \A t \in Turn : recurrence'[t] = IF t \in taken THEN recurrence[t] + 1
                                                          ELSE recurrence[t]
  BY <1>1 DEF ApplyDecisions, TypeOK
<1>6. /\ NewDecisions \subseteq Turn
      /\ ledger' = ledger \cup {<<row, t>> : t \in NewDecisions}
      /\ audit' = audit \cup NewDecisions
      /\ judged' = judged \cup worker.window
  BY <1>1 DEF NewDecisions, TypeOK, ApplyDecisions
<1>7. TypeOK'
  <2>1. ledger' \in SUBSET (Turn \X Turn) BY <1>1, <1>6 DEF TypeOK
  <2>2. audit' \in SUBSET Turn /\ judged' \in SUBSET Turn BY <1>1, <1>6 DEF TypeOK
  <2>3. drained' \in 0..MaxDrain BY <1>1, <1>3, JobsAssumption DEF TypeOK
  <2>4. worker' \in [pc : {"idle", "claim", "read", "judge", "apply", "fail"},
                     job : Turn \cup {None}, end : Turn \cup {None},
                     attempt : 0..MaxAttempts, window : SUBSET Turn,
                     reply : SUBSET Turn, retryable : BOOLEAN]
    BY <1>3, JobsAssumption
  <2> QED BY <1>1, <1>2, <1>4, <1>5, <2>1, <2>2, <2>3, <2>4 DEF TypeOK
<1>8. RowsStay
  BY <1>2, <1>4 DEF RowsStay
<1>9. ExchangesInOrder' /\ DrainHasRow'
  BY <1>2, <1>3 DEF IInv, ExchangesInOrder, HasRead, DrainHasRow, AtWork
<1>10. \A t \in taken : /\ t \in kept /\ recurrence[t] = 0 /\ t \notin forgotten
                        /\ Live(row) /\ row <= t /\ t <= endTurn[row]
                        /\ <<row, t>> \in ledger'
  BY <1>6, DecisionIsFirst
<1>11. (forgotten \subseteq kept)' /\ NothingFromErased' /\ DecidedOnce'
  <2>1. \A t \in Turn : t \notin taken => recurrence'[t] = recurrence[t]
    BY <1>5
  <2>2. \A t \in taken : recurrence'[t] = 1
    <3> SUFFICES ASSUME NEW t \in taken PROVE recurrence'[t] = 1
      OBVIOUS
    <3>1. t \in Turn /\ recurrence[t] = 0 BY <1>1, <1>10 DEF TypeOK
    <3>2. recurrence'[t] = recurrence[t] + 1 BY <1>5, <3>1
    <3> QED BY <3>1, <3>2
  <2> HIDE DEF taken
  <2>3. NothingFromErased'
    BY <1>1, <1>2, <1>10, <2>1 DEF NothingFromErased
  <2>4. DecidedOnce'
    <3>1. \A t \in Turn : recurrence'[t] <= 1
      BY <1>1, <2>1, <2>2 DEF DecidedOnce
    <3>2. \A t \in Turn : t \in forgotten => recurrence'[t] = 0
      BY <1>1, <1>10, <2>1 DEF DecidedOnce
    <3> QED BY <1>2, <3>1, <3>2 DEF DecidedOnce
  <2> QED BY <1>1, <1>2, <2>3, <2>4
<1>12. DecidedInOwnJob'
  <2> SUFFICES ASSUME NEW t \in kept, recurrence'[t] > 0 \/ t \in forgotten
               PROVE  \E j \in Turn : /\ <<j, t>> \in ledger'
                                      /\ Live(j)' /\ j <= t /\ t <= endTurn[j]
    BY <1>2 DEF DecidedInOwnJob
  <2>1. CASE t \in taken
    BY <1>1, <1>4, <1>10, <2>1
  <2>2. CASE t \notin taken
    <3>1. recurrence'[t] = recurrence[t] BY <1>1, <1>5, <2>2 DEF TypeOK
    <3> QED BY <1>1, <1>4, <1>6, <3>1 DEF DecidedInOwnJob
  <2> QED BY <2>1, <2>2
<1> QED BY <1>7, <1>8, <1>9, <1>11, <1>12, RowsStayInOrder DEF IInv

------------------------------------------------------------------------------
(* The enqueue *)

\* Only the enqueue moves on.
LEMMA EnqueueReads ==
  ASSUME IInv, NothingToEnqueue \/ FindPending \/ MeasureWindow
  PROVE  IInv'
<1>1. TypeOK /\ ExchangesInOrder /\ JobSpans /\ PendingIsLast /\ EnqueueKnowsLast BY DEF IInv
<1>2. UNCHANGED <<kept, handled, status, endTurn, attempts, waits, ledger, recurrence, audit,
                  said, worker, drained, requested, judged, lost, forgotten, crashes,
                  clears>>
  BY DEF NothingToEnqueue, FindPending, MeasureWindow, tableVars, memoryVars, drainVars,
         historyVars
<1>3. /\ timer' = TRUE \/ timer' = timer
      /\ \/ enq' = NoEnqueue /\ timer' = TRUE
         \/ \E j \in PendingJobs : /\ enq.pc = "find" /\ enq' = [pc |-> "measure", job |-> j]
                                   /\ \A k \in PendingJobs : k <= j
         \/ /\ enq.pc = "find" /\ PendingJobs = {}
            /\ enq' = [pc |-> "insert", job |-> None]
         \/ /\ enq.pc = "measure"
            /\ \/ enq' = [pc |-> "extend", job |-> enq.job]
               \/ enq' = [pc |-> "seal", job |-> enq.job]
  BY <1>1 DEF NothingToEnqueue, FindPending, MeasureWindow, EnqueueReturns, TypeOK
<1>4. TypeOK'
  <2>1. enq' \in [pc : {"idle", "find", "measure", "extend", "seal", "insert"},
                  job : Turn \cup {None}]
    BY <1>1, <1>3 DEF TypeOK, NoEnqueue, PendingJobs
  <2>2. timer' \in BOOLEAN
    BY <1>1, <1>3 DEF TypeOK
  <2> QED BY <1>1, <1>2, <2>1, <2>2 DEF TypeOK
<1>5. enq'.pc # "idle" => enq.pc # "idle"
  BY <1>3 DEF NoEnqueue
<1>6. HasRead' => /\ enq'.job \in Turn /\ enq'.job < said
                  /\ \A k \in Turn : Live(enq'.job) /\ Live(k) => k <= enq'.job
                  /\ \A k \in Turn : status[k] = "pending" => k = enq'.job
  <2>1. \A j \in PendingJobs : /\ j \in Turn /\ status[j] = "pending" /\ Live(j)
    BY DEF PendingJobs, Live
  <2>2. ASSUME NEW j \in PendingJobs, enq.pc = "find"
        PROVE  /\ j \in Turn /\ j < said
               /\ \A k \in Turn : Live(j) /\ Live(k) => k <= j
               /\ \A k \in Turn : status[k] = "pending" => k = j
    <3>1. j \in Turn /\ Live(j) /\ status[j] = "pending" /\ endTurn[j] \in Turn
      BY <1>1, <2>1 DEF TypeOK
    <3>2. j <= endTurn[j] /\ endTurn[j] < said
      BY <1>1, <2>2, <3>1 DEF JobSpans
    <3>3. j < said
      BY <1>1, <3>1, <3>2, TurnFacts DEF TypeOK
    <3>4. ASSUME NEW k \in Turn, status[k] = "pending" PROVE k = j
      BY <1>1, <3>1, <3>4, TurnFacts DEF PendingIsLast, Live
    <3> QED BY <1>1, <3>1, <3>3, <3>4 DEF PendingIsLast
  <2>3. CASE enq.pc = "measure"
    BY <1>1, <1>3, <2>3 DEF HasRead, EnqueueKnowsLast, ExchangesInOrder, NoEnqueue
  <2>4. CASE enq.pc = "find"
    BY <1>3, <2>2, <2>4 DEF HasRead, NoEnqueue
  <2>5. CASE enq.pc \notin {"measure", "find"}
    BY <1>3, <2>5 DEF HasRead, NoEnqueue
  <2> QED BY <2>3, <2>4, <2>5
<1>7. ExchangesInOrder'
  BY <1>1, <1>2, <1>5, <1>6 DEF ExchangesInOrder, AtWork
<1>8. JobSpans'
  BY <1>1, <1>2, <1>5 DEF JobSpans, Live
<1>9. PendingIsLast'
  BY <1>1, <1>2, <1>3 DEF PendingIsLast, PendingJobs, Live, NoEnqueue
<1>10. EnqueueKnowsLast'
  BY <1>2, <1>6 DEF EnqueueKnowsLast, Live
<1>11. DrainHasRow' /\ OneJobPerExchange'
  BY <1>2 DEF IInv, DrainHasRow, AtWork, OneJobPerExchange, Live
<1>12. /\ (forgotten \subseteq kept)' /\ NothingFromErased' /\ DecidedInOwnJob' /\ DecidedOnce'
  BY <1>2 DEF IInv, NothingFromErased, DecidedInOwnJob, DecidedOnce, Live
<1> QED BY <1>4, <1>7, <1>8, <1>9, <1>10, <1>11, <1>12 DEF IInv

\* The row to extend is the last one, so it runs into no other.
LEMMA ExtendPreserves ==
  ASSUME IInv, ExtendJob
  PROVE  IInv'
<1> DEFINE row == enq.job
<1>1. /\ TypeOK /\ ExchangesInOrder /\ JobSpans /\ PendingIsLast /\ EnqueueKnowsLast
      /\ DrainHasRow /\ OneJobPerExchange /\ DecidedInOwnJob
  BY DEF IInv
<1>2. /\ row \in Turn /\ said \in Turn /\ row < said
      /\ \A k \in Turn : Live(row) /\ Live(k) => k <= row
  BY <1>1 DEF ExtendJob, HasRead, ExchangesInOrder, EnqueueKnowsLast
<1>3. UNCHANGED <<kept, handled, status, attempts, ledger, recurrence, audit, said, worker,
                  drained, requested, judged, forgotten, crashes, clears>>
  BY DEF ExtendJob, memoryVars, drainVars
<1>4. enq' = [pc |-> "idle", job |-> None] /\ timer' = TRUE
  BY DEF ExtendJob, AfterExtend, EnqueueReturns, NoEnqueue
<1>5. /\ endTurn' \in [Turn -> Turn] /\ waits' \in [Turn -> BOOLEAN] /\ lost' \in SUBSET Turn
      /\ \A j \in Turn : endTurn'[j] = IF Live(j) /\ j = row THEN said ELSE endTurn[j]
  <2>1. CASE ~Live(row)
    <3>1. UNCHANGED <<endTurn, waits, lost>> BY <2>1 DEF ExtendJob, Live
    <3> QED BY <1>1, <2>1, <3>1 DEF TypeOK
  <2>2. CASE Live(row)
    <3>1. /\ endTurn' = [endTurn EXCEPT ![row] = said]
          /\ waits' = [waits EXCEPT ![row] = @ \/ status[row] = "processing"]
          /\ lost' \in {lost, lost \cup {said}}
      BY <2>2 DEF ExtendJob, Live
    <3>2. /\ endTurn' \in [Turn -> Turn]
          /\ \A j \in Turn : endTurn'[j] = IF j = row THEN said ELSE endTurn[j]
      BY <1>1, <1>2, <3>1 DEF TypeOK
    <3>3. waits' \in [Turn -> BOOLEAN] BY <1>1, <3>1 DEF TypeOK
    <3>4. lost' \in SUBSET Turn BY <1>1, <1>2, <3>1 DEF TypeOK
    <3> QED BY <2>2, <3>2, <3>3, <3>4
  <2> QED BY <2>1, <2>2
<1>6. TypeOK'
  BY <1>1, <1>3, <1>4, <1>5 DEF TypeOK
<1>7. \A j \in Turn : /\ Live(j)' <=> Live(j)
                      /\ j \in Nat /\ endTurn[j] \in Nat /\ endTurn'[j] \in Nat
                      /\ said \in Nat
                      /\ Live(j) => endTurn[j] <= endTurn'[j] /\ endTurn'[j] <= said
  BY <1>1, <1>2, <1>3, <1>5, TurnFacts DEF JobSpans, TypeOK, Live
<1>8. ExchangesInOrder'
  BY <1>1, <1>3, <1>4 DEF ExchangesInOrder, AtWork, HasRead
<1>9. JobSpans'
  BY <1>1, <1>3, <1>4, <1>7 DEF JobSpans
<1>10. PendingIsLast' /\ EnqueueKnowsLast'
  BY <1>1, <1>3, <1>4 DEF PendingIsLast, EnqueueKnowsLast, HasRead, Live
<1>11. DrainHasRow'
  BY <1>1, <1>3, <1>7, TurnFacts DEF DrainHasRow, AtWork
<1>12. OneJobPerExchange'
  <2> SUFFICES ASSUME NEW j \in Turn, NEW k \in Turn, Live(j), Live(k), j < k
               PROVE  endTurn'[j] < k
    BY <1>7 DEF OneJobPerExchange
  <2>1. j # row BY <1>2, <1>7
  <2> QED BY <1>1, <1>5, <2>1 DEF OneJobPerExchange
<1>13. DecidedInOwnJob'
  <2> SUFFICES ASSUME NEW t \in kept, recurrence[t] > 0 \/ t \in forgotten
               PROVE  \E j \in Turn : /\ <<j, t>> \in ledger
                                      /\ Live(j) /\ j <= t /\ t <= endTurn'[j]
    BY <1>3, <1>7 DEF DecidedInOwnJob
  <2>1. t \in Nat BY <1>1, TurnFacts DEF TypeOK
  <2>2. PICK j \in Turn : <<j, t>> \in ledger /\ Live(j) /\ j <= t /\ t <= endTurn[j]
    BY <1>1 DEF DecidedInOwnJob
  <2> QED BY <1>7, <2>1, <2>2
<1>14. (forgotten \subseteq kept)' /\ NothingFromErased' /\ DecidedOnce'
  BY <1>3 DEF IInv, NothingFromErased, DecidedOnce
<1> QED BY <1>6, <1>8, <1>9, <1>10, <1>11, <1>12, <1>13, <1>14 DEF IInv

\* The only row that could be pending no longer is.
LEMMA SealPreserves ==
  ASSUME IInv, SealJob
  PROVE  IInv'
<1>1. TypeOK /\ ExchangesInOrder /\ JobSpans /\ PendingIsLast /\ EnqueueKnowsLast BY DEF IInv
<1>2. /\ enq.job \in Turn /\ said \in Turn
      /\ \A k \in Turn : status[k] = "pending" => k = enq.job
  BY <1>1 DEF SealJob, HasRead, ExchangesInOrder, EnqueueKnowsLast
<1>3. UNCHANGED <<kept, handled, endTurn, attempts, ledger, recurrence, audit, said, worker,
                  drained, requested, timer, judged, lost, forgotten, crashes, clears>>
  BY DEF SealJob, memoryVars, drainVars, historyVars
<1>4. enq' = [pc |-> "insert", job |-> None] /\ enq.pc # "idle"
  BY DEF SealJob
<1>5. /\ status' \in [Turn -> JobStatus] /\ waits' \in [Turn -> BOOLEAN]
      /\ \A j \in Turn : Live(j)' <=> Live(j)
      /\ \A j \in Turn : status'[j] # "pending"
  BY <1>1, <1>2 DEF SealJob, TypeOK, JobStatus, Live
<1>6. TypeOK'
  BY <1>1, <1>3, <1>4, <1>5 DEF TypeOK
<1>7. ExchangesInOrder' /\ DrainHasRow'
  BY <1>2, <1>3, <1>4, <1>5 DEF IInv, ExchangesInOrder, DrainHasRow, AtWork, HasRead
<1>8. JobSpans' /\ PendingIsLast' /\ EnqueueKnowsLast'
  BY <1>1, <1>3, <1>4, <1>5 DEF JobSpans, PendingIsLast, EnqueueKnowsLast, HasRead
<1>9. /\ (forgotten \subseteq kept)' /\ NothingFromErased' /\ OneJobPerExchange'
      /\ DecidedInOwnJob' /\ DecidedOnce'
  BY <1>3, <1>5 DEF IInv, NothingFromErased, OneJobPerExchange, DecidedInOwnJob, DecidedOnce
<1> QED BY <1>6, <1>7, <1>8, <1>9 DEF IInv

\* The new row comes after all others, and no other is pending.
LEMMA InsertPreserves ==
  ASSUME IInv, InsertJob
  PROVE  IInv'
<1>1. /\ TypeOK /\ ExchangesInOrder /\ JobSpans /\ PendingIsLast /\ DrainHasRow
      /\ OneJobPerExchange /\ DecidedInOwnJob
  BY DEF IInv
<1>2. said \in Turn /\ enq.pc = "insert"
  BY <1>1 DEF InsertJob, ExchangesInOrder
<1>3. UNCHANGED <<kept, handled, ledger, recurrence, audit, said, worker, drained,
                  requested, judged, lost, forgotten, crashes, clears>>
  BY DEF InsertJob, memoryVars, drainVars, historyVars
<1>4. enq' = [pc |-> "idle", job |-> None] /\ timer' = TRUE
  BY DEF InsertJob, EnqueueReturns, NoEnqueue
<1>5. /\ status' \in [Turn -> JobStatus] /\ endTurn' \in [Turn -> Turn]
      /\ attempts' \in [Turn -> 0..MaxAttempts] /\ waits' \in [Turn -> BOOLEAN]
      /\ status'[said] = "pending" /\ endTurn'[said] = said
      /\ \A j \in Turn : j # said => status'[j] = status[j] /\ endTurn'[j] = endTurn[j]
  BY <1>1, <1>2, JobsAssumption DEF InsertJob, TypeOK, JobStatus
<1>6. TypeOK'
  BY <1>1, <1>3, <1>4, <1>5 DEF TypeOK
<1>7. /\ Live(said)' /\ \A j \in Turn : j # said => (Live(j)' <=> Live(j))
      /\ \A j \in Turn : Live(j) => j < said /\ endTurn[j] < said
      /\ \A j \in Turn : j \in Nat /\ endTurn[j] \in Nat
      /\ \A j \in Turn : Live(j) => Live(j)' /\ endTurn'[j] = endTurn[j]
  <2>1. \A j \in Turn : j \in Nat /\ endTurn[j] \in Nat
    BY <1>1, TurnFacts DEF TypeOK
  <2>2. ASSUME NEW j \in Turn, Live(j) PROVE j < said /\ endTurn[j] < said
    BY <1>1, <1>2, <2>1, <2>2 DEF JobSpans
  <2>3. Live(said)' /\ \A j \in Turn : j # said => (Live(j)' <=> Live(j))
    <3>1. Live(said)' BY <1>3, <1>5 DEF Live
    <3>2. ASSUME NEW j \in Turn, j # said PROVE Live(j)' <=> Live(j)
      BY <1>5, <3>2 DEF Live
    <3> QED BY <3>1, <3>2
  <2>4. \A j \in Turn : Live(j) => j # said
    BY <2>1, <2>2
  <2> QED BY <1>5, <2>1, <2>2, <2>3, <2>4
<1>8. ExchangesInOrder'
  BY <1>1, <1>3, <1>4 DEF ExchangesInOrder, AtWork, HasRead
<1>9. JobSpans'
  BY <1>1, <1>2, <1>3, <1>4, <1>5, <1>7 DEF JobSpans
<1>10. PendingIsLast' /\ EnqueueKnowsLast'
  BY <1>1, <1>2, <1>4, <1>5, <1>7 DEF PendingIsLast, EnqueueKnowsLast, HasRead
<1>11. DrainHasRow'
  BY <1>1, <1>3, <1>7 DEF DrainHasRow, AtWork
<1>12. OneJobPerExchange'
  <2> SUFFICES ASSUME NEW j \in Turn, NEW k \in Turn, Live(j)', Live(k)', j < k
               PROVE  endTurn'[j] < k
    BY DEF OneJobPerExchange
  <2>1. j # said BY <1>2, <1>7
  <2> QED BY <1>1, <1>2, <1>5, <1>7, <2>1 DEF OneJobPerExchange
<1>13. DecidedInOwnJob'
  BY <1>1, <1>3, <1>7 DEF DecidedInOwnJob
<1>14. (forgotten \subseteq kept)' /\ NothingFromErased' /\ DecidedOnce'
  BY <1>3 DEF IInv, NothingFromErased, DecidedOnce
<1> QED BY <1>6, <1>8, <1>9, <1>10, <1>11, <1>12, <1>13, <1>14 DEF IInv

\* A new exchange has a number of its own, of which nothing is remembered.
LEMMA CompletePreserves ==
  ASSUME IInv, NEW exact \in BOOLEAN, CompleteExchange(exact)
  PROVE  IInv'
<1>1. TypeOK /\ ExchangesInOrder /\ JobSpans /\ NothingFromErased /\ forgotten \subseteq kept
  BY DEF IInv
<1>2. UNCHANGED <<status, endTurn, attempts, waits, ledger, recurrence, audit, worker,
                  drained, requested, timer, judged, lost, forgotten, crashes, clears>>
  BY DEF CompleteExchange, tableVars, memoryVars, drainVars, historyVars
<1>3. /\ said \in Nat /\ said' = said + 1 /\ said' \in Turn
      /\ kept' = kept \cup {said'} /\ said' \notin kept
  BY <1>1, JobsAssumption DEF CompleteExchange, TypeOK, Turn, ExchangesInOrder
<1>4. enq' = [pc |-> "find", job |-> enq.job] /\ enq.pc = "idle"
  BY <1>1 DEF CompleteExchange, TypeOK
<1>5. TypeOK'
  <2>1. handled' \in SUBSET Turn BY <1>1, <1>3 DEF CompleteExchange, TypeOK
  <2>2. said' \in 0..MaxTurn BY <1>3, TurnFacts
  <2> QED BY <1>1, <1>2, <1>3, <1>4, <2>1, <2>2 DEF TypeOK
<1>6. ExchangesInOrder'
  <2>1. \A t \in kept' : t <= said'
    BY <1>1, <1>3, TurnFacts DEF ExchangesInOrder, TypeOK
  <2>2. AtWork' => worker'.job <= said'
    BY <1>1, <1>2, <1>3, TurnFacts DEF IInv, ExchangesInOrder, AtWork, DrainHasRow
  <2> QED BY <1>3, <1>4, <2>1, <2>2 DEF ExchangesInOrder, HasRead
<1>7. JobSpans'
  BY <1>1, <1>2, <1>3, TurnFacts DEF JobSpans, Live, TypeOK
<1>8. PendingIsLast' /\ EnqueueKnowsLast'
  BY <1>2, <1>4 DEF IInv, PendingIsLast, EnqueueKnowsLast, HasRead, Live
<1>9. DrainHasRow'
  <2> SUFFICES ASSUME AtWork, worker.job \in kept'
               PROVE  Live(worker.job) /\ worker.end <= endTurn[worker.job]
    BY <1>2 DEF IInv, DrainHasRow, AtWork, Live
  <2>1. worker.job \in kept
    BY <1>1, <1>3, TurnFacts DEF ExchangesInOrder, IInv, DrainHasRow
  <2> QED BY <2>1 DEF IInv, DrainHasRow
<1>10. OneJobPerExchange'
  BY <1>2 DEF IInv, OneJobPerExchange, Live
<1>11. (forgotten \subseteq kept)' /\ NothingFromErased' /\ DecidedOnce'
  BY <1>1, <1>2, <1>3 DEF IInv, NothingFromErased, DecidedOnce
<1>12. DecidedInOwnJob'
  <2>1. ~(recurrence[said'] > 0 \/ said' \in forgotten)
    BY <1>1, <1>3 DEF NothingFromErased
  <2> QED BY <1>2, <1>3, <2>1 DEF IInv, DecidedInOwnJob, Live
<1> QED BY <1>5, <1>6, <1>7, <1>8, <1>9, <1>10, <1>11, <1>12 DEF IInv

------------------------------------------------------------------------------
(* The user, time and the process *)

\* Requests, timers and waiting times are no part of the invariant.
LEMMA QuietSteps ==
  ASSUME IInv, NEW t \in Turn, ProcessPending \/ TimerFires \/ TimePasses(t)
  PROVE  IInv'
<1>1. UNCHANGED <<kept, handled, status, endTurn, attempts, ledger, recurrence, audit, said,
                  enq, worker, drained, judged, lost, forgotten, crashes, clears>>
  BY DEF ProcessPending, TimerFires, TimePasses, tableVars, memoryVars, drainVars, historyVars
<1>2. TypeOK'
  <2>1. TypeOK BY DEF IInv
  <2>2. requested' \in BOOLEAN /\ timer' \in BOOLEAN
    BY <2>1 DEF TypeOK, ProcessPending, TimerFires, TimePasses, drainVars
  <2>3. waits' \in [Turn -> BOOLEAN]
    BY <2>1 DEF TypeOK, ProcessPending, TimerFires, TimePasses, tableVars
  <2> QED BY <1>1, <2>1, <2>2, <2>3 DEF TypeOK
<1>3. RowsStay
  BY <1>1 DEF RowsStay, Live
<1>4. ExchangesInOrder' /\ DrainHasRow'
  BY <1>1 DEF IInv, ExchangesInOrder, DrainHasRow, AtWork, HasRead, Live
<1> QED BY <1>1, <1>2, <1>3, <1>4, RowsStayInOrder, MemoriesStay DEF IInv

\* A deleted memory is of a stored exchange, decided in its job.
LEMMA ForgetPreserves ==
  ASSUME IInv, NEW t \in Turn, Forget(t)
  PROVE  IInv'
<1>1. /\ TypeOK /\ NothingFromErased /\ DecidedInOwnJob /\ DecidedOnce /\ forgotten \subseteq kept
  BY DEF IInv
<1>2. UNCHANGED <<kept, handled, status, endTurn, attempts, waits, ledger, said, enq, worker,
                  drained, requested, timer, judged, lost, crashes, clears>>
  BY DEF Forget, tableVars, drainVars
<1>3. /\ recurrence' \in [Turn -> Nat] /\ recurrence'[t] = 0
      /\ \A u \in Turn : u # t => recurrence'[u] = recurrence[u]
      /\ forgotten' = forgotten \cup {t}
  BY <1>1 DEF Forget, TypeOK
<1>4. TypeOK'
  BY <1>1, <1>2, <1>3 DEF Forget, TypeOK
<1>5. RowsStay
  BY <1>2 DEF RowsStay, Live
<1>6. ExchangesInOrder' /\ DrainHasRow'
  BY <1>2 DEF IInv, ExchangesInOrder, DrainHasRow, AtWork, HasRead, Live
<1>7. t \in kept /\ recurrence[t] > 0
  BY <1>1 DEF Forget, NothingFromErased
<1>8. (forgotten \subseteq kept)' /\ NothingFromErased' /\ DecidedOnce'
  BY <1>1, <1>2, <1>3, <1>7 DEF NothingFromErased, DecidedOnce
<1>9. DecidedInOwnJob'
  <2> SUFFICES ASSUME NEW u \in kept, recurrence'[u] > 0 \/ u \in forgotten'
               PROVE  \E j \in Turn : /\ <<j, u>> \in ledger
                                      /\ Live(j) /\ j <= u /\ u <= endTurn[j]
    BY <1>2 DEF DecidedInOwnJob, Live
  <2>1. recurrence[u] > 0 \/ u \in forgotten
    BY <1>1, <1>3, <1>7 DEF TypeOK
  <2> QED BY <1>1, <2>1 DEF DecidedInOwnJob
<1> QED BY <1>4, <1>5, <1>6, <1>8, <1>9, RowsStayInOrder DEF IInv

\* With the tables empty, only what the enqueue and the drain hold is left.
LEMMA ClearPreserves ==
  ASSUME IInv, ClearHistory
  PROVE  IInv'
<1>1. TypeOK /\ ExchangesInOrder /\ EnqueueKnowsLast /\ DrainHasRow BY DEF IInv
<1>2. /\ kept' = {} /\ handled' = {} /\ ledger' = {} /\ audit' = {}
      /\ judged' = {} /\ lost' = {} /\ forgotten' = {} /\ clears' = clears + 1
      /\ UNCHANGED <<said, enq, worker, drained, requested, timer, crashes>>
  BY DEF ClearHistory, drainVars
<1>3. /\ \A j \in Turn : status'[j] = "none" /\ recurrence'[j] = 0
      /\ status' \in [Turn -> JobStatus] /\ endTurn' \in [Turn -> Turn]
      /\ attempts' \in [Turn -> 0..MaxAttempts] /\ waits' \in [Turn -> BOOLEAN]
      /\ recurrence' \in [Turn -> Nat]
  BY JobsAssumption DEF ClearHistory, JobStatus
<1>4. TypeOK'
  <2>1. clears' \in 0..MaxClear
    BY <1>1, <1>2, JobsAssumption DEF ClearHistory, TypeOK
  <2> QED BY <1>1, <1>2, <1>3, <2>1 DEF TypeOK
<1>5. \A j \in Turn : ~Live(j)' /\ status'[j] # "pending"
  BY <1>3 DEF Live
<1>6. ExchangesInOrder' /\ DrainHasRow'
  BY <1>1, <1>2 DEF ExchangesInOrder, DrainHasRow, AtWork, HasRead
<1>7. JobSpans' /\ PendingIsLast' /\ EnqueueKnowsLast' /\ OneJobPerExchange'
  BY <1>1, <1>2, <1>5
     DEF JobSpans, PendingIsLast, EnqueueKnowsLast, HasRead, OneJobPerExchange
<1>8. /\ (forgotten \subseteq kept)' /\ NothingFromErased' /\ DecidedInOwnJob' /\ DecidedOnce'
  BY <1>2, <1>3 DEF NothingFromErased, DecidedInOwnJob, DecidedOnce
<1> QED BY <1>4, <1>6, <1>7, <1>8 DEF IInv

\* After a restart nobody holds anything.
LEMMA RestartPreserves ==
  ASSUME IInv, Restart
  PROVE  IInv'
<1>1. TypeOK /\ ExchangesInOrder /\ JobSpans BY DEF IInv
<1>2. UNCHANGED <<kept, handled, status, endTurn, attempts, waits, ledger, recurrence, audit,
                  said, judged, forgotten, clears>>
  BY DEF Restart, tableVars, memoryVars
<1>3. /\ enq' = [pc |-> "idle", job |-> None]
      /\ worker' = [pc |-> "idle", job |-> None, end |-> None, attempt |-> 0,
                    window |-> {}, reply |-> {}, retryable |-> FALSE]
      /\ drained' = 0 /\ requested' = TRUE /\ timer' = FALSE /\ crashes' = crashes + 1
  BY DEF Restart, NoEnqueue, NoJob
<1>4. TypeOK'
  <2>1. lost' \in SUBSET Turn
    BY <1>1 DEF Restart, TypeOK, ExchangesInOrder
  <2>2. crashes' \in 0..MaxCrash
    BY <1>1, <1>3, JobsAssumption DEF Restart, TypeOK
  <2>3. 0 \in 0..MaxAttempts /\ drained' \in 0..MaxDrain
    BY <1>3, JobsAssumption
  <2>4. worker' \in [pc : {"idle", "claim", "read", "judge", "apply", "fail"},
                     job : Turn \cup {None}, end : Turn \cup {None},
                     attempt : 0..MaxAttempts, window : SUBSET Turn,
                     reply : SUBSET Turn, retryable : BOOLEAN]
    BY <1>3, <2>3
  <2> QED BY <1>1, <1>2, <1>3, <2>1, <2>2, <2>3, <2>4 DEF TypeOK
<1>5. ExchangesInOrder' /\ DrainHasRow' /\ EnqueueKnowsLast'
  BY <1>1, <1>2, <1>3 DEF ExchangesInOrder, DrainHasRow, EnqueueKnowsLast, AtWork, HasRead
<1>6. JobSpans' /\ PendingIsLast'
  BY <1>1, <1>2, <1>3 DEF IInv, JobSpans, PendingIsLast, Live
<1>7. /\ (forgotten \subseteq kept)' /\ NothingFromErased' /\ OneJobPerExchange'
      /\ DecidedInOwnJob' /\ DecidedOnce'
  BY <1>2 DEF IInv, NothingFromErased, OneJobPerExchange, DecidedInOwnJob, DecidedOnce, Live
<1> QED BY <1>4, <1>5, <1>6, <1>7 DEF IInv

------------------------------------------------------------------------------
(* Theorems *)

\* The invariant holds of an empty database.
LEMMA InitInv == Init => IInv
<1> SUFFICES ASSUME Init PROVE IInv
  OBVIOUS
<1>1. TypeOK
  <2>1. /\ 0 \in 0..MaxAttempts /\ 0 \in 0..MaxDrain /\ 0 \in 0..MaxTurn
        /\ 0 \in 0..MaxCrash /\ 0 \in 0..MaxClear
    BY JobsAssumption
  <2>2. /\ status \in [Turn -> JobStatus] /\ endTurn \in [Turn -> Turn]
        /\ attempts \in [Turn -> 0..MaxAttempts] /\ waits \in [Turn -> BOOLEAN]
        /\ recurrence \in [Turn -> Nat]
    BY <2>1 DEF Init, JobStatus
  <2>3. enq \in [pc : {"idle", "find", "measure", "extend", "seal", "insert"},
                 job : Turn \cup {None}]
    BY DEF Init, NoEnqueue
  <2>4. worker \in [pc : {"idle", "claim", "read", "judge", "apply", "fail"},
                    job : Turn \cup {None}, end : Turn \cup {None},
                    attempt : 0..MaxAttempts, window : SUBSET Turn,
                    reply : SUBSET Turn, retryable : BOOLEAN]
    BY <2>1 DEF Init, NoJob
  <2> QED BY <2>1, <2>2, <2>3, <2>4 DEF Init, TypeOK
<1>2. enq.pc = "idle" /\ worker.pc = "idle" /\ \A j \in Turn : status[j] = "none"
  BY DEF Init, NoEnqueue, NoJob
<1>3. ExchangesInOrder /\ JobSpans /\ PendingIsLast /\ EnqueueKnowsLast /\ DrainHasRow
  BY <1>2 DEF Init, ExchangesInOrder, JobSpans, PendingIsLast, EnqueueKnowsLast, DrainHasRow,
              AtWork, HasRead, Live
<1>4. /\ NothingFromErased /\ OneJobPerExchange /\ DecidedInOwnJob /\ DecidedOnce
      /\ forgotten \subseteq kept
  BY <1>2 DEF Init, NothingFromErased, OneJobPerExchange, DecidedInOwnJob, DecidedOnce, Live
<1> QED BY <1>1, <1>3, <1>4 DEF IInv

\* Every step preserves it.
LEMMA NextInv == IInv /\ [Next]_vars => IInv'
<1> SUFFICES ASSUME IInv, [Next]_vars PROVE IInv'
  OBVIOUS
<1>1. ASSUME NEW exact \in BOOLEAN, CompleteExchange(exact) PROVE IInv'
  BY <1>1, CompletePreserves
<1>2. CASE Enqueue
  BY <1>2, EnqueueReads, ExtendPreserves, SealPreserves, InsertPreserves DEF Enqueue
<1>3. CASE Drain
  <2>1. CASE StartDrain \/ NothingToClaim \/ DrainFull \/ ReadWindow \/ JudgeAnswers
             \/ JudgeFails
    BY <2>1, DrainSteps, DrainMovesPreserves DEF IInv
  <2> QED BY <1>3, <2>1, ClaimPreserves, ApplyPreserves, FailPreserves DEF Drain
<1>4. CASE ProcessPending \/ TimerFires
  <2>1. 1 \in Turn BY JobsAssumption DEF Turn
  <2> QED BY <1>4, <2>1, QuietSteps
<1>5. ASSUME NEW t \in Turn, TimePasses(t) \/ Forget(t) PROVE IInv'
  BY <1>5, QuietSteps, ForgetPreserves
<1>6. CASE ClearHistory BY <1>6, ClearPreserves
<1>7. CASE Restart BY <1>7, RestartPreserves
<1>8. CASE UNCHANGED vars
  <2>1. UNCHANGED <<kept, handled, status, endTurn, attempts, waits, ledger, recurrence,
                    audit, said, enq, worker, drained, requested, timer, judged, lost,
                    forgotten, crashes, clears>>
    BY <1>8 DEF vars, tableVars, memoryVars, drainVars, historyVars
  <2>2. RowsStay BY <2>1 DEF RowsStay, Live
  <2>3. TypeOK' BY <2>1 DEF IInv, TypeOK
  <2>4. ExchangesInOrder' /\ DrainHasRow'
    BY <2>1 DEF IInv, ExchangesInOrder, DrainHasRow, AtWork, HasRead, Live
  <2> QED BY <2>1, <2>2, <2>3, <2>4, RowsStayInOrder, MemoriesStay DEF IInv
<1> QED BY <1>1, <1>2, <1>3, <1>4, <1>5, <1>6, <1>7, <1>8 DEF Next

\* The inductive invariant holds in every state of every behaviour of the
\* enqueue, the drain, Clear History and restarts.
THEOREM Invariance == Spec => []IInv
BY InitInv, NextInv, PTL DEF Spec

\* The tables and what the app holds are well typed: an attempt never exceeds
\* the limit, a drain never its number of jobs, and the enqueue and the drain
\* never write to a row outside the table.
THEOREM TypeCorrect == Spec => []TypeOK
<1>1. IInv => TypeOK BY DEF IInv
<1> QED BY <1>1, Invariance, PTL

\* Nothing is remembered of an exchange that is not stored, whenever the judge's
\* answer comes: applyMemoryJudgeDecisions reads its evidence again.
THEOREM ErasedStaysErased == Spec => []NothingFromErased
<1>1. IInv => NothingFromErased BY DEF IInv
<1> QED BY <1>1, Invariance, PTL

\* A decision about an exchange takes effect once, though its job be judged
\* again, and never after the user deleted the memory: memory_judge_operations.
THEOREM DecidesOnce == Spec => []DecidedOnce
<1>1. IInv => DecidedOnce BY DEF IInv
<1> QED BY <1>1, Invariance, PTL

\* The rows of enqueueMemoryExtractionJob never overlap, though it reads and
\* writes them in separate statements and updates them by id.
THEOREM JobsApart == Spec => []OneJobPerExchange
<1>1. IInv => OneJobPerExchange BY DEF IInv
<1> QED BY <1>1, Invariance, PTL

------------------------------------------------------------------------------
(* No exchange is forgotten: this rests on the invariant above and on what the
   windows measured by the enqueue and by the drain have to do with each other. *)

\* Rows that have exchanges still to be judged, or were given up.
Open(j) == status[j] \notin {"none", "succeeded"}

\* A new exchange is not part of the row the drain holds.
DrainIsBehind == AtWork /\ enq.pc # "idle" => worker.job < said

\* A row the enqueue has read can only be gone if everything was erased.
ErasedWithRow == HasRead /\ ~Live(enq.job) => said \notin kept

\* A row covers no more exchanges than a request takes, and neither will the
\* row that is about to be extended.
RowsFit ==
  /\ \A j \in Turn : Live(j) => Fits(Bounded(j, endTurn[j]))
  /\ enq.pc = "extend" => Fits(Bounded(enq.job, said))

\* While the drain holds a row: what was added since it was claimed is dealt
\* with or counts as lost, and what it covered then is in the request.
DrainCovers ==
  AtWork /\ Live(worker.job) =>
    /\ status[worker.job] \in {"processing", "ready"}
    /\ status[worker.job] = "ready" => ~(HasRead /\ enq.job = worker.job)
    /\ worker.end <= endTurn[worker.job]
    /\ \A t \in kept : worker.end < t /\ t <= endTurn[worker.job] =>
         t \in handled \cup lost \cup judged
    /\ worker.pc \in {"judge", "apply"} =>
         \A t \in kept : worker.job <= t /\ t <= worker.end => t \in worker.window

CInv ==
  /\ DrainIsBehind
  /\ ErasedWithRow
  /\ RowsFit
  /\ DrainCovers
  /\ NoExchangeForgotten

------------------------------------------------------------------------------
(* Windows *)

\* The sets that windows are cut from are finite.
LEMMA KeptFinite ==
  ASSUME kept \in SUBSET Turn, NEW S \in SUBSET kept
  PROVE  IsFiniteSet(S) /\ Cardinality(S) \in Nat
<1>1. IsFiniteSet(Turn)
  BY FS_Interval, JobsAssumption DEF Turn
<1>2. IsFiniteSet(S)
  BY <1>1, FS_Subset
<1> QED BY <1>2, FS_CardinalityType

\* Fewer exchanges fit if more do.
LEMMA FewerFit ==
  ASSUME kept \in SUBSET Turn, NEW S \in SUBSET kept, Fits(S), NEW R \in SUBSET S
  PROVE  Fits(R)
<1>1. IsFiniteSet(S) /\ Cardinality(S) \in Nat /\ Cardinality(R) \in Nat
  BY KeptFinite
<1>2. Cardinality(R) <= Cardinality(S)
  BY <1>1, FS_Subset
<1> QED BY <1>1, <1>2, JobsAssumption DEF Fits

\* If they fit, a request leaves none of them out.
LEMMA WindowIsAll ==
  ASSUME kept \in SUBSET Turn, NEW first \in Turn, NEW last \in Turn,
         Fits(Bounded(first, last)), Window(first, last) # {},
         NEW t \in kept, first <= t, t <= last
  PROVE  t \in Window(first, last)
<1> DEFINE between == {u \in kept : first <= u /\ u <= last}
           below == {u \in between : u < t}
<1>1. {first, last} \subseteq kept
  BY DEF Window
<1>2. IsFiniteSet(between) /\ Cardinality(between) \in Nat
  BY KeptFinite
<1>3. Cardinality(between) <= MaxWindow
  BY <1>1 DEF Fits, Bounded
<1>4. t \in between /\ below \subseteq between \ {t}
  BY TurnFacts
<1>5. /\ IsFiniteSet(between \ {t})
      /\ Cardinality(between \ {t}) = Cardinality(between) - 1
  BY <1>2, <1>4, FS_RemoveElement
<1>6. Cardinality(below) <= Cardinality(between \ {t}) /\ Cardinality(below) \in Nat
  BY <1>4, <1>5, FS_Subset, KeptFinite
<1>7. Cardinality(below) < MaxWindow
  BY <1>2, <1>3, <1>5, <1>6, JobsAssumption
<1> QED BY <1>1, <1>4, <1>7 DEF Window

------------------------------------------------------------------------------
(* Steps that leave the extent of the rows alone *)

\* What the enqueue knows, and the size of rows, depend on nothing else.
LEMMA ExtentStays ==
  ASSUME IInv, CInv, RowsStay
  PROVE  ErasedWithRow' /\ RowsFit'
<1>1. HasRead => enq.job \in Turn
  BY DEF IInv, EnqueueKnowsLast
<1>2. ErasedWithRow'
  BY <1>1 DEF CInv, RowsStay, ErasedWithRow, HasRead
<1>3. RowsFit'
  BY DEF CInv, RowsStay, RowsFit, Bounded, Fits
<1> QED BY <1>2, <1>3

\* No exchange is forgotten while rows stay open and nothing is taken back.
LEMMA OpenStays ==
  ASSUME IInv, CInv, UNCHANGED <<kept, handled, endTurn, said, enq>>,
         judged \subseteq judged', lost \subseteq lost',
         \A j \in Turn : Open(j) => Open(j)'
  PROVE  NoExchangeForgotten'
<1> SUFFICES ASSUME NEW t \in kept \ (handled \cup lost)
             PROVE  \/ enq.pc # "idle" /\ t = said
                    \/ t \in judged
                    \/ \E j \in Turn : Open(j) /\ j <= t /\ t <= endTurn[j]
  BY DEF NoExchangeForgotten, Open
<1> QED BY DEF CInv, NoExchangeForgotten, Open

\* The drain moves on: a window that is read holds all the row covered.
LEMMA DrainMovesCover ==
  ASSUME IInv, CInv,
         StartDrain \/ NothingToClaim \/ DrainFull \/ ReadWindow \/ JudgeAnswers \/ JudgeFails
  PROVE  CInv'
<1>1. TypeOK /\ DrainHasRow BY DEF IInv
<1>2. DrainMoves BY <1>1, DrainSteps
<1>3. UNCHANGED <<kept, handled, status, endTurn, said, enq, judged, lost>>
  BY <1>2 DEF DrainMoves, tableVars, historyVars
<1>4. ErasedWithRow' /\ RowsFit' /\ NoExchangeForgotten'
  BY <1>3, ExtentStays, OpenStays DEF RowsStay, Live, Open
<1>5. DrainIsBehind'
  BY <1>2, <1>3 DEF CInv, DrainIsBehind, DrainMoves
<1>6. DrainCovers'
  <2> SUFFICES ASSUME AtWork', Live(worker.job)'
               PROVE  DrainCovers'
    BY DEF DrainCovers
  <2>1. /\ AtWork /\ worker'.job = worker.job /\ worker'.end = worker.end
        /\ Live(worker.job)
    BY <1>2, <1>3 DEF DrainMoves, Live
  <2>2. /\ worker.job \in Turn /\ worker.end \in Turn
    BY <1>1, <2>1 DEF DrainHasRow
  <2>3. ASSUME worker'.pc \in {"judge", "apply"}, NEW t \in kept,
               worker.job <= t, t <= worker.end
        PROVE  t \in worker'.window
    <3>1. CASE ReadWindow
      <4>1. worker' = [worker EXCEPT !.pc = "judge", !.window = Window(worker.job, worker.end)]
            /\ Window(worker.job, worker.end) # {}
        BY <1>1, <2>3, <3>1 DEF ReadWindow, TypeOK
      <4>2. worker'.window = Window(worker.job, worker.end)
        BY <1>1, <4>1 DEF TypeOK
      <4>3. worker.job \in kept
        BY <4>1 DEF Window
      <4>4. worker.end <= endTurn[worker.job] /\ endTurn[worker.job] \in Turn
        BY <1>1, <2>1, <2>2, <4>3 DEF DrainHasRow, TypeOK
      <4>5. Fits(Bounded(worker.job, worker.end))
        <5>1. Fits(Bounded(worker.job, endTurn[worker.job]))
          BY <2>1, <2>2 DEF CInv, RowsFit
        <5>2. /\ Bounded(worker.job, endTurn[worker.job]) \in SUBSET kept
              /\ Bounded(worker.job, worker.end) \in
                   SUBSET Bounded(worker.job, endTurn[worker.job])
          BY <1>1, <2>2, <4>4, TurnFacts DEF Bounded, TypeOK
        <5> QED BY <1>1, <5>1, <5>2, FewerFit DEF TypeOK
      <4> QED BY <1>1, <2>2, <2>3, <4>1, <4>2, <4>5, WindowIsAll DEF TypeOK
    <3>2. CASE JudgeAnswers
      BY <1>1, <2>1, <2>3, <3>2 DEF JudgeAnswers, CInv, DrainCovers, TypeOK
    <3>3. CASE StartDrain \/ NothingToClaim \/ DrainFull \/ JudgeFails
      <4>1. CASE JudgeFails
        <5>1. worker'.pc = "fail"
          BY <1>1, <4>1 DEF JudgeFails, TypeOK
        <5> QED BY <2>3, <5>1
      <4>2. CASE StartDrain \/ NothingToClaim \/ DrainFull
        <5>1. worker'.pc \in {"claim", "idle"}
          BY <4>2 DEF StartDrain, NothingToClaim, DrainFull, NoJob
        <5> QED BY <2>3, <5>1
      <4> QED BY <3>3, <4>1, <4>2
    <3> QED BY <3>1, <3>2, <3>3
  <2>4. /\ status[worker.job] \in {"processing", "ready"}
        /\ status[worker.job] = "ready" => ~(HasRead /\ enq.job = worker.job)
        /\ worker.end <= endTurn[worker.job]
        /\ \A t \in kept : worker.end < t /\ t <= endTurn[worker.job] =>
             t \in handled \cup lost \cup judged
    BY <2>1 DEF CInv, DrainCovers
  <2> QED BY <1>3, <2>1, <2>3, <2>4 DEF DrainCovers, HasRead
<1> QED BY <1>4, <1>5, <1>6 DEF CInv

\* Claiming a row: the copy covers all of it.
LEMMA ClaimCovers ==
  ASSUME IInv, CInv, ClaimJob
  PROVE  CInv'
<1>1. TypeOK /\ JobSpans BY DEF IInv
<1>2. PICK j \in Turn :
        /\ status[j] \in {"pending", "ready", "retry", "processing"}
        /\ status' = [status EXCEPT ![j] = "processing"]
        /\ worker' = [NoJob EXCEPT !.pc = "read", !.job = j, !.end = endTurn[j],
                                   !.attempt = attempts[j] + 1]
  BY DEF ClaimJob, Claimable
<1>3. UNCHANGED <<kept, handled, endTurn, said, enq, judged, lost>>
  BY DEF ClaimJob, historyVars
<1>4. /\ worker'.pc = "read" /\ worker'.job = j /\ worker'.end = endTurn[j]
      /\ status'[j] = "processing" /\ \A k \in Turn : k # j => status'[k] = status[k]
  BY <1>1, <1>2 DEF NoJob, TypeOK
<1>5. RowsStay /\ \A k \in Turn : Open(k) => Open(k)'
  BY <1>2, <1>3, <1>4 DEF RowsStay, Live, Open
<1>6. ErasedWithRow' /\ RowsFit' /\ NoExchangeForgotten'
  BY <1>3, <1>5, ExtentStays, OpenStays
<1>7. DrainIsBehind'
  <2>1. Live(j) /\ j \in Nat /\ endTurn[j] \in Nat /\ said \in Nat
    BY <1>1, <1>2, TurnFacts DEF Live, TypeOK
  <2>2. enq.pc # "idle" => j < said
    BY <1>1, <2>1 DEF JobSpans
  <2> QED BY <1>3, <1>4, <2>2 DEF DrainIsBehind
<1>8. DrainCovers'
  <2>1. /\ endTurn[j] <= endTurn[j]
        /\ \A t \in kept : ~(endTurn[j] < t /\ t <= endTurn[j])
    BY <1>1, TurnFacts DEF TypeOK
  <2> QED BY <1>3, <1>4, <2>1 DEF DrainCovers
<1> QED BY <1>6, <1>7, <1>8 DEF CInv

\* A row given up or put back is open; the drain holds nothing.
LEMMA FailCovers ==
  ASSUME IInv, CInv, FailJob
  PROVE  CInv'
<1>1. TypeOK BY DEF IInv
<1>2. UNCHANGED <<kept, handled, endTurn, said, enq, judged, lost>> /\ worker'.pc = "claim"
  BY DEF FailJob, JobDone, NoJob, historyVars
<1>3. RowsStay /\ \A k \in Turn : Open(k) => Open(k)'
  BY <1>1, <1>2 DEF FailJob, RowsStay, Live, Open, TypeOK
<1>4. ErasedWithRow' /\ RowsFit' /\ NoExchangeForgotten'
  BY <1>2, <1>3, ExtentStays, OpenStays
<1> QED BY <1>2, <1>4 DEF CInv, DrainIsBehind, DrainCovers, AtWork

\* The row is done: what it covers was in the request, or came later.
LEMMA ApplyCovers ==
  ASSUME IInv, CInv, ApplyDecisions
  PROVE  CInv'
<1> DEFINE row == worker.job
<1>1. TypeOK /\ DrainHasRow /\ DrainCovers /\ NoExchangeForgotten BY DEF IInv, CInv
<1>2. AtWork /\ row \in Turn /\ worker.end \in Turn /\ worker.pc = "apply"
  BY <1>1 DEF ApplyDecisions, AtWork, DrainHasRow
<1>3. /\ UNCHANGED <<kept, handled, endTurn, said, enq, lost>> /\ worker'.pc = "claim"
      /\ judged' = judged \cup worker.window
  BY DEF ApplyDecisions, JobDone, NoJob
<1>4. /\ \A j \in Turn : j # row => status'[j] = status[j]
      /\ Live(row) <=> status'[row] # "none"
      /\ status'[row] \in {"none", "succeeded"}
  BY <1>1, <1>2 DEF ApplyDecisions, Live, TypeOK
<1>5. RowsStay
  BY <1>3, <1>4 DEF RowsStay, Live
<1>6. ErasedWithRow' /\ RowsFit'
  BY <1>5, ExtentStays
<1>7. NoExchangeForgotten'
  <2> SUFFICES ASSUME NEW t \in kept \ (handled \cup lost), ~(enq.pc # "idle" /\ t = said),
                      t \notin judged, t \notin worker.window
               PROVE  \E j \in Turn : /\ status'[j] \notin {"none", "succeeded"}
                                      /\ j <= t /\ t <= endTurn[j]
    BY <1>3 DEF NoExchangeForgotten
  <2>1. PICK j \in Turn : /\ status[j] \notin {"none", "succeeded"}
                          /\ j <= t /\ t <= endTurn[j]
    BY <1>1 DEF NoExchangeForgotten
  <2>2. j # row
    <3> SUFFICES ASSUME j = row PROVE FALSE
      OBVIOUS
    <3>1. Live(row) BY <2>1 DEF Live
    <3>2. ~(worker.end < t)
      BY <1>1, <1>2, <2>1, <3>1 DEF DrainCovers
    <3>3. ~(t <= worker.end)
      BY <1>1, <1>2, <2>1, <3>1 DEF DrainCovers
    <3>4. t \in Nat /\ worker.end \in Nat
      BY <1>1, <1>2, TurnFacts DEF TypeOK
    <3> QED BY <3>2, <3>3, <3>4
  <2> QED BY <1>4, <2>1, <2>2
<1> QED BY <1>3, <1>6, <1>7 DEF CInv, DrainIsBehind, DrainCovers, AtWork

\* Requests, timers, waiting times and deleted memories change nothing here,
\* and neither does a step of nobody.
LEMMA QuietCovers ==
  ASSUME IInv, CInv, NEW t \in Turn,
         ProcessPending \/ TimerFires \/ TimePasses(t) \/ Forget(t) \/ UNCHANGED vars
  PROVE  CInv'
<1>1. UNCHANGED <<kept, handled, status, endTurn, said, enq, worker, judged, lost>>
  BY DEF ProcessPending, TimerFires, TimePasses, Forget, vars, tableVars, drainVars, historyVars
<1>2. ErasedWithRow' /\ RowsFit' /\ NoExchangeForgotten'
  BY <1>1, ExtentStays, OpenStays DEF RowsStay, Live, Open
<1>3. DrainIsBehind' /\ DrainCovers'
  BY <1>1 DEF CInv, DrainIsBehind, DrainCovers, AtWork, HasRead, Live
<1> QED BY <1>2, <1>3 DEF CInv

------------------------------------------------------------------------------
(* The enqueue *)

\* An exchange that is skipped was dealt with elsewhere or is not stored: no
\* row ends with it yet.
LEMMA SkipCovers ==
  ASSUME IInv, CInv, NothingToEnqueue
  PROVE  CInv'
<1>1. TypeOK /\ JobSpans /\ ExchangesInOrder BY DEF IInv
<1>2. /\ UNCHANGED <<kept, handled, status, endTurn, said, worker, judged, lost>>
      /\ enq.pc = "find" /\ enq'.pc = "idle"
  BY DEF NothingToEnqueue, EnqueueReturns, NoEnqueue, tableVars, drainVars, historyVars
<1>3. said \notin kept \/ said \in handled
  <2>1. \A j \in Turn : Live(j) => endTurn[j] # said
    BY <1>1, <1>2, TurnFacts DEF JobSpans, TypeOK
  <2> QED BY <2>1 DEF NothingToEnqueue, Skipped, Live
<1>4. NoExchangeForgotten'
  BY <1>2, <1>3 DEF CInv, NoExchangeForgotten
<1>5. ErasedWithRow' /\ RowsFit' /\ DrainIsBehind'
  BY <1>2 DEF CInv, ErasedWithRow, RowsFit, DrainIsBehind, HasRead, Live, Bounded, Fits
<1>6. DrainCovers'
  BY <1>2 DEF CInv, DrainCovers, AtWork, HasRead, Live
<1> QED BY <1>4, <1>5, <1>6 DEF CInv

\* The row that is found is pending, so it is not the one the drain holds.
LEMMA FindCovers ==
  ASSUME IInv, CInv, FindPending
  PROVE  CInv'
<1>1. /\ UNCHANGED <<kept, handled, status, endTurn, said, worker, judged, lost>>
      /\ enq.pc = "find"
  BY DEF FindPending, tableVars, drainVars, historyVars
<1>2. \/ enq'.pc = "insert"
      \/ enq'.pc = "measure" /\ enq'.job \in Turn /\ status[enq'.job] = "pending"
  BY DEF FindPending, PendingJobs
<1>3. NoExchangeForgotten'
  BY <1>1, <1>2 DEF CInv, NoExchangeForgotten
<1>4. ErasedWithRow' /\ RowsFit' /\ DrainIsBehind'
  BY <1>1, <1>2
     DEF CInv, ErasedWithRow, RowsFit, DrainIsBehind, AtWork, HasRead, Live, Bounded, Fits
<1>5. DrainCovers'
  <2> SUFFICES ASSUME AtWork, Live(worker.job)
               PROVE  DrainCovers'
    BY <1>1 DEF DrainCovers, AtWork, Live
  <2>1. status[worker.job] = "ready" => ~(HasRead' /\ enq'.job = worker.job)
    BY <1>2 DEF HasRead
  <2> QED BY <1>1, <2>1 DEF CInv, DrainCovers, HasRead
<1> QED BY <1>3, <1>4, <1>5 DEF CInv

\* A row is extended only when the measured window fits.
LEMMA MeasureCovers ==
  ASSUME IInv, CInv, MeasureWindow
  PROVE  CInv'
<1>1. TypeOK BY DEF IInv
<1>2. /\ UNCHANGED <<kept, handled, status, endTurn, said, worker, judged, lost>>
      /\ enq.pc = "measure" /\ enq'.job = enq.job /\ enq'.pc \in {"extend", "seal"}
      /\ enq'.pc = "extend" => Fits(Bounded(enq.job, said))
  BY <1>1 DEF MeasureWindow, TypeOK, tableVars, drainVars, historyVars
<1>3. NoExchangeForgotten'
  BY <1>2 DEF CInv, NoExchangeForgotten
<1>4. RowsFit'
  BY <1>2 DEF CInv, RowsFit, Live, Bounded, Fits
<1>5. ErasedWithRow' /\ DrainIsBehind'
  BY <1>2 DEF CInv, ErasedWithRow, DrainIsBehind, AtWork, HasRead, Live
<1>6. DrainCovers'
  BY <1>2 DEF CInv, DrainCovers, AtWork, HasRead, Live
<1> QED BY <1>3, <1>4, <1>5, <1>6 DEF CInv

\* The exchange is covered by the extended row, unless that row is with the
\* drain (lost) or gone (then the exchange is, too).
LEMMA ExtendCovers ==
  ASSUME IInv, CInv, ExtendJob
  PROVE  CInv'
<1> DEFINE row == enq.job
<1>1. /\ TypeOK /\ ExchangesInOrder /\ JobSpans /\ EnqueueKnowsLast /\ DrainHasRow
      /\ NoExchangeForgotten /\ DrainCovers
  BY DEF IInv, CInv
<1>2. /\ row \in Turn /\ said \in Turn /\ row < said /\ HasRead
      /\ \A k \in Turn : Live(row) /\ Live(k) => k <= row
  BY <1>1 DEF ExtendJob, HasRead, ExchangesInOrder, EnqueueKnowsLast
<1>3. /\ UNCHANGED <<kept, handled, status, said, worker, judged>>
      /\ enq.pc = "extend" /\ enq'.pc = "idle"
  BY DEF ExtendJob, AfterExtend, EnqueueReturns, NoEnqueue, drainVars
<1>4. /\ \A j \in Turn : endTurn'[j] = IF Live(j) /\ j = row THEN said ELSE endTurn[j]
      /\ lost' = IF status[row] \in {"processing", "succeeded"}
                   THEN lost \cup {said} ELSE lost
  BY <1>1, <1>2 DEF ExtendJob, TypeOK, Live
<1>5. \A j \in Turn : /\ Live(j)' <=> Live(j)
                      /\ Open(j)' <=> Open(j)
                      /\ j \in Nat /\ endTurn[j] \in Nat /\ endTurn'[j] \in Nat
                      /\ Live(j) => endTurn[j] <= endTurn'[j]
  BY <1>1, <1>2, <1>3, <1>4, TurnFacts DEF JobSpans, TypeOK, Live, Open
<1>6. \A t \in kept : t \in Nat /\ t <= said
  BY <1>1, TurnFacts DEF ExchangesInOrder, TypeOK
<1>7. NoExchangeForgotten'
  <2> SUFFICES ASSUME NEW t \in kept \ (handled \cup lost'), t \notin judged
               PROVE  \E j \in Turn : Open(j) /\ j <= t /\ t <= endTurn'[j]
    BY <1>3 DEF NoExchangeForgotten, Open
  <2>1. t \notin lost
    BY <1>4
  <2>2. CASE t = said
    <3>1. Live(row)
      BY <1>2, <2>2 DEF CInv, ErasedWithRow
    <3>2. Open(row) /\ endTurn'[row] = said
      BY <1>2, <1>4, <2>2, <3>1 DEF Live, Open
    <3> QED BY <1>2, <1>5, <1>6, <2>2, <3>2
  <2>3. CASE t # said
    <3>1. PICK j \in Turn : Open(j) /\ j <= t /\ t <= endTurn[j]
      BY <1>1, <2>1, <2>3 DEF NoExchangeForgotten, Open
    <3>2. Live(j) BY <3>1 DEF Open, Live
    <3> QED BY <1>5, <1>6, <3>1, <3>2
  <2> QED BY <2>2, <2>3
<1>8. RowsFit'
  <2> SUFFICES ASSUME NEW j \in Turn, Live(j)
               PROVE  Fits(Bounded(j, endTurn'[j]))
    BY <1>3, <1>5 DEF RowsFit, Bounded, Fits
  <2>1. CASE j = row BY <1>3, <1>4, <2>1 DEF CInv, RowsFit
  <2>2. CASE j # row BY <1>4, <2>2 DEF CInv, RowsFit
  <2> QED BY <2>1, <2>2
<1>9. ErasedWithRow' /\ DrainIsBehind'
  BY <1>3 DEF ErasedWithRow, DrainIsBehind, HasRead
<1>10. DrainCovers'
  <2> SUFFICES ASSUME AtWork, Live(worker.job)
               PROVE  DrainCovers'
    BY <1>3 DEF DrainCovers, AtWork, Live
  <2>1. worker.job \in Turn /\ worker.end \in Turn /\ worker.end \in Nat
    BY <1>1, TurnFacts DEF DrainHasRow
  <2>2. ASSUME NEW t \in kept, worker.end < t, t <= endTurn'[worker.job]
        PROVE  t \in handled \cup lost' \cup judged
    <3>1. CASE t <= endTurn[worker.job]
      BY <1>1, <1>4, <2>2, <3>1 DEF DrainCovers
    <3>2. CASE ~(t <= endTurn[worker.job])
      <4>1. worker.job = row /\ Live(row)
        BY <1>4, <2>1, <2>2, <3>2
      <4>2. status[row] = "processing"
        BY <1>1, <1>2, <4>1 DEF DrainCovers
      <4>3. CASE t = said
        BY <1>4, <4>2, <4>3
      <4>4. CASE t # said
        <5>1. ASSUME NEW j \in Turn, Open(j), j <= t, t <= endTurn[j]
              PROVE  FALSE
          <6>1. Live(j) /\ j <= row
            BY <1>2, <4>1, <5>1 DEF Open, Live
          <6>2. j # row
            BY <3>2, <4>1, <5>1
          <6>3. endTurn[j] < row
            BY <1>2, <1>5, <4>1, <6>1, <6>2 DEF IInv, OneJobPerExchange
          <6>4. row <= endTurn[row]
            BY <1>1, <1>2, <4>1 DEF JobSpans
          <6> QED BY <1>2, <1>5, <1>6, <3>2, <4>1, <5>1, <6>3, <6>4
        <5> QED BY <1>1, <1>4, <4>4, <5>1 DEF NoExchangeForgotten, Open
      <4> QED BY <4>3, <4>4
    <3> QED BY <3>1, <3>2
  <2>3. worker.end <= endTurn'[worker.job]
    BY <1>1, <1>5, <2>1 DEF DrainCovers
  <2> QED BY <1>1, <1>3, <2>2, <2>3 DEF DrainCovers, HasRead
<1> QED BY <1>7, <1>8, <1>9, <1>10 DEF CInv

\* A sealed row is open, and the exchange waits to be inserted.
LEMMA SealCovers ==
  ASSUME IInv, CInv, SealJob
  PROVE  CInv'
<1>1. TypeOK /\ DrainHasRow BY DEF IInv
<1>2. /\ UNCHANGED <<kept, handled, endTurn, said, worker, judged, lost>>
      /\ enq.pc = "seal" /\ enq'.pc = "insert"
  BY DEF SealJob, drainVars, historyVars
<1>3. \A j \in Turn : /\ Live(j)' <=> Live(j)
                      /\ Open(j) => Open(j)'
                      /\ status'[j] \in {status[j], "ready"}
  BY <1>1 DEF SealJob, Live, Open, TypeOK
<1>4. NoExchangeForgotten'
  <2> SUFFICES ASSUME NEW t \in kept \ (handled \cup lost), t # said, t \notin judged
               PROVE  \E j \in Turn : Open(j)' /\ j <= t /\ t <= endTurn[j]
    BY <1>2 DEF NoExchangeForgotten, Open
  <2> QED BY <1>3 DEF CInv, NoExchangeForgotten, Open
<1>5. RowsFit'
  BY <1>2, <1>3 DEF CInv, RowsFit, Bounded, Fits
<1>6. ErasedWithRow' /\ DrainIsBehind'
  BY <1>2 DEF CInv, ErasedWithRow, DrainIsBehind, AtWork, HasRead
<1>7. DrainCovers'
  BY <1>1, <1>2, <1>3 DEF CInv, DrainCovers, DrainHasRow, AtWork, HasRead
<1> QED BY <1>4, <1>5, <1>6, <1>7 DEF CInv

\* The new row covers the exchange, and is none the drain holds.
LEMMA InsertCovers ==
  ASSUME IInv, CInv, InsertJob
  PROVE  CInv'
<1>1. TypeOK /\ ExchangesInOrder /\ JobSpans /\ DrainHasRow BY DEF IInv
<1>2. said \in Turn /\ said \in Nat /\ enq.pc = "insert" /\ enq'.pc = "idle"
  BY <1>1, TurnFacts DEF InsertJob, EnqueueReturns, NoEnqueue, ExchangesInOrder
<1>3. UNCHANGED <<kept, handled, said, worker, judged, lost>>
  BY DEF InsertJob, drainVars, historyVars
<1>4. /\ status'[said] = "pending" /\ endTurn'[said] = said
      /\ \A j \in Turn : j # said => status'[j] = status[j] /\ endTurn'[j] = endTurn[j]
  BY <1>1, <1>2 DEF InsertJob, TypeOK
<1>5. ~Live(said)
  BY <1>1, <1>2, TurnFacts DEF JobSpans, TypeOK
<1>6. NoExchangeForgotten'
  <2> SUFFICES ASSUME NEW t \in kept \ (handled \cup lost), t \notin judged
               PROVE  \E j \in Turn : Open(j)' /\ j <= t /\ t <= endTurn'[j]
    BY <1>3 DEF NoExchangeForgotten, Open
  <2>1. CASE t = said
    BY <1>2, <1>4, <2>1 DEF Open
  <2>2. CASE t # said
    <3>1. PICK j \in Turn : Open(j) /\ j <= t /\ t <= endTurn[j]
      BY <2>2 DEF CInv, NoExchangeForgotten, Open
    <3>2. j # said BY <1>5, <3>1 DEF Open, Live
    <3> QED BY <1>4, <3>1, <3>2 DEF Open
  <2> QED BY <2>1, <2>2
<1>7. RowsFit'
  <2> SUFFICES ASSUME NEW j \in Turn, status'[j] # "none"
               PROVE  Fits(Bounded(j, endTurn'[j]))
    BY <1>2, <1>3 DEF RowsFit, Bounded, Fits, Live
  <2>1. CASE j # said
    BY <1>4, <2>1 DEF CInv, RowsFit, Live
  <2>2. CASE j = said
    <3>1. Bounded(said, said) \subseteq {said}
      <4>1. \A t \in kept : said <= t /\ t <= said => t = said
        BY <1>1, <1>2, TurnFacts DEF TypeOK
      <4> QED BY <4>1 DEF Bounded
    <3>2. IsFiniteSet({said}) /\ Cardinality({said}) = 1
      BY FS_Singleton
    <3>3. Cardinality(Bounded(said, said)) <= 1
      BY <3>1, <3>2, FS_Subset
    <3>4. Cardinality(Bounded(said, said)) \in Nat
      BY <1>1, KeptFinite DEF Bounded, TypeOK
    <3>5. Fits(Bounded(said, said))
      BY <3>3, <3>4, JobsAssumption DEF Fits
    <3> QED BY <1>4, <2>2, <3>5
  <2> QED BY <2>1, <2>2
<1>8. ErasedWithRow' /\ DrainIsBehind'
  BY <1>2 DEF ErasedWithRow, DrainIsBehind, HasRead
<1>9. DrainCovers'
  <2> SUFFICES ASSUME AtWork, status'[worker.job] # "none"
               PROVE  DrainCovers'
    BY <1>3 DEF DrainCovers, AtWork, Live
  <2>1. worker.job \in Turn /\ worker.job # said
    BY <1>1, <1>2, TurnFacts DEF CInv, DrainIsBehind, DrainHasRow
  <2> QED BY <1>2, <1>3, <1>4, <2>1 DEF CInv, DrainCovers, HasRead, Live, AtWork
<1> QED BY <1>6, <1>7, <1>8, <1>9 DEF CInv

------------------------------------------------------------------------------
(* The user and the process *)

\* A new exchange comes after all rows, and is being enqueued.
LEMMA CompleteCovers ==
  ASSUME IInv, CInv, NEW exact \in BOOLEAN, CompleteExchange(exact)
  PROVE  CInv'
<1>1. TypeOK /\ ExchangesInOrder /\ JobSpans /\ DrainHasRow BY DEF IInv
<1>2. UNCHANGED <<status, endTurn, worker, judged, lost>>
  BY DEF CompleteExchange, tableVars, drainVars, historyVars
<1>3. /\ said \in Nat /\ said' = said + 1 /\ kept' = kept \cup {said'}
      /\ enq.pc = "idle" /\ enq'.pc = "find" /\ handled \subseteq handled'
  BY <1>1, JobsAssumption DEF CompleteExchange, TypeOK
<1>4. \A j \in Turn : /\ j \in Nat /\ endTurn[j] \in Nat
                      /\ Live(j) => j < said' /\ endTurn[j] < said'
  BY <1>1, <1>3, TurnFacts DEF JobSpans, TypeOK
<1>5. NoExchangeForgotten'
  <2> SUFFICES ASSUME NEW t \in kept \ (handled \cup lost), t \notin judged
               PROVE  \E j \in Turn : Open(j) /\ j <= t /\ t <= endTurn[j]
    BY <1>2, <1>3 DEF NoExchangeForgotten, Open
  <2> QED BY <1>3 DEF CInv, NoExchangeForgotten, Open
<1>6. RowsFit'
  <2> SUFFICES ASSUME NEW j \in Turn, Live(j)
               PROVE  Fits(Bounded(j, endTurn[j])')
    BY <1>2, <1>3 DEF RowsFit, Fits, Live
  <2>1. Bounded(j, endTurn[j])' = Bounded(j, endTurn[j])
    <3>1. j \in kept' <=> j \in kept
      BY <1>3, <1>4
    <3>2. ~(said' <= endTurn[j])
      BY <1>3, <1>4
    <3>3. {t \in kept' : j <= t /\ t <= endTurn[j]} = {t \in kept : j <= t /\ t <= endTurn[j]}
      BY <1>3, <3>2
    <3> QED BY <1>2, <3>1, <3>3 DEF Bounded
  <2> QED BY <2>1 DEF CInv, RowsFit
<1>7. ErasedWithRow' /\ DrainIsBehind'
  BY <1>1, <1>2, <1>3, TurnFacts
     DEF ErasedWithRow, DrainIsBehind, HasRead, AtWork, ExchangesInOrder, DrainHasRow
<1>8. DrainCovers'
  <2> SUFFICES ASSUME AtWork, Live(worker.job)
               PROVE  DrainCovers'
    BY <1>2 DEF DrainCovers, AtWork, Live
  <2>1. worker.job \in Turn /\ worker.end \in Nat
    BY <1>1, TurnFacts DEF DrainHasRow
  <2>2. worker.end <= endTurn[worker.job] /\ endTurn[worker.job] < said'
    BY <1>4, <2>1 DEF CInv, DrainCovers
  <2>3. ~(said' <= endTurn[worker.job]) /\ ~(said' <= worker.end)
    BY <1>3, <1>4, <2>1, <2>2
  <2> QED BY <1>2, <1>3, <2>3 DEF CInv, DrainCovers, HasRead, AtWork, Live
<1> QED BY <1>5, <1>6, <1>7, <1>8 DEF CInv

\* Nothing is left to forget.
LEMMA ClearCovers ==
  ASSUME IInv, CInv, ClearHistory
  PROVE  CInv'
<1>1. /\ kept' = {} /\ UNCHANGED <<said, enq, worker>>
      /\ \A j \in Turn : ~Live(j)'
  BY DEF ClearHistory, drainVars, Live
<1>2. NoExchangeForgotten' /\ ErasedWithRow'
  BY <1>1 DEF NoExchangeForgotten, ErasedWithRow
<1>3. RowsFit'
  <2>1. Fits({}) BY FS_EmptySet, JobsAssumption DEF Fits
  <2>2. \A first, last : Bounded(first, last)' = {} BY <1>1 DEF Bounded
  <2> QED BY <1>1, <2>1, <2>2 DEF RowsFit, Fits, Bounded
<1>4. DrainIsBehind' /\ DrainCovers'
  BY <1>1 DEF IInv, CInv, DrainIsBehind, DrainCovers, DrainHasRow, AtWork, Live
<1> QED BY <1>2, <1>3, <1>4 DEF CInv

\* An exchange whose enqueue is cut off counts as lost.
LEMMA RestartCovers ==
  ASSUME IInv, CInv, Restart
  PROVE  CInv'
<1>1. /\ UNCHANGED <<kept, handled, status, endTurn, said, judged>>
      /\ enq'.pc = "idle" /\ worker'.pc = "idle"
      /\ lost' = IF enq.pc = "idle" THEN lost ELSE lost \cup {said}
  BY DEF Restart, NoEnqueue, NoJob, tableVars
<1>2. NoExchangeForgotten'
  BY <1>1 DEF CInv, NoExchangeForgotten
<1>3. RowsFit'
  BY <1>1 DEF CInv, RowsFit, Live, Bounded, Fits
<1> QED BY <1>1, <1>2, <1>3 DEF CInv, ErasedWithRow, DrainIsBehind, DrainCovers, HasRead, AtWork

------------------------------------------------------------------------------
(* The theorem *)

\* Of an empty database nothing can be forgotten.
LEMMA InitCovers == Init => CInv
<1> SUFFICES ASSUME Init PROVE CInv
  OBVIOUS
<1>1. /\ enq.pc = "idle" /\ worker.pc = "idle" /\ kept = {}
      /\ \A j \in Turn : status[j] = "none"
  BY DEF Init, NoEnqueue, NoJob
<1> QED
  BY <1>1 DEF CInv, DrainIsBehind, ErasedWithRow, RowsFit, DrainCovers, NoExchangeForgotten,
              AtWork, HasRead, Live

\* Every step keeps track of every exchange.
LEMMA NextCovers == IInv /\ CInv /\ [Next]_vars => CInv'
<1> SUFFICES ASSUME IInv, CInv, [Next]_vars PROVE CInv'
  OBVIOUS
<1>1. ASSUME NEW exact \in BOOLEAN, CompleteExchange(exact) PROVE CInv'
  BY <1>1, CompleteCovers
<1>2. CASE Enqueue
  BY <1>2, SkipCovers, FindCovers, MeasureCovers, ExtendCovers, SealCovers, InsertCovers
     DEF Enqueue
<1>3. CASE Drain
  BY <1>3, DrainMovesCover, ClaimCovers, ApplyCovers, FailCovers DEF Drain
<1>4. CASE ProcessPending \/ TimerFires \/ UNCHANGED vars
  <2>1. 1 \in Turn BY JobsAssumption DEF Turn
  <2> QED BY <1>4, <2>1, QuietCovers
<1>5. ASSUME NEW t \in Turn, TimePasses(t) \/ Forget(t) PROVE CInv'
  BY <1>5, QuietCovers
<1>6. CASE ClearHistory BY <1>6, ClearCovers
<1>7. CASE Restart BY <1>7, RestartCovers
<1> QED BY <1>1, <1>2, <1>3, <1>4, <1>5, <1>6, <1>7 DEF Next

\* Every stored exchange is being enqueued, waits in a row, was part of an
\* applied window or is in a row that was given up, unless it is one of those
\* the code drops in two known ways: whatever the order of enqueue, drain, Clear
\* History and restarts, and however many exchanges a row takes.
THEOREM NothingForgotten == Spec => []NoExchangeForgotten
<1>1. Init => CInv BY InitCovers
<1>2. IInv /\ CInv /\ [Next]_vars => CInv' BY NextCovers
<1>3. CInv => NoExchangeForgotten BY DEF CInv
<1>4. Spec => []IInv BY Invariance
<1> QED BY <1>1, <1>2, <1>3, <1>4, PTL DEF Spec

==============================================================================
