-------------------------- MODULE JobBudgetProofs --------------------------
(***************************************************************************)
(* RetryPolicy, RowsMatchHistory and ImplementsLifecycle for every value   *)
(* of the constants.                                                       *)
(*                                                                         *)
(* The properties speak of jobs at rest.  A job that is being tried has    *)
(* two more forms: before its outcome it is as it was when it was queued,  *)
(* and between the outcome and the routing its history is one longer.      *)
(* Saying so makes the invariant of the budget inductive; that of the      *)
(* attempt log stands on it, and on no two places sharing a stamp, and so  *)
(* does the life cycle, which needs besides that what is closed is live    *)
(* nowhere.                                                                *)
(***************************************************************************)
EXTENDS JobPipelineProofs

\* A job that may be tried: every failure so far earned the next attempt.
Fit(j) ==
    /\ j.attempt = Len(j.attempt_history) + 1
    /\ j.attempt <= MaxAttempts
    /\ Retriable(j.attempt_history, Len(j.attempt_history))

\* A job that has just failed and is not yet routed.
Failed(j) ==
    /\ j.attempt = Len(j.attempt_history)
    /\ j.attempt <= MaxAttempts
    /\ Retriable(j.attempt_history, Len(j.attempt_history) - 1)

Spent(d) ==
    /\ Len(d.attempts) \in 1..MaxAttempts
    /\ Retriable(d.attempts, Len(d.attempts) - 1)
    /\ Retriable(d.attempts, Len(d.attempts)) => Len(d.attempts) = MaxAttempts

MainFit == \A i \in DOMAIN main : Fit(main[i])
DelayedFit == \A j \in delayed : Fit(j)
DeadSpent == \A d \in dead : Spent(d)
HandFit ==
    \A w \in Workers : /\ loop[w] \in {"scrape", "alert"} => Fit(hand[w])
                       /\ loop[w] = "route" => Failed(hand[w])
LiftFit == \A w \in Workers : lift[w] # NoJob => Fit(lift[w])

Budget == MainFit /\ DelayedFit /\ DeadSpent /\ HandFit /\ LiftFit

-----------------------------------------------------------------------------
(* The routing decision.                                                   *)

LEMMA FreshFit ==
  ASSUME NEW id \in Stamp, NEW stamp \in Stamp
  PROVE  Fit(FreshJob(id, stamp))
  BY FreshJobType, ConstantsAssumption DEF Fit, Retriable

\* An attempt that fails.
LEMMA FailureIsFailed ==
  ASSUME NEW job \in Job, NEW error \in ErrorTypes, Fit(job)
  PROVE  Failed([job EXCEPT !.attempt_history = Append(@, error)])
  <1> DEFINE h == job.attempt_history
             failed == [job EXCEPT !.attempt_history = Append(@, error)]
  <1>1. /\ failed.attempt = job.attempt
        /\ failed.attempt_history = Append(h, error)
        /\ h \in Seq(ErrorTypes)
    BY FailedJobType DEF Job
  <1>2. /\ Len(Append(h, error)) = Len(h) + 1 /\ Len(h) \in Nat
        /\ \A i \in 1..Len(h) : Append(h, error)[i] = h[i]
    BY <1>1
  <1>3. Retriable(Append(h, error), Len(h))
    BY <1>2 DEF Fit, Retriable
  <1>4. Len(Append(h, error)) - 1 = Len(h)
    BY <1>2
  <1> HIDE DEF failed, h
  <1> QED BY <1>1, <1>2, <1>3, <1>4 DEF Fit, Failed, h

\* A failure that is not given up on leaves a job that may be tried again.
LEMMA RetryIsFit ==
  ASSUME NEW job \in Job, Failed(job), ~GivesUp(job)
  PROVE  Fit([job EXCEPT !.attempt = @ + 1])
  <1> DEFINE h == job.attempt_history
             next == [job EXCEPT !.attempt = @ + 1]
  <1>1. next.attempt = job.attempt + 1 /\ next.attempt_history = h
    BY RetriedJobType
  <1>2. /\ h \in Seq(ErrorTypes) /\ job.attempt \in Nat \ {0}
        /\ Len(h) = job.attempt /\ Len(h) \in 1..Len(h)
        /\ \A i \in 1..Len(h) : h[i] \in ErrorTypes
    BY DEF Job, Failed
  <1>3. /\ h[Len(h)] \notin {"Terminal", "Unclassified"}
        /\ ~(h[Len(h)] = "Selector" /\ Len(h) > 1 /\ h[Len(h) - 1] = "Selector")
        /\ ~(job.attempt >= MaxAttempts)
    BY DEF GivesUp
  <1>4. h[Len(h)] \in {"Retryable", "Selector"}
    BY <1>2, <1>3 DEF ErrorTypes
  <1>5. Retriable(h, Len(h))
    <2> SUFFICES ASSUME NEW i \in 1..Len(h)
                 PROVE  /\ h[i] \in {"Retryable", "Selector"}
                        /\ ~(i > 1 /\ h[i - 1] = "Selector" /\ h[i] = "Selector")
      BY DEF Retriable
    <2>1. CASE i = Len(h)
      BY <2>1, <1>3, <1>4
    <2>2. CASE i \in 1..(Len(h) - 1)
      BY <2>2 DEF Failed, Retriable
    <2>3. i = Len(h) \/ i \in 1..(Len(h) - 1)
      BY <1>2
    <2> QED BY <2>1, <2>2, <2>3
  <1>6. job.attempt + 1 <= MaxAttempts
    BY <1>2, <1>3, ConstantsAssumption
  <1> HIDE DEF next, h
  <1>7. Fit(next)
    BY <1>1, <1>2, <1>5, <1>6 DEF Fit
  <1> QED BY <1>7 DEF next

\* A failure that is given up on leaves a dead letter with its budget spent.
LEMMA GivenUpIsSpent ==
  ASSUME NEW job \in Job, Failed(job), GivesUp(job)
  PROVE  Spent(DeadLetterOf(job))
  <1> DEFINE h == job.attempt_history
             n == Len(h)
  <1>1. DeadLetterOf(job).attempts = h
    BY DeadLetterType
  <1>2. /\ h \in Seq(ErrorTypes) /\ job.attempt \in Nat \ {0} /\ n = job.attempt
        /\ n \in 1..MaxAttempts /\ n \in 1..n
    BY ConstantsAssumption DEF Job, Failed
  <1>3. Retriable(h, n - 1)
    BY DEF Failed
  <1>4. ASSUME Retriable(h, n) PROVE n = MaxAttempts
    <2>1. /\ h[n] \notin {"Terminal", "Unclassified"}
          /\ ~(n > 1 /\ h[n - 1] = "Selector" /\ h[n] = "Selector")
      BY <1>2, <1>4 DEF Retriable
    <2>2. job.attempt >= MaxAttempts
      BY <2>1 DEF GivesUp
    <2> QED BY <1>2, <2>2, ConstantsAssumption
  <1> HIDE DEF h, n
  <1> QED BY <1>1, <1>2, <1>3, <1>4 DEF Spent, n, h

-----------------------------------------------------------------------------
(* The invariant.                                                          *)

Inv3 == Inv1 /\ Budget

LEMMA InitBudget == Init => Budget
  BY DEF Init, Budget, MainFit, DelayedFit, DeadSpent, HandFit, LiftFit

\* Steps that leave the jobs and the worker loops alone.
LEMMA StillBudget ==
  ASSUME Budget, UNCHANGED <<main, hand, loop>>,
         delayed' \subseteq delayed, dead' \subseteq dead,
         \A w \in Workers : lift'[w] # NoJob => lift'[w] = lift[w]
  PROVE  Budget'
  BY DEF Budget, MainFit, DelayedFit, DeadSpent, HandFit, LiftFit

\* RPUSH of a job that may be tried.
LEMMA PushFit ==
  ASSUME MainFit, NEW S, main \in Seq(S), NEW job \in S, Fit(job),
         main' = Append(main, job)
  PROVE  MainFit'
  <1> SUFFICES ASSUME NEW i \in DOMAIN main' PROVE Fit(main'[i])
    BY DEF MainFit, Fit
  <1>1. i \in DOMAIN main \/ i = Len(main) + 1
    BY AppendFacts
  <1>2. CASE i \in DOMAIN main
    BY <1>2, AppendFacts DEF MainFit
  <1>3. CASE i = Len(main) + 1
    BY <1>3, AppendFacts
  <1> QED BY <1>1, <1>2, <1>3

LEMMA StepBudget == Inv3 /\ [Next]_vars => Budget'
  <1> SUFFICES ASSUME Inv3, [Next]_vars PROVE Budget'
    OBVIOUS
  <1> USE DEF Inv3, Inv1
  <1>1. CASE EnqueueJob
    <2>1. pushes + 1 \in Stamp
      BY DEF TypeOK, Stamp
    <2> DEFINE job == FreshJob(pushes + 1, pushes + 1)
    <2>2. job \in Job /\ Fit(job)
      BY <2>1, FreshJobType, FreshFit
    <2>3. main' = Append(main, job) /\ UNCHANGED <<delayed, dead, loop, hand, lift>>
      BY <1>1 DEF EnqueueJob, worker, promoter
    <2> HIDE DEF job
    <2>4. MainFit'
      BY <2>2, <2>3, PushFit DEF TypeOK, Budget
    <2> QED BY <2>3, <2>4 DEF Budget, DelayedFit, DeadSpent, HandFit, LiftFit
  <1>2. ASSUME NEW d \in dead, PurgeDeadLetter(d) PROVE Budget'
    BY <1>2, StillBudget DEF PurgeDeadLetter, worker, promoter
  <1>3. ASSUME NEW r \in Requests, Replay(r) PROVE Budget'
    <2>1. ASSUME NEW d \in dead, ReplayRead(r, d) PROVE Budget'
      BY <2>1, StillBudget DEF ReplayRead, redis, worker, promoter
    <2>2. CASE ReplayPush(r)
      <3>1. record[r].job_id \in Stamp /\ pushes + 1 \in Stamp
        BY <2>2 DEF ReplayPush, TypeOK, DeadRecord, Stamp
      <3> DEFINE job == FreshJob(record[r].job_id, pushes + 1)
      <3>2. job \in Job /\ Fit(job)
        BY <3>1, FreshJobType, FreshFit
      <3>3. main' = Append(main, job) /\ UNCHANGED <<delayed, dead, loop, hand, lift>>
        BY <2>2 DEF ReplayPush, worker, promoter
      <3> HIDE DEF job
      <3>4. MainFit'
        BY <3>2, <3>3, PushFit DEF TypeOK, Budget
      <3> QED BY <3>3, <3>4 DEF Budget, DelayedFit, DeadSpent, HandFit, LiftFit
    <2>3. CASE ReplayRemove(r)
      BY <2>3, StillBudget DEF ReplayRemove, worker, promoter
    <2>4. CASE AbortReplay(r)
      BY <2>4, StillBudget DEF AbortReplay, redis, worker, promoter
    <2> QED BY <1>3, <2>1, <2>2, <2>3, <2>4 DEF Replay
  <1>4. ASSUME NEW w \in Workers, Dequeue(w) PROVE Budget'
    <2>1. /\ main \in Seq(Job) /\ main # <<>> /\ main' = Tail(main)
          /\ hand' = [hand EXCEPT ![w] = main[1]]
          /\ loop' = [loop EXCEPT ![w] = "scrape"]
          /\ UNCHANGED <<delayed, dead, lift>>
      BY <1>4, PopFacts DEF Dequeue, TypeOK, promoter
    <2>2. MainFit'
      BY <2>1, PopFacts DEF Budget, MainFit
    <2>3. Fit(main[1])
      BY <2>1, PopFacts DEF Budget, MainFit
    <2>4. HandFit'
      BY <2>1, <2>3 DEF Budget, HandFit, TypeOK
    <2> QED BY <2>1, <2>2, <2>4 DEF Budget, DelayedFit, DeadSpent, LiftFit
  <1>5. ASSUME NEW w \in Workers, PollTimeout(w) PROVE Budget'
    <2>1. HandFit'
      BY <1>5 DEF PollTimeout, NextTurn, Budget, HandFit, TypeOK
    <2> QED
      BY <1>5, <2>1 DEF PollTimeout, redis, promoter,
                        Budget, MainFit, DelayedFit, DeadSpent, LiftFit
  <1>6. ASSUME NEW w \in Workers, HandleSuccess(w) PROVE Budget'
    <2>1. HandFit'
      BY <1>6 DEF HandleSuccess, Budget, HandFit, TypeOK
    <2> QED
      BY <1>6, <2>1 DEF HandleSuccess, redis, promoter,
                        Budget, MainFit, DelayedFit, DeadSpent, LiftFit
  <1>7. ASSUME NEW w \in Workers, AlertsDone(w) PROVE Budget'
    <2>1. HandFit'
      BY <1>7 DEF AlertsDone, NextTurn, Budget, HandFit, TypeOK
    <2> QED
      BY <1>7, <2>1 DEF AlertsDone, redis, promoter,
                        Budget, MainFit, DelayedFit, DeadSpent, LiftFit
  <1>8. ASSUME NEW w \in Workers, NEW error \in Errors, RecordFailure(w, error)
        PROVE Budget'
    <2>1. hand[w] \in Job /\ error \in ErrorTypes /\ Fit(hand[w])
      BY <1>8, ConstantsAssumption DEF RecordFailure, TypeOK, Budget, HandFit
    <2> DEFINE failed == [hand[w] EXCEPT !.attempt_history = Append(@, error)]
    <2>2. Failed(failed)
      BY <2>1, FailureIsFailed
    <2>3. /\ hand' = [hand EXCEPT ![w] = failed]
          /\ loop' = [loop EXCEPT ![w] = "route"]
          /\ UNCHANGED <<main, delayed, dead, lift>>
      BY <1>8 DEF RecordFailure, redis, promoter, TypeOK
    <2> HIDE DEF failed
    <2>4. HandFit'
      BY <2>2, <2>3 DEF Budget, HandFit, TypeOK
    <2> QED BY <2>3, <2>4 DEF Budget, MainFit, DelayedFit, DeadSpent, LiftFit
  <1>9. ASSUME NEW w \in Workers, DeadLetter(w) PROVE Budget'
    <2>1. /\ hand[w] \in Job /\ Failed(hand[w]) /\ GivesUp(hand[w])
          /\ dead' \subseteq dead \cup {DeadLetterOf(hand[w])}
          /\ UNCHANGED <<main, delayed, lift>>
      BY <1>9 DEF DeadLetter, TypeOK, Budget, HandFit, promoter
    <2>2. DeadSpent'
      BY <2>1, GivenUpIsSpent DEF Budget, DeadSpent
    <2>3. HandFit'
      BY <1>9 DEF DeadLetter, NextTurn, Budget, HandFit, TypeOK
    <2> QED BY <2>1, <2>2, <2>3 DEF Budget, MainFit, DelayedFit, LiftFit
  <1>10. ASSUME NEW w \in Workers, ScheduleRetry(w) PROVE Budget'
    <2> DEFINE next == [hand[w] EXCEPT !.attempt = @ + 1]
    <2>1. /\ hand[w] \in Job /\ Failed(hand[w]) /\ ~GivesUp(hand[w])
          /\ delayed' = delayed \cup {next}
          /\ UNCHANGED <<main, dead, lift>>
      BY <1>10 DEF ScheduleRetry, TypeOK, Budget, HandFit, promoter
    <2>2. Fit(next)
      BY <2>1, RetryIsFit
    <2> HIDE DEF next
    <2>3. DelayedFit'
      BY <2>1, <2>2 DEF Budget, DelayedFit
    <2>4. HandFit'
      BY <1>10 DEF ScheduleRetry, NextTurn, Budget, HandFit, TypeOK
    <2> QED BY <2>1, <2>3, <2>4 DEF Budget, MainFit, DeadSpent, LiftFit
  <1>11. ASSUME NEW w \in Workers, FetchDue(w) \/ PromoterTurn(w) PROVE Budget'
    BY <1>11, StillBudget DEF FetchDue, PromoterTurn, redis, worker
  <1>12. ASSUME NEW w \in Workers, NEW job \in batch[w], RemoveDelayed(w, job)
         PROVE Budget'
    <2>1. CASE job \notin delayed
      BY <1>12, <2>1, StillBudget DEF RemoveDelayed, worker
    <2>2. CASE job \in delayed
      <3>1. /\ delayed' = delayed \ {job}
            /\ lift' = [lift EXCEPT ![w] = job]
            /\ UNCHANGED <<main, dead, loop, hand>>
        BY <1>12, <2>2 DEF RemoveDelayed, worker
      <3>2. LiftFit'
        BY <2>2, <3>1 DEF Budget, DelayedFit, LiftFit, TypeOK
      <3> QED BY <3>1, <3>2 DEF Budget, MainFit, DelayedFit, DeadSpent, HandFit
    <2> QED BY <2>1, <2>2
  <1>13. ASSUME NEW w \in Workers, PushPromoted(w) PROVE Budget'
    <2>1. /\ main \in Seq(Job) /\ lift[w] \in Job /\ Fit(lift[w])
          /\ main' = Append(main, lift[w])
          /\ lift' = [lift EXCEPT ![w] = NoJob]
          /\ UNCHANGED <<delayed, dead, loop, hand>>
      BY <1>13 DEF PushPromoted, TypeOK, Budget, LiftFit, worker
    <2>2. MainFit'
      BY <2>1, PushFit DEF Budget
    <2>3. LiftFit'
      BY <2>1 DEF Budget, LiftFit, TypeOK
    <2> QED BY <2>1, <2>2, <2>3 DEF Budget, DelayedFit, DeadSpent, HandFit
  <1>14. ASSUME NEW w \in Workers, Process(w) PROVE Budget'
    <2>1. CASE Sigterm(w) \/ GracefulExit(w)
      BY <2>1, StillBudget DEF Sigterm, GracefulExit, redis, worker, promoter
    <2>2. CASE Crash(w)
      BY <2>2 DEF Crash, redis, TypeOK,
                  Budget, MainFit, DelayedFit, DeadSpent, HandFit, LiftFit
    <2>3. CASE Restart(w)
      BY <2>3 DEF Restart, redis, TypeOK,
                  Budget, MainFit, DelayedFit, DeadSpent, HandFit, LiftFit
    <2> QED BY <1>14, <2>1, <2>2, <2>3 DEF Process
  <1>15. ASSUME NEW job \in delayed, BackoffElapses(job) PROVE Budget'
    BY <1>15, StillBudget DEF BackoffElapses, worker, promoter
  <1>16. CASE UNCHANGED vars
    BY <1>16, StillBudget DEF vars, redis, worker, promoter
  <1> QED
    BY <1>1, <1>2, <1>3, <1>4, <1>5, <1>6, <1>7, <1>8, <1>9, <1>10, <1>11, <1>12,
       <1>13, <1>14, <1>15, <1>16
       DEF Next, WorkerLoop, PromoterLoop

LEMMA BudgetSuffices == Inv3 => RetryPolicy
  <1> SUFFICES ASSUME Inv3 PROVE RetryPolicy
    OBVIOUS
  <1>1. \A j \in Queued \cup delayed \cup Lifted : Fit(j)
    BY DEF Inv3, Budget, MainFit, DelayedFit, LiftFit, Queued, Lifted, Range, Inv1, TypeOK
  <1>2. \A d \in dead : Spent(d)
    BY DEF Inv3, Budget, DeadSpent
  <1> QED BY <1>1, <1>2 DEF RetryPolicy, Fit, Spent

\* The retry budget: for any number of workers, replays and attempts, what
\* waits for another try has earned it, and what is in the dead-letter hash
\* has spent its attempts, failed terminally, or failed on selectors twice
\* running, and not before.
THEOREM RetryBudget == Spec => []RetryPolicy
  <1>1. Init => Inv3
    BY InitInv1, InitBudget DEF Inv3
  <1>2. Inv3 /\ [Next]_vars => Inv3'
    BY StepInv1, StepBudget DEF Inv3
  <1> QED BY <1>1, <1>2, BudgetSuffices, PTL DEF Spec

-----------------------------------------------------------------------------
(* The attempt log.                                                        *)

\* Of table R, the rows of push s are those of its failures h.
Matches(R, s, h) == {row \in R : row.enqueued_at = s} = FailureRows(s, h)

MainLogged == \A i \in DOMAIN main : Matches(rows, main[i].enqueued_at, main[i].attempt_history)
DelayedLogged == \A j \in delayed : Matches(rows, j.enqueued_at, j.attempt_history)
DeadLogged == \A d \in dead : Matches(rows, d.enqueued_at, d.attempts)
LiftLogged ==
    \A w \in Workers : lift[w] # NoJob => Matches(rows, lift[w].enqueued_at, lift[w].attempt_history)
HandLogged ==
    \A w \in Workers : loop[w] \in {"scrape", "route"} =>
        Matches(rows, hand[w].enqueued_at, hand[w].attempt_history)
RowsIssued == \A row \in rows : row.enqueued_at \in Nat /\ row.enqueued_at <= pushes
SuccessIsLast ==
    \A a, b \in rows : /\ a.enqueued_at = b.enqueued_at
                       /\ a.outcome = "Ok"
                       => b.attempt_number <= a.attempt_number

Logged == MainLogged /\ DelayedLogged /\ DeadLogged /\ LiftLogged /\ HandLogged

Inv5 == Inv2 /\ Budget /\ Logged /\ RowsIssued /\ SuccessIsLast

\* A stamp that was never issued has no rows, and a fresh job no failures.
LEMMA FreshMatches ==
  ASSUME RowsIssued, pushes \in Nat
  PROVE  Matches(rows, pushes + 1, <<>>)
  BY DEF Matches, FailureRows, RowsIssued

\* A row of another push.
LEMMA OtherMatches ==
  ASSUME NEW R, NEW row, NEW s, NEW h, Matches(R, s, h), row.enqueued_at # s
  PROVE  Matches(R \cup {row}, s, h)
  BY DEF Matches

\* The row of a failure, and the history that is one longer.
LEMMA FailureMatches ==
  ASSUME NEW R, NEW job \in Job, NEW error \in ErrorTypes,
         Matches(R, job.enqueued_at, job.attempt_history), Fit(job)
  PROVE  Matches(R \cup {AttemptRow(job, error)}, job.enqueued_at,
                 Append(job.attempt_history, error))
  <1> DEFINE h == job.attempt_history
             h2 == Append(h, error)
             s == job.enqueued_at
             row == AttemptRow(job, error)
             RowAt(g, i) == [enqueued_at |-> s, attempt_number |-> i, outcome |-> g[i]]
  <1>1. h \in Seq(ErrorTypes) /\ job.attempt = Len(h) + 1
    BY DEF Job, Fit
  <1>2. /\ DOMAIN h2 = DOMAIN h \cup {job.attempt}
        /\ \A i \in DOMAIN h : h2[i] = h[i]
        /\ h2[job.attempt] = error
    BY <1>1, AppendFacts
  <1>3. row = RowAt(h2, job.attempt) /\ row.enqueued_at = s
    BY <1>2 DEF AttemptRow
  <1> HIDE DEF h2, row
  <1>4. {RowAt(h2, i) : i \in DOMAIN h2} = {RowAt(h, i) : i \in DOMAIN h} \cup {row}
    BY <1>2, <1>3
  <1>5. {r \in R : r.enqueued_at = s} = {RowAt(h, i) : i \in DOMAIN h}
    BY DEF Matches, FailureRows
  <1>6. {r \in R \cup {row} : r.enqueued_at = s} = {r \in R : r.enqueued_at = s} \cup {row}
    BY <1>3
  <1>7. {r \in R \cup {row} : r.enqueued_at = s} = {RowAt(h2, i) : i \in DOMAIN h2}
    BY <1>4, <1>5, <1>6
  <1> QED BY <1>7, Zenon DEF Matches, FailureRows, h2, row

\* The rows of a job that may be tried: no success, lower attempt numbers.
LEMMA MatchedRows ==
  ASSUME NEW R, NEW job \in Job, Fit(job),
         Matches(R, job.enqueued_at, job.attempt_history),
         NEW row \in R, row.enqueued_at = job.enqueued_at
  PROVE  /\ row.outcome # "Ok"
         /\ row.attempt_number \in Nat /\ row.attempt_number <= job.attempt
  <1> DEFINE h == job.attempt_history
  <1>1. h \in Seq(ErrorTypes) /\ job.attempt = Len(h) + 1
    BY DEF Job, Fit
  <1>2. row \in FailureRows(job.enqueued_at, h)
    BY DEF Matches
  <1>3. PICK i \in DOMAIN h :
          row = [enqueued_at |-> job.enqueued_at, attempt_number |-> i, outcome |-> h[i]]
    BY <1>2 DEF FailureRows
  <1>4. row.outcome = h[i] /\ row.attempt_number = i
    BY <1>3
  <1>5. h[i] \in ErrorTypes /\ i \in 1..Len(h)
    BY <1>1
  <1> QED BY <1>1, <1>4, <1>5 DEF ErrorTypes

\* Steps that write no row and move no job to a new place.
LEMMA StillLogged ==
  ASSUME Logged, UNCHANGED <<main, rows>>,
         delayed' \subseteq delayed, dead' \subseteq dead,
         \A w \in Workers : lift'[w] # NoJob => lift'[w] = lift[w],
         \A w \in Workers : loop'[w] \in {"scrape", "route"} =>
             loop[w] \in {"scrape", "route"} /\ hand'[w] = hand[w]
  PROVE  Logged'
  BY DEF Logged, MainLogged, DelayedLogged, DeadLogged, LiftLogged, HandLogged

\* RPUSH of a job whose failures are logged.
LEMMA PushLogged ==
  ASSUME MainLogged, NEW S, main \in Seq(S), NEW job \in S,
         Matches(rows, job.enqueued_at, job.attempt_history),
         main' = Append(main, job), UNCHANGED rows
  PROVE  MainLogged'
  <1> SUFFICES ASSUME NEW i \in DOMAIN main'
               PROVE  Matches(rows, main'[i].enqueued_at, main'[i].attempt_history)
    BY DEF MainLogged
  <1>1. i \in DOMAIN main \/ i = Len(main) + 1
    BY AppendFacts
  <1>2. CASE i \in DOMAIN main
    BY <1>2, AppendFacts DEF MainLogged
  <1>3. CASE i = Len(main) + 1
    BY <1>3, AppendFacts
  <1> QED BY <1>1, <1>2, <1>3

\* RPUSH of a fresh job.
LEMMA FreshLogged ==
  ASSUME Inv1, Logged, RowsIssued, NEW job \in Job, job.enqueued_at = pushes + 1,
         job.attempt_history = <<>>, main' = Append(main, job),
         UNCHANGED <<delayed, dead, loop, hand, lift, rows>>
  PROVE  Logged'
  <1>1. Matches(rows, job.enqueued_at, job.attempt_history)
    BY FreshMatches DEF Inv1, TypeOK
  <1>2. MainLogged'
    BY <1>1, PushLogged DEF Logged, Inv1, TypeOK
  <1> QED BY <1>2 DEF Logged, DelayedLogged, DeadLogged, LiftLogged, HandLogged

\* An attempt row is written for the job in w's hand: nothing else carries
\* its stamp.
LEMMA RowForHand ==
  ASSUME Inv1, Distinct, Logged, NEW w \in Workers, loop[w] = "scrape",
         NEW row, row.enqueued_at = hand[w].enqueued_at, rows' = rows \cup {row},
         UNCHANGED <<main, delayed, dead, lift>>,
         \A v \in Workers \ {w} : loop'[v] = loop[v] /\ hand'[v] = hand[v],
         loop'[w] \in {"scrape", "route"} =>
             Matches(rows', hand'[w].enqueued_at, hand'[w].attempt_history)
  PROVE  Logged'
  <1> USE DEF Distinct
  <1>1. hand[w] # NoJob
    BY DEF Inv1, TypeOK
  <1>2. MainLogged'
    BY <1>1, OtherMatches DEF Logged, MainLogged, MainApart, NotHeld
  <1>3. DelayedLogged'
    BY <1>1, OtherMatches DEF Logged, DelayedLogged, DelayedApart, NotHeld
  <1>4. DeadLogged'
    BY <1>1, OtherMatches DEF Logged, DeadLogged, DeadApart, NotHeld
  <1>5. LiftLogged'
    BY <1>1, OtherMatches DEF Logged, LiftLogged, HandApart, NotLifted
  <1>6. HandLogged'
    <2> SUFFICES ASSUME NEW v \in Workers, loop'[v] \in {"scrape", "route"}
                 PROVE  Matches(rows', hand'[v].enqueued_at, hand'[v].attempt_history)
      BY DEF HandLogged
    <2>1. CASE v = w
      BY <2>1
    <2>2. CASE v # w
      <3>1. hand[v] # NoJob /\ loop[v] \in {"scrape", "route"} /\ hand'[v] = hand[v]
        BY <2>2 DEF Inv1, TypeOK
      <3>2. hand[v].enqueued_at # hand[w].enqueued_at
        BY <1>1, <2>2, <3>1 DEF OneInHand
      <3> QED BY <3>1, <3>2, OtherMatches DEF Logged, HandLogged
    <2> QED BY <2>1, <2>2
  <1> QED BY <1>2, <1>3, <1>4, <1>5, <1>6 DEF Logged

LEMMA StepLogged == Inv5 /\ [Next]_vars => Logged'
  <1> SUFFICES ASSUME Inv5, [Next]_vars PROVE Logged'
    OBVIOUS
  <1> USE DEF Inv5, Inv2, Inv1
  <1>1. CASE EnqueueJob
    <2> DEFINE job == FreshJob(pushes + 1, pushes + 1)
    <2>1. job \in Job /\ job.enqueued_at = pushes + 1 /\ job.attempt_history = <<>>
      BY FreshJobType DEF TypeOK, Stamp
    <2>2. main' = Append(main, job) /\ UNCHANGED <<delayed, dead, loop, hand, lift, rows>>
      BY <1>1 DEF EnqueueJob, worker, promoter, ledger
    <2> HIDE DEF job
    <2> QED BY <2>1, <2>2, FreshLogged
  <1>2. ASSUME NEW d \in dead, PurgeDeadLetter(d) PROVE Logged'
    BY <1>2, StillLogged DEF PurgeDeadLetter, worker, promoter
  <1>3. ASSUME NEW r \in Requests, Replay(r) PROVE Logged'
    <2>1. ASSUME NEW d \in dead, ReplayRead(r, d) PROVE Logged'
      BY <2>1, StillLogged DEF ReplayRead, redis, worker, promoter, ledger
    <2>2. CASE ReplayPush(r)
      <3> DEFINE job == FreshJob(record[r].job_id, pushes + 1)
      <3>1. record[r].job_id \in Stamp /\ pushes + 1 \in Stamp
        BY <2>2 DEF ReplayPush, TypeOK, DeadRecord, Stamp
      <3>2. job \in Job /\ job.enqueued_at = pushes + 1 /\ job.attempt_history = <<>>
        BY <3>1, FreshJobType
      <3>3. main' = Append(main, job) /\ UNCHANGED <<delayed, dead, loop, hand, lift, rows>>
        BY <2>2 DEF ReplayPush, worker, promoter
      <3> HIDE DEF job
      <3> QED BY <3>2, <3>3, FreshLogged
    <2>3. CASE ReplayRemove(r)
      BY <2>3, StillLogged DEF ReplayRemove, worker, promoter, ledger
    <2>4. CASE AbortReplay(r)
      BY <2>4, StillLogged DEF AbortReplay, redis, worker, promoter, ledger
    <2> QED BY <1>3, <2>1, <2>2, <2>3, <2>4 DEF Replay
  <1>4. ASSUME NEW w \in Workers, Dequeue(w) PROVE Logged'
    <2>1. /\ main \in Seq(Job) /\ main # <<>> /\ main' = Tail(main)
          /\ hand' = [hand EXCEPT ![w] = main[1]]
          /\ loop' = [loop EXCEPT ![w] = "scrape"]
          /\ UNCHANGED <<delayed, dead, lift, rows>>
      BY <1>4, PopFacts DEF Dequeue, TypeOK, promoter, ledger
    <2>2. MainLogged'
      BY <2>1, PopFacts DEF Logged, MainLogged
    <2>3. Matches(rows, main[1].enqueued_at, main[1].attempt_history)
      BY <2>1, PopFacts DEF Logged, MainLogged
    <2>4. HandLogged'
      BY <2>1, <2>3 DEF Logged, HandLogged, TypeOK
    <2> QED BY <2>1, <2>2, <2>4 DEF Logged, DelayedLogged, DeadLogged, LiftLogged
  <1>5. ASSUME NEW w \in Workers, PollTimeout(w) \/ AlertsDone(w) PROVE Logged'
    BY <1>5, StillLogged
    DEF PollTimeout, AlertsDone, NextTurn, TypeOK, redis, promoter, ledger
  <1>6. ASSUME NEW w \in Workers, HandleSuccess(w) PROVE Logged'
    <2> DEFINE row == AttemptRow(hand[w], "Ok")
    <2>1. row.enqueued_at = hand[w].enqueued_at
      BY DEF AttemptRow
    <2>2. /\ loop[w] = "scrape" /\ rows' = rows \cup {row}
          /\ loop' = [loop EXCEPT ![w] = "alert"]
          /\ UNCHANGED <<main, delayed, dead, lift, hand>>
      BY <1>6 DEF HandleSuccess, redis, promoter
    <2>3. /\ loop'[w] = "alert"
          /\ \A v \in Workers \ {w} : loop'[v] = loop[v] /\ hand'[v] = hand[v]
      BY <2>2 DEF TypeOK
    <2> HIDE DEF row
    <2> QED BY <2>1, <2>2, <2>3, RowForHand
  <1>7. ASSUME NEW w \in Workers, NEW error \in Errors, RecordFailure(w, error)
        PROVE  Logged'
    <2> DEFINE row == AttemptRow(hand[w], error)
               failed == [hand[w] EXCEPT !.attempt_history = Append(@, error)]
    <2>1. /\ loop[w] = "scrape" /\ hand[w] \in Job /\ error \in ErrorTypes
          /\ Fit(hand[w]) /\ Matches(rows, hand[w].enqueued_at, hand[w].attempt_history)
      BY <1>7, ConstantsAssumption
      DEF RecordFailure, TypeOK, Budget, HandFit, Logged, HandLogged
    <2>2. /\ failed.enqueued_at = hand[w].enqueued_at
          /\ failed.attempt_history = Append(hand[w].attempt_history, error)
      BY <2>1, FailedJobType
    <2>3. Matches(rows \cup {row}, failed.enqueued_at, failed.attempt_history)
      BY <2>1, <2>2, FailureMatches
    <2>4. row.enqueued_at = hand[w].enqueued_at
      BY DEF AttemptRow
    <2>5. /\ rows' = rows \cup {row} /\ hand' = [hand EXCEPT ![w] = failed]
          /\ loop' = [loop EXCEPT ![w] = "route"]
          /\ UNCHANGED <<main, delayed, dead, lift>>
      BY <1>7 DEF RecordFailure, redis, promoter, TypeOK
    <2> HIDE DEF row, failed
    <2>6. /\ hand'[w] = failed
          /\ \A v \in Workers \ {w} : loop'[v] = loop[v] /\ hand'[v] = hand[v]
      BY <2>5 DEF TypeOK
    <2> QED BY <2>1, <2>3, <2>4, <2>5, <2>6, RowForHand
  <1>8. ASSUME NEW w \in Workers, DeadLetter(w) PROVE Logged'
    <2>1. /\ hand[w] \in Job
          /\ Matches(rows, hand[w].enqueued_at, hand[w].attempt_history)
          /\ dead' \subseteq dead \cup {DeadLetterOf(hand[w])}
          /\ UNCHANGED <<main, delayed, lift, rows>>
      BY <1>8 DEF DeadLetter, TypeOK, Logged, HandLogged, promoter, ledger
    <2>2. DeadLogged'
      BY <2>1, DeadLetterType DEF Logged, DeadLogged
    <2>3. HandLogged'
      BY <1>8, <2>1 DEF DeadLetter, NextTurn, Logged, HandLogged, TypeOK
    <2> QED BY <2>1, <2>2, <2>3 DEF Logged, MainLogged, DelayedLogged, LiftLogged
  <1>9. ASSUME NEW w \in Workers, ScheduleRetry(w) PROVE Logged'
    <2> DEFINE next == [hand[w] EXCEPT !.attempt = @ + 1]
    <2>1. /\ hand[w] \in Job
          /\ Matches(rows, hand[w].enqueued_at, hand[w].attempt_history)
          /\ delayed' = delayed \cup {next}
          /\ UNCHANGED <<main, dead, lift, rows>>
      BY <1>9 DEF ScheduleRetry, TypeOK, Logged, HandLogged, promoter, ledger
    <2>2. Matches(rows, next.enqueued_at, next.attempt_history)
      BY <2>1, RetriedJobType
    <2> HIDE DEF next
    <2>3. DelayedLogged'
      BY <2>1, <2>2 DEF Logged, DelayedLogged
    <2>4. HandLogged'
      BY <1>9, <2>1 DEF ScheduleRetry, NextTurn, Logged, HandLogged, TypeOK
    <2> QED BY <2>1, <2>3, <2>4 DEF Logged, MainLogged, DeadLogged, LiftLogged
  <1>10. ASSUME NEW w \in Workers, FetchDue(w) \/ PromoterTurn(w) PROVE Logged'
    BY <1>10, StillLogged DEF FetchDue, PromoterTurn, redis, worker, ledger
  <1>11. ASSUME NEW w \in Workers, NEW job \in batch[w], RemoveDelayed(w, job)
         PROVE Logged'
    <2>1. CASE job \notin delayed
      BY <1>11, <2>1, StillLogged DEF RemoveDelayed, worker, ledger
    <2>2. CASE job \in delayed
      <3>1. /\ delayed' = delayed \ {job}
            /\ lift' = [lift EXCEPT ![w] = job]
            /\ UNCHANGED <<main, dead, loop, hand, rows>>
        BY <1>11, <2>2 DEF RemoveDelayed, worker, ledger
      <3>2. LiftLogged'
        BY <2>2, <3>1 DEF Logged, DelayedLogged, LiftLogged, TypeOK
      <3> QED BY <3>1, <3>2 DEF Logged, MainLogged, DelayedLogged, DeadLogged, HandLogged
    <2> QED BY <2>1, <2>2
  <1>12. ASSUME NEW w \in Workers, PushPromoted(w) PROVE Logged'
    <2>1. /\ main \in Seq(Job) /\ lift[w] \in Job
          /\ Matches(rows, lift[w].enqueued_at, lift[w].attempt_history)
          /\ main' = Append(main, lift[w])
          /\ lift' = [lift EXCEPT ![w] = NoJob]
          /\ UNCHANGED <<delayed, dead, loop, hand, rows>>
      BY <1>12 DEF PushPromoted, TypeOK, Logged, LiftLogged, worker, ledger
    <2>2. MainLogged'
      BY <2>1, PushLogged DEF Logged
    <2>3. LiftLogged'
      BY <2>1 DEF Logged, LiftLogged, TypeOK
    <2> QED BY <2>1, <2>2, <2>3 DEF Logged, DelayedLogged, DeadLogged, HandLogged
  <1>13. ASSUME NEW w \in Workers, Process(w) PROVE Logged'
    <2>1. CASE Sigterm(w) \/ GracefulExit(w)
      BY <2>1, StillLogged DEF Sigterm, GracefulExit, redis, worker, promoter, ledger
    <2>2. CASE Crash(w)
      BY <2>2, StillLogged DEF Crash, redis, TypeOK, ledger
    <2>3. CASE Restart(w)
      BY <2>3, StillLogged DEF Restart, redis, TypeOK, ledger
    <2> QED BY <1>13, <2>1, <2>2, <2>3 DEF Process
  <1>14. ASSUME NEW job \in delayed, BackoffElapses(job) PROVE Logged'
    BY <1>14, StillLogged DEF BackoffElapses, worker, promoter, ledger
  <1>15. CASE UNCHANGED vars
    BY <1>15, StillLogged DEF vars, redis, worker, promoter, ledger
  <1> QED
    BY <1>1, <1>2, <1>3, <1>4, <1>5, <1>6, <1>7, <1>8, <1>9, <1>10, <1>11, <1>12,
       <1>13, <1>14, <1>15
       DEF Next, WorkerLoop, PromoterLoop

\* What the steps write: nothing, a success or a failure of the job in hand.
LEMMA StepRows ==
  ASSUME Inv5, [Next]_vars
  PROVE  \/ UNCHANGED rows
         \/ \E w \in Workers, outcome \in Outcomes :
                /\ loop[w] = "scrape" /\ UNCHANGED pushes
                /\ rows' = rows \cup {AttemptRow(hand[w], outcome)}
  <1>1. ASSUME NEW w \in Workers, WorkerLoop(w)
        PROVE  \/ UNCHANGED rows
               \/ \E v \in Workers, outcome \in Outcomes :
                      /\ loop[v] = "scrape" /\ UNCHANGED pushes
                      /\ rows' = rows \cup {AttemptRow(hand[v], outcome)}
    <2>1. CASE HandleSuccess(w)
      BY <2>1 DEF HandleSuccess, Outcomes
    <2>2. ASSUME NEW error \in Errors, RecordFailure(w, error)
          PROVE  \E v \in Workers, outcome \in Outcomes :
                      /\ loop[v] = "scrape" /\ UNCHANGED pushes
                      /\ rows' = rows \cup {AttemptRow(hand[v], outcome)}
      BY <2>2, ConstantsAssumption DEF RecordFailure, Outcomes
    <2> QED BY <1>1, <2>1, <2>2
            DEF WorkerLoop, Dequeue, PollTimeout, AlertsDone, DeadLetter, ScheduleRetry, ledger
  <1>2. ASSUME NEW w \in Workers, PromoterLoop(w) \/ Process(w) PROVE UNCHANGED rows
    BY <1>2 DEF PromoterLoop, FetchDue, RemoveDelayed, PushPromoted, PromoterTurn,
                Process, Sigterm, GracefulExit, Crash, Restart, ledger
  <1>3. ASSUME NEW r \in Requests, Replay(r) PROVE UNCHANGED rows
    BY <1>3 DEF Replay, ReplayRead, ReplayPush, ReplayRemove, AbortReplay, ledger
  <1> QED BY <1>1, <1>2, <1>3
          DEF Next, EnqueueJob, PurgeDeadLetter, BackoffElapses, vars, ledger

LEMMA StepSuccess == Inv5 /\ [Next]_vars => SuccessIsLast' /\ RowsIssued'
  <1> SUFFICES ASSUME Inv5, [Next]_vars PROVE SuccessIsLast' /\ RowsIssued'
    OBVIOUS
  <1> USE DEF Inv5, Inv2, Inv1
  <1>1. pushes \in Nat /\ pushes' \in Nat /\ pushes <= pushes'
    BY DEF TypeOK, Next, EnqueueJob, PurgeDeadLetter, Replay, ReplayRead, ReplayPush,
           ReplayRemove, AbortReplay, WorkerLoop, Dequeue, PollTimeout, HandleSuccess,
           AlertsDone, RecordFailure, DeadLetter, ScheduleRetry, PromoterLoop, FetchDue,
           RemoveDelayed, PushPromoted, PromoterTurn, Process, Sigterm, GracefulExit, Crash,
           Restart, BackoffElapses, vars, ledger
  <1>2. CASE UNCHANGED rows
    BY <1>1, <1>2 DEF SuccessIsLast, RowsIssued
  <1>3. ASSUME NEW w \in Workers, NEW outcome \in Outcomes, loop[w] = "scrape",
               UNCHANGED pushes, rows' = rows \cup {AttemptRow(hand[w], outcome)}
        PROVE  SuccessIsLast' /\ RowsIssued'
    <2> DEFINE new == AttemptRow(hand[w], outcome)
    <2>1. /\ new.enqueued_at = hand[w].enqueued_at /\ new.attempt_number = hand[w].attempt
          /\ new.outcome = outcome
      BY DEF AttemptRow
    <2>2. /\ hand[w] \in Job /\ Fit(hand[w])
          /\ Matches(rows, hand[w].enqueued_at, hand[w].attempt_history)
          /\ hand[w].enqueued_at \in Nat /\ hand[w].enqueued_at <= pushes
          /\ hand[w].attempt \in Nat
      BY <1>3 DEF TypeOK, Issued, Budget, HandFit, Logged, HandLogged, Job, Stamp
    <2>3. \A row \in rows : row.enqueued_at = new.enqueued_at =>
            /\ row.outcome # "Ok"
            /\ row.attempt_number \in Nat /\ row.attempt_number <= new.attempt_number
      BY <2>1, <2>2, MatchedRows
    <2> HIDE DEF new
    <2>4. RowsIssued'
      BY <1>3, <2>1, <2>2 DEF RowsIssued, new
    <2>5. SuccessIsLast'
      BY <1>3, <2>1, <2>2, <2>3 DEF SuccessIsLast, new
    <2> QED BY <2>4, <2>5
  <1> QED BY <1>2, <1>3, StepRows

LEMMA LogSuffices == Inv5 => RowsMatchHistory
  <1> SUFFICES ASSUME Inv5 PROVE RowsMatchHistory
    OBVIOUS
  <1>1. \A j \in Queued \cup delayed \cup Lifted :
            Matches(rows, j.enqueued_at, j.attempt_history)
    BY DEF Inv5, Inv2, Inv1, TypeOK, Logged, MainLogged, DelayedLogged, LiftLogged, Queued,
           Lifted, Range
  <1>2. \A d \in dead : Matches(rows, d.enqueued_at, d.attempts)
    BY DEF Inv5, Logged, DeadLogged
  <1>3. SuccessIsLast
    BY DEF Inv5
  <1> QED BY <1>1, <1>2, <1>3 DEF RowsMatchHistory, RowsOf, Matches, SuccessIsLast

\* The attempt log: whatever crashes, replays and races happen, the rows in
\* Postgres of a job that is anywhere in Redis are the failures it carries,
\* and nothing follows a success.
THEOREM LogMatchesHistory == Spec => []RowsMatchHistory
  <1>1. Init => Inv5
    BY InitInv2, InitBudget
    DEF Init, Inv5, Logged, MainLogged, DelayedLogged, DeadLogged, LiftLogged, HandLogged,
        RowsIssued, SuccessIsLast
  <1>2. Inv5 /\ [Next]_vars => Inv5'
    BY StepInv1, StepDistinct, StepBudget, StepLogged, StepSuccess DEF Inv5, Inv2, Inv3
  <1> QED BY <1>1, <1>2, LogSuffices, PTL DEF Spec

-----------------------------------------------------------------------------
(* The life cycle.  StatusOf and TriesOf say where a push is by looking    *)
(* everywhere; since it is in one place, finding it somewhere is enough.   *)

OnList(s, n) == \E i \in DOMAIN main : main[i].enqueued_at = s /\ main[i].attempt = n
Parked(s, n) == \E j \in delayed : j.enqueued_at = s /\ j.attempt = n
Aloft(s, n) ==
    \E w \in Workers : lift[w] # NoJob /\ lift[w].enqueued_at = s /\ lift[w].attempt = n
InHand(s, n) ==
    \E w \in Workers : hand[w] # NoJob /\ hand[w].enqueued_at = s /\ hand[w].attempt = n
Buried(s, n) == \E d \in dead : d.enqueued_at = s /\ Len(d.attempts) = n
NotListed(s) == \A i \in DOMAIN main : main[i].enqueued_at # s
NotLive(s) == NotListed(s) /\ NotDelayed(s) /\ NotHeld(s) /\ NotLifted(s)
Nowhere(s) == NotLive(s) /\ NotDead(s)

\* Push s is at stage st of its life, with n tries.
Stage(s, st, n) ==
    \/ st = "unborn" /\ n = 0 /\ s > pushes
    \/ st = "ready" /\ OnList(s, n)
    \/ st = "waiting" /\ (Parked(s, n) \/ Aloft(s, n))
    \/ st = "running" /\ InHand(s, n)
    \/ st = "dead" /\ Buried(s, n)
    \/ st = "closed" /\ n = 0 /\ s <= pushes /\ Nowhere(s) /\ s \in closed
    \/ st = "lost" /\ n = 0 /\ s <= pushes /\ Nowhere(s) /\ s \notin closed

\* A stage is the status and the tries that the refinement shows.
Shown ==
  \A s \in 1..MaxPushes :
    \A st, n : Stage(s, st, n) => StatusOf(s) = st /\ TriesOf(s) = n

LEMMA PushesType == TypeOK => MaxPushes \in Nat /\ pushes \in Nat
  BY ConstantsAssumption DEF TypeOK

\* Where StatusOf looks, place by place.
LEMMA Places ==
  ASSUME TypeOK, NEW s
  PROVE  /\ In(s, Queued) <=> ~NotListed(s)
         /\ In(s, delayed \cup Lifted) <=> ~NotDelayed(s) \/ ~NotLifted(s)
         /\ In(s, Held) <=> ~NotHeld(s)
         /\ In(s, dead) <=> ~NotDead(s)
         /\ In(s, Live) <=> ~NotLive(s)
         /\ In(s, Live \cup dead) <=> ~Nowhere(s)
  <1>1. Queued = {main[i] : i \in DOMAIN main}
    BY DEF Queued, Range
  <1>2. /\ \A j : j \in Held <=> \E w \in Workers : hand[w] # NoJob /\ j = hand[w]
        /\ \A j : j \in Lifted <=> \E w \in Workers : lift[w] # NoJob /\ j = lift[w]
    BY DEF Held, Lifted, Range, TypeOK
  <1>3. In(s, Queued) <=> ~NotListed(s)
    BY <1>1 DEF In, NotListed
  <1>4. In(s, Held) <=> ~NotHeld(s)
    BY <1>2 DEF In, NotHeld
  <1>5. In(s, Lifted) <=> ~NotLifted(s)
    BY <1>2 DEF In, NotLifted
  <1>6. In(s, delayed) <=> ~NotDelayed(s)
    BY DEF In, NotDelayed
  <1>7. In(s, dead) <=> ~NotDead(s)
    BY DEF In, NotDead
  <1>8. \A A, B : In(s, A \cup B) <=> In(s, A) \/ In(s, B)
    BY DEF In
  <1>9. /\ In(s, delayed \cup Lifted) <=> In(s, delayed) \/ In(s, Lifted)
        /\ In(s, Live) <=> In(s, Queued) \/ In(s, delayed) \/ In(s, Held) \/ In(s, Lifted)
        /\ In(s, Live \cup dead) <=> In(s, Live) \/ In(s, dead)
    BY <1>8 DEF Live
  <1>10. In(s, Live) <=> ~NotLive(s)
    BY <1>3, <1>4, <1>5, <1>6, <1>9 DEF NotLive
  <1> QED BY <1>3, <1>4, <1>5, <1>6, <1>7, <1>9, <1>10 DEF Nowhere

\* A push that is somewhere is nowhere else.
LEMMA Elsewhere ==
  ASSUME Inv2, NEW s
  PROVE  /\ ~NotListed(s) => NotDelayed(s) /\ NotDead(s) /\ NotHeld(s) /\ NotLifted(s)
         /\ ~NotDelayed(s) => NotDead(s) /\ NotHeld(s) /\ NotLifted(s)
         /\ ~NotDead(s) => NotHeld(s) /\ NotLifted(s)
         /\ ~NotHeld(s) => NotLifted(s)
  BY DEF Inv2, Distinct, MainApart, DelayedApart, DeadApart, HandApart, NotListed,
         NotDelayed, NotDead, NotHeld, NotLifted

\* All that is anywhere was issued.
LEMMA SomewhereIssued ==
  ASSUME Inv2, NEW s, ~Nowhere(s)
  PROVE  s \in Nat /\ s <= pushes
  <1>1. /\ \A i \in DOMAIN main : main[i] \in Job
        /\ \A j \in delayed : j \in Job
        /\ \A d \in dead : d \in DeadRecord
        /\ \A w \in Workers : /\ hand[w] # NoJob => hand[w] \in Job
                              /\ lift[w] # NoJob => lift[w] \in Job
    BY DEF Inv2, Inv1, TypeOK
  <1>2. /\ \A j \in Job : j.enqueued_at \in Nat
        /\ \A d \in DeadRecord : d.enqueued_at \in Nat
    BY DEF Job, DeadRecord, Stamp
  <1>3. \/ \E i \in DOMAIN main : main[i].enqueued_at = s
        \/ \E j \in delayed : j.enqueued_at = s
        \/ \E d \in dead : d.enqueued_at = s
        \/ \E w \in Workers : hand[w] # NoJob /\ hand[w].enqueued_at = s
        \/ \E w \in Workers : lift[w] # NoJob /\ lift[w].enqueued_at = s
    BY DEF Nowhere, NotLive, NotListed, NotDelayed, NotDead, NotHeld, NotLifted
  <1> QED BY <1>1, <1>2, <1>3 DEF Inv2, Inv1, Issued

\* The copies of one stamp that are live are one copy, so they agree on the
\* attempt number.
LEMMA LiveTries ==
  ASSUME Inv2, NEW s, NEW n, OnList(s, n) \/ Parked(s, n) \/ Aloft(s, n) \/ InHand(s, n)
  PROVE  TriesOf(s) = n
  <1>1. In(s, Live)
    BY Places DEF Inv2, Inv1, NotLive, NotListed, NotDelayed, NotHeld, NotLifted,
       OnList, Parked, Aloft, InHand
  <1>2. \A j \in Live : j.enqueued_at = s => j.attempt = n
    <2> SUFFICES ASSUME NEW j \in Live, j.enqueued_at = s PROVE j.attempt = n
      OBVIOUS
    <2>1. \/ \E i \in DOMAIN main : j = main[i]
          \/ j \in delayed
          \/ \E w \in Workers : hand[w] # NoJob /\ j = hand[w]
          \/ \E w \in Workers : lift[w] # NoJob /\ j = lift[w]
      BY DEF Live, Queued, Held, Lifted, Range, Inv2, Inv1, TypeOK
    <2>2. CASE OnList(s, n)
      BY <2>1, <2>2, Elsewhere
         DEF OnList, Inv2, Distinct, OneInMain, NotListed, NotDelayed, NotHeld, NotLifted
    <2>3. CASE Parked(s, n)
      BY <2>1, <2>3, Elsewhere
         DEF Parked, Inv2, Distinct, OneInDelayed, NotListed, NotDelayed, NotHeld, NotLifted
    <2>4. CASE Aloft(s, n)
      BY <2>1, <2>4, Elsewhere
         DEF Aloft, Inv2, Distinct, OneInLift, NotListed, NotDelayed, NotHeld, NotLifted
    <2>5. CASE InHand(s, n)
      BY <2>1, <2>5, Elsewhere
         DEF InHand, Inv2, Distinct, OneInHand, NotListed, NotDelayed, NotHeld, NotLifted
    <2> QED BY <2>2, <2>3, <2>4, <2>5
  <1> DEFINE found == CHOOSE j \in Live : j.enqueued_at = s
  <1>3. found \in Live /\ found.enqueued_at = s
    BY <1>1 DEF In
  <1>4. TriesOf(s) = found.attempt
    BY <1>1 DEF TriesOf
  <1> QED BY <1>2, <1>3, <1>4

LEMMA DeadTries ==
  ASSUME Inv2, NEW s, NEW n, Buried(s, n)
  PROVE  TriesOf(s) = n
  <1>1. PICK d \in dead : d.enqueued_at = s /\ Len(d.attempts) = n
    BY DEF Buried
  <1>2. In(s, dead) /\ ~In(s, Live)
    BY <1>1, Places, Elsewhere DEF Inv2, Inv1, NotLive, NotDead
  <1>3. \A e \in dead : e.enqueued_at = s => e = d
    BY <1>1 DEF Inv2, Distinct, OneInDead
  <1> DEFINE found == CHOOSE e \in dead : e.enqueued_at = s
  <1>4. found \in dead /\ found.enqueued_at = s
    BY <1>2 DEF In
  <1>5. TriesOf(s) = Len(found.attempts)
    BY <1>2 DEF TriesOf
  <1> QED BY <1>1, <1>3, <1>4, <1>5

LEMMA StageIsShown == Inv2 => Shown
  <1> SUFFICES ASSUME Inv2, NEW s \in 1..MaxPushes, NEW st, NEW n, Stage(s, st, n)
               PROVE  StatusOf(s) = st /\ TriesOf(s) = n
    BY DEF Shown
  <1>0. TypeOK /\ s \in Nat /\ pushes \in Nat
    BY PushesType DEF Inv2, Inv1
  <1>p. /\ In(s, Queued) <=> ~NotListed(s)
        /\ In(s, delayed \cup Lifted) <=> ~NotDelayed(s) \/ ~NotLifted(s)
        /\ In(s, Held) <=> ~NotHeld(s)
        /\ In(s, dead) <=> ~NotDead(s)
        /\ In(s, Live) <=> ~NotLive(s)
        /\ In(s, Live \cup dead) <=> ~Nowhere(s)
    BY <1>0, Places
  <1>e. /\ ~NotListed(s) => NotDelayed(s) /\ NotDead(s) /\ NotHeld(s) /\ NotLifted(s)
        /\ ~NotDelayed(s) => NotDead(s) /\ NotHeld(s) /\ NotLifted(s)
        /\ ~NotDead(s) => NotHeld(s) /\ NotLifted(s)
        /\ ~NotHeld(s) => NotLifted(s)
    BY Elsewhere
  <1>i. ~Nowhere(s) => ~(s > pushes)
    BY <1>0, SomewhereIssued
  <1>1. CASE st = "unborn" /\ n = 0 /\ s > pushes
    <2>1. Nowhere(s)
      BY <1>1, <1>i
    <2>2. TriesOf(s) = 0
      BY <2>1, <1>p DEF TriesOf, Nowhere
    <2>3. ~In(s, Queued) /\ ~In(s, delayed \cup Lifted) /\ ~In(s, Held) /\ ~In(s, dead)
      BY <2>1, <1>p DEF Nowhere, NotLive
    <2>4. s \notin 1..pushes /\ s \notin closed
      BY <1>0, <1>1 DEF TypeOK
    <2> QED BY <1>1, <2>2, <2>3, <2>4 DEF StatusOf
  <1>2. CASE st = "ready" /\ OnList(s, n)
    <2>1. ~NotListed(s) /\ ~NotLive(s) /\ ~Nowhere(s)
      BY <1>2 DEF OnList, NotListed, NotLive, Nowhere
    <2>2. /\ ~(s > pushes) /\ In(s, Queued) /\ ~In(s, delayed \cup Lifted)
          /\ ~In(s, Held) /\ ~In(s, dead) /\ In(s, Live \cup dead)
      BY <2>1, <1>p, <1>e, <1>i
    <2> QED BY <1>2, <2>2, LiveTries DEF StatusOf
  <1>3. CASE st = "waiting" /\ (Parked(s, n) \/ Aloft(s, n))
    <2>1. (~NotDelayed(s) \/ ~NotLifted(s)) /\ ~NotLive(s) /\ ~Nowhere(s)
      BY <1>3 DEF Parked, Aloft, NotDelayed, NotLifted, NotLive, Nowhere
    <2>2. /\ ~(s > pushes) /\ ~In(s, Queued) /\ In(s, delayed \cup Lifted)
          /\ ~In(s, Held) /\ ~In(s, dead) /\ In(s, Live \cup dead)
      BY <2>1, <1>p, <1>e, <1>i
    <2> QED BY <1>3, <2>2, LiveTries DEF StatusOf
  <1>4. CASE st = "running" /\ InHand(s, n)
    <2>1. ~NotHeld(s) /\ ~NotLive(s) /\ ~Nowhere(s)
      BY <1>4 DEF InHand, NotHeld, NotLive, Nowhere
    <2>2. /\ ~(s > pushes) /\ ~In(s, Queued) /\ ~In(s, delayed \cup Lifted)
          /\ In(s, Held) /\ ~In(s, dead) /\ In(s, Live \cup dead)
      BY <2>1, <1>p, <1>e, <1>i
    <2> QED BY <1>4, <2>2, LiveTries DEF StatusOf
  <1>5. CASE st = "dead" /\ Buried(s, n)
    <2>1. ~NotDead(s) /\ ~Nowhere(s)
      BY <1>5 DEF Buried, NotDead, Nowhere
    <2>2. /\ ~(s > pushes) /\ ~In(s, Queued) /\ ~In(s, delayed \cup Lifted)
          /\ ~In(s, Held) /\ In(s, dead) /\ In(s, Live \cup dead)
      BY <2>1, <1>p, <1>e, <1>i
    <2> QED BY <1>5, <2>2, DeadTries DEF StatusOf
  <1>6. CASE /\ st = (IF s \in closed THEN "closed" ELSE "lost")
             /\ n = 0 /\ s <= pushes /\ Nowhere(s)
    <2>1. /\ ~(s > pushes) /\ ~In(s, Queued) /\ ~In(s, delayed \cup Lifted)
          /\ ~In(s, Held) /\ ~In(s, dead) /\ ~In(s, Live \cup dead)
      BY <1>0, <1>6, <1>p DEF Nowhere, NotLive
    <2>2. TriesOf(s) = 0
      BY <1>6, <1>p DEF TriesOf, Nowhere
    <2>3. s \in 1..pushes
      BY <1>0, <1>6, ConstantsAssumption
    <2> QED BY <1>6, <2>1, <2>2, <2>3 DEF StatusOf
  <1> QED BY <1>1, <1>2, <1>3, <1>4, <1>5, <1>6 DEF Stage

-----------------------------------------------------------------------------
(* What is closed stays closed: the stamps that are handled, replayed or   *)
(* purged, or that a replay request has in hand, are live nowhere.         *)

Settled ==
    /\ \A s \in closed : NotLive(s)
    /\ \A r \in Requests : record[r] # NoJob => NotLive(record[r].enqueued_at)

Inv6 == Inv2 /\ Budget /\ Settled

\* Steps that leave live jobs where they are, or drop some.
LEMMA FewerLive ==
  ASSUME NEW s, NotLive(s), UNCHANGED <<main, delayed>>,
         \A w \in Workers :
            hand'[w] # NoJob =>
                hand[w] # NoJob /\ hand'[w].enqueued_at = hand[w].enqueued_at,
         \A w \in Workers : lift'[w] # NoJob => lift'[w] = lift[w]
  PROVE  NotLive(s)'
  BY DEF NotLive, NotListed, NotDelayed, NotHeld, NotLifted

\* RPUSH of a job of another stamp.
LEMMA PushNotLive ==
  ASSUME NEW s, NotLive(s), NEW S, main \in Seq(S), NEW job \in S, job.enqueued_at # s,
         main' = Append(main, job),
         UNCHANGED <<delayed, hand>>,
         \A w \in Workers : lift'[w] # NoJob => lift'[w] = lift[w]
  PROVE  NotLive(s)'
  <1>1. NotListed(s)'
    <2> SUFFICES ASSUME NEW i \in DOMAIN main' PROVE main'[i].enqueued_at # s
      BY DEF NotListed
    <2>1. i \in DOMAIN main \/ i = Len(main) + 1
      BY AppendFacts
    <2> QED BY <2>1, AppendFacts DEF NotLive, NotListed
  <1> QED BY <1>1 DEF NotLive, NotDelayed, NotHeld, NotLifted

LEMMA NeverLiveAgain ==
  Inv2 /\ [Next]_vars => \A s \in 1..pushes : NotLive(s) => NotLive(s)'
  <1> SUFFICES ASSUME Inv2, [Next]_vars, NEW s \in 1..pushes, NotLive(s) PROVE NotLive(s)'
    OBVIOUS
  <1>0. TypeOK /\ pushes \in Nat
    BY PushesType DEF Inv2, Inv1
  <1>1. CASE EnqueueJob
    <2> DEFINE job == FreshJob(pushes + 1, pushes + 1)
    <2>1. job \in Job /\ job.enqueued_at # s
      BY <1>0, FreshJobType DEF Stamp
    <2>2. main' = Append(main, job) /\ UNCHANGED <<delayed, hand, lift>>
      BY <1>1 DEF EnqueueJob, worker, promoter
    <2> QED BY <1>0, <2>1, <2>2, PushNotLive DEF TypeOK
  <1>2. ASSUME NEW d \in dead, PurgeDeadLetter(d) PROVE NotLive(s)'
    BY <1>2, FewerLive DEF PurgeDeadLetter, worker, promoter
  <1>3. ASSUME NEW r \in Requests, Replay(r) PROVE NotLive(s)'
    <2>1. ASSUME NEW d \in dead, ReplayRead(r, d) PROVE NotLive(s)'
      BY <2>1, FewerLive DEF ReplayRead, redis, worker, promoter
    <2>2. CASE ReplayPush(r)
      <3> DEFINE job == FreshJob(record[r].job_id, pushes + 1)
      <3>1. record[r].job_id \in Stamp /\ pushes + 1 \in Stamp
        BY <1>0, <2>2 DEF ReplayPush, TypeOK, DeadRecord, Stamp
      <3>2. job \in Job /\ job.enqueued_at # s
        BY <1>0, <3>1, FreshJobType
      <3>3. main' = Append(main, job) /\ UNCHANGED <<delayed, hand, lift>>
        BY <2>2 DEF ReplayPush, worker, promoter
      <3> QED BY <1>0, <3>2, <3>3, PushNotLive DEF TypeOK
    <2>3. CASE ReplayRemove(r)
      BY <2>3, FewerLive DEF ReplayRemove, worker, promoter
    <2>4. CASE AbortReplay(r)
      BY <2>4, FewerLive DEF AbortReplay, redis, worker, promoter
    <2> QED BY <1>3, <2>1, <2>2, <2>3, <2>4 DEF Replay
  <1>4. ASSUME NEW w \in Workers, Dequeue(w) PROVE NotLive(s)'
    <2>1. /\ main \in Seq(Job) /\ main # <<>> /\ main' = Tail(main)
          /\ hand' = [hand EXCEPT ![w] = main[1]] /\ 1 \in DOMAIN main
          /\ UNCHANGED <<delayed, lift>>
      BY <1>0, <1>4, PopFacts DEF Dequeue, TypeOK, promoter
    <2>2. \A i \in DOMAIN main' : i + 1 \in DOMAIN main /\ main'[i] = main[i + 1]
      BY <2>1, PopFacts
    <2> QED BY <1>0, <2>1, <2>2 DEF NotLive, NotListed, NotDelayed, NotHeld, NotLifted, TypeOK
  <1>5. ASSUME NEW w \in Workers, PollTimeout(w) \/ HandleSuccess(w) PROVE NotLive(s)'
    BY <1>5, FewerLive DEF PollTimeout, HandleSuccess, redis, promoter
  <1>6. ASSUME NEW w \in Workers, AlertsDone(w) PROVE NotLive(s)'
    BY <1>0, <1>6, FewerLive DEF AlertsDone, redis, promoter, TypeOK
  <1>7. ASSUME NEW w \in Workers, NEW error \in Errors, RecordFailure(w, error)
        PROVE NotLive(s)'
    <2>1. hand[w] \in Job /\ hand[w] # NoJob /\ error \in ErrorTypes
      BY <1>0, <1>7, ConstantsAssumption DEF RecordFailure, TypeOK
    <2> DEFINE failed == [hand[w] EXCEPT !.attempt_history = Append(@, error)]
    <2>2. failed.enqueued_at = hand[w].enqueued_at
      BY <2>1, FailedJobType
    <2>3. hand' = [hand EXCEPT ![w] = failed] /\ UNCHANGED <<main, delayed, lift>>
      BY <1>0, <1>7 DEF RecordFailure, redis, promoter, TypeOK
    <2> HIDE DEF failed
    <2> QED BY <1>0, <2>1, <2>2, <2>3, FewerLive DEF TypeOK
  <1>8. ASSUME NEW w \in Workers, DeadLetter(w) PROVE NotLive(s)'
    BY <1>0, <1>8, FewerLive DEF DeadLetter, promoter, TypeOK
  <1>9. ASSUME NEW w \in Workers, ScheduleRetry(w) PROVE NotLive(s)'
    <2>1. hand[w] \in Job /\ hand[w] # NoJob
      BY <1>0, <1>9 DEF ScheduleRetry, TypeOK
    <2> DEFINE next == [hand[w] EXCEPT !.attempt = @ + 1]
    <2>2. next.enqueued_at = hand[w].enqueued_at
      BY <2>1, RetriedJobType
    <2>3. /\ delayed' = delayed \cup {next}
          /\ hand' = [hand EXCEPT ![w] = NoJob]
          /\ UNCHANGED <<main, lift>>
      BY <1>9 DEF ScheduleRetry, promoter
    <2> HIDE DEF next
    <2> QED BY <1>0, <2>1, <2>2, <2>3
            DEF NotLive, NotListed, NotDelayed, NotHeld, NotLifted, TypeOK
  <1>10. ASSUME NEW w \in Workers, FetchDue(w) \/ PromoterTurn(w) PROVE NotLive(s)'
    BY <1>10, FewerLive DEF FetchDue, PromoterTurn, redis, worker
  <1>11. ASSUME NEW w \in Workers, NEW job \in batch[w], RemoveDelayed(w, job)
         PROVE NotLive(s)'
    <2>1. CASE job \notin delayed
      BY <1>11, <2>1, FewerLive DEF RemoveDelayed, worker
    <2>2. CASE job \in delayed
      BY <1>0, <1>11, <2>2
         DEF RemoveDelayed, worker, NotLive, NotListed, NotDelayed, NotHeld, NotLifted, TypeOK
    <2> QED BY <2>1, <2>2
  <1>12. ASSUME NEW w \in Workers, PushPromoted(w) PROVE NotLive(s)'
    <2>1. /\ lift[w] \in Job /\ lift[w] # NoJob
          /\ main' = Append(main, lift[w])
          /\ lift' = [lift EXCEPT ![w] = NoJob]
          /\ UNCHANGED <<delayed, hand>>
      BY <1>0, <1>12 DEF PushPromoted, TypeOK, worker
    <2>2. lift[w].enqueued_at # s
      BY <2>1 DEF NotLive, NotLifted
    <2> QED BY <1>0, <2>1, <2>2, PushNotLive DEF TypeOK
  <1>13. ASSUME NEW w \in Workers, Process(w) PROVE NotLive(s)'
    <2>1. CASE Sigterm(w) \/ GracefulExit(w) \/ Restart(w)
      BY <2>1, FewerLive DEF Sigterm, GracefulExit, Restart, redis, worker, promoter
    <2>2. CASE Crash(w)
      BY <1>0, <2>2, FewerLive DEF Crash, redis, TypeOK
    <2> QED BY <1>13, <2>1, <2>2 DEF Process
  <1>14. ASSUME NEW job \in delayed, BackoffElapses(job) PROVE NotLive(s)'
    BY <1>14, FewerLive DEF BackoffElapses, worker, promoter
  <1>15. CASE UNCHANGED vars
    BY <1>15, FewerLive DEF vars, redis, worker, promoter
  <1> QED
    BY <1>1, <1>2, <1>3, <1>4, <1>5, <1>6, <1>7, <1>8, <1>9, <1>10, <1>11, <1>12,
       <1>13, <1>14, <1>15
       DEF Next, WorkerLoop, PromoterLoop

\* A dead letter is live nowhere.
LEMMA DeadNotLive == ASSUME Inv2, NEW d \in dead PROVE NotLive(d.enqueued_at)
  BY Elsewhere DEF NotLive, NotDead

\* What closes or reads no push keeps what is settled.
LEMMA StillSettled ==
  ASSUME Inv6, [Next]_vars, closed' \subseteq closed,
         \A r \in Requests : record'[r] # NoJob => record'[r] = record[r]
  PROVE  Settled'
  <1>1. /\ closed \subseteq 1..pushes
        /\ \A r \in Requests : record[r] # NoJob => record[r].enqueued_at \in 1..pushes
    BY DEF Inv6, Inv2, Inv1, TypeOK, Issued, DeadRecord, Stamp
  <1>2. \A s \in 1..pushes : NotLive(s) => NotLive(s)'
    BY NeverLiveAgain DEF Inv6
  <1>3. \A s \in closed' : NotLive(s)'
    BY <1>1, <1>2 DEF Inv6, Settled
  <1>4. ASSUME NEW r \in Requests, record'[r] # NoJob
        PROVE  NotLive(record[r].enqueued_at)'
    <2>1. record[r] # NoJob /\ record'[r] = record[r]
      BY <1>4
    <2>2. PICK s \in 1..pushes : s = record[r].enqueued_at /\ NotLive(s)
      BY <1>1, <2>1 DEF Inv6, Settled
    <2>3. NotLive(s)' /\ s = record'[r].enqueued_at
      BY <1>2, <2>1, <2>2
    <2> QED BY <2>3 DEF NotLive, NotListed, NotDelayed, NotHeld, NotLifted
  <1> QED BY <1>3, <1>4 DEF Settled

\* Closing one more push that is live nowhere any more.
LEMMA OneMoreSettled ==
  ASSUME Inv6, [Next]_vars, NEW c, NotLive(c)', closed' \subseteq closed \cup {c},
         UNCHANGED record
  PROVE  Settled'
  <1>1. /\ closed \subseteq 1..pushes
        /\ \A r \in Requests : record[r] # NoJob => record[r].enqueued_at \in 1..pushes
    BY DEF Inv6, Inv2, Inv1, TypeOK, Issued, DeadRecord, Stamp
  <1>2. \A s \in 1..pushes : NotLive(s) => NotLive(s)'
    BY NeverLiveAgain DEF Inv6
  <1>3. \A s \in closed' : NotLive(s)'
    BY <1>1, <1>2 DEF Inv6, Settled
  <1>4. ASSUME NEW r \in Requests, record'[r] # NoJob
        PROVE  NotLive(record[r].enqueued_at)'
    <2>1. PICK s \in 1..pushes : s = record[r].enqueued_at /\ NotLive(s)
      BY <1>1, <1>4 DEF Inv6, Settled
    <2>2. NotLive(s)' /\ s = record'[r].enqueued_at
      BY <1>2, <2>1
    <2> QED BY <2>2 DEF NotLive, NotListed, NotDelayed, NotHeld, NotLifted
  <1> QED BY <1>3, <1>4 DEF Settled

\* The job that process_job is done with was in no other place.
LEMMA HandOnly ==
  ASSUME Inv2, NEW w \in Workers, hand[w] # NoJob, NEW c, c = hand[w].enqueued_at
  PROVE  /\ NotListed(c) /\ NotDelayed(c) /\ NotDead(c) /\ NotLifted(c)
         /\ \A v \in Workers : v # w /\ hand[v] # NoJob => hand[v].enqueued_at # c
  <1>1. ~NotHeld(c)
    BY DEF NotHeld
  <1>2. NotListed(c) /\ NotDelayed(c) /\ NotDead(c) /\ NotLifted(c)
    BY <1>1, Elsewhere
  <1> QED BY <1>2 DEF Inv2, Distinct, OneInHand

LEMMA LiftOnly ==
  ASSUME Inv2, NEW w \in Workers, lift[w] # NoJob, NEW c, c = lift[w].enqueued_at
  PROVE  /\ NotListed(c) /\ NotDelayed(c) /\ NotDead(c) /\ NotHeld(c)
         /\ \A v \in Workers : v # w /\ lift[v] # NoJob => lift[v].enqueued_at # c
  <1>1. ~NotLifted(c)
    BY DEF NotLifted
  <1>2. NotListed(c) /\ NotDelayed(c) /\ NotDead(c) /\ NotHeld(c)
    BY <1>1, Elsewhere
  <1> QED BY <1>2 DEF Inv2, Distinct, OneInLift

LEMMA StepSettled == Inv6 /\ [Next]_vars => Settled'
  <1> SUFFICES ASSUME Inv6, [Next]_vars PROVE Settled'
    OBVIOUS
  <1>0. Inv2 /\ TypeOK /\ closed \subseteq 1..pushes
    BY DEF Inv6, Inv2, Inv1, TypeOK
  <1>1. ASSUME NEW d \in dead, PurgeDeadLetter(d) PROVE Settled'
    <2>1. NotLive(d.enqueued_at)
      BY <1>0, DeadNotLive
    <2>2. PICK c : c = d.enqueued_at /\ NotLive(c) /\ NotLive(c)'
      BY <1>1, <2>1, FewerLive DEF PurgeDeadLetter, worker, promoter
    <2>3. closed' = closed \cup {c} /\ UNCHANGED record
      BY <1>1, <2>2 DEF PurgeDeadLetter, api
    <2> QED BY <2>2, <2>3, OneMoreSettled
  <1>2. ASSUME NEW r \in Requests, NEW d \in dead, ReplayRead(r, d) PROVE Settled'
    <2>1. NotLive(d.enqueued_at)
      BY <1>0, DeadNotLive
    <2>2. /\ UNCHANGED <<main, delayed, hand, lift, closed>>
          /\ record' = [record EXCEPT ![r] = d]
      BY <1>2 DEF ReplayRead, redis, worker, promoter, ledger
    <2>3. \A s : NotLive(s) => NotLive(s)'
      BY <2>2, FewerLive
    <2>4. \A s \in closed' : NotLive(s)'
      BY <2>2, <2>3 DEF Inv6, Settled
    <2>5. ASSUME NEW q \in Requests, record'[q] # NoJob
          PROVE  NotLive(record[q].enqueued_at)'
      <3>1. PICK s : s = record'[q].enqueued_at
        OBVIOUS
      <3>2. NotLive(s)
        BY <1>0, <2>1, <2>2, <2>5, <3>1 DEF Inv6, Settled, TypeOK
      <3>3. NotLive(s)'
        BY <2>3, <3>2
      <3> QED BY <3>1, <3>3 DEF NotLive, NotListed, NotDelayed, NotHeld, NotLifted
    <2> QED BY <2>4, <2>5 DEF Settled
  <1>3. ASSUME NEW r \in Requests, ReplayPush(r) PROVE Settled'
    <2>1. record[r] # NoJob /\ record[r].enqueued_at \in 1..pushes
      BY <1>0, <1>3 DEF ReplayPush, TypeOK, Inv2, Inv1, Issued, DeadRecord, Stamp
    <2>2. PICK c \in 1..pushes : c = record[r].enqueued_at /\ NotLive(c)
      BY <2>1 DEF Inv6, Settled
    <2>3. NotLive(c)'
      BY <1>0, <2>2, NeverLiveAgain
    <2>4. closed' = closed \cup {c} /\ UNCHANGED record
      BY <1>3, <2>2 DEF ReplayPush
    <2> QED BY <2>3, <2>4, OneMoreSettled
  <1>4. ASSUME NEW r \in Requests, ReplayRemove(r) \/ AbortReplay(r) PROVE Settled'
    BY <1>0, <1>4, StillSettled DEF ReplayRemove, AbortReplay, ledger, TypeOK
  <1>5. ASSUME NEW w \in Workers, AlertsDone(w) PROVE Settled'
    <2>1. hand[w] # NoJob
      BY <1>0, <1>5 DEF AlertsDone, TypeOK
    <2>2. PICK c : c = hand[w].enqueued_at
      OBVIOUS
    <2>3. NotLive(c)'
      BY <1>0, <1>5, <2>1, <2>2, HandOnly
         DEF AlertsDone, redis, promoter, TypeOK, NotLive, NotListed, NotDelayed, NotHeld,
             NotLifted
    <2>4. closed' = closed \cup {c} /\ UNCHANGED record
      BY <1>5, <2>2 DEF AlertsDone, api
    <2> QED BY <2>3, <2>4, OneMoreSettled
  <1>6. CASE UNCHANGED <<closed, record>>
    BY <1>6, StillSettled
  <1>7. CASE EnqueueJob \/ \E job \in delayed : BackoffElapses(job)
    BY <1>6, <1>7 DEF EnqueueJob, BackoffElapses, ledger, api
  <1>8. ASSUME NEW w \in Workers,
               \/ Dequeue(w) \/ PollTimeout(w) \/ HandleSuccess(w)
               \/ \E error \in Errors : RecordFailure(w, error)
               \/ DeadLetter(w) \/ ScheduleRetry(w)
               \/ PromoterLoop(w) \/ Process(w)
        PROVE  Settled'
    BY <1>6, <1>8
       DEF Dequeue, PollTimeout, HandleSuccess, RecordFailure, DeadLetter, ScheduleRetry,
           PromoterLoop, FetchDue, RemoveDelayed, PushPromoted, PromoterTurn,
           Process, Sigterm, GracefulExit, Crash, Restart, ledger, api
  <1>9. CASE UNCHANGED vars
    BY <1>6, <1>9 DEF vars, ledger, api
  <1> QED BY <1>1, <1>2, <1>3, <1>4, <1>5, <1>7, <1>8, <1>9 DEF Next, Replay, WorkerLoop

LEMMA Inv6Invariant == Spec => []Inv6
  <1>1. Init => Inv6
    BY InitInv2, InitBudget DEF Init, Inv6, Settled
  <1>2. Inv6 /\ [Next]_vars => Inv6'
    BY StepInv1, StepDistinct, StepBudget, StepSettled DEF Inv6, Inv2, Inv3
  <1> QED BY <1>1, <1>2, PTL DEF Spec

-----------------------------------------------------------------------------
(* The steps that JobLifecycle allows, as moves between stages.            *)

Allowed(a, n, b, m) ==
    \/ a = b /\ n = m
    \/ a = "unborn" /\ b = "ready" /\ m = 1
    \/ a = "ready" /\ b = "running" /\ m = n
    \/ a = "running" /\ b = "waiting" /\ n < MaxAttempts /\ m = n + 1
    \/ a = "waiting" /\ b = "ready" /\ m = n
    \/ a = "running" /\ b = "dead" /\ m = n
    \/ a \in {"running", "dead"} /\ b = "closed" /\ m = 0
    \/ a \in {"running", "waiting", "dead"} /\ b = "lost" /\ m = 0
    \/ a = "lost" /\ b = "closed" /\ m = 0

Goes(s) == \E a, n, b, m : Stage(s, a, n) /\ Stage(s, b, m)' /\ Allowed(a, n, b, m)

\* The step leaves push s where it is.
Kept(s) ==
    /\ \A n : OnList(s, n) => OnList(s, n)'
    /\ \A n : Parked(s, n) \/ Aloft(s, n) => Parked(s, n)' \/ Aloft(s, n)'
    /\ \A n : InHand(s, n) => InHand(s, n)'
    /\ \A n : Buried(s, n) => Buried(s, n)'
    /\ Nowhere(s) => Nowhere(s)'
    /\ s > pushes <=> s > pushes'
    /\ Nowhere(s) /\ s <= pushes => (s \in closed <=> s \in closed')

LEMMA StageTotal ==
  ASSUME TypeOK, NEW s \in 1..MaxPushes
  PROVE  \E st, n : Stage(s, st, n)
  <1>1. CASE ~NotListed(s)
    BY <1>1 DEF NotListed, OnList, Stage
  <1>2. CASE ~NotDelayed(s)
    BY <1>2 DEF NotDelayed, Parked, Stage
  <1>3. CASE ~NotLifted(s)
    BY <1>3 DEF NotLifted, Aloft, Stage
  <1>4. CASE ~NotHeld(s)
    BY <1>4 DEF NotHeld, InHand, Stage
  <1>5. CASE ~NotDead(s)
    BY <1>5 DEF NotDead, Buried, Stage
  <1>6. CASE Nowhere(s)
    BY <1>6, PushesType DEF Stage
  <1> QED BY <1>1, <1>2, <1>3, <1>4, <1>5, <1>6 DEF Nowhere, NotLive

LEMMA KeptGoes ==
  ASSUME Inv2, Inv2', NEW s \in 1..MaxPushes, Kept(s)
  PROVE  Goes(s)
  <1>0. TypeOK /\ s \in Nat /\ pushes \in Nat /\ pushes' \in Nat
    BY PushesType DEF Inv2, Inv1, TypeOK
  <1>1. PICK st, n : Stage(s, st, n)
    BY <1>0, StageTotal
  <1>2. s <= pushes => s <= pushes'
    BY <1>0 DEF Kept
  <1>3. Stage(s, st, n)'
    BY <1>1, <1>2 DEF Stage, Kept
  <1> QED BY <1>1, <1>3 DEF Goes, Allowed

\* Steps that move no job.
LEMMA NothingMoves ==
  ASSUME NEW s, UNCHANGED <<main, delayed, dead, lift, pushes, closed>>,
         \A w \in Workers : hand[w] # NoJob <=> hand'[w] # NoJob,
         \A w \in Workers : hand[w] # NoJob => /\ hand'[w].enqueued_at = hand[w].enqueued_at
                                               /\ hand'[w].attempt = hand[w].attempt
  PROVE  Kept(s)
  BY DEF Kept, OnList, Parked, Aloft, InHand, Buried, Nowhere, NotLive, NotListed,
         NotDelayed, NotLifted, NotHeld, NotDead

\* RPUSH of a fresh job: it is born; a replay closes the push it replays.
LEMMA PushGoes ==
  ASSUME Inv2, Inv2', NEW s \in 1..MaxPushes, NEW job \in Job,
         job.enqueued_at = pushes + 1, job.attempt = 1,
         main' = Append(main, job), pushes' = pushes + 1, closed \subseteq closed',
         UNCHANGED <<delayed, dead, hand, lift>>
  PROVE  Goes(s)
  <1>0. TypeOK /\ s \in Nat /\ pushes \in Nat /\ main \in Seq(Job)
    BY PushesType DEF Inv2, Inv1, TypeOK
  <1>1. CASE s = pushes + 1
    <2>1. Stage(s, "unborn", 0)
      BY <1>0, <1>1 DEF Stage
    <2>2. Stage(s, "ready", 1)'
      BY <1>0, <1>1, AppendFacts DEF Stage, OnList
    <2> QED BY <2>1, <2>2 DEF Goes, Allowed
  <1>2. CASE s # pushes + 1
    <2>1. \A n : OnList(s, n) => OnList(s, n)'
      BY <1>0, AppendFacts DEF OnList
    <2>2. Nowhere(s) => Nowhere(s)'
      BY <1>0, <1>2, PushNotLive DEF Nowhere, NotDead
    <2>3. CASE Nowhere(s) /\ s <= pushes /\ s \notin closed /\ s \in closed'
      <3>1. Stage(s, "lost", 0)
        BY <2>3 DEF Stage
      <3>2. Stage(s, "closed", 0)'
        BY <1>0, <2>2, <2>3 DEF Stage
      <3> QED BY <3>1, <3>2 DEF Goes, Allowed
    <2>4. CASE ~(Nowhere(s) /\ s <= pushes /\ s \notin closed /\ s \in closed')
      <3>1. Kept(s)
        BY <1>0, <1>2, <2>1, <2>2, <2>4 DEF Kept, Parked, Aloft, InHand, Buried
      <3> QED BY <3>1, KeptGoes
    <2> QED BY <2>3, <2>4
  <1> QED BY <1>1, <1>2

\* HDEL: what goes was dead, and is closed or lost from now on.
LEMMA RemovalGoes ==
  ASSUME Inv2, Inv2', NEW s \in 1..MaxPushes, dead' \subseteq dead,
         Nowhere(s) => (s \in closed <=> s \in closed'),
         UNCHANGED <<main, delayed, hand, lift, pushes>>
  PROVE  Goes(s)
  <1>0. TypeOK /\ s \in Nat /\ pushes \in Nat
    BY PushesType DEF Inv2, Inv1, TypeOK
  <1>1. ASSUME NEW d \in dead, d.enqueued_at = s, d \notin dead' PROVE Goes(s)
    <2>1. Stage(s, "dead", Len(d.attempts))
      BY <1>1 DEF Stage, Buried
    <2>2. NotLive(s) /\ ~Nowhere(s)
      BY <1>1, DeadNotLive DEF Nowhere, NotDead
    <2>3. \A e \in dead : e.enqueued_at = s => e = d
      BY <1>1 DEF Inv2, Distinct, OneInDead
    <2>4. Nowhere(s)'
      BY <1>1, <2>2, <2>3 DEF Nowhere, NotLive, NotListed, NotDelayed, NotLifted, NotHeld, NotDead
    <2>5. s <= pushes'
      BY <2>2, SomewhereIssued
    <2>6. Stage(s, "closed", 0)' \/ Stage(s, "lost", 0)'
      BY <2>4, <2>5 DEF Stage
    <2> QED BY <2>1, <2>6 DEF Goes, Allowed
  <1>2. CASE \A d \in dead : d.enqueued_at = s => d \in dead'
    <2>1. Kept(s)
      BY <1>2 DEF Kept, OnList, Parked, Aloft, InHand, Buried, Nowhere, NotLive, NotListed,
              NotDelayed, NotLifted, NotHeld, NotDead
    <2> QED BY <2>1, KeptGoes
  <1> QED BY <1>1, <1>2

\* BLPOP: the first job of the list starts.
LEMMA DequeueGoes ==
  ASSUME Inv2, Inv2', NEW s \in 1..MaxPushes, NEW w \in Workers, Dequeue(w)
  PROVE  Goes(s)
  <1>0. TypeOK /\ s \in Nat /\ pushes \in Nat
    BY PushesType DEF Inv2, Inv1, TypeOK
  <1>1. /\ main \in Seq(Job) /\ main # <<>> /\ main' = Tail(main) /\ 1 \in DOMAIN main
        /\ main[1] \in Job /\ main[1] # NoJob
        /\ hand' = [hand EXCEPT ![w] = main[1]] /\ hand[w] = NoJob
        /\ UNCHANGED <<delayed, dead, lift, closed, pushes>>
    <2>1. /\ main \in Seq(Job) /\ main # <<>> /\ main' = Tail(main)
          /\ hand' = [hand EXCEPT ![w] = Head(main)] /\ hand[w] = NoJob
          /\ UNCHANGED <<delayed, dead, lift, closed, pushes>>
      BY <1>0 DEF Dequeue, TypeOK, promoter, ledger
    <2>2. Head(main) = main[1] /\ 1 \in DOMAIN main /\ main[1] \in Job
      BY <2>1, PopFacts
    <2> QED BY <2>1, <2>2, ConstantsAssumption
  <1>2. CASE main[1].enqueued_at = s
    <2>0. PICK n : n = main[1].attempt
      OBVIOUS
    <2>1. Stage(s, "ready", n)
      BY <1>1, <1>2, <2>0 DEF Stage, OnList
    <2>2. Stage(s, "running", n)'
      BY <1>0, <1>1, <1>2, <2>0 DEF Stage, InHand, TypeOK
    <2> QED BY <2>1, <2>2 DEF Goes, Allowed
  <1>3. CASE main[1].enqueued_at # s
    <2>1. \A i \in DOMAIN main : i # 1 => \E k \in DOMAIN main' : main'[k] = main[i]
      <3>1. /\ Len(main) \in Nat /\ DOMAIN main = 1..Len(main)
            /\ DOMAIN main' = 1..(Len(main) - 1)
            /\ \A k \in DOMAIN main' : main'[k] = main[k + 1]
        BY <1>1, PopFacts
      <3>2. \A i \in 1..Len(main) : i # 1 => i - 1 \in 1..(Len(main) - 1) /\ (i - 1) + 1 = i
        BY <3>1
      <3> QED BY <3>1, <3>2
    <2>2. \A n : OnList(s, n) => OnList(s, n)'
      BY <1>3, <2>1 DEF OnList
    <2>3. \A v \in Workers : v # w => hand'[v] = hand[v]
      BY <1>0, <1>1 DEF TypeOK
    <2>4. \A n : InHand(s, n) => InHand(s, n)'
      BY <1>1, <2>3 DEF InHand
    <2>5. \A i \in DOMAIN main' : \E k \in DOMAIN main : main'[i] = main[k]
      BY <1>1, PopFacts
    <2>6. Nowhere(s) => Nowhere(s)'
      BY <1>0, <1>1, <1>3, <2>3, <2>5
         DEF Nowhere, NotLive, NotListed, NotDelayed, NotLifted, NotHeld, NotDead, TypeOK
    <2>7. Kept(s)
      BY <1>1, <2>2, <2>4, <2>6 DEF Kept, Parked, Aloft, Buried
    <2> QED BY <2>7, KeptGoes
  <1> QED BY <1>2, <1>3

\* What is known of a worker's hand when its job goes elsewhere: of the
\* other pushes nothing changes there.
LEMMA OtherHands ==
  ASSUME TypeOK, NEW s, NEW w \in Workers, hand[w] # NoJob, hand[w].enqueued_at # s,
         hand' = [hand EXCEPT ![w] = NoJob]
  PROVE  /\ \A n : InHand(s, n) => InHand(s, n)'
         /\ NotHeld(s) => NotHeld(s)'
  <1>1. \A v \in Workers : v # w => hand'[v] = hand[v]
    BY DEF TypeOK
  <1>2. hand'[w] = NoJob
    BY DEF TypeOK
  <1> QED BY <1>1, <1>2 DEF InHand, NotHeld

\* And the push itself is in no hand any more.
LEMMA HandLeft ==
  ASSUME Inv2, NEW s, NEW w \in Workers, hand[w] # NoJob, hand[w].enqueued_at = s,
         hand' = [hand EXCEPT ![w] = NoJob]
  PROVE  NotHeld(s)'
  <1>1. \A v \in Workers : v # w /\ hand[v] # NoJob => hand[v].enqueued_at # s
    BY HandOnly
  <1> QED BY <1>1 DEF NotHeld, Inv2, Inv1, TypeOK

LEMMA AlertsDoneGoes ==
  ASSUME Inv2, Inv2', NEW s \in 1..MaxPushes, NEW w \in Workers, AlertsDone(w)
  PROVE  Goes(s)
  <1>0. TypeOK /\ s \in Nat /\ pushes \in Nat
    BY PushesType DEF Inv2, Inv1, TypeOK
  <1>1. /\ hand[w] # NoJob /\ hand' = [hand EXCEPT ![w] = NoJob]
        /\ closed' = closed \cup {hand[w].enqueued_at}
        /\ UNCHANGED <<main, delayed, dead, lift, pushes>>
    BY <1>0 DEF AlertsDone, TypeOK, redis, promoter
  <1>2. CASE hand[w].enqueued_at = s
    <2>1. \E n : Stage(s, "running", n)
      BY <1>1, <1>2 DEF Stage, InHand
    <2>2. Nowhere(s)'
      BY <1>1, <1>2, HandOnly, HandLeft
         DEF Nowhere, NotLive, NotListed, NotDelayed, NotLifted, NotDead
    <2>3. s <= pushes'
      BY <1>0, <1>1, <1>2 DEF Inv2, Inv1, Issued
    <2>4. Stage(s, "closed", 0)'
      BY <1>1, <1>2, <2>2, <2>3 DEF Stage
    <2> QED BY <2>1, <2>4 DEF Goes, Allowed
  <1>3. CASE hand[w].enqueued_at # s
    <2>1. Kept(s)
      BY <1>0, <1>1, <1>3, OtherHands
         DEF Kept, OnList, Parked, Aloft, Buried, Nowhere, NotLive, NotListed, NotDelayed,
             NotLifted, NotDead
    <2> QED BY <2>1, KeptGoes
  <1> QED BY <1>2, <1>3

\* HSET: the job is buried; a letter that it replaces is closed or lost.
LEMMA DeadLetterGoes ==
  ASSUME Inv2, Inv2', Budget, NEW s \in 1..MaxPushes, NEW w \in Workers, DeadLetter(w)
  PROVE  Goes(s)
  <1>0. TypeOK /\ s \in Nat /\ pushes \in Nat
    BY PushesType DEF Inv2, Inv1, TypeOK
  <1> DEFINE letter == DeadLetterOf(hand[w])
  <1>1. /\ hand[w] \in Job /\ hand[w] # NoJob /\ hand' = [hand EXCEPT ![w] = NoJob]
        /\ dead' = {d \in dead : d.job_id # hand[w].job_id} \cup {letter}
        /\ UNCHANGED <<main, delayed, lift, closed, pushes>>
    BY <1>0 DEF DeadLetter, TypeOK, promoter, ledger
  <1>2. letter.enqueued_at = hand[w].enqueued_at /\ Len(letter.attempts) = hand[w].attempt
    BY <1>1, DeadLetterType DEF DeadLetter, Budget, HandFit, Failed
  <1>3. letter \in dead' /\ \A d \in dead' : d \in dead \/ d = letter
    BY <1>1
  <1> HIDE DEF letter
  <1>4. CASE hand[w].enqueued_at = s
    <2>1. PICK n : n = hand[w].attempt
      OBVIOUS
    <2>2. Stage(s, "running", n)
      BY <1>1, <1>4, <2>1 DEF Stage, InHand
    <2>3. \E d \in dead' : d.enqueued_at = s /\ Len(d.attempts) = n
      BY <1>2, <1>3, <1>4, <2>1
    <2>4. Stage(s, "dead", n)'
      BY <2>3 DEF Stage, Buried
    <2> QED BY <2>2, <2>4 DEF Goes, Allowed
  <1>5. ASSUME hand[w].enqueued_at # s,
               NEW d \in dead, d.enqueued_at = s, d \notin dead'
        PROVE  Goes(s)
    <2>1. \E n : Stage(s, "dead", n)
      BY <1>5 DEF Stage, Buried
    <2>2. NotLive(s) /\ ~Nowhere(s)
      BY <1>5, DeadNotLive DEF Nowhere, NotDead
    <2>3. \A e \in dead : e.enqueued_at = s => e = d
      BY <1>5 DEF Inv2, Distinct, OneInDead
    <2>4. NotDead(s)'
      BY <1>2, <1>3, <1>5, <2>3 DEF NotDead
    <2>5. Nowhere(s)'
      BY <1>0, <1>1, <1>5, <2>2, <2>4, OtherHands
         DEF Nowhere, NotLive, NotListed, NotDelayed, NotLifted
    <2>6. s <= pushes'
      BY <1>1, <2>2, SomewhereIssued
    <2>7. Stage(s, "closed", 0)' \/ Stage(s, "lost", 0)'
      BY <2>5, <2>6 DEF Stage
    <2> QED BY <2>1, <2>7 DEF Goes, Allowed
  <1>6. CASE /\ hand[w].enqueued_at # s
             /\ \A d \in dead : d.enqueued_at = s => d \in dead'
    <2>1. /\ \A n : InHand(s, n) => InHand(s, n)'
          /\ NotHeld(s) => NotHeld(s)'
      BY <1>0, <1>1, <1>6, OtherHands
    <2>2. NotDead(s) => NotDead(s)'
      BY <1>2, <1>3, <1>6 DEF NotDead
    <2>3. \A n : Buried(s, n) => Buried(s, n)'
      BY <1>6 DEF Buried
    <2>4. Kept(s)
      BY <1>1, <2>1, <2>2, <2>3
         DEF Kept, OnList, Parked, Aloft, Nowhere, NotLive, NotListed, NotDelayed, NotLifted
    <2> QED BY <2>4, KeptGoes
  <1> QED BY <1>4, <1>5, <1>6

\* ZADD: one more try, which the routing has counted.
LEMMA ScheduleRetryGoes ==
  ASSUME Inv2, Inv2', NEW s \in 1..MaxPushes, NEW w \in Workers, ScheduleRetry(w)
  PROVE  Goes(s)
  <1>0. TypeOK /\ s \in Nat /\ pushes \in Nat
    BY PushesType DEF Inv2, Inv1, TypeOK
  <1> DEFINE next == [hand[w] EXCEPT !.attempt = @ + 1]
  <1>1. /\ hand[w] \in Job /\ hand[w] # NoJob /\ hand' = [hand EXCEPT ![w] = NoJob]
        /\ delayed' = delayed \cup {next}
        /\ UNCHANGED <<main, dead, lift, closed, pushes>>
    BY <1>0 DEF ScheduleRetry, TypeOK, promoter, ledger
  <1>2. next.enqueued_at = hand[w].enqueued_at /\ next.attempt = hand[w].attempt + 1
    BY <1>1, RetriedJobType
  <1>3. hand[w].attempt < MaxAttempts
    <2>1. hand[w].attempt \in Nat
      BY <1>1 DEF Job
    <2>2. ~(hand[w].attempt >= MaxAttempts)
      BY DEF ScheduleRetry, GivesUp
    <2> QED BY <2>1, <2>2, ConstantsAssumption
  <1> HIDE DEF next
  <1>4. CASE hand[w].enqueued_at = s
    <2>1. PICK n : n = hand[w].attempt
      OBVIOUS
    <2>2. Stage(s, "running", n)
      BY <1>1, <1>4, <2>1 DEF Stage, InHand
    <2>3. \E j \in delayed' : j.enqueued_at = s /\ j.attempt = n + 1
      BY <1>1, <1>2, <1>4, <2>1
    <2>4. Stage(s, "waiting", n + 1)'
      BY <2>3 DEF Stage, Parked
    <2> QED BY <1>3, <2>1, <2>2, <2>4 DEF Goes, Allowed
  <1>5. CASE hand[w].enqueued_at # s
    <2>1. /\ \A n : InHand(s, n) => InHand(s, n)'
          /\ NotHeld(s) => NotHeld(s)'
      BY <1>0, <1>1, <1>5, OtherHands
    <2>2. NotDelayed(s) => NotDelayed(s)'
      BY <1>1, <1>2, <1>5 DEF NotDelayed
    <2>3. Kept(s)
      BY <1>1, <2>1, <2>2
         DEF Kept, OnList, Parked, Aloft, Buried, Nowhere, NotLive, NotListed, NotLifted, NotDead
    <2> QED BY <2>3, KeptGoes
  <1> QED BY <1>4, <1>5

\* ZREM: a waiting job goes on waiting, in the promoter's memory.
LEMMA RemoveDelayedGoes ==
  ASSUME Inv2, Inv2', NEW s \in 1..MaxPushes,
         NEW w \in Workers, NEW job \in batch[w], RemoveDelayed(w, job)
  PROVE  Goes(s)
  <1>0. TypeOK /\ UNCHANGED <<main, dead, hand, closed, pushes>> /\ delayed' = delayed \ {job}
    BY DEF Inv2, Inv1, RemoveDelayed, worker, ledger
  <1>1. CASE job \notin delayed
    <2>1. UNCHANGED <<delayed, lift>>
      BY <1>0, <1>1 DEF RemoveDelayed
    <2> QED BY <1>0, <2>1, NothingMoves, KeptGoes
  <1>2. CASE job \in delayed
    <2>1. lift[w] = NoJob /\ lift' = [lift EXCEPT ![w] = job] /\ job # NoJob
      BY <1>0, <1>2, ConstantsAssumption DEF RemoveDelayed, TypeOK
    <2>2. lift'[w] = job /\ \A v \in Workers : v # w => lift'[v] = lift[v]
      BY <1>0, <2>1 DEF TypeOK
    <2>3. \A n : Parked(s, n) \/ Aloft(s, n) => Parked(s, n)' \/ Aloft(s, n)'
      BY <1>0, <2>1, <2>2 DEF Parked, Aloft
    <2>4. NotDelayed(s) /\ NotLifted(s) => NotDelayed(s)' /\ NotLifted(s)'
      BY <1>0, <1>2, <2>2 DEF NotDelayed, NotLifted
    <2>5. Kept(s)
      BY <1>0, <2>3, <2>4
         DEF Kept, OnList, InHand, Buried, Nowhere, NotLive, NotListed, NotHeld, NotDead
    <2> QED BY <2>5, KeptGoes
  <1> QED BY <1>1, <1>2

\* RPUSH by the promoter: the job is ready again.
LEMMA PushPromotedGoes ==
  ASSUME Inv2, Inv2', NEW s \in 1..MaxPushes, NEW w \in Workers, PushPromoted(w)
  PROVE  Goes(s)
  <1>0. TypeOK /\ s \in Nat /\ pushes \in Nat
    BY PushesType DEF Inv2, Inv1, TypeOK
  <1>1. /\ lift[w] \in Job /\ lift[w] # NoJob /\ main \in Seq(Job)
        /\ main' = Append(main, lift[w])
        /\ lift' = [lift EXCEPT ![w] = NoJob]
        /\ UNCHANGED <<delayed, dead, hand, closed, pushes>>
    BY <1>0 DEF PushPromoted, TypeOK, worker, ledger
  <1>2. /\ \A i \in DOMAIN main : i \in DOMAIN main' /\ main'[i] = main[i]
        /\ \E i \in DOMAIN main' : main'[i] = lift[w]
        /\ \A i \in DOMAIN main' : i \in DOMAIN main \/ main'[i] = lift[w]
    BY <1>1, AppendFacts
  <1>3. CASE lift[w].enqueued_at = s
    <2>1. PICK n : n = lift[w].attempt
      OBVIOUS
    <2>2. Stage(s, "waiting", n)
      BY <1>1, <1>3, <2>1 DEF Stage, Aloft
    <2>3. Stage(s, "ready", n)'
      BY <1>2, <1>3, <2>1 DEF Stage, OnList
    <2> QED BY <2>2, <2>3 DEF Goes, Allowed
  <1>4. CASE lift[w].enqueued_at # s
    <2>1. lift'[w] = NoJob /\ \A v \in Workers : v # w => lift'[v] = lift[v]
      BY <1>0, <1>1 DEF TypeOK
    <2>2. \A n : Aloft(s, n) => Aloft(s, n)'
      BY <1>4, <2>1 DEF Aloft
    <2>3. NotLifted(s) => NotLifted(s)'
      BY <2>1 DEF NotLifted
    <2>4. NotListed(s) => NotListed(s)'
      BY <1>2, <1>4 DEF NotListed
    <2>5. \A n : OnList(s, n) => OnList(s, n)'
      BY <1>2 DEF OnList
    <2>6. Kept(s)
      BY <1>1, <2>2, <2>3, <2>4, <2>5
         DEF Kept, Parked, InHand, Buried, Nowhere, NotLive, NotDelayed, NotHeld, NotDead
    <2> QED BY <2>6, KeptGoes
  <1> QED BY <1>3, <1>4

\* A death: what the process held is lost, or closed if a replay of it was
\* already out, which can only be a dead letter's.
LEMMA CrashGoes ==
  ASSUME Inv2, Inv2', Settled, NEW s \in 1..MaxPushes, NEW w \in Workers, Crash(w)
  PROVE  Goes(s)
  <1>0. TypeOK /\ s \in Nat /\ pushes \in Nat
    BY PushesType DEF Inv2, Inv1, TypeOK
  <1>1. /\ hand' = [hand EXCEPT ![w] = NoJob] /\ lift' = [lift EXCEPT ![w] = NoJob]
        /\ UNCHANGED <<main, delayed, dead, closed, pushes>>
    BY DEF Crash, redis, ledger
  <1>2. /\ hand'[w] = NoJob /\ \A v \in Workers : v # w => hand'[v] = hand[v]
        /\ lift'[w] = NoJob /\ \A v \in Workers : v # w => lift'[v] = lift[v]
    BY <1>0, <1>1 DEF TypeOK
  <1>3. CASE hand[w] # NoJob /\ hand[w].enqueued_at = s
    <2>1. \E n : Stage(s, "running", n)
      BY <1>3 DEF Stage, InHand
    <2>2. ~Nowhere(s)
      BY <1>3 DEF Nowhere, NotLive, NotHeld
    <2>3. Nowhere(s)'
      BY <1>1, <1>2, <1>3, HandOnly
         DEF Nowhere, NotLive, NotListed, NotDelayed, NotHeld, NotLifted, NotDead
    <2>4. s <= pushes'
      BY <1>1, <2>2, SomewhereIssued
    <2>5. Stage(s, "closed", 0)' \/ Stage(s, "lost", 0)'
      BY <2>3, <2>4 DEF Stage
    <2> QED BY <2>1, <2>5 DEF Goes, Allowed
  <1>4. CASE lift[w] # NoJob /\ lift[w].enqueued_at = s
    <2>1. \E n : Stage(s, "waiting", n)
      BY <1>4 DEF Stage, Aloft
    <2>2. ~NotLive(s) /\ ~Nowhere(s)
      BY <1>4 DEF Nowhere, NotLive, NotLifted
    <2>3. Nowhere(s)'
      BY <1>1, <1>2, <1>4, LiftOnly
         DEF Nowhere, NotLive, NotListed, NotDelayed, NotHeld, NotLifted, NotDead
    <2>4. s <= pushes' /\ s \notin closed'
      BY <1>1, <2>2, SomewhereIssued DEF Settled
    <2>5. Stage(s, "lost", 0)'
      BY <2>3, <2>4 DEF Stage
    <2> QED BY <2>1, <2>5 DEF Goes, Allowed
  <1>5. CASE /\ hand[w] # NoJob => hand[w].enqueued_at # s
             /\ lift[w] # NoJob => lift[w].enqueued_at # s
    <2>1. /\ \A n : InHand(s, n) => InHand(s, n)'
          /\ \A n : Aloft(s, n) => Aloft(s, n)'
      BY <1>2, <1>5 DEF InHand, Aloft
    <2>2. /\ NotHeld(s) => NotHeld(s)'
          /\ NotLifted(s) => NotLifted(s)'
      BY <1>2 DEF NotHeld, NotLifted
    <2>3. Kept(s)
      BY <1>1, <2>1, <2>2
         DEF Kept, OnList, Parked, Buried, Nowhere, NotLive, NotListed, NotDelayed, NotDead
    <2> QED BY <2>3, KeptGoes
  <1> QED BY <1>3, <1>4, <1>5

LEMMA StepGoes == Inv6 /\ Inv6' /\ [Next]_vars => \A s \in 1..MaxPushes : Goes(s)
  <1> SUFFICES ASSUME Inv6, Inv6', [Next]_vars, NEW s \in 1..MaxPushes PROVE Goes(s)
    OBVIOUS
  <1>0. Inv2 /\ Inv2' /\ Budget /\ Settled /\ TypeOK /\ pushes \in Nat
    BY PushesType DEF Inv6, Inv2, Inv1
  <1>a. CASE UNCHANGED <<main, delayed, dead, hand, lift, closed, pushes>>
    BY <1>0, <1>a, NothingMoves, KeptGoes
  <1>1. CASE EnqueueJob
    <2> DEFINE job == FreshJob(pushes + 1, pushes + 1)
    <2>1. job \in Job /\ job.enqueued_at = pushes + 1 /\ job.attempt = 1
      BY <1>0, FreshJobType DEF Stamp
    <2>2. /\ main' = Append(main, job) /\ pushes' = pushes + 1
          /\ UNCHANGED <<delayed, dead, hand, lift, closed>>
      BY <1>1 DEF EnqueueJob, worker, promoter, ledger
    <2> HIDE DEF job
    <2> QED BY <1>0, <2>1, <2>2, PushGoes
  <1>2. ASSUME NEW d \in dead, PurgeDeadLetter(d) PROVE Goes(s)
    <2>1. Nowhere(s) => s # d.enqueued_at
      BY DEF Nowhere, NotDead
    <2> QED BY <1>0, <1>2, <2>1, RemovalGoes DEF PurgeDeadLetter, worker, promoter
  <1>3. ASSUME NEW r \in Requests, Replay(r) PROVE Goes(s)
    <2>1. ASSUME NEW d \in dead, ReplayRead(r, d) PROVE Goes(s)
      BY <1>a, <2>1 DEF ReplayRead, redis, worker, promoter, ledger
    <2>2. CASE ReplayPush(r)
      <3> DEFINE job == FreshJob(record[r].job_id, pushes + 1)
      <3>1. record[r].job_id \in Stamp /\ pushes + 1 \in Stamp
        BY <1>0, <2>2 DEF ReplayPush, TypeOK, DeadRecord, Stamp
      <3>2. job \in Job /\ job.enqueued_at = pushes + 1 /\ job.attempt = 1
        BY <3>1, FreshJobType
      <3>3. /\ main' = Append(main, job) /\ pushes' = pushes + 1 /\ closed \subseteq closed'
            /\ UNCHANGED <<delayed, dead, hand, lift>>
        BY <2>2 DEF ReplayPush, worker, promoter
      <3> HIDE DEF job
      <3> QED BY <1>0, <3>2, <3>3, PushGoes
    <2>3. CASE ReplayRemove(r)
      BY <1>0, <2>3, RemovalGoes DEF ReplayRemove, worker, promoter, ledger
    <2>4. CASE AbortReplay(r)
      BY <1>a, <2>4 DEF AbortReplay, redis, worker, promoter, ledger
    <2> QED BY <1>3, <2>1, <2>2, <2>3, <2>4 DEF Replay
  <1>4. ASSUME NEW w \in Workers, Dequeue(w) PROVE Goes(s)
    BY <1>0, <1>4, DequeueGoes
  <1>5. ASSUME NEW w \in Workers, PollTimeout(w) \/ HandleSuccess(w) PROVE Goes(s)
    BY <1>a, <1>5 DEF PollTimeout, HandleSuccess, redis, promoter, ledger
  <1>6. ASSUME NEW w \in Workers, AlertsDone(w) PROVE Goes(s)
    BY <1>0, <1>6, AlertsDoneGoes
  <1>7. ASSUME NEW w \in Workers, NEW error \in Errors, RecordFailure(w, error)
        PROVE Goes(s)
    <2>1. hand[w] \in Job /\ hand[w] # NoJob /\ error \in ErrorTypes
      BY <1>0, <1>7, ConstantsAssumption DEF RecordFailure, TypeOK
    <2> DEFINE failed == [hand[w] EXCEPT !.attempt_history = Append(@, error)]
    <2>2. /\ failed # NoJob /\ failed.enqueued_at = hand[w].enqueued_at
          /\ failed.attempt = hand[w].attempt
      BY <2>1, FailedJobType, ConstantsAssumption
    <2>3. /\ hand' = [hand EXCEPT ![w] = failed]
          /\ UNCHANGED <<main, delayed, dead, lift, closed, pushes>>
      BY <1>0, <1>7 DEF RecordFailure, redis, promoter, TypeOK
    <2> HIDE DEF failed
    <2>4. hand'[w] = failed /\ \A v \in Workers : v # w => hand'[v] = hand[v]
      BY <1>0, <2>3 DEF TypeOK
    <2>5. Kept(s)
      BY <2>1, <2>2, <2>3, <2>4, NothingMoves
    <2> QED BY <1>0, <2>5, KeptGoes
  <1>8. ASSUME NEW w \in Workers, DeadLetter(w) PROVE Goes(s)
    BY <1>0, <1>8, DeadLetterGoes
  <1>9. ASSUME NEW w \in Workers, ScheduleRetry(w) PROVE Goes(s)
    BY <1>0, <1>9, ScheduleRetryGoes
  <1>10. ASSUME NEW w \in Workers, FetchDue(w) \/ PromoterTurn(w) PROVE Goes(s)
    BY <1>a, <1>10 DEF FetchDue, PromoterTurn, redis, worker, ledger
  <1>11. ASSUME NEW w \in Workers, NEW job \in batch[w], RemoveDelayed(w, job)
         PROVE Goes(s)
    BY <1>0, <1>11, RemoveDelayedGoes
  <1>12. ASSUME NEW w \in Workers, PushPromoted(w) PROVE Goes(s)
    BY <1>0, <1>12, PushPromotedGoes
  <1>13. ASSUME NEW w \in Workers, Process(w) PROVE Goes(s)
    <2>1. CASE Sigterm(w) \/ GracefulExit(w) \/ Restart(w)
      BY <1>a, <2>1 DEF Sigterm, GracefulExit, Restart, redis, worker, promoter, ledger
    <2>2. CASE Crash(w)
      BY <1>0, <2>2, CrashGoes
    <2> QED BY <1>13, <2>1, <2>2 DEF Process
  <1>14. ASSUME NEW job \in delayed, BackoffElapses(job) PROVE Goes(s)
    BY <1>a, <1>14 DEF BackoffElapses, worker, promoter, ledger
  <1>15. CASE UNCHANGED vars
    BY <1>a, <1>15 DEF vars, redis, worker, promoter, ledger
  <1> QED
    BY <1>1, <1>2, <1>3, <1>4, <1>5, <1>6, <1>7, <1>8, <1>9, <1>10, <1>11, <1>12,
       <1>13, <1>14, <1>15
       DEF Next, WorkerLoop, PromoterLoop

-----------------------------------------------------------------------------
(* From stages to the variables of JobLifecycle.                           *)

LEMMA GoesIsStep ==
  ASSUME Shown, Shown', NEW s \in 1..MaxPushes, Goes(s)
  PROVE  Lifecycle!Step(s) \/ Lifecycle!Stay(s)
  <1>1. PICK a, n, b, m : Stage(s, a, n) /\ Stage(s, b, m)' /\ Allowed(a, n, b, m)
    BY DEF Goes
  <1>2. /\ StatusOf(s) = a /\ TriesOf(s) = n
        /\ StatusOf(s)' = b /\ TriesOf(s)' = m
    BY <1>1 DEF Shown
  <1> QED BY <1>1, <1>2
    DEF Allowed, Lifecycle!Step, Lifecycle!Stay, Lifecycle!Enter, Lifecycle!Start,
        Lifecycle!Wait, Lifecycle!Wake, Lifecycle!Bury, Lifecycle!Close, Lifecycle!Lose,
        Lifecycle!Recover, Lifecycle!Move

\* Whatever workers, promoters, replays and crashes do, in any number: every
\* push goes through the life that JobLifecycle promises its client.
THEOREM PipelineImplementsLifecycle == Spec => ImplementsLifecycle
  <1>1. Init => Lifecycle!Init
    <2> SUFFICES ASSUME Init PROVE Lifecycle!Init
      OBVIOUS
    <2>1. Inv2
      BY InitInv2
    <2>2. \A s \in 1..MaxPushes : Stage(s, "unborn", 0)
      BY ConstantsAssumption DEF Init, Stage
    <2>3. \A s \in 1..MaxPushes : StatusOf(s) = "unborn" /\ TriesOf(s) = 0
      BY <2>1, <2>2, StageIsShown DEF Shown
    <2> QED BY <2>3 DEF Lifecycle!Init
  <1>2. Inv6 => Shown
    BY StageIsShown DEF Inv6
  <1>3. ASSUME Inv6, Inv6', Shown, Shown', [Next]_vars
        PROVE  Lifecycle!Next
    <2>1. \A s \in 1..MaxPushes : Lifecycle!Step(s) \/ Lifecycle!Stay(s)
      BY <1>3, StepGoes, GoesIsStep
    <2> QED BY <2>1 DEF Lifecycle!Next
  <1>4. Inv6 /\ Inv6' /\ Shown /\ Shown' /\ [Next]_vars => [Lifecycle!Next]_Lifecycle!vars
    BY <1>3
  <1> QED BY <1>1, <1>2, <1>4, Inv6Invariant, PTL DEF Spec, ImplementsLifecycle, Lifecycle!Spec

-----------------------------------------------------------------------------
(* Retries run out.                                                        *)

\* A job that is live has a try to be counted.
LEMMA TriesInBudget ==
  ASSUME Inv2, Budget, NEW s, NEW st \in {"ready", "waiting", "running"}, NEW n,
         Stage(s, st, n)
  PROVE  n \in 1..MaxAttempts
  <1>0. TypeOK /\ MaxAttempts \in Nat
    BY ConstantsAssumption DEF Inv2, Inv1
  <1>1. ASSUME NEW j \in Job, j.attempt <= MaxAttempts, n = j.attempt
        PROVE  n \in 1..MaxAttempts
    BY <1>0, <1>1 DEF Job
  <1>2. CASE OnList(s, n)
    <2>1. PICK i \in DOMAIN main : main[i].attempt = n
      BY <1>2 DEF OnList
    <2> QED BY <1>0, <1>1, <2>1 DEF TypeOK, Budget, MainFit, Fit
  <1>3. CASE Parked(s, n)
    BY <1>0, <1>1, <1>3 DEF Parked, TypeOK, Budget, DelayedFit, Fit
  <1>4. CASE Aloft(s, n)
    BY <1>0, <1>1, <1>4 DEF Aloft, TypeOK, Budget, LiftFit, Fit
  <1>5. CASE InHand(s, n)
    <2>1. PICK w \in Workers : hand[w] # NoJob /\ hand[w].attempt = n
      BY <1>5 DEF InHand
    <2>2. hand[w] \in Job /\ loop[w] \in {"scrape", "route", "alert"}
      BY <1>0, <2>1 DEF TypeOK
    <2>3. hand[w].attempt <= MaxAttempts
      BY <2>2 DEF Budget, HandFit, Fit, Failed
    <2> QED BY <1>1, <2>1, <2>2, <2>3
  <1> QED BY <1>2, <1>3, <1>4, <1>5 DEF Stage

LEMMA LiveTriesInBudget ==
  Inv2 /\ Budget =>
    \A s, n : \A st \in {"ready", "waiting", "running"} :
      Stage(s, st, n) => n \in 1..MaxAttempts
  BY TriesInBudget

LEMMA LiveTriesInBudgetNext ==
  (Inv2 /\ Budget)' =>
    \A s, n : \A st \in {"ready", "waiting", "running"} :
      Stage(s, st, n)' => n \in 1..MaxAttempts
  <1>1. (Inv2 /\ Budget =>
           \A s, n : \A st \in {"ready", "waiting", "running"} :
             Stage(s, st, n) => n \in 1..MaxAttempts)'
    BY LiveTriesInBudget, PTL
  <1> QED BY <1>1

\* MovesLeft, by the stage of the push.
Weight(st, n) ==
    CASE st = "unborn"  -> 3 * MaxAttempts + 2
      [] st = "waiting" -> 3 * (MaxAttempts - n) + 5
      [] st = "ready"   -> 3 * (MaxAttempts - n) + 4
      [] st = "running" -> 3 * (MaxAttempts - n) + 3
      [] st = "dead"    -> 2
      [] st = "lost"    -> 1
      [] st = "closed"  -> 0

LEMMA AllowedMoves ==
  ASSUME NEW a, NEW n, NEW b, NEW m, Allowed(a, n, b, m),
         a \in {"unborn", "ready", "waiting", "running", "dead", "lost", "closed"},
         a \in {"ready", "waiting", "running"} => n \in 1..MaxAttempts,
         b \in {"ready", "waiting", "running"} => m \in 1..MaxAttempts
  PROVE  Weight(b, m) \in 0..(IF b = a THEN Weight(a, n) ELSE Weight(a, n) - 1)
  <1> MaxAttempts \in Nat \ {0}
    BY ConstantsAssumption
  <1>1. CASE a = b /\ n = m
    BY <1>1 DEF Weight
  <1>2. CASE a = "unborn" /\ b = "ready" /\ m = 1
    BY <1>2 DEF Weight
  <1>3. CASE \/ a = "ready" /\ b = "running" /\ m = n
             \/ a = "waiting" /\ b = "ready" /\ m = n
    BY <1>3 DEF Weight
  <1>4. CASE a = "running" /\ b = "waiting" /\ n < MaxAttempts /\ m = n + 1
    BY <1>4 DEF Weight
  <1>5. CASE a = "running" /\ b \in {"dead", "closed", "lost"}
    BY <1>5 DEF Weight
  <1>6. CASE \/ a = "dead" /\ b \in {"closed", "lost"}
             \/ a = "waiting" /\ b = "lost"
             \/ a = "lost" /\ b = "closed"
    BY <1>6 DEF Weight
  <1> QED BY <1>1, <1>2, <1>3, <1>4, <1>5, <1>6 DEF Allowed

LEMMA StepRunsOut ==
  ASSUME Inv6, Inv6', Shown, Shown', NEW s \in 1..MaxPushes, Goes(s)
  PROVE  MovesLeft(s)' \in
            0..(IF StatusOf(s)' = StatusOf(s) THEN MovesLeft(s) ELSE MovesLeft(s) - 1)
  <1>1. PICK a, n, b, m : Stage(s, a, n) /\ Stage(s, b, m)' /\ Allowed(a, n, b, m)
    BY DEF Goes
  <1>2. /\ StatusOf(s) = a /\ TriesOf(s) = n
        /\ StatusOf(s)' = b /\ TriesOf(s)' = m
    BY <1>1 DEF Shown
  <1>3. a \in {"ready", "waiting", "running"} => n \in 1..MaxAttempts
    BY <1>1, TriesInBudget DEF Inv6
  <1>4. b \in {"ready", "waiting", "running"} => m \in 1..MaxAttempts
    BY <1>1, LiveTriesInBudgetNext DEF Inv6
  <1>5. a \in {"unborn", "ready", "waiting", "running", "dead", "lost", "closed"}
    BY <1>1 DEF Stage
  <1>6. MovesLeft(s) = Weight(a, n) /\ MovesLeft(s)' = Weight(b, m)
    BY <1>2 DEF MovesLeft, Weight
  <1>7. Weight(b, m) \in 0..(IF b = a THEN Weight(a, n) ELSE Weight(a, n) - 1)
    BY <1>1, <1>3, <1>4, <1>5, AllowedMoves
  <1> QED BY <1>2, <1>6, <1>7

\* No push is retried, promoted or re-delivered for ever, for any number of
\* workers, deaths and replays: each of its moves uses up one of at most
\* 3 * MaxAttempts + 2, so fair loops are all that EverySettles still needs.
THEOREM RetriesRunOut == Spec => MovesRunOut
  <1>1. Inv6 => Shown
    BY StageIsShown DEF Inv6
  <1>2. ASSUME Inv6, Inv6', Shown, Shown', [Next]_vars, NEW s \in 1..MaxPushes
        PROVE  MovesLeft(s)' \in
                  0..(IF StatusOf(s)' = StatusOf(s) THEN MovesLeft(s) ELSE MovesLeft(s) - 1)
    BY <1>2, StepGoes, StepRunsOut
  <1>3. Inv6 /\ Inv6' /\ Shown /\ Shown' /\ [Next]_vars =>
          [\A s \in 1..MaxPushes :
              MovesLeft(s)' \in
                0..(IF StatusOf(s)' = StatusOf(s) THEN MovesLeft(s) ELSE MovesLeft(s) - 1)]_vars
    BY <1>2
  <1> QED BY <1>1, <1>3, Inv6Invariant, PTL DEF Spec, MovesRunOut

-----------------------------------------------------------------------------
(* How a parked retry gets lost.                                           *)

\* Nothing but the death of the promoter that lifted it takes a retry off
\* the way from the delayed set to the list.
LEMMA WaitingKept ==
  ASSUME Inv2, [Next]_vars, NEW s, ~NotDelayed(s) \/ ~NotLifted(s),
         \A w \in Workers : ~(Crash(w) /\ lift[w] # NoJob /\ lift[w].enqueued_at = s)
  PROVE  ~NotListed(s)' \/ ~NotDelayed(s)' \/ ~NotLifted(s)'
  <1>0. TypeOK
    BY DEF Inv2, Inv1
  <1>a. CASE delayed \subseteq delayed' /\ lift' = lift
    BY <1>a DEF NotDelayed, NotLifted
  <1>1. CASE \/ EnqueueJob \/ UNCHANGED vars
             \/ \E d \in dead : PurgeDeadLetter(d)
             \/ \E job \in delayed : BackoffElapses(job)
    BY <1>1, <1>a DEF EnqueueJob, PurgeDeadLetter, BackoffElapses, vars, redis, promoter
  <1>2. ASSUME NEW r \in Requests, Replay(r)
        PROVE  ~NotListed(s)' \/ ~NotDelayed(s)' \/ ~NotLifted(s)'
    BY <1>2, <1>a DEF Replay, ReplayRead, ReplayPush, ReplayRemove, AbortReplay,
                      redis, promoter
  <1>3. ASSUME NEW w \in Workers, WorkerLoop(w)
        PROVE  ~NotListed(s)' \/ ~NotDelayed(s)' \/ ~NotLifted(s)'
    BY <1>3, <1>a DEF WorkerLoop, Dequeue, PollTimeout, HandleSuccess, AlertsDone,
                      RecordFailure, DeadLetter, ScheduleRetry, redis, promoter
  <1>4. ASSUME NEW w \in Workers, FetchDue(w) \/ PromoterTurn(w)
        PROVE  ~NotListed(s)' \/ ~NotDelayed(s)' \/ ~NotLifted(s)'
    BY <1>4, <1>a DEF FetchDue, PromoterTurn, redis
  <1>5. ASSUME NEW w \in Workers, NEW job \in batch[w], RemoveDelayed(w, job)
        PROVE  ~NotListed(s)' \/ ~NotDelayed(s)' \/ ~NotLifted(s)'
    <2>1. CASE job \notin delayed
      BY <1>5, <1>a, <2>1 DEF RemoveDelayed
    <2>2. CASE job \in delayed
      <3>1. /\ delayed' = delayed \ {job} /\ job # NoJob /\ lift[w] = NoJob
            /\ lift' = [lift EXCEPT ![w] = job]
        BY <1>0, <1>5, <2>2, ConstantsAssumption DEF RemoveDelayed, TypeOK
      <3>2. lift'[w] = job /\ \A v \in Workers : v # w => lift'[v] = lift[v]
        BY <1>0, <3>1 DEF TypeOK
      <3> QED BY <3>1, <3>2 DEF NotDelayed, NotLifted
    <2> QED BY <2>1, <2>2
  <1>6. ASSUME NEW w \in Workers, PushPromoted(w)
        PROVE  ~NotListed(s)' \/ ~NotDelayed(s)' \/ ~NotLifted(s)'
    <2>1. /\ lift[w] \in Job /\ main \in Seq(Job) /\ main' = Append(main, lift[w])
          /\ lift' = [lift EXCEPT ![w] = NoJob] /\ delayed' = delayed
      BY <1>0, <1>6 DEF PushPromoted, TypeOK
    <2>2. \E i \in DOMAIN main' : main'[i] = lift[w]
      BY <2>1, AppendFacts
    <2>3. \A v \in Workers : v # w => lift'[v] = lift[v]
      BY <1>0, <2>1 DEF TypeOK
    <2> QED BY <2>1, <2>2, <2>3 DEF NotListed, NotDelayed, NotLifted
  <1>7. ASSUME NEW w \in Workers, Process(w)
        PROVE  ~NotListed(s)' \/ ~NotDelayed(s)' \/ ~NotLifted(s)'
    <2>1. CASE Sigterm(w) \/ GracefulExit(w) \/ Restart(w)
      BY <1>a, <2>1 DEF Sigterm, GracefulExit, Restart, redis, promoter
    <2>2. CASE Crash(w)
      <3>1. lift' = [lift EXCEPT ![w] = NoJob] /\ delayed' = delayed
        BY <2>2 DEF Crash, redis
      <3>2. \A v \in Workers : v # w => lift'[v] = lift[v]
        BY <1>0, <3>1 DEF TypeOK
      <3> QED BY <2>2, <3>1, <3>2 DEF NotDelayed, NotLifted
    <2> QED BY <1>7, <2>1, <2>2 DEF Process
  <1> QED BY <1>1, <1>2, <1>3, <1>4, <1>5, <1>6, <1>7 DEF Next, PromoterLoop

\* What a waiting or a lost push says of the places.
LEMMA StatusPlaces ==
  ASSUME Inv2, NEW s \in 1..MaxPushes
  PROVE  /\ StatusOf(s) = "waiting" => ~NotDelayed(s) \/ ~NotLifted(s)
         /\ StatusOf(s) = "lost" => Nowhere(s)
  <1>1. PICK st, n : Stage(s, st, n)
    BY StageTotal DEF Inv2, Inv1
  <1>2. StatusOf(s) = st
    BY <1>1, StageIsShown DEF Shown
  <1> QED BY <1>1, <1>2 DEF Stage, Parked, Aloft, NotDelayed, NotLifted

LEMMA LostIsNowhere ==
  Inv2 => \A s \in 1..MaxPushes : StatusOf(s) = "lost" => Nowhere(s)
  BY StatusPlaces

LEMMA LostIsNowhereNext ==
  Inv2' => \A s \in 1..MaxPushes : StatusOf(s)' = "lost" => Nowhere(s)'
  <1>1. (Inv2 => \A s \in 1..MaxPushes : StatusOf(s) = "lost" => Nowhere(s))'
    BY LostIsNowhere, PTL
  <1> QED BY <1>1

\* The restart that schedule_retry speaks of is safe for every parked retry
\* but the one under way: a retry is lost only with the promoter that holds
\* it between its ZREM and its RPUSH.
THEOREM RetriesSurviveInRedis == Spec => RetryLostOnlyInFlight
  <1>1. ASSUME Inv2, Inv2', [Next]_vars, NEW s \in 1..MaxPushes,
               StatusOf(s) = "waiting", StatusOf(s)' = "lost"
        PROVE  \E w \in Workers : /\ lift[w] # NoJob /\ lift[w].enqueued_at = s
                                  /\ proc[w] # "down" /\ proc'[w] = "down"
    <2>1. ~NotDelayed(s) \/ ~NotLifted(s)
      BY <1>1, StatusPlaces
    <2>2. NotListed(s)' /\ NotDelayed(s)' /\ NotLifted(s)'
      BY <1>1, LostIsNowhereNext DEF Nowhere, NotLive
    <2>3. PICK w \in Workers : Crash(w) /\ lift[w] # NoJob /\ lift[w].enqueued_at = s
      BY <1>1, <2>1, <2>2, WaitingKept
    <2>4. proc[w] # "down" /\ proc'[w] = "down"
      BY <1>1, <2>3 DEF Crash, Inv2, Inv1, TypeOK
    <2> QED BY <2>3, <2>4
  <1>2. Inv2 /\ Inv2' /\ [Next]_vars =>
          [\A s \in 1..MaxPushes :
              StatusOf(s) = "waiting" /\ StatusOf(s)' = "lost" =>
                \E w \in Workers : /\ lift[w] # NoJob /\ lift[w].enqueued_at = s
                                   /\ proc[w] # "down" /\ proc'[w] = "down"]_vars
    BY <1>1
  <1> QED BY <1>2, Inv2Invariant, PTL DEF Spec, RetryLostOnlyInFlight
=============================================================================
