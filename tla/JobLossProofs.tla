--------------------------- MODULE JobLossProofs ---------------------------
(***************************************************************************)
(* How a push may be lost, for every number of workers, requests, pushes   *)
(* and attempts: LossesHaveACause, LossBounded and GracefulLosesNothing;   *)
(* and what becomes of dead letters.                                       *)
(*                                                                         *)
(* A death loses at most the job in worker_loop's hand and the one in      *)
(* promoter_loop's; no other step loses a push, but for the letters of     *)
(* replayed jobs.  The steps that need an argument are the HSET of a dead  *)
(* letter and a replay's HDEL, which replace and remove what the hash      *)
(* holds under the job_id: a job_id names a push, and either the letter    *)
(* that goes is not that push's, or that push has been replayed, or        *)
(* nothing else has it.                                                    *)
(***************************************************************************)
EXTENDS JobPipelineProofs, FiniteSetTheorems

\* Push s is somewhere, or has been handled.
Present(s) ==
    \/ \E i \in DOMAIN main : main[i].enqueued_at = s
    \/ \E j \in delayed : j.enqueued_at = s
    \/ \E d \in dead : d.enqueued_at = s
    \/ \E w \in Workers : hand[w] # NoJob /\ hand[w].enqueued_at = s
    \/ \E w \in Workers : lift[w] # NoJob /\ lift[w].enqueued_at = s
    \/ s \in closed

Absent == {s \in 1..pushes : ~Present(s)}

LEMMA MissingIsAbsent == Missing = Absent
  <1> SUFFICES ASSUME NEW s \in 1..pushes
               PROVE  (Copies(s) = {} /\ s \notin closed) <=> ~Present(s)
    BY DEF Missing, Absent
  <1>1. Copies(s) # {} <=>
            \/ \E i \in DOMAIN main : main[i].enqueued_at = s
            \/ \E j \in delayed : j.enqueued_at = s
            \/ \E d \in dead : d.enqueued_at = s
            \/ \E w \in Workers : hand[w] # NoJob /\ hand[w].enqueued_at = s
            \/ \E w \in Workers : lift[w] # NoJob /\ lift[w].enqueued_at = s
    BY DEF Copies
  <1> QED BY <1>1 DEF Present

\* A job is named after its first push: its own one, or, if it is a later
\* life, one that was replayed and so is closed.
Named(x) == x.job_id = x.enqueued_at \/ (Requests # {} /\ x.job_id \in closed)

NamedMain == \A i \in DOMAIN main : Named(main[i])
NamedDelayed == \A j \in delayed : Named(j)
NamedDead == \A d \in dead : Named(d)
NamedHand == \A w \in Workers : hand[w] # NoJob => Named(hand[w])
NamedLift == \A w \in Workers : lift[w] # NoJob => Named(lift[w])
NamedJobs == NamedMain /\ NamedDelayed /\ NamedDead /\ NamedHand /\ NamedLift

\* The records that replay requests hold; past the RPUSH they are closed.
NamedRecords ==
    \A r \in Requests :
        /\ request[r] # "idle" => Named(record[r])
        /\ request[r] = "pushed" => record[r].enqueued_at \in closed

AllNamed == NamedJobs /\ NamedRecords

LEMMA InitNamed == Init => AllNamed
  BY DEF Init, AllNamed, NamedJobs, NamedMain, NamedDelayed, NamedDead, NamedHand,
         NamedLift, NamedRecords

\* What is closed stays closed.
LEMMA ClosedGrows == [Next]_vars => closed \subseteq closed'
  <1> SUFFICES ASSUME [Next]_vars PROVE closed \subseteq closed'
    OBVIOUS
  <1> USE DEF ledger
  <1>1. CASE EnqueueJob \/ \E d \in dead : PurgeDeadLetter(d)
    BY <1>1 DEF EnqueueJob, PurgeDeadLetter
  <1>2. ASSUME NEW r \in Requests, Replay(r) PROVE closed \subseteq closed'
    BY <1>2 DEF Replay, ReplayRead, ReplayPush, ReplayRemove, AbortReplay
  <1>3. ASSUME NEW w \in Workers, WorkerLoop(w) PROVE closed \subseteq closed'
    BY <1>3 DEF WorkerLoop, Dequeue, PollTimeout, HandleSuccess, AlertsDone,
                RecordFailure, DeadLetter, ScheduleRetry
  <1>4. ASSUME NEW w \in Workers, PromoterLoop(w) \/ Process(w)
        PROVE  closed \subseteq closed'
    BY <1>4 DEF PromoterLoop, FetchDue, RemoveDelayed, PushPromoted, PromoterTurn,
                Process, Sigterm, GracefulExit, Crash, Restart
  <1>5. CASE UNCHANGED vars \/ \E job \in delayed : BackoffElapses(job)
    BY <1>5 DEF vars, BackoffElapses
  <1> QED BY <1>1, <1>2, <1>3, <1>4, <1>5 DEF Next

\* Steps after which fewer jobs are anywhere.
LEMMA FewerNamed ==
  ASSUME NamedJobs, closed \subseteq closed', UNCHANGED main,
         delayed' \subseteq delayed, dead' \subseteq dead,
         \A w \in Workers : hand'[w] # NoJob => hand'[w] = hand[w],
         \A w \in Workers : lift'[w] # NoJob => lift'[w] = lift[w]
  PROVE  NamedJobs'
  BY DEF NamedJobs, NamedMain, NamedDelayed, NamedDead, NamedHand, NamedLift, Named

LEMMA PushNamed ==
  ASSUME NamedMain, closed \subseteq closed', NEW S, main \in Seq(S), NEW job \in S,
         \/ job.job_id = job.enqueued_at
         \/ Requests # {} /\ job.job_id \in closed',
         main' = Append(main, job)
  PROVE  NamedMain'
  <1> SUFFICES ASSUME NEW i \in DOMAIN main' PROVE Named(main[i])'
    BY DEF NamedMain
  <1>1. i \in DOMAIN main \/ i = Len(main) + 1
    BY AppendFacts
  <1>2. CASE i \in DOMAIN main
    <2>1. main'[i] = main[i] /\ Named(main[i])
      BY <1>2, AppendFacts DEF NamedMain
    <2> QED BY <2>1 DEF Named
  <1>3. CASE i = Len(main) + 1
    <2>1. main'[i] = job
      BY <1>3, AppendFacts
    <2> QED BY <2>1 DEF Named
  <1> QED BY <1>1, <1>2, <1>3

LEMMA StepNamedJobs ==
  ASSUME Inv2, AllNamed, [Next]_vars
  PROVE  NamedJobs'
  <1> USE DEF Inv2, Inv1, AllNamed
  <1>0. closed \subseteq closed'
    BY ClosedGrows
  <1>1. CASE EnqueueJob
    <2>1. pushes + 1 \in Stamp
      BY DEF TypeOK, Stamp
    <2> DEFINE job == FreshJob(pushes + 1, pushes + 1)
    <2>2. job \in Job /\ job.job_id = job.enqueued_at
      BY <2>1, FreshJobType DEF FreshJob
    <2>3. main' = Append(main, job) /\ UNCHANGED <<delayed, dead, hand, lift>>
      BY <1>1 DEF EnqueueJob, worker, promoter
    <2> HIDE DEF job
    <2>4. NamedMain'
      BY <1>0, <2>2, <2>3, PushNamed DEF NamedJobs, TypeOK
    <2> QED BY <1>0, <2>3, <2>4
            DEF NamedJobs, NamedDelayed, NamedDead, NamedHand, NamedLift, Named
  <1>2. ASSUME NEW d \in dead, PurgeDeadLetter(d) PROVE NamedJobs'
    BY <1>0, <1>2, FewerNamed DEF PurgeDeadLetter, worker, promoter
  <1>3. ASSUME NEW w \in Workers, Dequeue(w) PROVE NamedJobs'
    <2>1. /\ main \in Seq(Job) /\ main # <<>> /\ main' = Tail(main)
          /\ hand' = [hand EXCEPT ![w] = main[1]]
          /\ UNCHANGED <<delayed, dead, lift, closed>>
      BY <1>3, PopFacts DEF Dequeue, TypeOK, promoter, ledger
    <2>2. NamedMain' /\ Named(main[1])
      BY <2>1, PopFacts DEF NamedJobs, NamedMain, Named
    <2>3. NamedHand'
      BY <2>1, <2>2 DEF NamedJobs, NamedHand, Named, TypeOK
    <2> QED BY <2>1, <2>2, <2>3 DEF NamedJobs, NamedDelayed, NamedDead, NamedLift, Named
  <1>4. ASSUME NEW w \in Workers, PollTimeout(w) \/ HandleSuccess(w) PROVE NamedJobs'
    BY <1>0, <1>4, FewerNamed DEF PollTimeout, HandleSuccess, redis, promoter
  <1>5. ASSUME NEW w \in Workers, AlertsDone(w) PROVE NamedJobs'
    BY <1>0, <1>5, FewerNamed DEF AlertsDone, redis, promoter, TypeOK
  <1>6. ASSUME NEW w \in Workers, NEW error \in Errors, RecordFailure(w, error)
        PROVE NamedJobs'
    <2> DEFINE failed == [hand[w] EXCEPT !.attempt_history = Append(@, error)]
    <2>1. hand[w] \in Job /\ hand[w] # NoJob
      BY <1>6 DEF RecordFailure, TypeOK
    <2>2. failed.job_id = hand[w].job_id /\ failed.enqueued_at = hand[w].enqueued_at
      BY <2>1 DEF Job
    <2>3. /\ hand' = [hand EXCEPT ![w] = failed]
          /\ UNCHANGED <<main, delayed, dead, lift, closed>>
      BY <1>6 DEF RecordFailure, redis, promoter, TypeOK
    <2> HIDE DEF failed
    <2>4. NamedHand'
      BY <2>1, <2>2, <2>3 DEF NamedJobs, NamedHand, Named, TypeOK
    <2> QED BY <2>3, <2>4
            DEF NamedJobs, NamedMain, NamedDelayed, NamedDead, NamedLift, Named
  <1>7. ASSUME NEW w \in Workers, DeadLetter(w) PROVE NamedJobs'
    <2>1. /\ hand[w] # NoJob
          /\ dead' \subseteq dead \cup {DeadLetterOf(hand[w])}
          /\ hand' = [hand EXCEPT ![w] = NoJob]
          /\ UNCHANGED <<main, delayed, lift, closed>>
      BY <1>7 DEF DeadLetter, TypeOK, promoter, ledger
    <2>2. NamedDead'
      BY <2>1 DEF NamedJobs, NamedHand, NamedDead, DeadLetterOf, Named
    <2>3. NamedHand'
      BY <2>1 DEF NamedJobs, NamedHand, Named, TypeOK
    <2> QED BY <2>1, <2>2, <2>3 DEF NamedJobs, NamedMain, NamedDelayed, NamedLift, Named
  <1>8. ASSUME NEW w \in Workers, ScheduleRetry(w) PROVE NamedJobs'
    <2> DEFINE next == [hand[w] EXCEPT !.attempt = @ + 1]
    <2>1. /\ hand[w] \in Job /\ hand[w] # NoJob
          /\ delayed' = delayed \cup {next}
          /\ hand' = [hand EXCEPT ![w] = NoJob]
          /\ UNCHANGED <<main, dead, lift, closed>>
      BY <1>8 DEF ScheduleRetry, TypeOK, promoter, ledger
    <2>2. next.job_id = hand[w].job_id /\ next.enqueued_at = hand[w].enqueued_at
      BY <2>1 DEF Job
    <2> HIDE DEF next
    <2>3. NamedDelayed'
      BY <2>1, <2>2 DEF NamedJobs, NamedHand, NamedDelayed, Named
    <2>4. NamedHand'
      BY <2>1 DEF NamedJobs, NamedHand, Named, TypeOK
    <2> QED BY <2>1, <2>3, <2>4 DEF NamedJobs, NamedMain, NamedDead, NamedLift, Named
  <1>9. ASSUME NEW w \in Workers, FetchDue(w) \/ PromoterTurn(w) PROVE NamedJobs'
    BY <1>0, <1>9, FewerNamed DEF FetchDue, PromoterTurn, redis, worker
  <1>10. ASSUME NEW w \in Workers, NEW job \in batch[w], RemoveDelayed(w, job)
         PROVE NamedJobs'
    <2>1. CASE job \notin delayed
      BY <1>0, <1>10, <2>1, FewerNamed DEF RemoveDelayed, worker
    <2>2. CASE job \in delayed
      <3>1. /\ delayed' = delayed \ {job}
            /\ lift' = [lift EXCEPT ![w] = job]
            /\ UNCHANGED <<main, dead, hand, closed>>
        BY <1>10, <2>2 DEF RemoveDelayed, worker, ledger
      <3>2. NamedLift'
        BY <2>2, <3>1 DEF NamedJobs, NamedDelayed, NamedLift, Named, TypeOK
      <3> QED BY <3>1, <3>2
              DEF NamedJobs, NamedMain, NamedDelayed, NamedDead, NamedHand, Named
    <2> QED BY <2>1, <2>2
  <1>11. ASSUME NEW w \in Workers, PushPromoted(w) PROVE NamedJobs'
    <2>1. /\ main \in Seq(Job) /\ lift[w] \in Job /\ lift[w] # NoJob
          /\ main' = Append(main, lift[w])
          /\ lift' = [lift EXCEPT ![w] = NoJob]
          /\ UNCHANGED <<delayed, dead, hand, closed>>
      BY <1>11 DEF PushPromoted, TypeOK, worker, ledger
    <2>2. Named(lift[w])
      BY <2>1 DEF NamedJobs, NamedLift
    <2>3. NamedMain'
      BY <2>1, <2>2, PushNamed DEF NamedJobs, Named
    <2>4. NamedLift'
      BY <2>1 DEF NamedJobs, NamedLift, Named, TypeOK
    <2> QED BY <2>1, <2>3, <2>4 DEF NamedJobs, NamedDelayed, NamedDead, NamedHand, Named
  <1>12. ASSUME NEW w \in Workers, Process(w) PROVE NamedJobs'
    <2>1. CASE Sigterm(w) \/ GracefulExit(w) \/ Restart(w)
      BY <1>0, <2>1, FewerNamed
         DEF Sigterm, GracefulExit, Restart, redis, worker, promoter
    <2>2. CASE Crash(w)
      BY <1>0, <2>2, FewerNamed DEF Crash, redis, TypeOK
    <2> QED BY <1>12, <2>1, <2>2 DEF Process
  <1>13. ASSUME NEW job \in delayed, BackoffElapses(job) PROVE NamedJobs'
    BY <1>0, <1>13, FewerNamed DEF BackoffElapses, worker, promoter
  <1>14. ASSUME NEW r \in Requests, ReplayPush(r) PROVE NamedJobs'
    <2> DEFINE job == FreshJob(record[r].job_id, pushes + 1)
    <2>1. /\ record[r] \in DeadRecord /\ record[r].job_id \in Stamp
          /\ pushes + 1 \in Stamp
      BY <1>14 DEF ReplayPush, TypeOK, DeadRecord, Stamp
    <2>2. job \in Job /\ job.job_id = record[r].job_id
      BY <2>1, FreshJobType DEF FreshJob
    <2>3. record[r].job_id \in closed'
      BY <1>14 DEF ReplayPush, NamedRecords, Named
    <2>4. main' = Append(main, job) /\ UNCHANGED <<delayed, dead, hand, lift>>
      BY <1>14 DEF ReplayPush, worker, promoter
    <2> HIDE DEF job
    <2>5. NamedMain'
      BY <1>0, <2>2, <2>3, <2>4, PushNamed DEF NamedJobs, TypeOK
    <2> QED BY <1>0, <2>4, <2>5
            DEF NamedJobs, NamedDelayed, NamedDead, NamedHand, NamedLift, Named
  <1>15. ASSUME NEW r \in Requests,
                \/ \E d \in dead : ReplayRead(r, d)
                \/ ReplayRemove(r) \/ AbortReplay(r)
         PROVE  NamedJobs'
    BY <1>0, <1>15, FewerNamed
       DEF ReplayRead, ReplayRemove, AbortReplay, redis, worker, promoter
  <1>16. CASE UNCHANGED vars
    BY <1>0, <1>16, FewerNamed DEF vars, redis, worker, promoter
  <1> QED
    BY <1>1, <1>2, <1>3, <1>4, <1>5, <1>6, <1>7, <1>8, <1>9, <1>10, <1>11, <1>12,
       <1>13, <1>14, <1>15, <1>16
       DEF Next, WorkerLoop, PromoterLoop, Replay

LEMMA StepNamedRecords ==
  ASSUME Inv2, AllNamed, [Next]_vars
  PROVE  NamedRecords'
  <1> USE DEF Inv2, Inv1, AllNamed
  <1>0. closed \subseteq closed'
    BY ClosedGrows
  <1>1. CASE UNCHANGED <<request, record>>
    BY <1>0, <1>1 DEF NamedRecords, Named
  <1>2. ASSUME NEW r \in Requests, NEW d \in dead, ReplayRead(r, d) PROVE NamedRecords'
    <2>1. /\ request' = [request EXCEPT ![r] = "read"]
          /\ record' = [record EXCEPT ![r] = d]
      BY <1>2 DEF ReplayRead
    <2>2. Named(d)
      BY DEF NamedJobs, NamedDead
    <2> QED BY <1>0, <2>1, <2>2 DEF NamedRecords, Named, TypeOK
  <1>3. ASSUME NEW r \in Requests, ReplayPush(r) PROVE NamedRecords'
    <2>1. /\ request[r] = "read" /\ UNCHANGED record
          /\ request' = [request EXCEPT ![r] = "pushed"]
          /\ record[r].enqueued_at \in closed'
      BY <1>3 DEF ReplayPush
    <2> QED BY <1>0, <2>1 DEF NamedRecords, Named, TypeOK
  <1>4. ASSUME NEW r \in Requests, ReplayRemove(r) \/ AbortReplay(r)
        PROVE  NamedRecords'
    <2>1. /\ request' = [request EXCEPT ![r] = "idle"]
          /\ record' = [record EXCEPT ![r] = NoJob]
      BY <1>4 DEF ReplayRemove, AbortReplay
    <2> QED BY <1>0, <2>1 DEF NamedRecords, Named, TypeOK
  <1>5. ASSUME NEW w \in Workers, WorkerLoop(w) PROVE UNCHANGED <<request, record>>
    BY <1>5 DEF WorkerLoop, Dequeue, PollTimeout, HandleSuccess, AlertsDone,
                RecordFailure, DeadLetter, ScheduleRetry, api
  <1>6. ASSUME NEW w \in Workers, PromoterLoop(w) \/ Process(w)
        PROVE  UNCHANGED <<request, record>>
    BY <1>6 DEF PromoterLoop, FetchDue, RemoveDelayed, PushPromoted, PromoterTurn,
                Process, Sigterm, GracefulExit, Crash, Restart, api
  <1>7. CASE \/ EnqueueJob
             \/ \E d \in dead : PurgeDeadLetter(d)
             \/ \E job \in delayed : BackoffElapses(job)
             \/ UNCHANGED vars
    BY <1>1, <1>7 DEF EnqueueJob, PurgeDeadLetter, BackoffElapses, vars, api
  <1> QED BY <1>1, <1>2, <1>3, <1>4, <1>5, <1>6, <1>7 DEF Next, Replay

-----------------------------------------------------------------------------
(* What a step loses.                                                      *)

LEMMA StillPresent ==
  ASSUME UNCHANGED <<main, delayed, dead, hand, lift, closed>>, NEW s, Present(s)
  PROVE  Present(s)'
  BY DEF Present

\* What RPUSH and BLPOP keep in the list.
LEMMA PushKeeps ==
  ASSUME NEW S, main \in Seq(S), NEW job \in S, main' = Append(main, job)
  PROVE  /\ \A i \in DOMAIN main : \E k \in DOMAIN main' : main'[k] = main[i]
         /\ \E k \in DOMAIN main' : main'[k] = job
  <1>1. DOMAIN main' = 1..(Len(main) + 1) /\ Len(main) \in Nat
    BY AppendFacts
  <1>2. main'[Len(main) + 1] = job /\ Len(main) + 1 \in DOMAIN main'
    BY <1>1, AppendFacts
  <1>3. \A i \in DOMAIN main : i \in DOMAIN main' /\ main'[i] = main[i]
    BY <1>1, AppendFacts
  <1> QED BY <1>2, <1>3

LEMMA PopKeeps ==
  ASSUME NEW S, main \in Seq(S), main # <<>>, main' = Tail(main)
  PROVE  \A i \in DOMAIN main : i # 1 => \E k \in DOMAIN main' : main'[k] = main[i]
  <1> SUFFICES ASSUME NEW i \in DOMAIN main, i # 1
               PROVE  i - 1 \in DOMAIN main' /\ main'[i - 1] = main[i]
    OBVIOUS
  <1>1. /\ DOMAIN main = 1..Len(main) /\ Len(main) \in Nat
        /\ DOMAIN main' = 1..(Len(main) - 1)
    BY PopFacts
  <1>2. i \in Int /\ i - 1 \in DOMAIN main' /\ (i - 1) + 1 = i
    BY <1>1
  <1> QED BY <1>2, PopFacts

\* The letter of a first life leaves the hash only when it is handled: the
\* HSET of another letter replaces it only under the same job_id, and so does
\* a replay's HDEL; that job_id is this push, which no other place holds, or
\* which has been replayed.
LEMMA FirstLivesAreKept ==
  ASSUME Inv2, AllNamed, [Next]_vars,
         NEW d \in dead \ dead', d.job_id = d.enqueued_at
  PROVE  d.enqueued_at \in closed'
  <1> USE DEF Inv2, Inv1
  <1>0. closed \subseteq closed'
    BY ClosedGrows
  <1>1. ASSUME NEW e \in dead, PurgeDeadLetter(e) PROVE d.enqueued_at \in closed'
    BY <1>1 DEF PurgeDeadLetter
  <1>2. ASSUME NEW w \in Workers, DeadLetter(w) PROVE d.enqueued_at \in closed'
    <2>1. hand[w] # NoJob /\ d.job_id = hand[w].job_id
      BY <1>2, ConstantsAssumption DEF DeadLetter, TypeOK
    <2>2. Named(hand[w])
      BY <2>1 DEF AllNamed, NamedJobs, NamedHand
    <2>3. d.enqueued_at # hand[w].enqueued_at
      BY <2>1 DEF Distinct, DeadApart, NotHeld
    <2> QED BY <1>0, <2>1, <2>2, <2>3 DEF Named
  <1>3. ASSUME NEW r \in Requests, ReplayRemove(r) PROVE d.enqueued_at \in closed'
    <2>1. request[r] = "pushed" /\ d.job_id = record[r].job_id
      BY <1>3 DEF ReplayRemove
    <2>2. Named(record[r]) /\ record[r].enqueued_at \in closed
      BY <2>1 DEF AllNamed, NamedRecords
    <2> QED BY <1>0, <2>1, <2>2 DEF Named
  <1>4. ASSUME NEW w \in Workers, WorkerLoop(w), ~DeadLetter(w) PROVE dead' = dead
    BY <1>4 DEF WorkerLoop, Dequeue, PollTimeout, HandleSuccess, AlertsDone,
                RecordFailure, ScheduleRetry, redis
  <1>5. ASSUME NEW w \in Workers, PromoterLoop(w) \/ Process(w) PROVE dead' = dead
    BY <1>5 DEF PromoterLoop, FetchDue, RemoveDelayed, PushPromoted, PromoterTurn,
                Process, Sigterm, GracefulExit, Crash, Restart, redis
  <1>6. ASSUME NEW r \in Requests, Replay(r), ~ReplayRemove(r) PROVE dead' = dead
    BY <1>6 DEF Replay, ReplayRead, ReplayPush, AbortReplay, redis
  <1>7. CASE \/ EnqueueJob
             \/ \E job \in delayed : BackoffElapses(job)
             \/ UNCHANGED vars
    BY <1>7 DEF EnqueueJob, BackoffElapses, vars, redis
  <1> QED BY <1>1, <1>2, <1>3, <1>4, <1>5, <1>6, <1>7 DEF Next

\* No step but a death loses a push, unless a letter of its own goes.
LEMMA NothingLost ==
  ASSUME Inv2, [Next]_vars, \A w \in Workers : ~Crash(w),
         NEW s \in 1..pushes', s \in 1..pushes => Present(s),
         \A d \in dead \ dead' : d.enqueued_at = s => s \in closed'
  PROVE  Present(s)'
  <1> USE DEF Inv2, Inv1
  <1>1. CASE EnqueueJob
    <2>1. pushes + 1 \in Stamp /\ pushes \in Nat
      BY DEF TypeOK, Stamp
    <2> DEFINE job == FreshJob(pushes + 1, pushes + 1)
    <2>2. job \in Job /\ job.enqueued_at = pushes + 1
      BY <2>1, FreshJobType
    <2>3. /\ main' = Append(main, job) /\ main \in Seq(Job) /\ pushes' = pushes + 1
          /\ UNCHANGED <<delayed, dead, hand, lift, closed>>
      BY <1>1 DEF EnqueueJob, worker, promoter, ledger, TypeOK
    <2> HIDE DEF job
    <2>4. CASE s \in 1..pushes
      <3>1. Present(s)
        BY <2>4
      <3> QED BY <2>2, <2>3, <3>1, PushKeeps DEF Present
    <2>5. CASE s = pushes + 1
      BY <2>2, <2>3, <2>5, PushKeeps DEF Present
    <2> QED BY <2>1, <2>3, <2>4, <2>5
  <1>2. ASSUME NEW d \in dead, PurgeDeadLetter(d) PROVE Present(s)'
    <2>1. /\ dead' = dead \ {d} /\ closed' = closed \cup {d.enqueued_at}
          /\ UNCHANGED <<main, delayed, hand, lift, pushes>>
      BY <1>2 DEF PurgeDeadLetter, worker, promoter
    <2> QED BY <2>1 DEF Present
  <1>3. ASSUME NEW w \in Workers, Dequeue(w) PROVE Present(s)'
    <2>1. /\ main \in Seq(Job) /\ main # <<>> /\ main' = Tail(main)
          /\ hand' = [hand EXCEPT ![w] = main[1]] /\ main[1] # NoJob
          /\ hand[w] = NoJob
          /\ UNCHANGED <<delayed, dead, lift, closed, pushes>>
      BY <1>3, PopFacts, ConstantsAssumption DEF Dequeue, TypeOK, promoter, ledger
    <2>2. hand'[w] = main[1] /\ \A v \in Workers : v # w => hand'[v] = hand[v]
      BY <2>1 DEF TypeOK
    <2> QED BY <2>1, <2>2, PopKeeps DEF Present
  <1>4. ASSUME NEW w \in Workers, PollTimeout(w) \/ HandleSuccess(w) PROVE Present(s)'
    BY <1>4, StillPresent DEF PollTimeout, HandleSuccess, redis, promoter, ledger
  <1>5. ASSUME NEW w \in Workers, AlertsDone(w) PROVE Present(s)'
    <2>1. /\ closed' = closed \cup {hand[w].enqueued_at}
          /\ hand' = [hand EXCEPT ![w] = NoJob]
          /\ UNCHANGED <<main, delayed, dead, lift, pushes>>
      BY <1>5 DEF AlertsDone, redis, promoter
    <2>2. \A v \in Workers : v # w => hand'[v] = hand[v]
      BY <2>1 DEF TypeOK
    <2> QED BY <2>1, <2>2 DEF Present
  <1>6. ASSUME NEW w \in Workers, NEW error \in Errors, RecordFailure(w, error)
        PROVE Present(s)'
    <2> DEFINE failed == [hand[w] EXCEPT !.attempt_history = Append(@, error)]
    <2>1. hand[w] \in Job /\ error \in ErrorTypes
      BY <1>6, ConstantsAssumption DEF RecordFailure, TypeOK
    <2>2. failed \in Job /\ failed # NoJob /\ failed.enqueued_at = hand[w].enqueued_at
      BY <2>1, FailedJobType, ConstantsAssumption
    <2>3. /\ hand' = [hand EXCEPT ![w] = failed]
          /\ UNCHANGED <<main, delayed, dead, lift, closed, pushes>>
      BY <1>6 DEF RecordFailure, redis, promoter, TypeOK
    <2> HIDE DEF failed
    <2>4. hand'[w] = failed /\ \A v \in Workers : v # w => hand'[v] = hand[v]
      BY <2>3 DEF TypeOK
    <2> QED BY <2>2, <2>3, <2>4 DEF Present
  <1>7. ASSUME NEW w \in Workers, DeadLetter(w) PROVE Present(s)'
    <2> DEFINE letter == DeadLetterOf(hand[w])
    <2>1. /\ hand[w] \in Job
          /\ dead' = {d \in dead : d.job_id # hand[w].job_id} \cup {letter}
          /\ hand' = [hand EXCEPT ![w] = NoJob]
          /\ UNCHANGED <<main, delayed, lift, closed, pushes>>
      BY <1>7 DEF DeadLetter, TypeOK, promoter, ledger
    <2>2. letter.enqueued_at = hand[w].enqueued_at
      BY <2>1, DeadLetterType
    <2> HIDE DEF letter
    <2>3. \A d \in dead : d \in dead' \/ (d.enqueued_at = s => s \in closed')
      OBVIOUS
    <2>4. \A v \in Workers : v # w => hand'[v] = hand[v]
      BY <2>1 DEF TypeOK
    <2>5. letter \in dead'
      BY <2>1
    <2> QED BY <2>1, <2>2, <2>3, <2>4, <2>5 DEF Present
  <1>8. ASSUME NEW w \in Workers, ScheduleRetry(w) PROVE Present(s)'
    <2> DEFINE next == [hand[w] EXCEPT !.attempt = @ + 1]
    <2>1. /\ hand[w] \in Job
          /\ delayed' = delayed \cup {next}
          /\ hand' = [hand EXCEPT ![w] = NoJob]
          /\ UNCHANGED <<main, dead, lift, closed, pushes>>
      BY <1>8 DEF ScheduleRetry, TypeOK, promoter, ledger
    <2>2. next.enqueued_at = hand[w].enqueued_at
      BY <2>1, RetriedJobType
    <2> HIDE DEF next
    <2>3. \A v \in Workers : v # w => hand'[v] = hand[v]
      BY <2>1 DEF TypeOK
    <2> QED BY <2>1, <2>2, <2>3 DEF Present
  <1>9. ASSUME NEW w \in Workers, FetchDue(w) \/ PromoterTurn(w) PROVE Present(s)'
    BY <1>9, StillPresent DEF FetchDue, PromoterTurn, redis, worker, ledger
  <1>10. ASSUME NEW w \in Workers, NEW job \in batch[w], RemoveDelayed(w, job)
         PROVE Present(s)'
    <2>1. CASE job \notin delayed
      <3>1. UNCHANGED <<main, delayed, dead, hand, lift, closed, pushes>>
        BY <1>10, <2>1 DEF RemoveDelayed, worker, ledger
      <3> QED BY <3>1, StillPresent
    <2>2. CASE job \in delayed
      <3>1. /\ delayed' = delayed \ {job} /\ job # NoJob /\ lift[w] = NoJob
            /\ lift' = [lift EXCEPT ![w] = job]
            /\ UNCHANGED <<main, dead, hand, closed, pushes>>
        BY <1>10, <2>2, ConstantsAssumption DEF RemoveDelayed, worker, ledger, TypeOK
      <3>2. lift'[w] = job /\ \A v \in Workers : v # w => lift'[v] = lift[v]
        BY <3>1 DEF TypeOK
      <3> QED BY <3>1, <3>2 DEF Present
    <2> QED BY <2>1, <2>2
  <1>11. ASSUME NEW w \in Workers, PushPromoted(w) PROVE Present(s)'
    <2>1. /\ main \in Seq(Job) /\ lift[w] \in Job
          /\ main' = Append(main, lift[w])
          /\ lift' = [lift EXCEPT ![w] = NoJob]
          /\ UNCHANGED <<delayed, dead, hand, closed, pushes>>
      BY <1>11 DEF PushPromoted, TypeOK, worker, ledger
    <2>2. \A v \in Workers : v # w => lift'[v] = lift[v]
      BY <2>1 DEF TypeOK
    <2> QED BY <2>1, <2>2, PushKeeps DEF Present
  <1>12. ASSUME NEW w \in Workers, Process(w) PROVE Present(s)'
    BY <1>12, StillPresent
       DEF Process, Sigterm, GracefulExit, Restart, redis, worker, promoter, ledger
  <1>13. ASSUME NEW job \in delayed, BackoffElapses(job) PROVE Present(s)'
    BY <1>13, StillPresent DEF BackoffElapses, worker, promoter, ledger
  <1>14. CASE UNCHANGED vars
    BY <1>14, StillPresent DEF vars, redis, worker, promoter, ledger
  <1>15. ASSUME NEW r \in Requests, ReplayPush(r) PROVE Present(s)'
    <2>1. pushes + 1 \in Stamp /\ pushes \in Nat /\ record[r].job_id \in Stamp
      BY <1>15 DEF ReplayPush, TypeOK, DeadRecord, Stamp
    <2> DEFINE job == FreshJob(record[r].job_id, pushes + 1)
    <2>2. job \in Job /\ job.enqueued_at = pushes + 1
      BY <2>1, FreshJobType
    <2>3. /\ main' = Append(main, job) /\ main \in Seq(Job) /\ pushes' = pushes + 1
          /\ closed \subseteq closed'
          /\ UNCHANGED <<delayed, dead, hand, lift>>
      BY <1>15 DEF ReplayPush, worker, promoter, TypeOK
    <2> HIDE DEF job
    <2>4. CASE s \in 1..pushes
      <3>1. Present(s)
        BY <2>4
      <3> QED BY <2>2, <2>3, <3>1, PushKeeps DEF Present
    <2>5. CASE s = pushes + 1
      BY <2>2, <2>3, <2>5, PushKeeps DEF Present
    <2> QED BY <2>1, <2>3, <2>4, <2>5
  <1>16. ASSUME NEW r \in Requests, ReplayRemove(r) PROVE Present(s)'
    <2>1. UNCHANGED <<main, delayed, hand, lift, closed, pushes>>
      BY <1>16 DEF ReplayRemove, worker, promoter, ledger
    <2>2. \A d \in dead : d \in dead' \/ (d.enqueued_at = s => s \in closed')
      OBVIOUS
    <2> QED BY <2>1, <2>2 DEF Present
  <1>17. ASSUME NEW r \in Requests,
                AbortReplay(r) \/ \E d \in dead : ReplayRead(r, d)
         PROVE  Present(s)'
    BY <1>17, StillPresent DEF AbortReplay, ReplayRead, redis, worker, promoter, ledger
  <1> QED
    BY <1>1, <1>2, <1>3, <1>4, <1>5, <1>6, <1>7, <1>8, <1>9, <1>10, <1>11, <1>12,
       <1>13, <1>14, <1>15, <1>16, <1>17
       DEF Next, WorkerLoop, PromoterLoop, Replay

\* So, without replays, no step but a death adds to what is missing.
LEMMA CalmStep ==
  ASSUME Requests = {}, Inv2, AllNamed, [Next]_vars, \A w \in Workers : ~Crash(w)
  PROVE  Missing' \subseteq Missing /\ kills' = kills
  <1>1. Missing' \subseteq Missing
    <2> SUFFICES ASSUME NEW s \in Missing' PROVE s \in Missing
      OBVIOUS
    <2>1. (Missing = Absent)'
      BY MissingIsAbsent, PTL
    <2>2. s \in 1..pushes' /\ ~Present(s)'
      BY <2>1 DEF Absent
    <2>3. \A d \in dead \ dead' : d.enqueued_at = s => s \in closed'
      BY FirstLivesAreKept DEF AllNamed, NamedJobs, NamedDead, Named
    <2>4. s \in 1..pushes /\ ~Present(s)
      BY <2>2, <2>3, NothingLost
    <2> QED BY <2>4, MissingIsAbsent DEF Absent
  <1>2. kills' = kills
    <2>1. CASE EnqueueJob \/ \E d \in dead : PurgeDeadLetter(d)
      BY <2>1 DEF EnqueueJob, PurgeDeadLetter, faults
    <2>2. ASSUME NEW w \in Workers, WorkerLoop(w) \/ PromoterLoop(w) PROVE kills' = kills
      BY <2>2 DEF WorkerLoop, PromoterLoop, Dequeue, PollTimeout, HandleSuccess,
                  AlertsDone, RecordFailure, DeadLetter, ScheduleRetry,
                  FetchDue, RemoveDelayed, PushPromoted, PromoterTurn, faults
    <2>3. ASSUME NEW w \in Workers, Process(w) PROVE kills' = kills
      BY <2>3 DEF Process, Sigterm, GracefulExit, Restart, faults
    <2>4. CASE \E job \in delayed : BackoffElapses(job)
      BY <2>4 DEF BackoffElapses, faults
    <2>5. CASE UNCHANGED vars
      BY <2>5 DEF vars, faults
    <2> QED BY <2>1, <2>2, <2>3, <2>4, <2>5 DEF Next
  <1> QED BY <1>1, <1>2

\* A death loses the job in hand and the job between ZREM and RPUSH, if any.
LEMMA CrashStep ==
  ASSUME Inv2, NEW w \in Workers, Crash(w)
  PROVE  /\ Missing' \subseteq
                Missing \cup {j.enqueued_at : j \in {hand[w], lift[w]} \ {NoJob}}
         /\ kills' = kills + 1
  <1> USE DEF Inv2, Inv1
  <1>1. /\ hand' = [hand EXCEPT ![w] = NoJob] /\ lift' = [lift EXCEPT ![w] = NoJob]
        /\ UNCHANGED <<main, delayed, dead, closed, pushes>> /\ kills' = kills + 1
    BY DEF Crash, redis, ledger
  <1>2. /\ \A v \in Workers : v # w => hand'[v] = hand[v]
        /\ \A v \in Workers : v # w => lift'[v] = lift[v]
    BY <1>1 DEF TypeOK
  <1> SUFFICES ASSUME NEW s \in Missing',
                      \A j \in {hand[w], lift[w]} \ {NoJob} : s # j.enqueued_at
               PROVE  s \in Missing
    BY <1>1
  <1>3. (Missing = Absent)'
    BY MissingIsAbsent, PTL
  <1>4. s \in 1..pushes /\ ~Present(s)'
    BY <1>1, <1>3 DEF Absent
  <1>5. ~Present(s)
    BY <1>1, <1>2, <1>4 DEF Present
  <1> QED BY <1>4, <1>5, MissingIsAbsent DEF Absent

LEMMA MissingFinite == TypeOK => IsFiniteSet(Missing) /\ Cardinality(Missing) \in Nat
  <1> SUFFICES ASSUME TypeOK PROVE IsFiniteSet(Missing) /\ Cardinality(Missing) \in Nat
    OBVIOUS
  <1>1. pushes \in Int
    BY DEF TypeOK
  <1>2. Missing \subseteq 1..pushes
    BY DEF Missing
  <1>3. IsFiniteSet(1..pushes)
    BY <1>1, FS_Interval
  <1>4. IsFiniteSet(Missing)
    BY <1>2, <1>3, FS_Subset
  <1> QED BY <1>4, FS_CardinalityType

\* Two more elements add at most two to a cardinality.
LEMMA TwoMore ==
  ASSUME NEW S, IsFiniteSet(S), NEW T, NEW a, NEW b, T \subseteq S \cup {a, b}
  PROVE  Cardinality(T) <= Cardinality(S) + 2
  <1> DEFINE U == S \cup {a}
             V == U \cup {b}
  <1>1. IsFiniteSet(U) /\ Cardinality(U) <= Cardinality(S) + 1 /\ Cardinality(S) \in Nat
    BY FS_AddElement, FS_CardinalityType
  <1>2. Cardinality(U) \in Nat
    BY <1>1, FS_CardinalityType
  <1> HIDE DEF U
  <1>3. IsFiniteSet(V) /\ Cardinality(V) <= Cardinality(U) + 1
    BY <1>1, <1>2, FS_AddElement
  <1>4. Cardinality(V) \in Nat
    BY <1>3, FS_CardinalityType
  <1>5. T \subseteq V
    BY DEF U
  <1> HIDE DEF V
  <1>6. Cardinality(T) <= Cardinality(V) /\ Cardinality(T) \in Nat
    BY <1>3, <1>5, FS_Subset, FS_CardinalityType
  <1> QED BY <1>1, <1>2, <1>3, <1>4, <1>6

-----------------------------------------------------------------------------
Inv4 == Inv2 /\ AllNamed /\ (Requests = {} => LossBounded)

LEMMA InitInv4 == Init => Inv4
  <1> SUFFICES ASSUME Init PROVE Inv4
    OBVIOUS
  <1>1. Missing = {} /\ kills = 0
    BY DEF Init, Missing
  <1>2. LossBounded
    BY <1>1, FS_EmptySet DEF LossBounded
  <1> QED BY <1>2, InitInv2, InitNamed DEF Inv4

LEMMA StepInv4 == Inv4 /\ [Next]_vars => Inv4'
  <1> SUFFICES ASSUME Inv4, [Next]_vars PROVE Inv4'
    OBVIOUS
  <1>1. Inv2 /\ Inv2' /\ AllNamed /\ AllNamed'
    BY StepInv1, StepDistinct, StepNamedJobs, StepNamedRecords DEF Inv4, Inv2, AllNamed
  <1> SUFFICES ASSUME Requests = {} PROVE LossBounded'
    BY <1>1 DEF Inv4
  <1>2. Cardinality(Missing) <= 2 * kills
    BY DEF Inv4, LossBounded
  <1>4. IsFiniteSet(Missing) /\ Cardinality(Missing) \in Nat /\ kills \in Nat
    BY <1>1, MissingFinite DEF Inv2, Inv1, TypeOK
  <1>5. Cardinality(Missing') \in Nat
    <2>1. TypeOK'
      BY <1>1 DEF Inv2, Inv1
    <2>2. TypeOK' => (IsFiniteSet(Missing) /\ Cardinality(Missing) \in Nat)'
      BY MissingFinite, PTL
    <2> QED BY <2>1, <2>2
  <1>6. Cardinality(Missing') <= 2 * kills'
    <2>1. CASE \A w \in Workers : ~Crash(w)
      <3>1. Missing' \subseteq Missing /\ kills' = kills
        BY <1>1, <2>1, CalmStep
      <3>2. Cardinality(Missing') <= Cardinality(Missing)
        BY <1>4, <3>1, FS_Subset
      <3> QED BY <1>2, <1>4, <1>5, <3>1, <3>2
    <2>2. ASSUME NEW w \in Workers, Crash(w) PROVE Cardinality(Missing') <= 2 * kills'
      <3>1. /\ Missing' \subseteq Missing \cup {hand[w].enqueued_at, lift[w].enqueued_at}
            /\ kills' = kills + 1
        BY <1>1, <2>2, CrashStep
      <3>2. Cardinality(Missing') <= Cardinality(Missing) + 2
        BY <1>4, <3>1, TwoMore
      <3> QED BY <1>2, <1>4, <1>5, <3>1, <3>2
    <2> QED BY <2>1, <2>2
  <1> QED BY <1>6 DEF LossBounded

LEMMA Inv4Invariant == Spec => []Inv4
  BY InitInv4, StepInv4, PTL DEF Spec

\* The price of a death: for any number of workers, pushes and attempts, and
\* where no replay request races, n deaths without warning lose at most 2n
\* pushes (the job in worker_loop's hand, the job promote_due_jobs has
\* between ZREM and RPUSH); every other push is handled or still somewhere.
THEOREM LossIsBounded == Spec => []LossBounded
  <1>1. Inv4 => LossBounded
    BY DEF Inv4, LossBounded
  <1> QED BY Inv4Invariant, <1>1, PTL

\* Every loss has one of two causes, for any number of workers, requests,
\* pushes and attempts: the process that had the job in hand, or between
\* ZREM and RPUSH, went down; or the push is a later life of a replayed job,
\* dead-lettered, and its letter was replaced or removed under the job_id.
THEOREM LossesAreExplained == Spec => LossesHaveACause
  <1> DEFINE Caused(s) ==
        \/ \E w \in Workers :
            /\ proc[w] # "down" /\ proc'[w] = "down"
            /\ \E j \in {hand[w], lift[w]} \ {NoJob} : j.enqueued_at = s
        \/ \E d \in dead \ dead' : d.enqueued_at = s /\ d.job_id # s
  <1>1. Inv4 /\ [Next]_vars => [\A s \in Missing' \ Missing : Caused(s)]_vars
    <2> SUFFICES ASSUME Inv4, [Next]_vars, NEW s \in Missing' \ Missing
                 PROVE  Caused(s)
      OBVIOUS
    <2>1. Inv2 /\ AllNamed
      BY DEF Inv4
    <2>2. ASSUME NEW w \in Workers, Crash(w) PROVE Caused(s)
      <3>1. PICK j \in {hand[w], lift[w]} \ {NoJob} : j.enqueued_at = s
        BY <2>1, <2>2, CrashStep
      <3>2. proc[w] # "down" /\ proc'[w] = "down"
        BY <2>1, <2>2 DEF Crash, Inv2, Inv1, TypeOK
      <3> QED BY <3>1, <3>2
    <2>3. ASSUME \A w \in Workers : ~Crash(w), ~Caused(s) PROVE FALSE
      <3>1. (Missing = Absent)'
        BY MissingIsAbsent, PTL
      <3>2. s \in 1..pushes' /\ ~Present(s)'
        BY <3>1 DEF Absent
      <3>3. s \in 1..pushes => Present(s)
        BY MissingIsAbsent DEF Absent
      <3>4. \A d \in dead \ dead' : d.enqueued_at = s => s \in closed'
        BY <2>1, <2>3, FirstLivesAreKept
      <3> QED BY <2>1, <2>3, <3>2, <3>3, <3>4, NothingLost
    <2> QED BY <2>2, <2>3
  <1> QED BY <1>1, Inv4Invariant, PTL DEF Spec, LossesHaveACause

\* A rolling update is free: SIGTERMs, restarts and any interleaving of the
\* loops lose no push at all as long as no process dies without warning.
THEOREM GracefulStopLosesNothing == Spec => []GracefulLosesNothing
  <1>1. Inv4 => GracefulLosesNothing
    <2> SUFFICES ASSUME Inv4, kills = 0, Requests = {} PROVE Missing = {}
      BY DEF GracefulLosesNothing
    <2>1. IsFiniteSet(Missing) /\ Cardinality(Missing) \in Nat
      BY MissingFinite DEF Inv4, Inv2, Inv1
    <2>2. Cardinality(Missing) = 0
      BY <2>1 DEF Inv4, LossBounded
    <2> QED BY <2>1, <2>2, FS_EmptySet
  <1> QED BY Inv4Invariant, <1>1, PTL

-----------------------------------------------------------------------------
(* What becomes of a dead letter.                                          *)

\* An exhausted job stays in the hash until it is discarded, as the README
\* says, whatever races or dies: for any number of workers, the loss that
\* pipeline_replay_race shows needs a replay request.
THEOREM LettersAreKept ==
  ASSUME Requests = {}
  PROVE  Spec => DeadLetterKept
  <1>1. Inv4 /\ [Next]_vars => [\A d \in dead \ dead' : d.enqueued_at \in closed']_vars
    <2> SUFFICES ASSUME Inv4, [Next]_vars, NEW d \in dead \ dead'
                 PROVE  d.enqueued_at \in closed'
      OBVIOUS
    <2>1. d.job_id = d.enqueued_at
      BY DEF Inv4, AllNamed, NamedJobs, NamedDead, Named
    <2> QED BY <2>1, FirstLivesAreKept DEF Inv4
  <1> QED BY <1>1, Inv4Invariant, PTL DEF Spec, DeadLetterKept
=============================================================================
