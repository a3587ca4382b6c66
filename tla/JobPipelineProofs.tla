------------------------- MODULE JobPipelineProofs -------------------------
(***************************************************************************)
(* Theorems about JobPipeline, for every set of workers and of requests    *)
(* and every value of the limits.                                          *)
(***************************************************************************)
EXTENDS JobPipeline, TLAPS

-----------------------------------------------------------------------------
(* Sequences and records.                                                  *)

\* What RPUSH does to a list.
LEMMA AppendFacts ==
  ASSUME NEW S, NEW q \in Seq(S), NEW x \in S
  PROVE  /\ Append(q, x) \in Seq(S)
         /\ DOMAIN Append(q, x) = 1..(Len(q) + 1)
         /\ DOMAIN q = 1..Len(q) /\ Len(q) \in Nat
         /\ \A i \in DOMAIN q : Append(q, x)[i] = q[i]
         /\ Append(q, x)[Len(q) + 1] = x
  OBVIOUS

\* What BLPOP does to a list.
LEMMA PopFacts ==
  ASSUME NEW S, NEW q \in Seq(S), q # <<>>
  PROVE  /\ Head(q) \in S /\ Tail(q) \in Seq(S)
         /\ 1 \in DOMAIN q /\ Head(q) = q[1]
         /\ DOMAIN q = 1..Len(q) /\ DOMAIN Tail(q) = 1..(Len(q) - 1)
         /\ \A i \in DOMAIN Tail(q) : i + 1 \in DOMAIN q /\ Tail(q)[i] = q[i + 1]
  OBVIOUS

\* A fresh job is a job with the id and the stamp it is given.
LEMMA FreshJobType ==
  ASSUME NEW id \in Stamp, NEW stamp \in Stamp
  PROVE  /\ FreshJob(id, stamp) \in Job
         /\ FreshJob(id, stamp).enqueued_at = stamp
         /\ FreshJob(id, stamp).attempt = 1
         /\ FreshJob(id, stamp).attempt_history = <<>>
  BY DEF FreshJob, Job, Stamp

\* A job that failed once more is a job with the same stamp.
LEMMA FailedJobType ==
  ASSUME NEW job \in Job, NEW error \in ErrorTypes
  PROVE  LET failed == [job EXCEPT !.attempt_history = Append(@, error)]
         IN  /\ failed \in Job
             /\ failed.enqueued_at = job.enqueued_at
             /\ failed.attempt = job.attempt
             /\ failed.attempt_history = Append(job.attempt_history, error)
  BY DEF Job, Stamp, ErrorTypes

\* So is a job whose attempt number advanced.
LEMMA RetriedJobType ==
  ASSUME NEW job \in Job
  PROVE  LET next == [job EXCEPT !.attempt = @ + 1]
         IN  /\ next \in Job
             /\ next.enqueued_at = job.enqueued_at
             /\ next.attempt = job.attempt + 1
             /\ next.attempt_history = job.attempt_history
  BY DEF Job, Stamp

LEMMA DeadLetterType ==
  ASSUME NEW job \in Job
  PROVE  /\ DeadLetterOf(job) \in DeadRecord
         /\ DeadLetterOf(job).enqueued_at = job.enqueued_at
         /\ DeadLetterOf(job).attempts = job.attempt_history
  BY DEF DeadLetterOf, DeadRecord, Job

LEMMA AttemptRowType ==
  ASSUME NEW job \in Job, NEW outcome \in Outcomes
  PROVE  AttemptRow(job, outcome) \in
            [enqueued_at : Stamp, attempt_number : Nat \ {0}, outcome : Outcomes]
  BY DEF AttemptRow, Job

-----------------------------------------------------------------------------
(* Type correctness.  TypeOK alone is not inductive: closed \subseteq      *)
(* 1..pushes needs every stamp in the system to have been issued.          *)

Issued ==
    /\ \A i \in DOMAIN main : main[i].enqueued_at <= pushes
    /\ \A j \in delayed : j.enqueued_at <= pushes
    /\ \A d \in dead : d.enqueued_at <= pushes
    /\ \A w \in Workers : /\ hand[w] # NoJob => hand[w].enqueued_at <= pushes
                          /\ lift[w] # NoJob => lift[w].enqueued_at <= pushes
    /\ \A r \in Requests : record[r] # NoJob => record[r].enqueued_at <= pushes

Inv1 == TypeOK /\ Issued

\* RPUSH of a job whose stamp was issued by m to a list issued by n <= m.
LEMMA AppendIssued ==
  ASSUME NEW q \in Seq(Job), NEW job \in Job, NEW n \in Nat, NEW m \in Nat,
         n <= m, job.enqueued_at <= m,
         \A i \in DOMAIN q : q[i].enqueued_at <= n
  PROVE  \A i \in DOMAIN Append(q, job) : Append(q, job)[i].enqueued_at <= m
  <1> SUFFICES ASSUME NEW i \in DOMAIN Append(q, job)
               PROVE  Append(q, job)[i].enqueued_at <= m
    OBVIOUS
  <1>1. CASE i \in DOMAIN q
    <2>1. q[i] \in Job /\ q[i].enqueued_at <= n
      BY <1>1
    <2>2. q[i].enqueued_at \in Nat
      BY <2>1 DEF Job, Stamp
    <2>3. Append(q, job)[i] = q[i]
      BY <1>1, AppendFacts
    <2> QED BY <2>1, <2>2, <2>3
  <1>2. CASE i = Len(q) + 1
    BY <1>2, AppendFacts
  <1>3. i \in DOMAIN q \/ i = Len(q) + 1
    BY AppendFacts
  <1> QED BY <1>1, <1>2, <1>3

LEMMA InitInv1 == Init => Inv1
  BY ConstantsAssumption DEF Init, Inv1, TypeOK, Issued

LEMMA StepInv1 == Inv1 /\ [Next]_vars => Inv1'
  <1> SUFFICES ASSUME Inv1, [Next]_vars PROVE Inv1'
    OBVIOUS
  <1> USE ConstantsAssumption DEF Inv1, redis, worker, promoter, api, ledger, faults
  <1>1. CASE EnqueueJob
    <2>1. /\ pushes + 1 \in Stamp
          /\ pushes + 1 \in 0..MaxPushes
      BY <1>1 DEF EnqueueJob, TypeOK, Stamp
    <2> DEFINE job == FreshJob(pushes + 1, pushes + 1)
    <2>2. job \in Job /\ job.enqueued_at = pushes + 1
      BY <2>1, FreshJobType
    <2> HIDE DEF job
    <2>3. main' = Append(main, job) /\ pushes' = pushes + 1
      BY <1>1 DEF EnqueueJob, job
    <2>4. TypeOK'
      BY <1>1, <2>1, <2>2, <2>3, AppendFacts DEF EnqueueJob, TypeOK
    <2>5. \A i \in DOMAIN main' : main'[i].enqueued_at <= pushes'
      <3>1. /\ main \in Seq(Job)
            /\ pushes \in Nat /\ pushes + 1 \in Nat /\ pushes <= pushes + 1
            /\ \A i \in DOMAIN main : main[i].enqueued_at <= pushes
            /\ job.enqueued_at <= pushes + 1
        BY <2>2 DEF TypeOK, Issued
      <3> QED BY <2>2, <2>3, <3>1, AppendIssued
    <2>6. Issued'
      BY <1>1, <2>3, <2>5 DEF EnqueueJob, TypeOK, Issued, Job, DeadRecord, Stamp
    <2> QED BY <2>4, <2>6
  <1>2. ASSUME NEW d \in dead, PurgeDeadLetter(d) PROVE Inv1'
    <2>1. d.enqueued_at \in 1..pushes
      BY DEF TypeOK, Issued, DeadRecord, Stamp
    <2>2. TypeOK'
      BY <1>2, <2>1 DEF PurgeDeadLetter, TypeOK
    <2>3. Issued'
      BY <1>2 DEF PurgeDeadLetter, TypeOK, Issued
    <2> QED BY <2>2, <2>3
  <1>3. ASSUME NEW r \in Requests, NEW d \in dead, ReplayRead(r, d) PROVE Inv1'
    <2>1. TypeOK'
      BY <1>3 DEF ReplayRead, TypeOK
    <2>2. Issued'
      BY <1>3 DEF ReplayRead, TypeOK, Issued
    <2> QED BY <2>1, <2>2
  <1>4. ASSUME NEW r \in Requests, ReplayPush(r) PROVE Inv1'
    <2>1. /\ record[r] \in DeadRecord
          /\ record[r].job_id \in Stamp /\ record[r].enqueued_at \in 1..pushes
          /\ pushes + 1 \in Stamp /\ pushes + 1 \in 0..MaxPushes
      BY <1>4 DEF ReplayPush, TypeOK, Issued, DeadRecord, Stamp
    <2> DEFINE job == FreshJob(record[r].job_id, pushes + 1)
    <2>2. job \in Job /\ job.enqueued_at = pushes + 1
      BY <2>1, FreshJobType
    <2> HIDE DEF job
    <2>3. main' = Append(main, job) /\ pushes' = pushes + 1
      BY <1>4 DEF ReplayPush, job
    <2>4. TypeOK'
      <3>1. main' \in Seq(Job)
        BY <2>2, <2>3, AppendFacts DEF TypeOK
      <3>2. closed' \subseteq 1..pushes'
        <4>1. closed' = closed \cup {record[r].enqueued_at}
          BY <1>4 DEF ReplayPush
        <4>2. closed \subseteq 1..pushes /\ pushes \in Nat
          BY DEF TypeOK
        <4>3. 1..pushes \subseteq 1..(pushes + 1)
          BY <4>2
        <4> QED BY <2>1, <2>3, <4>1, <4>2, <4>3
      <3> QED BY <1>4, <2>1, <2>3, <3>1, <3>2 DEF ReplayPush, TypeOK
    <2>5. \A i \in DOMAIN main' : main'[i].enqueued_at <= pushes'
      <3>1. /\ main \in Seq(Job)
            /\ pushes \in Nat /\ pushes + 1 \in Nat /\ pushes <= pushes + 1
            /\ \A i \in DOMAIN main : main[i].enqueued_at <= pushes
            /\ job.enqueued_at <= pushes + 1
        BY <2>2 DEF TypeOK, Issued
      <3> QED BY <2>2, <2>3, <3>1, AppendIssued
    <2>6. Issued'
      BY <1>4, <2>3, <2>5 DEF ReplayPush, TypeOK, Issued, Job, DeadRecord, Stamp
    <2> QED BY <2>4, <2>6
  <1>5. ASSUME NEW r \in Requests, ReplayRemove(r) PROVE Inv1'
    <2>1. TypeOK'
      BY <1>5 DEF ReplayRemove, TypeOK
    <2>2. Issued'
      BY <1>5 DEF ReplayRemove, TypeOK, Issued
    <2> QED BY <2>1, <2>2
  <1>6. ASSUME NEW r \in Requests, AbortReplay(r) PROVE Inv1'
    <2>1. TypeOK'
      BY <1>6 DEF AbortReplay, TypeOK
    <2>2. Issued'
      BY <1>6 DEF AbortReplay, TypeOK, Issued
    <2> QED BY <2>1, <2>2
  <1>7. ASSUME NEW w \in Workers, Dequeue(w) PROVE Inv1'
    <2>1. /\ main \in Seq(Job) /\ Head(main) \in Job /\ Head(main) # NoJob
          /\ Tail(main) \in Seq(Job)
          /\ \A i \in DOMAIN main : main[i].enqueued_at <= pushes
      BY <1>7, PopFacts DEF Dequeue, TypeOK, Issued
    <2>2. /\ Head(main).enqueued_at <= pushes
          /\ \A i \in DOMAIN Tail(main) : Tail(main)[i].enqueued_at <= pushes
      BY <1>7, <2>1, PopFacts DEF Dequeue
    <2>3. TypeOK'
      BY <1>7, <2>1 DEF Dequeue, TypeOK
    <2>4. Issued'
      BY <1>7, <2>2 DEF Dequeue, TypeOK, Issued
    <2> QED BY <2>3, <2>4
  <1>8. ASSUME NEW w \in Workers, PollTimeout(w) PROVE Inv1'
    <2>1. TypeOK'
      BY <1>8 DEF PollTimeout, NextTurn, TypeOK
    <2>2. Issued'
      BY <1>8 DEF PollTimeout, TypeOK, Issued
    <2> QED BY <2>1, <2>2
  <1>9. ASSUME NEW w \in Workers, HandleSuccess(w) PROVE Inv1'
    <2>1. AttemptRow(hand[w], "Ok") \in
            [enqueued_at : Stamp, attempt_number : Nat \ {0}, outcome : Outcomes]
      BY <1>9, AttemptRowType DEF HandleSuccess, TypeOK, Outcomes
    <2>2. TypeOK'
      BY <1>9, <2>1 DEF HandleSuccess, TypeOK
    <2>3. Issued'
      BY <1>9 DEF HandleSuccess, TypeOK, Issued
    <2> QED BY <2>2, <2>3
  <1>10. ASSUME NEW w \in Workers, AlertsDone(w) PROVE Inv1'
    <2>1. hand[w] \in Job /\ hand[w].enqueued_at \in 1..pushes
      BY <1>10 DEF AlertsDone, TypeOK, Issued, Job, Stamp
    <2>2. TypeOK'
      BY <1>10, <2>1 DEF AlertsDone, NextTurn, TypeOK
    <2>3. Issued'
      BY <1>10 DEF AlertsDone, TypeOK, Issued
    <2> QED BY <2>2, <2>3
  <1>11. ASSUME NEW w \in Workers, NEW error \in Errors, RecordFailure(w, error)
         PROVE Inv1'
    <2>1. hand[w] \in Job /\ error \in ErrorTypes /\ error \in Outcomes
      BY <1>11 DEF RecordFailure, TypeOK, Outcomes
    <2> DEFINE failed == [hand[w] EXCEPT !.attempt_history = Append(@, error)]
    <2>2. failed \in Job /\ failed.enqueued_at = hand[w].enqueued_at
      BY <2>1, FailedJobType
    <2>3. AttemptRow(hand[w], error) \in
            [enqueued_at : Stamp, attempt_number : Nat \ {0}, outcome : Outcomes]
      BY <2>1, AttemptRowType
    <2>4. hand' = [hand EXCEPT ![w] = failed]
      BY <1>11 DEF RecordFailure, TypeOK
    <2> HIDE DEF failed
    <2>5. TypeOK'
      <3>1. hand' \in [Workers -> Job \cup {NoJob}]
        BY <2>2, <2>4 DEF TypeOK
      <3>2. \A v \in Workers :
                hand'[v] # NoJob <=> loop'[v] \in {"scrape", "route", "alert"}
        <4>1. /\ loop' = [loop EXCEPT ![w] = "route"] /\ loop[w] = "scrape"
              /\ failed # NoJob
          BY <1>11, <2>2 DEF RecordFailure
        <4> QED BY <2>4, <4>1 DEF TypeOK
      <3>3. rows' \subseteq
              [enqueued_at : Stamp, attempt_number : Nat \ {0}, outcome : Outcomes]
        BY <1>11, <2>3 DEF RecordFailure, TypeOK
      <3>4. loop' = [loop EXCEPT ![w] = "route"] /\ loop[w] = "scrape"
        BY <1>11 DEF RecordFailure
      <3>5. UNCHANGED <<redis, proc, promoter, api, closed, pushes, faults>>
        BY <1>11 DEF RecordFailure
      <3> QED BY <3>1, <3>2, <3>3, <3>4, <3>5 DEF TypeOK
    <2>6. Issued'
      BY <1>11, <2>2, <2>4 DEF RecordFailure, TypeOK, Issued
    <2> QED BY <2>5, <2>6
  <1>12. ASSUME NEW w \in Workers, DeadLetter(w) PROVE Inv1'
    <2>1. hand[w] \in Job /\ hand[w].enqueued_at <= pushes
      BY <1>12 DEF DeadLetter, TypeOK, Issued
    <2>2. /\ DeadLetterOf(hand[w]) \in DeadRecord
          /\ DeadLetterOf(hand[w]).enqueued_at <= pushes
      BY <2>1, DeadLetterType
    <2>3. TypeOK'
      BY <1>12, <2>2 DEF DeadLetter, NextTurn, TypeOK
    <2>4. Issued'
      BY <1>12, <2>2 DEF DeadLetter, TypeOK, Issued
    <2> QED BY <2>3, <2>4
  <1>13. ASSUME NEW w \in Workers, ScheduleRetry(w) PROVE Inv1'
    <2>1. hand[w] \in Job /\ hand[w].enqueued_at <= pushes
      BY <1>13 DEF ScheduleRetry, TypeOK, Issued
    <2> DEFINE next == [hand[w] EXCEPT !.attempt = @ + 1]
    <2>2. next \in Job /\ next.enqueued_at <= pushes
      BY <2>1, RetriedJobType
    <2>3. delayed' = delayed \cup {next}
      BY <1>13 DEF ScheduleRetry
    <2> HIDE DEF next
    <2>4. TypeOK'
      BY <1>13, <2>2, <2>3 DEF ScheduleRetry, NextTurn, TypeOK
    <2>5. Issued'
      BY <1>13, <2>2, <2>3 DEF ScheduleRetry, TypeOK, Issued
    <2> QED BY <2>4, <2>5
  <1>14. ASSUME NEW w \in Workers, FetchDue(w) PROVE Inv1'
    <2>1. PICK jobs \in SUBSET due : batch' = [batch EXCEPT ![w] = jobs]
      BY <1>14 DEF FetchDue
    <2>2. TypeOK'
      BY <1>14, <2>1 DEF FetchDue, TypeOK
    <2>3. Issued'
      BY <1>14 DEF FetchDue, TypeOK, Issued
    <2> QED BY <2>2, <2>3
  <1>15. ASSUME NEW w \in Workers, NEW job \in batch[w], RemoveDelayed(w, job)
         PROVE Inv1'
    <2>1. TypeOK'
      <3>1. CASE job \in delayed
        BY <1>15, <3>1 DEF RemoveDelayed, TypeOK
      <3>2. CASE job \notin delayed
        BY <1>15, <3>2 DEF RemoveDelayed, TypeOK
      <3> QED BY <3>1, <3>2
    <2>2. Issued'
      BY <1>15 DEF RemoveDelayed, TypeOK, Issued
    <2> QED BY <2>1, <2>2
  <1>16. ASSUME NEW w \in Workers, PushPromoted(w) PROVE Inv1'
    <2>1. lift[w] \in Job /\ lift[w].enqueued_at <= pushes
      BY <1>16 DEF PushPromoted, TypeOK, Issued
    <2>2. TypeOK'
      BY <1>16, <2>1, AppendFacts DEF PushPromoted, TypeOK
    <2>3. \A i \in DOMAIN main' : main'[i].enqueued_at <= pushes'
      <3>1. /\ main \in Seq(Job)
            /\ \A i \in DOMAIN main : main[i].enqueued_at <= pushes
            /\ main' = Append(main, lift[w]) /\ pushes' = pushes
            /\ pushes \in Nat /\ pushes <= pushes
        BY <1>16 DEF PushPromoted, TypeOK, Issued
      <3> QED BY <2>1, <3>1, AppendIssued
    <2>4. Issued'
      BY <1>16, <2>3 DEF PushPromoted, TypeOK, Issued
    <2> QED BY <2>2, <2>4
  <1>17. ASSUME NEW w \in Workers, PromoterTurn(w) PROVE Inv1'
    <2>1. TypeOK'
      BY <1>17 DEF PromoterTurn, TypeOK
    <2>2. Issued'
      BY <1>17 DEF PromoterTurn, TypeOK, Issued
    <2> QED BY <2>1, <2>2
  <1>18. ASSUME NEW w \in Workers, Process(w) PROVE Inv1'
    <2>1. CASE Sigterm(w)
      BY <2>1 DEF Sigterm, TypeOK, Issued
    <2>2. CASE GracefulExit(w)
      BY <2>2 DEF GracefulExit, TypeOK, Issued
    <2>3. CASE Crash(w)
      BY <2>3 DEF Crash, TypeOK, Issued
    <2>4. CASE Restart(w)
      BY <2>4 DEF Restart, TypeOK, Issued
    <2> QED BY <1>18, <2>1, <2>2, <2>3, <2>4 DEF Process
  <1>19. ASSUME NEW job \in delayed, BackoffElapses(job) PROVE Inv1'
    BY <1>19 DEF BackoffElapses, TypeOK, Issued
  <1>20. CASE UNCHANGED vars
    BY <1>20 DEF vars, TypeOK, Issued
  <1> QED
    BY <1>1, <1>2, <1>3, <1>4, <1>5, <1>6, <1>7, <1>8, <1>9, <1>10, <1>11, <1>12,
       <1>13, <1>14, <1>15, <1>16, <1>17, <1>18, <1>19, <1>20
       DEF Next, Replay, WorkerLoop, PromoterLoop

LEMMA Inv1Invariant == Spec => []Inv1
  BY InitInv1, StepInv1, PTL DEF Spec

\* Type correctness of the whole pipeline: every position of every loop has
\* the locals it needs, and only issued pushes are ever closed.
THEOREM TypeCorrect == Spec => []TypeOK
  BY Inv1Invariant, PTL DEF Inv1

-----------------------------------------------------------------------------
(* No double delivery.  The inductive form says it place by place: stamps  *)
(* are distinct within each place, and no two places share one.            *)

NotDelayed(s) == \A j \in delayed : j.enqueued_at # s
NotDead(s) == \A d \in dead : d.enqueued_at # s
NotHeld(s) == \A w \in Workers : hand[w] # NoJob => hand[w].enqueued_at # s
NotLifted(s) == \A w \in Workers : lift[w] # NoJob => lift[w].enqueued_at # s

OneInMain ==
    \A i, k \in DOMAIN main : main[i].enqueued_at = main[k].enqueued_at => i = k
OneInDelayed == \A j, k \in delayed : j.enqueued_at = k.enqueued_at => j = k
OneInDead == \A d, e \in dead : d.enqueued_at = e.enqueued_at => d = e
OneInHand ==
    \A v, w \in Workers :
        /\ hand[v] # NoJob /\ hand[w] # NoJob
        /\ hand[v].enqueued_at = hand[w].enqueued_at
        => v = w
OneInLift ==
    \A v, w \in Workers :
        /\ lift[v] # NoJob /\ lift[w] # NoJob
        /\ lift[v].enqueued_at = lift[w].enqueued_at
        => v = w
MainApart ==
    \A i \in DOMAIN main : /\ NotDelayed(main[i].enqueued_at)
                           /\ NotDead(main[i].enqueued_at)
                           /\ NotHeld(main[i].enqueued_at)
                           /\ NotLifted(main[i].enqueued_at)
DelayedApart ==
    \A j \in delayed : /\ NotDead(j.enqueued_at)
                       /\ NotHeld(j.enqueued_at)
                       /\ NotLifted(j.enqueued_at)
DeadApart == \A d \in dead : NotHeld(d.enqueued_at) /\ NotLifted(d.enqueued_at)
HandApart == \A w \in Workers : hand[w] # NoJob => NotLifted(hand[w].enqueued_at)

Distinct ==
    /\ OneInMain /\ OneInDelayed /\ OneInDead /\ OneInHand /\ OneInLift
    /\ MainApart /\ DelayedApart /\ DeadApart /\ HandApart

\* The place-by-place form is at least as strong as the property.
LEMMA DistinctSuffices == Distinct => NoDoubleDelivery
  <1> SUFFICES ASSUME Distinct, NEW s \in 1..pushes,
                      NEW p \in Copies(s), NEW q \in Copies(s)
               PROVE  p = q
    BY DEF NoDoubleDelivery
  <1> USE DEF Distinct, NotDelayed, NotDead, NotHeld, NotLifted
  <1>1. CASE \E i \in DOMAIN main : p = <<"main", i>> /\ main[i].enqueued_at = s
    BY <1>1 DEF Copies, OneInMain, MainApart
  <1>2. CASE \E j \in delayed : p = <<"delayed", j>> /\ j.enqueued_at = s
    BY <1>2 DEF Copies, OneInDelayed, MainApart, DelayedApart
  <1>3. CASE \E d \in dead : p = <<"dead", d>> /\ d.enqueued_at = s
    BY <1>3 DEF Copies, OneInDead, MainApart, DelayedApart, DeadApart
  <1>4. CASE \E w \in Workers : /\ p = <<"hand", w>>
                                /\ hand[w] # NoJob /\ hand[w].enqueued_at = s
    BY <1>4 DEF Copies, OneInHand, MainApart, DelayedApart, DeadApart, HandApart
  <1>5. CASE \E w \in Workers : /\ p = <<"lift", w>>
                                /\ lift[w] # NoJob /\ lift[w].enqueued_at = s
    BY <1>5 DEF Copies, OneInLift, MainApart, DelayedApart, DeadApart, HandApart
  <1> QED BY <1>1, <1>2, <1>3, <1>4, <1>5 DEF Copies

\* A push under a stamp that no place holds.
LEMMA FreshPushDistinct ==
  ASSUME Distinct, NEW S, main \in Seq(S), NEW job \in S,
         main' = Append(main, job),
         UNCHANGED <<delayed, dead, hand, lift>>,
         \A i \in DOMAIN main : main[i].enqueued_at # job.enqueued_at,
         NotDelayed(job.enqueued_at), NotDead(job.enqueued_at),
         NotHeld(job.enqueued_at), NotLifted(job.enqueued_at)
  PROVE  Distinct'
  <1> USE DEF NotDelayed, NotDead, NotHeld, NotLifted
  <1>1. OneInMain'
    BY AppendFacts DEF Distinct, OneInMain
  <1>2. MainApart'
    BY AppendFacts DEF Distinct, MainApart
  <1>3. (OneInDelayed /\ OneInDead /\ OneInHand /\ OneInLift)'
    BY DEF Distinct, OneInDelayed, OneInDead, OneInHand, OneInLift
  <1>4. (DelayedApart /\ DeadApart /\ HandApart)'
    BY DEF Distinct, DelayedApart, DeadApart, HandApart
  <1> QED BY <1>1, <1>2, <1>3, <1>4 DEF Distinct

Inv2 == Inv1 /\ Distinct

LEMMA InitInv2 == Init => Inv2
  BY InitInv1
     DEF Init, Inv2, Distinct, OneInMain, OneInDelayed, OneInDead, OneInHand, OneInLift,
         MainApart, DelayedApart, DeadApart, HandApart

\* Steps that move no job.
LEMMA StillDistinct ==
  ASSUME Distinct, UNCHANGED <<main, delayed, dead, hand, lift>>
  PROVE  Distinct'
  BY DEF Distinct, OneInMain, OneInDelayed, OneInDead, OneInHand, OneInLift,
         MainApart, DelayedApart, DeadApart, HandApart,
         NotDelayed, NotDead, NotHeld, NotLifted

\* Steps after which there are fewer dead letters, held jobs or lifted jobs
\* and everything else is where it was.
LEMMA FewerDistinct ==
  ASSUME Distinct, UNCHANGED <<main, delayed>>,
         dead' \subseteq dead,
         \A w \in Workers : hand'[w] # NoJob => hand'[w] = hand[w],
         \A w \in Workers : lift'[w] # NoJob => lift'[w] = lift[w]
  PROVE  Distinct'
  BY DEF Distinct, OneInMain, OneInDelayed, OneInDead, OneInHand, OneInLift,
         MainApart, DelayedApart, DeadApart, HandApart,
         NotDelayed, NotDead, NotHeld, NotLifted

LEMMA StepDistinct == Inv2 /\ [Next]_vars => Distinct'
  <1> SUFFICES ASSUME Inv2, [Next]_vars PROVE Distinct'
    OBVIOUS
  <1> USE DEF Inv2, Inv1
  <1>1. CASE EnqueueJob
    <2> DEFINE job == FreshJob(pushes + 1, pushes + 1)
    <2>0. pushes + 1 \in Stamp
      BY DEF TypeOK, Stamp
    <2>1. job \in Job /\ job.enqueued_at = pushes + 1
      BY <2>0, FreshJobType
    <2>2. main' = Append(main, job) /\ UNCHANGED <<delayed, dead, hand, lift>>
      BY <1>1 DEF EnqueueJob, worker, promoter
    <2> HIDE DEF job
    <2>3. /\ \A i \in DOMAIN main : main[i].enqueued_at # job.enqueued_at
          /\ NotDelayed(job.enqueued_at) /\ NotDead(job.enqueued_at)
          /\ NotHeld(job.enqueued_at) /\ NotLifted(job.enqueued_at)
      BY <2>1 DEF Issued, TypeOK, NotDelayed, NotDead, NotHeld, NotLifted
    <2> QED BY <2>1, <2>2, <2>3, FreshPushDistinct DEF TypeOK
  <1>2. ASSUME NEW d \in dead, PurgeDeadLetter(d) PROVE Distinct'
    BY <1>2, FewerDistinct DEF PurgeDeadLetter, worker, promoter
  <1>3. ASSUME NEW r \in Requests, Replay(r) PROVE Distinct'
    <2>1. ASSUME NEW d \in dead, ReplayRead(r, d) PROVE Distinct'
      BY <2>1, StillDistinct DEF ReplayRead, redis, worker, promoter
    <2>2. CASE ReplayPush(r)
      <3> DEFINE job == FreshJob(record[r].job_id, pushes + 1)
      <3>1. record[r].job_id \in Stamp /\ pushes + 1 \in Stamp
        BY <2>2 DEF ReplayPush, TypeOK, DeadRecord, Stamp
      <3>2. job \in Job /\ job.enqueued_at = pushes + 1
        BY <3>1, FreshJobType
      <3>3. main' = Append(main, job) /\ UNCHANGED <<delayed, dead, hand, lift>>
        BY <2>2 DEF ReplayPush, worker, promoter
      <3> HIDE DEF job
      <3>4. /\ \A i \in DOMAIN main : main[i].enqueued_at # job.enqueued_at
            /\ NotDelayed(job.enqueued_at) /\ NotDead(job.enqueued_at)
            /\ NotHeld(job.enqueued_at) /\ NotLifted(job.enqueued_at)
        BY <3>2 DEF Issued, TypeOK, NotDelayed, NotDead, NotHeld, NotLifted
      <3> QED BY <3>2, <3>3, <3>4, FreshPushDistinct DEF TypeOK
    <2>3. CASE ReplayRemove(r)
      BY <2>3, FewerDistinct DEF ReplayRemove, worker, promoter
    <2>4. CASE AbortReplay(r)
      BY <2>4, StillDistinct DEF AbortReplay, redis, worker, promoter
    <2> QED BY <1>3, <2>1, <2>2, <2>3, <2>4 DEF Replay
  <1>4. ASSUME NEW w \in Workers, Dequeue(w) PROVE Distinct'
    <2>1. /\ main \in Seq(Job) /\ main # <<>> /\ main' = Tail(main)
          /\ hand' = [hand EXCEPT ![w] = main[1]]
          /\ hand[w] = NoJob /\ hand \in [Workers -> Job \cup {NoJob}]
          /\ UNCHANGED <<delayed, dead, lift>>
      BY <1>4, PopFacts DEF Dequeue, TypeOK, promoter
    <2>2. /\ 1 \in DOMAIN main
          /\ \A i \in DOMAIN main' : /\ i + 1 \in DOMAIN main /\ i + 1 # 1
                                     /\ main'[i] = main[i + 1]
      BY <2>1, PopFacts
    <2>3. \A i, k \in DOMAIN main' : i + 1 = k + 1 => i = k
      BY <2>1, PopFacts
    <2>4. OneInMain'
      BY <2>2, <2>3 DEF Distinct, OneInMain
    <2>5. MainApart'
      BY <2>1, <2>2 DEF Distinct, OneInMain, MainApart, NotDelayed, NotDead, NotHeld, NotLifted
    <2>6. OneInHand' /\ HandApart' /\ DelayedApart' /\ DeadApart'
      BY <2>1, <2>2 DEF Distinct, OneInHand, MainApart, HandApart, DelayedApart, DeadApart,
                        NotDelayed, NotDead, NotHeld, NotLifted
    <2>7. OneInDelayed' /\ OneInDead' /\ OneInLift'
      BY <2>1 DEF Distinct, OneInDelayed, OneInDead, OneInLift
    <2> QED BY <2>4, <2>5, <2>6, <2>7 DEF Distinct
  <1>5. ASSUME NEW w \in Workers, PollTimeout(w) \/ HandleSuccess(w) PROVE Distinct'
    BY <1>5, StillDistinct DEF PollTimeout, HandleSuccess, redis, promoter
  <1>6. ASSUME NEW w \in Workers, AlertsDone(w) PROVE Distinct'
    BY <1>6, FewerDistinct DEF AlertsDone, redis, promoter, TypeOK
  <1>7. ASSUME NEW w \in Workers, NEW error \in Errors, RecordFailure(w, error)
        PROVE Distinct'
    <2> DEFINE failed == [hand[w] EXCEPT !.attempt_history = Append(@, error)]
    <2>1. hand[w] \in Job /\ hand[w] # NoJob /\ error \in ErrorTypes
      BY <1>7, ConstantsAssumption DEF RecordFailure, TypeOK
    <2>2. failed \in Job /\ failed.enqueued_at = hand[w].enqueued_at
      BY <2>1, FailedJobType
    <2>3. /\ hand' = [hand EXCEPT ![w] = failed]
          /\ UNCHANGED <<main, delayed, dead, lift>>
      BY <1>7 DEF RecordFailure, redis, promoter, TypeOK
    <2> HIDE DEF failed
    <2>4. \A v \in Workers : hand'[v] # NoJob =>
                /\ hand[v] # NoJob
                /\ hand'[v].enqueued_at = hand[v].enqueued_at
      BY <2>1, <2>2, <2>3 DEF TypeOK
    <2> QED
      BY <2>3, <2>4
         DEF Distinct, OneInMain, OneInDelayed, OneInDead, OneInHand, OneInLift,
             MainApart, DelayedApart, DeadApart, HandApart,
             NotDelayed, NotDead, NotHeld, NotLifted
  <1>8. ASSUME NEW w \in Workers, DeadLetter(w) PROVE Distinct'
    <2> DEFINE letter == DeadLetterOf(hand[w])
    <2>1. hand[w] \in Job /\ hand[w] # NoJob
      BY <1>8 DEF DeadLetter, TypeOK
    <2>2. letter.enqueued_at = hand[w].enqueued_at
      BY <2>1, DeadLetterType
    <2>3. /\ dead' \subseteq dead \cup {letter}
          /\ hand' = [hand EXCEPT ![w] = NoJob]
          /\ UNCHANGED <<main, delayed, lift>>
      BY <1>8 DEF DeadLetter, promoter
    <2> HIDE DEF letter
    <2>4. \A v \in Workers : hand'[v] # NoJob => v # w /\ hand'[v] = hand[v]
      BY <2>3 DEF TypeOK
    <2>5. OneInDead' /\ DeadApart'
      BY <2>1, <2>2, <2>3, <2>4
         DEF Distinct, OneInDead, OneInHand, DeadApart, HandApart, NotHeld, NotLifted
    <2>6. MainApart' /\ DelayedApart'
      BY <2>1, <2>2, <2>3, <2>4
         DEF Distinct, MainApart, DelayedApart, NotDelayed, NotDead, NotHeld, NotLifted
    <2>7. OneInMain' /\ OneInDelayed' /\ OneInHand' /\ OneInLift' /\ HandApart'
      BY <2>3, <2>4 DEF Distinct, OneInMain, OneInDelayed, OneInHand, OneInLift,
                        HandApart, NotLifted
    <2> QED BY <2>5, <2>6, <2>7 DEF Distinct
  <1>9. ASSUME NEW w \in Workers, ScheduleRetry(w) PROVE Distinct'
    <2> DEFINE next == [hand[w] EXCEPT !.attempt = @ + 1]
    <2>1. hand[w] \in Job /\ hand[w] # NoJob
      BY <1>9 DEF ScheduleRetry, TypeOK
    <2>2. next.enqueued_at = hand[w].enqueued_at
      BY <2>1, RetriedJobType
    <2>3. /\ delayed' = delayed \cup {next}
          /\ hand' = [hand EXCEPT ![w] = NoJob]
          /\ UNCHANGED <<main, dead, lift>>
      BY <1>9 DEF ScheduleRetry, promoter
    <2> HIDE DEF next
    <2>4. \A v \in Workers : hand'[v] # NoJob => v # w /\ hand'[v] = hand[v]
      BY <2>3 DEF TypeOK
    <2>5. OneInDelayed' /\ DelayedApart'
      BY <2>1, <2>2, <2>3, <2>4
         DEF Distinct, OneInDelayed, OneInHand, DelayedApart, DeadApart, HandApart,
             NotDead, NotHeld, NotLifted
    <2>6. MainApart' /\ DeadApart'
      BY <2>1, <2>2, <2>3, <2>4
         DEF Distinct, MainApart, DeadApart, NotDelayed, NotDead, NotHeld, NotLifted
    <2>7. OneInMain' /\ OneInDead' /\ OneInHand' /\ OneInLift' /\ HandApart'
      BY <2>3, <2>4 DEF Distinct, OneInMain, OneInDead, OneInHand, OneInLift,
                        HandApart, NotLifted
    <2> QED BY <2>5, <2>6, <2>7 DEF Distinct
  <1>10. ASSUME NEW w \in Workers, FetchDue(w) \/ PromoterTurn(w) PROVE Distinct'
    BY <1>10, StillDistinct DEF FetchDue, PromoterTurn, redis, worker
  <1>11. ASSUME NEW w \in Workers, NEW job \in batch[w], RemoveDelayed(w, job)
         PROVE Distinct'
    <2>1. CASE job \notin delayed
      BY <1>11, <2>1, StillDistinct DEF RemoveDelayed, worker
    <2>2. CASE job \in delayed
      <3>1. /\ delayed' = delayed \ {job}
            /\ lift' = [lift EXCEPT ![w] = job] /\ lift[w] = NoJob
            /\ UNCHANGED <<main, dead, hand>>
        BY <1>11, <2>2 DEF RemoveDelayed, worker, TypeOK
      <3>2. \A v \in Workers : /\ v # w => lift'[v] = lift[v]
                               /\ lift'[w] = job
        BY <3>1 DEF TypeOK
      <3>3. OneInLift' /\ HandApart' /\ DeadApart'
        BY <2>2, <3>1, <3>2
           DEF Distinct, OneInLift, HandApart, DelayedApart, DeadApart,
               NotDead, NotHeld, NotLifted
      <3>4. DelayedApart' /\ MainApart'
        BY <2>2, <3>1, <3>2
           DEF Distinct, OneInDelayed, DelayedApart, MainApart,
               NotDelayed, NotDead, NotHeld, NotLifted
      <3>5. OneInMain' /\ OneInDelayed' /\ OneInDead' /\ OneInHand'
        BY <3>1 DEF Distinct, OneInMain, OneInDelayed, OneInDead, OneInHand
      <3> QED BY <3>3, <3>4, <3>5 DEF Distinct
    <2> QED BY <2>1, <2>2
  <1>12. ASSUME NEW w \in Workers, PushPromoted(w) PROVE Distinct'
    <2>1. /\ lift[w] \in Job /\ lift[w] # NoJob /\ main \in Seq(Job)
          /\ main' = Append(main, lift[w])
          /\ lift' = [lift EXCEPT ![w] = NoJob]
          /\ UNCHANGED <<delayed, dead, hand>>
      BY <1>12 DEF PushPromoted, TypeOK, worker
    <2>2. \A v \in Workers : lift'[v] # NoJob => v # w /\ lift'[v] = lift[v]
      BY <2>1 DEF TypeOK
    <2>3. \A i \in DOMAIN main' : \/ i \in DOMAIN main /\ main'[i] = main[i]
                                  \/ i = Len(main) + 1 /\ main'[i] = lift[w]
      BY <2>1, AppendFacts
    <2>4. OneInMain'
      BY <2>1, <2>3 DEF Distinct, OneInMain, MainApart, NotLifted
    <2>5. MainApart'
      BY <2>1, <2>2, <2>3
         DEF Distinct, OneInLift, MainApart, DelayedApart, DeadApart, HandApart,
             NotDelayed, NotDead, NotHeld, NotLifted
    <2>6. OneInDelayed' /\ OneInDead' /\ OneInHand' /\ OneInLift'
      BY <2>1, <2>2 DEF Distinct, OneInDelayed, OneInDead, OneInHand, OneInLift
    <2>7. DelayedApart' /\ DeadApart' /\ HandApart'
      BY <2>1, <2>2 DEF Distinct, DelayedApart, DeadApart, HandApart,
                        NotDead, NotHeld, NotLifted
    <2> QED BY <2>4, <2>5, <2>6, <2>7 DEF Distinct
  <1>13. ASSUME NEW w \in Workers, Process(w) PROVE Distinct'
    <2>1. CASE Sigterm(w) \/ GracefulExit(w) \/ Restart(w)
      BY <2>1, StillDistinct DEF Sigterm, GracefulExit, Restart, redis, worker, promoter
    <2>2. CASE Crash(w)
      BY <2>2, FewerDistinct DEF Crash, redis, TypeOK
    <2> QED BY <1>13, <2>1, <2>2 DEF Process
  <1>14. ASSUME NEW job \in delayed, BackoffElapses(job) PROVE Distinct'
    BY <1>14, StillDistinct DEF BackoffElapses, worker, promoter
  <1>15. CASE UNCHANGED vars
    BY <1>15, StillDistinct DEF vars, redis, worker, promoter
  <1> QED
    BY <1>1, <1>2, <1>3, <1>4, <1>5, <1>6, <1>7, <1>8, <1>9, <1>10, <1>11, <1>12,
       <1>13, <1>14, <1>15
       DEF Next, WorkerLoop, PromoterLoop

LEMMA Inv2Invariant == Spec => []Inv2
  <1>1. Inv2 /\ [Next]_vars => Inv2'
    BY StepInv1, StepDistinct DEF Inv2
  <1> QED BY InitInv2, <1>1, PTL DEF Spec

\* Whatever the interleaving of promoters, workers, replays and crashes, a
\* push of a job is never in two places at once.
THEOREM NeverDeliveredTwice == Spec => []NoDoubleDelivery
  <1>1. Inv2 => NoDoubleDelivery
    BY DistinctSuffices DEF Inv2
  <1> QED BY Inv2Invariant, <1>1, PTL
=============================================================================
