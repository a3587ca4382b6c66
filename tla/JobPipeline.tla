---------------------------- MODULE JobPipeline ----------------------------
(***************************************************************************)
(* The scrape-job pipeline: the three Redis keys of shared/queue.py (the   *)
(* ready list, the delayed sorted set, the dead-letter hash), the worker   *)
(* processes of worker_app/main.py, each running worker_loop and           *)
(* promoter_loop concurrently in one event loop, and the API handlers that *)
(* enqueue, replay and purge jobs.                                         *)
(*                                                                         *)
(* One Redis command, one Postgres commit or one event-loop turn between   *)
(* two awaits is one action; anything may happen between two actions.      *)
(*                                                                         *)
(* A job's payload is abstracted to what the pipeline tells apart: job_id, *)
(* enqueued_at, attempt and attempt_history.  enqueued_at is the ordinal   *)
(* of the push that created the job (enqueue_job or replay_dead_letter),   *)
(* so it names one life of a job; a first push also draws the job_id.      *)
(***************************************************************************)
EXTENDS Integers, Sequences, FiniteSets, Functions

CONSTANTS
    Workers,      \* worker pods
    Requests,     \* concurrent POST /dead-letters/{job_id}/replay requests
    Killable,     \* workers that may die without warning
    Errors,       \* the classes of failure that scraping meets
    MaxAttempts,  \* settings.retry_max_attempts
    PromoteLimit, \* the limit argument of promote_due_jobs
    MaxPushes,    \* bound: pushes by enqueue_job and replay_dead_letter
    MaxTerms,     \* bound: SIGTERMs delivered
    MaxKills,     \* bound: deaths without warning, of a worker or of a request
    NoJob         \* stands for "no job in this local variable"

\* The error classes the routing distinguishes: worker_app/scraper.py's three
\* ScrapeErrors and any other exception.
ErrorTypes == {"Retryable", "Selector", "Terminal", "Unclassified"}

Stamp == Nat \ {0}

Job == [job_id : Stamp, enqueued_at : Stamp, attempt : Nat \ {0},
        attempt_history : Seq(ErrorTypes)]

DeadRecord == [job_id : Stamp, enqueued_at : Stamp, attempts : Seq(ErrorTypes)]

Outcomes == ErrorTypes \cup {"Ok"}

ASSUME ConstantsAssumption ==
    /\ Killable \subseteq Workers
    /\ Errors \subseteq ErrorTypes
    /\ MaxAttempts \in Nat \ {0}
    /\ PromoteLimit \in Nat \ {0}
    /\ MaxPushes \in Nat /\ MaxTerms \in Nat /\ MaxKills \in Nat
    /\ NoJob \notin Job
    /\ NoJob \notin DeadRecord

VARIABLES
    main,     \* Redis list scrape_jobs
    delayed,  \* members of the Redis sorted set scrape_jobs:delayed
    due,      \* the members of delayed whose score (due-at) has passed
    dead,     \* values of the Redis hash scrape_jobs:dead, keyed by job_id
    proc,     \* worker process: "up", "stopping" (shutdown_event set), "down"
    loop,     \* worker_loop's position
    hand,     \* the job worker_loop holds
    mover,    \* promoter_loop's position
    batch,    \* promote_due_jobs: the members of `due' still to be visited
    lift,     \* promote_due_jobs: the member ZREMoved and not yet RPUSHed
    request,  \* replay request: its position
    record,   \* replay request: the dead letter it read
    rows,     \* Postgres table scrape_attempts
    closed,   \* history: pushes fully handled, replayed or purged
    pushes,   \* number of pushes so far, the clock of enqueued_at
    terms,    \* number of SIGTERMs so far
    kills     \* number of deaths without warning so far

redis == <<main, delayed, due, dead>>
worker == <<loop, hand>>
promoter == <<mover, batch, lift>>
api == <<request, record>>
ledger == <<rows, closed>>
faults == <<terms, kills>>
vars == <<redis, proc, worker, promoter, api, ledger, pushes, faults>>

-----------------------------------------------------------------------------
(* Where jobs are. *)

Queued == Range(main)
Held == Range(hand) \ {NoJob}
Lifted == Range(lift) \ {NoJob}
Live == Queued \cup delayed \cup Held \cup Lifted

\* Every copy of push s in the system, as a place and what is there.
Copies(s) ==
    {<<"main", i>> : i \in {i \in DOMAIN main : main[i].enqueued_at = s}}
    \cup {<<"delayed", j>> : j \in {j \in delayed : j.enqueued_at = s}}
    \cup {<<"dead", d>> : d \in {d \in dead : d.enqueued_at = s}}
    \cup {<<"hand", w>> : w \in {w \in Workers : /\ hand[w] # NoJob
                                                 /\ hand[w].enqueued_at = s}}
    \cup {<<"lift", w>> : w \in {w \in Workers : /\ lift[w] # NoJob
                                                 /\ lift[w].enqueued_at = s}}

Missing == {s \in 1..pushes : Copies(s) = {} /\ s \notin closed}

-----------------------------------------------------------------------------
Init ==
    /\ main = <<>> /\ delayed = {} /\ due = {} /\ dead = {}
    /\ proc = [w \in Workers |-> "up"]
    /\ loop = [w \in Workers |-> "poll"]
    /\ hand = [w \in Workers |-> NoJob]
    /\ mover = [w \in Workers |-> "fetch"]
    /\ batch = [w \in Workers |-> {}]
    /\ lift = [w \in Workers |-> NoJob]
    /\ request = [r \in Requests |-> "idle"]
    /\ record = [r \in Requests |-> NoJob]
    /\ rows = {} /\ closed = {}
    /\ pushes = 0 /\ terms = 0 /\ kills = 0

-----------------------------------------------------------------------------
(* The API: POST /products/{id}/scrape, and the dead-letter endpoints.     *)

\* Mutant: the replayed job starts from attempt 0.
FreshJobFromZero(id, stamp) ==
    [job_id |-> id, enqueued_at |-> stamp, attempt |-> 0, attempt_history |-> <<>>]

FreshJob(id, stamp) ==
    [job_id |-> id, enqueued_at |-> stamp, attempt |-> 1, attempt_history |-> <<>>]

EnqueueJob ==
    /\ pushes < MaxPushes
    /\ pushes' = pushes + 1
    /\ main' = Append(main, FreshJob(pushes + 1, pushes + 1))
    /\ UNCHANGED <<delayed, due, dead, proc, worker, promoter, api, ledger, faults>>

\* HGET: the request keeps the record it read.
ReplayRead(r, d) ==
    /\ request[r] = "idle"
    /\ d \in dead
    /\ request' = [request EXCEPT ![r] = "read"]
    /\ record' = [record EXCEPT ![r] = d]
    /\ UNCHANGED <<redis, proc, worker, promoter, ledger, pushes, faults>>

\* Mutant: the dead letter's payload is queued again with its enqueued_at.
ReplayPushOldStamp(r) ==
    /\ request[r] = "read"
    /\ main' = Append(main, FreshJob(record[r].job_id, record[r].enqueued_at))
    /\ request' = [request EXCEPT ![r] = "pushed"]
    /\ UNCHANGED <<delayed, due, dead, proc, worker, promoter, record, ledger, pushes, faults>>

\* RPUSH of a fresh job under the same job_id.
ReplayPush(r) ==
    /\ request[r] = "read"
    /\ pushes < MaxPushes
    /\ pushes' = pushes + 1
    /\ main' = Append(main, FreshJob(record[r].job_id, pushes + 1))
    /\ closed' = closed \cup {record[r].enqueued_at}
    /\ request' = [request EXCEPT ![r] = "pushed"]
    /\ UNCHANGED <<delayed, due, dead, proc, worker, promoter, record, rows, faults>>

\* Mutant: the whole hash is deleted (DEL for HDEL).
ReplayRemoveAll(r) ==
    /\ request[r] = "pushed"
    /\ dead' = {}
    /\ request' = [request EXCEPT ![r] = "idle"]
    /\ record' = [record EXCEPT ![r] = NoJob]
    /\ UNCHANGED <<main, delayed, due, proc, worker, promoter, ledger, pushes, faults>>

\* HDEL by job_id: whatever the hash holds under that key goes.
ReplayRemove(r) ==
    /\ request[r] = "pushed"
    /\ dead' = {d \in dead : d.job_id # record[r].job_id}
    /\ request' = [request EXCEPT ![r] = "idle"]
    /\ record' = [record EXCEPT ![r] = NoJob]
    /\ UNCHANGED <<main, delayed, due, proc, worker, promoter, ledger, pushes, faults>>

\* The API process dies, or Redis refuses the request's next command.
AbortReplay(r) ==
    /\ request[r] # "idle"
    /\ kills < MaxKills
    /\ kills' = kills + 1
    /\ request' = [request EXCEPT ![r] = "idle"]
    /\ record' = [record EXCEPT ![r] = NoJob]
    /\ UNCHANGED <<redis, proc, worker, promoter, ledger, pushes, terms>>

\* HDEL: the operator discards the dead letter kept under d's job_id.
PurgeDeadLetter(d) ==
    /\ d \in dead
    /\ dead' = dead \ {d}
    /\ closed' = closed \cup {d.enqueued_at}
    /\ UNCHANGED <<main, delayed, due, proc, worker, promoter, api, rows, pushes, faults>>

-----------------------------------------------------------------------------
(* worker_loop: dequeue_job, then process_job to its end, then the         *)
(* shutdown_event test at the top of the loop.                             *)

\* Mutant: worker_loop does not test shutdown_event.
NextTurnForever(w) == "poll"

NextTurn(w) == IF proc[w] = "stopping" THEN "exited" ELSE "poll"

Dequeue(w) ==
    /\ loop[w] = "poll"
    /\ main # <<>>
    /\ hand' = [hand EXCEPT ![w] = Head(main)]
    /\ main' = Tail(main)
    /\ loop' = [loop EXCEPT ![w] = "scrape"]
    /\ UNCHANGED <<delayed, due, dead, proc, promoter, api, ledger, pushes, faults>>

\* Mutant: a quiet queue ends the loop (return for continue).
PollTimeoutReturns(w) ==
    /\ loop[w] = "poll"
    /\ main = <<>>
    /\ loop' = [loop EXCEPT ![w] = "exited"]
    /\ UNCHANGED <<redis, proc, hand, promoter, api, ledger, pushes, faults>>

\* BLPOP gives up after dequeue_timeout_seconds.
PollTimeout(w) ==
    /\ loop[w] = "poll"
    /\ main = <<>>
    /\ loop' = [loop EXCEPT ![w] = NextTurn(w)]
    /\ UNCHANGED <<redis, proc, hand, promoter, api, ledger, pushes, faults>>

AttemptRow(job, outcome) ==
    [enqueued_at |-> job.enqueued_at, attempt_number |-> job.attempt, outcome |-> outcome]

\* scrape_product returned; snapshot and attempt row commit together.
HandleSuccess(w) ==
    /\ loop[w] = "scrape"
    /\ rows' = rows \cup {AttemptRow(hand[w], "Ok")}
    /\ loop' = [loop EXCEPT ![w] = "alert"]
    /\ UNCHANGED <<redis, proc, hand, promoter, api, closed, pushes, faults>>

\* evaluate_alerts returned: process_job is done with the job.
AlertsDone(w) ==
    /\ loop[w] = "alert"
    /\ closed' = closed \cup {hand[w].enqueued_at}
    /\ hand' = [hand EXCEPT ![w] = NoJob]
    /\ loop' = [loop EXCEPT ![w] = NextTurn(w)]
    /\ UNCHANGED <<redis, proc, promoter, api, rows, pushes, faults>>

\* Mutant: the history grows but no attempt row is written.
RecordFailureRowless(w, error) ==
    /\ loop[w] = "scrape"
    /\ hand' = [hand EXCEPT ![w].attempt_history = Append(@, error)]
    /\ loop' = [loop EXCEPT ![w] = "route"]
    /\ UNCHANGED <<redis, proc, promoter, api, ledger, pushes, faults>>

\* scrape_product raised: the attempt row commits, then the history grows.
RecordFailure(w, error) ==
    /\ loop[w] = "scrape"
    /\ rows' = rows \cup {AttemptRow(hand[w], error)}
    /\ hand' = [hand EXCEPT ![w].attempt_history = Append(@, error)]
    /\ loop' = [loop EXCEPT ![w] = "route"]
    /\ UNCHANGED <<redis, proc, promoter, api, closed, pushes, faults>>

\* Mutant: one attempt too many (> for >=).
GivesUpLate(job) ==
    LET h == job.attempt_history
        n == Len(h)
    IN  \/ h[n] \in {"Terminal", "Unclassified"}
        \/ h[n] = "Selector" /\ n > 1 /\ h[n - 1] = "Selector"
        \/ job.attempt > MaxAttempts

\* The routing decision, on a history that already holds the last error.
GivesUp(job) ==
    LET h == job.attempt_history
        n == Len(h)
    IN  \/ h[n] \in {"Terminal", "Unclassified"}
        \/ h[n] = "Selector" /\ n > 1 /\ h[n - 1] = "Selector"
        \/ job.attempt >= MaxAttempts

DeadLetterOf(job) ==
    [job_id |-> job.job_id, enqueued_at |-> job.enqueued_at, attempts |-> job.attempt_history]

\* HSET keyed by job_id.
DeadLetter(w) ==
    /\ loop[w] = "route"
    /\ GivesUp(hand[w])
    /\ dead' = {d \in dead : d.job_id # hand[w].job_id} \cup {DeadLetterOf(hand[w])}
    /\ hand' = [hand EXCEPT ![w] = NoJob]
    /\ loop' = [loop EXCEPT ![w] = NextTurn(w)]
    /\ UNCHANGED <<main, delayed, due, proc, promoter, api, ledger, pushes, faults>>

\* Mutant: the retry keeps the attempt number of the failure.
ScheduleRetrySameAttempt(w) ==
    /\ loop[w] = "route"
    /\ ~GivesUp(hand[w])
    /\ delayed' = delayed \cup {hand[w]}
    /\ hand' = [hand EXCEPT ![w] = NoJob]
    /\ loop' = [loop EXCEPT ![w] = NextTurn(w)]
    /\ UNCHANGED <<main, due, dead, proc, promoter, api, ledger, pushes, faults>>

\* ZADD of the job with its attempt number advanced, due in the future.
ScheduleRetry(w) ==
    /\ loop[w] = "route"
    /\ ~GivesUp(hand[w])
    /\ delayed' = delayed \cup {[hand[w] EXCEPT !.attempt = @ + 1]}
    /\ hand' = [hand EXCEPT ![w] = NoJob]
    /\ loop' = [loop EXCEPT ![w] = NextTurn(w)]
    /\ UNCHANGED <<main, due, dead, proc, promoter, api, ledger, pushes, faults>>

-----------------------------------------------------------------------------
(* promoter_loop and promote_due_jobs.                                     *)

\* A backoff delay (at most retry_max_delay_seconds) runs out.
BackoffElapses(job) ==
    /\ job \in delayed \ due
    /\ due' = due \cup {job}
    /\ UNCHANGED <<main, delayed, dead, proc, worker, promoter, api, ledger, pushes, faults>>

\* ZRANGEBYSCORE ... LIMIT: which of the due jobs come first is left open.
\* Fetching nothing leaves the loop where it was.
FetchDue(w) ==
    /\ mover[w] = "fetch"
    /\ \E jobs \in SUBSET due :
        /\ jobs # {}
        /\ \/ jobs = due /\ Cardinality(due) <= PromoteLimit
           \/ Cardinality(due) > PromoteLimit /\ Cardinality(jobs) = PromoteLimit
        /\ batch' = [batch EXCEPT ![w] = jobs]
    /\ mover' = [mover EXCEPT ![w] = "move"]
    /\ UNCHANGED <<redis, proc, worker, lift, api, ledger, pushes, faults>>

\* Mutant: the result of ZREM is not looked at.
RemoveDelayedUnguarded(w, job) ==
    /\ mover[w] = "move"
    /\ job \in batch[w]
    /\ batch' = [batch EXCEPT ![w] = @ \ {job}]
    /\ lift' = [lift EXCEPT ![w] = job]
    /\ mover' = [mover EXCEPT ![w] = "push"]
    /\ delayed' = delayed \ {job}
    /\ due' = due \ {job}
    /\ UNCHANGED <<main, dead, proc, worker, api, ledger, pushes, faults>>

\* Mutant: one ZREM for the whole batch before the pushes.
RemoveDelayedBatch(w, job) ==
    /\ mover[w] = "move"
    /\ job \in batch[w]
    /\ batch' = [batch EXCEPT ![w] = @ \ {job}]
    /\ IF job \in delayed
       THEN /\ lift' = [lift EXCEPT ![w] = job]
            /\ mover' = [mover EXCEPT ![w] = "push"]
       ELSE UNCHANGED <<lift, mover>>
    /\ delayed' = delayed \ batch[w]
    /\ due' = due \ batch[w]
    /\ UNCHANGED <<main, dead, proc, worker, api, ledger, pushes, faults>>

\* ZREM: only the promoter whose ZREM removed the member goes on to push it.
RemoveDelayed(w, job) ==
    /\ mover[w] = "move"
    /\ job \in batch[w]
    /\ batch' = [batch EXCEPT ![w] = @ \ {job}]
    /\ IF job \in delayed
       THEN /\ lift' = [lift EXCEPT ![w] = job]
            /\ mover' = [mover EXCEPT ![w] = "push"]
       ELSE UNCHANGED <<lift, mover>>
    /\ delayed' = delayed \ {job}
    /\ due' = due \ {job}
    /\ UNCHANGED <<main, dead, proc, worker, api, ledger, pushes, faults>>

PushPromoted(w) ==
    /\ mover[w] = "push"
    /\ main' = Append(main, lift[w])
    /\ lift' = [lift EXCEPT ![w] = NoJob]
    /\ mover' = [mover EXCEPT ![w] = "move"]
    /\ UNCHANGED <<delayed, due, dead, proc, worker, batch, api, ledger, pushes, faults>>

\* Mutant: promoter_loop does not test shutdown_event.
PromoterTurnForever(w) ==
    /\ mover[w] \in {"fetch", "move"}
    /\ batch[w] = {}
    /\ mover' = [mover EXCEPT ![w] = "fetch"]
    /\ UNCHANGED <<redis, proc, worker, batch, lift, api, ledger, pushes, faults>>

\* The batch is through, or promoter_loop wakes up from its sleep with
\* nothing fetched: it tests shutdown_event.
PromoterTurn(w) ==
    /\ mover[w] \in {"fetch", "move"}
    /\ batch[w] = {}
    /\ mover' = [mover EXCEPT ![w] = IF proc[w] = "stopping" THEN "exited" ELSE "fetch"]
    /\ UNCHANGED <<redis, proc, worker, batch, lift, api, ledger, pushes, faults>>

-----------------------------------------------------------------------------
(* Process life.                                                           *)

\* Mutant: SIGTERM keeps its default disposition.
SigtermUntrapped(w) ==
    /\ proc[w] = "up"
    /\ terms < MaxTerms
    /\ terms' = terms + 1
    /\ proc' = [proc EXCEPT ![w] = "down"]
    /\ loop' = [loop EXCEPT ![w] = "exited"]
    /\ hand' = [hand EXCEPT ![w] = NoJob]
    /\ mover' = [mover EXCEPT ![w] = "exited"]
    /\ batch' = [batch EXCEPT ![w] = {}]
    /\ lift' = [lift EXCEPT ![w] = NoJob]
    /\ UNCHANGED <<redis, api, ledger, pushes, kills>>

\* The SIGTERM handler is shutdown_event.set and nothing else.
Sigterm(w) ==
    /\ proc[w] = "up"
    /\ terms < MaxTerms
    /\ terms' = terms + 1
    /\ proc' = [proc EXCEPT ![w] = "stopping"]
    /\ UNCHANGED <<redis, worker, promoter, api, ledger, pushes, kills>>

\* asyncio.gather returns once every loop has.
GracefulExit(w) ==
    /\ proc[w] = "stopping"
    /\ loop[w] = "exited"
    /\ mover[w] = "exited"
    /\ proc' = [proc EXCEPT ![w] = "down"]
    /\ UNCHANGED <<redis, worker, promoter, api, ledger, pushes, faults>>

\* SIGKILL, or an exception that escapes a loop (a Redis or Postgres error):
\* gather propagates it and both loops lose what they hold.
Crash(w) ==
    /\ w \in Killable
    /\ proc[w] # "down"
    /\ kills < MaxKills
    /\ kills' = kills + 1
    /\ proc' = [proc EXCEPT ![w] = "down"]
    /\ loop' = [loop EXCEPT ![w] = "exited"]
    /\ hand' = [hand EXCEPT ![w] = NoJob]
    /\ mover' = [mover EXCEPT ![w] = "exited"]
    /\ batch' = [batch EXCEPT ![w] = {}]
    /\ lift' = [lift EXCEPT ![w] = NoJob]
    /\ UNCHANGED <<redis, api, ledger, pushes, terms>>

\* Mutant: a worker starts with an empty delayed set.
RestartPurging(w) ==
    /\ proc[w] = "down"
    /\ proc' = [proc EXCEPT ![w] = "up"]
    /\ loop' = [loop EXCEPT ![w] = "poll"]
    /\ mover' = [mover EXCEPT ![w] = "fetch"]
    /\ delayed' = {} /\ due' = {}
    /\ UNCHANGED <<main, dead, hand, batch, lift, api, ledger, pushes, faults>>

\* The Deployment replaces the pod: run() starts both loops.
Restart(w) ==
    /\ proc[w] = "down"
    /\ proc' = [proc EXCEPT ![w] = "up"]
    /\ loop' = [loop EXCEPT ![w] = "poll"]
    /\ mover' = [mover EXCEPT ![w] = "fetch"]
    /\ UNCHANGED <<redis, hand, batch, lift, api, ledger, pushes, faults>>

-----------------------------------------------------------------------------
WorkerLoop(w) ==
    \/ Dequeue(w) \/ PollTimeout(w)
    \/ HandleSuccess(w) \/ AlertsDone(w)
    \/ \E error \in Errors : RecordFailure(w, error)
    \/ DeadLetter(w) \/ ScheduleRetry(w)

PromoterLoop(w) ==
    \/ FetchDue(w)
    \/ \E job \in batch[w] : RemoveDelayed(w, job)
    \/ PushPromoted(w) \/ PromoterTurn(w)

Process(w) == Sigterm(w) \/ GracefulExit(w) \/ Crash(w) \/ Restart(w)

Replay(r) ==
    \/ \E d \in dead : ReplayRead(r, d)
    \/ ReplayPush(r) \/ ReplayRemove(r) \/ AbortReplay(r)

Next ==
    \/ EnqueueJob
    \/ \E d \in dead : PurgeDeadLetter(d)
    \/ \E r \in Requests : Replay(r)
    \/ \E w \in Workers : WorkerLoop(w) \/ PromoterLoop(w) \/ Process(w)
    \/ \E job \in delayed : BackoffElapses(job)

Spec == Init /\ [][Next]_vars

\* Redis, Postgres and the scrape all answer within a timeout, so each loop
\* goes on; backoffs are bounded; a stopped pod exits and is replaced.  No
\* request is ever obliged to arrive.
Fairness ==
    /\ \A w \in Workers : /\ WF_vars(WorkerLoop(w))
                          /\ WF_vars(PromoterLoop(w))
                          /\ WF_vars(GracefulExit(w))
                          /\ WF_vars(Restart(w))
    /\ WF_vars(\E job \in delayed : BackoffElapses(job))

FairSpec == Spec /\ Fairness

-----------------------------------------------------------------------------
(* Properties.                                                             *)

\* Type correctness, and what each position of a loop says of its locals: a
\* loop past its pop holds a job, an exited loop holds nothing.
TypeOK ==
    /\ main \in Seq(Job)
    /\ delayed \subseteq Job
    /\ due \subseteq delayed
    /\ dead \subseteq DeadRecord
    /\ proc \in [Workers -> {"up", "stopping", "down"}]
    /\ loop \in [Workers -> {"poll", "scrape", "route", "alert", "exited"}]
    /\ mover \in [Workers -> {"fetch", "move", "push", "exited"}]
    /\ request \in [Requests -> {"idle", "read", "pushed"}]
    /\ hand \in [Workers -> Job \cup {NoJob}]
    /\ lift \in [Workers -> Job \cup {NoJob}]
    /\ batch \in [Workers -> SUBSET Job]
    /\ record \in [Requests -> DeadRecord \cup {NoJob}]
    /\ \A w \in Workers : /\ hand[w] # NoJob <=> loop[w] \in {"scrape", "route", "alert"}
                          /\ lift[w] # NoJob <=> mover[w] = "push"
                          /\ mover[w] \in {"fetch", "exited"} => batch[w] = {}
                          /\ proc[w] = "down" => loop[w] = "exited" /\ mover[w] = "exited"
    /\ \A r \in Requests : record[r] # NoJob <=> request[r] # "idle"
    /\ rows \subseteq [enqueued_at : Stamp, attempt_number : Nat \ {0}, outcome : Outcomes]
    /\ closed \subseteq 1..pushes
    /\ pushes \in 0..MaxPushes /\ terms \in 0..MaxTerms /\ kills \in 0..MaxKills

\* A push of a job is in one place at most: two promoters and two workers
\* never get hold of it twice, a job being tried is not queued as well, and
\* a dead letter is not running (promote_due_jobs' ZREM-then-RPUSH guard).
NoDoubleDelivery ==
    \A s \in 1..pushes : \A p, q \in Copies(s) : p = q

\* The first n failures of history h each earned another try.
Retriable(h, n) ==
    \A i \in 1..n : /\ h[i] \in {"Retryable", "Selector"}
                    /\ ~(i > 1 /\ h[i - 1] = "Selector" /\ h[i] = "Selector")

\* The budget: whatever is queued or waiting has failed attempt - 1 times,
\* fewer than MaxAttempts, never terminally and never on selectors twice
\* running; a dead letter holds a history that was retriable up to its last
\* attempt and is exhausted, terminal or a repeated selector failure by it.
RetryPolicy ==
    /\ \A j \in Queued \cup delayed \cup Lifted :
        /\ j.attempt = Len(j.attempt_history) + 1
        /\ j.attempt <= MaxAttempts
        /\ Retriable(j.attempt_history, Len(j.attempt_history))
    /\ \A d \in dead :
        /\ Len(d.attempts) \in 1..MaxAttempts
        /\ Retriable(d.attempts, Len(d.attempts) - 1)
        /\ Retriable(d.attempts, Len(d.attempts)) => Len(d.attempts) = MaxAttempts

FailureRows(s, h) ==
    {[enqueued_at |-> s, attempt_number |-> i, outcome |-> h[i]] : i \in DOMAIN h}

RowsOf(s) == {row \in rows : row.enqueued_at = s}

\* README "every attempt, success or failure, is also written to Postgres":
\* the scrape_attempts rows of a job that is anywhere in Redis are exactly
\* the failures in its history, once each, across retries and crashes; a
\* push never has two successes or a row after its success.
RowsMatchHistory ==
    /\ \A j \in Queued \cup delayed \cup Lifted :
        RowsOf(j.enqueued_at) = FailureRows(j.enqueued_at, j.attempt_history)
    /\ \A d \in dead : RowsOf(d.enqueued_at) = FailureRows(d.enqueued_at, d.attempts)
    /\ \A a, b \in rows : /\ a.enqueued_at = b.enqueued_at
                          /\ a.outcome = "Ok"
                          => b.attempt_number <= a.attempt_number

\* A SIGTERM or a restart on its own loses no job: without a death and
\* without replays every push is handled or in exactly one place.
GracefulLosesNothing ==
    (kills = 0 /\ Requests = {}) => Missing = {}

\* A worker that dies takes at most the job it scrapes and the one job its
\* promoter has between ZREM and RPUSH (where no replay request races).
LossBounded == Requests = {} => Cardinality(Missing) <= 2 * kills

\* A push is lost in two ways only.  The process that had it in hand, or
\* between ZREM and RPUSH, goes down; or it is a later life of a replayed
\* job, dead-lettered, and another life of the same job_id takes its place
\* in the hash or a replay's HDEL removes it.
LossesHaveACause ==
    [][\A s \in Missing' \ Missing :
        \/ \E w \in Workers :
            /\ proc[w] # "down" /\ proc'[w] = "down"
            /\ \E j \in {hand[w], lift[w]} \ {NoJob} : j.enqueued_at = s
        \/ \E d \in dead \ dead' : d.enqueued_at = s /\ d.job_id # s]_vars

\* Every push ends handled, dead-lettered or lost with a process: none stays
\* queued, delayed or in a loop's hands for ever.
EverySettles ==
    \A s \in 1..MaxPushes :
        (s <= pushes) ~> (\A j \in Live : j.enqueued_at # s)

\* A worker told to stop finishes its job and its batch and exits.
ShutdownCompletes ==
    \A w \in Workers : (proc[w] = "stopping") ~> (proc[w] = "down")

-----------------------------------------------------------------------------
(* The pipeline implements JobLifecycle.                                   *)

In(s, jobs) == \E j \in jobs : j.enqueued_at = s

StatusOf(s) ==
    CASE s > pushes               -> "unborn"
      [] In(s, Queued)            -> "ready"
      [] In(s, delayed \cup Lifted) -> "waiting"
      [] In(s, Held)              -> "running"
      [] In(s, dead)              -> "dead"
      [] ~In(s, Live \cup dead) /\ s \in closed    -> "closed"
      [] ~In(s, Live \cup dead) /\ s \in (1..pushes) \ closed -> "lost"

TriesOf(s) ==
    IF In(s, Live) THEN (CHOOSE j \in Live : j.enqueued_at = s).attempt
    ELSE IF In(s, dead) THEN Len((CHOOSE d \in dead : d.enqueued_at = s).attempts)
    ELSE 0

Lifecycle == INSTANCE JobLifecycle WITH
    Pushes   <- 1..MaxPushes,
    MaxTries <- MaxAttempts,
    status   <- [s \in 1..MaxPushes |-> StatusOf(s)],
    tries    <- [s \in 1..MaxPushes |-> TriesOf(s)]

\* Every step of the queues, loops and requests moves each push along the
\* abstract life cycle, or leaves it where it is.
ImplementsLifecycle == Lifecycle!Spec

\* The moves a push has left at most: a third of them for each try.
MovesLeft(s) ==
    LET tries == 3 * (MaxAttempts - TriesOf(s)) IN
    CASE StatusOf(s) = "unborn"  -> 3 * MaxAttempts + 2
      [] StatusOf(s) = "waiting" -> tries + 5
      [] StatusOf(s) = "ready"   -> tries + 4
      [] StatusOf(s) = "running" -> tries + 3
      [] StatusOf(s) = "dead"    -> 2
      [] StatusOf(s) = "lost"    -> 1
      [] StatusOf(s) = "closed"  -> 0

\* Retries run out: whatever crashes, restarts and replays do, a push that
\* moves has fewer moves left, so it moves 3 * MaxAttempts + 2 times at most.
MovesRunOut ==
    [][\A s \in 1..MaxPushes :
        MovesLeft(s)' \in
            0..(IF StatusOf(s)' = StatusOf(s) THEN MovesLeft(s) ELSE MovesLeft(s) - 1)]_vars

\* What a restart does lose of the parked retries: only the one that the
\* promoter of a process that goes down has between its ZREM and its RPUSH.
RetryLostOnlyInFlight ==
    [][\A s \in 1..MaxPushes :
        StatusOf(s) = "waiting" /\ StatusOf(s)' = "lost" =>
            \E w \in Workers : /\ lift[w] # NoJob /\ lift[w].enqueued_at = s
                               /\ proc[w] # "down" /\ proc'[w] = "down"]_vars

-----------------------------------------------------------------------------
(* What the documentation says and the code does not keep.                 *)

\* queue.py's schedule_retry: a parked retry is "Persisted in Redis ... so a
\* worker restart doesn't lose it".
RetrySurvivesRestart ==
    [][\A s \in 1..MaxPushes : StatusOf(s) = "waiting" => StatusOf(s)' # "lost"]_vars

\* README: an exhausted job is in the dead-letter hash, "inspectable and
\* replayable" there, until it is replayed or discarded.
DeadLetterKept ==
    [][\A d \in dead \ dead' : d.enqueued_at \in closed']_vars
=============================================================================
