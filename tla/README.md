# Verification of the Daraz price tracker

TLA+ models of the price tracker in `src/`, the TLC runs that check them and the
theorems about them that TLAPS checks. Line numbers are of the files under `src/`.
`PROJECT.json` maps every definition to the lines it translates, lists the runs,
the hazards and what covers each, one mutant per checked property, and the theorems.

## 1. The system

A FastAPI service keeps products, competitor links and alert rules in Postgres. It
puts scrape jobs on a Redis list. Several worker pods pop the jobs, drive a browser
at the product page, store a price snapshot, and evaluate the product's alert rules
in the same breath. Failed scrapes wait in a Redis sorted set until their backoff is
over, or end in a dead-letter hash that an operator inspects, replays or purges.

| component | code | state | operations |
|---|---|---|---|
| Job queues | `shared/queue.py` | the list `scrape_jobs`, the sorted set `:delayed`, the hash `:dead` | enqueue, dequeue, schedule_retry, promote_due_jobs, dead_letter, replay, purge |
| Worker loops | `worker/worker_app/main.py` | `shutdown_event`; the job in `worker_loop`'s hand; the batch and the job between ZREM and RPUSH in `promoter_loop`'s | process_job and its three outcomes, the two loops, SIGTERM, gather |
| Dead-letter and scrape endpoints | `api/app/routers/dead_letters.py`, `products.py:138-149`, `queue.py` | the record a replay request read | trigger, replay, discard |
| Alert engine | `shared/alerts.py` | `alert_events`, one session per evaluation, notifications already out | evaluate_alerts over four rule types |
| Alert rules API | `api/app/routers/alert_rules.py` | `alert_rules` | create, delete (cascading to events) |
| Attempt log and statistics | `shared/models.py`, `api/app/routers/stats.py` | `scrape_attempts`, `price_snapshots` | written by the worker; counted by scrape_health in three queries |
| Scraper and polite delay | `worker/worker_app/scraper.py` | `_last_request_at`, a lock; a browser for each scrape | scrape_product: throttle, launch, navigation, waits, reads, classification of failures, close |
| Notifier | `shared/notifiers.py` | none | notify: up to three deliveries |
| Backoff | `shared/retry.py` | none | exponential delay with jitter |
| Registry, ownership | `api/app/routers/products.py`, `competitors.py`, `alert_rules.py`, `deps.py`, `url_utils.py` | `products`, `product_competitors`, `alert_rules` | create, look up, link, unlink; products are never changed or deleted |
| Web frontend | `web/` | form, card and poll state, the owner's email in localStorage | add-product flow, a card's history, check-now poll |
| Metrics | `shared/metrics.py` | gauges and counters | refresh |
| Settings, migrations, deployment | `shared/config.py`, `api/alembic`, `k8s`, `terraform` | none at run time | configuration |

### How they interact

* API to worker: RPUSH on the list, HGET, RPUSH and HDEL on a replay. Nothing
  goes through a Redis transaction: every command is atomic, no pair of them is.
* Worker to worker: only through Redis and Postgres. Every pod runs a promoter, so
  promoters compete for the same delayed jobs; a product's scrapes, and so its
  alert evaluations, may be in two pods at once (`k8s/worker-deployment.yaml:7`).
* Within a pod: `worker_loop` and `promoter_loop` interleave at each `await`.
  `gather` (`main.py:301`) ends both when one raises; neither catches errors of
  Redis or Postgres, so such an error ends the process.
* Worker to Postgres: the attempt row commits first and alone on a failure,
  together with the snapshot on a success; alerts are evaluated in a second session.
* Engine to outside: notifications are sent before the session commits, inside
  `worker_loop`, with their retries and backoffs.
* Kubernetes to worker: SIGTERM, and SIGKILL after the grace period.
* Frontend to the rest: requests only; the card polls the history for a new snapshot.

### What is hard here, and what makes it right

* *Queues and loops*: a job must be in one place at a time while promoters race,
  replays race with failures and processes die between any two commands; the retry
  budget travels in the job itself through all of that; the attempt log lives in
  another store; a SIGTERM must end both loops and lose nothing.
* *Alerts*: the cooldown is a check and an insert in different transactions; open,
  re-opened, suppressed and resolved events must follow the condition over a
  sequence of snapshots; rules vanish in the middle of a session.
* *Scraper, notifier*: classification decides between retry and dead letter; the
  delay is kept between permissions and not between requests; a delivery that timed
  out may have happened; all of it has to fit into the grace period.
* *What is shown*: "updated" must mean a scrape after the click; a report is counted
  in three queries while workers insert.
* *Registry*: look-up-then-create across requests of two forms; a form of up to five
  requests that can stop half way, with an email read anew for each; owners copied
  from the header onto products and rules.

## 2. Modules

| module | what it is |
|---|---|
| `JobLifecycle` | abstract specification: the life of one push of a job |
| `JobPipeline` | the queues, both loops of every worker, the endpoints, process life; refines `JobLifecycle` |
| `AlertLog` | abstract specification: each rule's alerts, if one evaluation at a time is under way |
| `AlertEngine` | `evaluate_alerts` in concurrent sessions, rules, snapshots, competitors, time; with one worker refines `AlertLog` |
| `AlertWatch` | `AlertEngine` with an observer's histories: how far evaluations have come, what was deleted with a rule |
| `Registry` | the handlers over products, links and rules, and the add-product forms that call them |
| `Clock` | how long the worker's loop has been in its present await |
| `Scraper` | `scrape_product` of one process, await by await |
| `Delivery` | abstract specification: what the notifier promises of one alert |
| `Notifier` | `send_notification` with its retries and backoffs; refines `Delivery` |
| `TimedWorker` | one pod: `JobPipeline`'s worker composed with `Scraper` and `Notifier`, the clock, the grace period |
| `Dashboard` | `TimedWorker` watched by a product card and by the health report |
| `MCJobPipeline`, `MCAlertEngine`, `MCAlertWatch`, `MCRegistry`, `MCDashboard` | symmetry and values for TLC; the rest is in the `.cfg` files |
| `JobPipelineProofs` | type correctness, no double delivery |
| `JobBudgetProofs` | the retry budget, the attempt log, the refinement of `JobLifecycle`, that retries run out and how one gets lost |
| `JobLossProofs` | how a push may be lost, what deaths may cost, and what becomes of dead letters |
| `TimedWorkerProofs` | the invariants of scraper and notifier; the composition: `JobPipeline` implemented, spacing, duplicates, `Delivery`, the grace period |
| `RegistryProofs` | every property of the registry |
| `AlertEngineProofs` | the properties of `AlertEngine` and `AlertWatch` for any number of workers |
| `AlertSoloProofs` | what holds with one worker: the engine's other properties, the refinement of `AlertLog` |
| `DashboardProofs` | every property of the card and the report |

### JobPipeline and the code

One Redis command, one Postgres commit, or one turn of an event loop between two
awaits is one action. Anything happens between two actions.

| variable | in the code |
|---|---|
| `main`, `delayed`, `dead` | the three Redis keys |
| `due` | members of the sorted set whose score has passed |
| `proc` | a worker process: running, `shutdown_event` set, gone |
| `loop`, `hand` | where `worker_loop` is, and its local `job` |
| `mover`, `batch`, `lift` | where `promoter_loop` is; the rest of `due` (`queue.py:68`); the `raw` that was ZREMoved and not yet RPUSHed |
| `request`, `record` | a replay request and the record it read |
| `rows` | `scrape_attempts` |
| `closed` | history: pushes handled, replayed or purged |
| `pushes`, `terms`, `kills` | bounded counters |

| action | code |
|---|---|
| `EnqueueJob` | `enqueue_job`, from `trigger_scrape` |
| `Dequeue`, `PollTimeout` | BLPOP with and without an answer, and the loop's test |
| `HandleSuccess`, `AlertsDone` | `_handle_success`: the first commit; the evaluation's return |
| `RecordFailure` | `_record_attempt` and the append to the history, in both failure paths |
| `DeadLetter`, `ScheduleRetry` | the routing (`GivesUp`) and its HSET or ZADD |
| `FetchDue`, `RemoveDelayed`, `PushPromoted`, `PromoterTurn` | `promote_due_jobs` command by command, and its loop |
| `ReplayRead`, `ReplayPush`, `ReplayRemove` | `replay_dead_letter` command by command |
| `PurgeDeadLetter` | `purge_dead_letter` |
| `Sigterm`, `GracefulExit`, `Restart` | the signal handler, `gather` returning, the Deployment |
| `Crash`, `AbortReplay` | SIGKILL or an escaped exception; the API dying in a replay |
| `BackoffElapses` | the clock reaching a member's score |

A job is abstracted to `job_id`, `enqueued_at`, `attempt` and `attempt_history`
(error classes only). `enqueued_at` is the ordinal of the push and so names one life
of a job: a replay keeps the `job_id` and opens a new life. Left open, hence
covered in every order: which due jobs a limited ZRANGEBYSCORE returns, how long a
backoff is, which error a scrape raises. Terminal errors and exceptions that are no
`ScrapeError` are two classes with one treatment, as in the code.
`metrics_refresh_loop` only reads; its failing is among `Crash`'s
reasons, and it never delays `GracefulExit` for ever. An attempt row that Postgres
refuses (an `error_message` past 2048 characters, a product gone) is a `Crash` of
the worker in `scrape`.

### JobLifecycle

A push is unborn, ready, running, waiting, dead, closed or lost, with a number of
tries. It states what a client of the pipeline relies on: it never runs after it is
closed, buried or lost, it waits at most `MaxTries - 1` times, and each wait costs a
try. `JobPipeline` implements it under the mapping `StatusOf`, `TriesOf`; one
concrete step may move several pushes (a death takes two jobs). `Recover` is there
because a replay that had read a dead letter before another write under its
`job_id` removed it still re-queues the job.

### AlertEngine and the code

One evaluation is a session: `Scrape` (the commit of the snapshot that leads to it),
`Begin` (latest snapshots, active rules, `now`), then per rule `ReadOpenEvent`,
a verdict (`Resolve`, `KeepOpen`, `Judge`) and, for a trigger, `Suppress` or `Fire`;
`Commit` writes all at once. `Conflict` is the database refusing a session whose
rule was deleted; `Die` is the worker dying. `CreateRule`, `DeleteRule`,
`RivalMoves` and `Tick` are everybody else. Reads see what is committed
(READ COMMITTED), own writes stay in the session. `sent` and `owed` are histories:
delivered alerts, and triggers a cooldown held back.

Abstractions: prices and percentages are positive integers and a comparison of
percentages is cross-multiplied; `scraped_at` order is commit order; competitors'
prices are read in one instant; ties in ORDER BY are resolved in any order; a
delivery is `sent` or `failed` without its retries; the database notices a deleted
rule at the flush or at the commit, whichever SQLAlchemy does first, so `Conflict`
may come a step later than in the program.

`AlertWatch` adds what an observer writes down and no handler reads: `newest`, the
newest snapshot that a `Begin` has read, `excused`, how many sessions had died by then,
and `erased`, the ids of the events that a `DeleteRule` took with it. Each of its steps
is one of `AlertEngine`'s.

### AlertLog

An evaluation takes effect at one instant `t`, its `now`: each rule's alerts stay, or
the open one ends at `t`, or a new one begins at `t` outside the cooldown and ends the
open one. No evaluation is dated before an alert it finds. An ended alert never changes
until its rule is deleted. With one worker `AlertEngine` implements it: only `Commit`
writes, and whatever happens between `Begin` and `Commit` (deletions, time, a death)
is either a step of its own or leaves no trace. With two workers it does not: `Commit`s
may come in another order than their `now`s, and the cooldown fails (section 4).

### Registry and the code

| variable | in the code |
|---|---|
| `products`, `links`, `rules` | the tables `products`, `product_competitors`, `alert_rules` |
| `rule_ids` | the sequence behind `AlertRule.id`; a product's id is its place in the order of inserts, since none is deleted |
| `owner_email` | localStorage of each browser |
| `form` | `AddProductPage`'s state and how far `handleSubmit` has come |
| `links[..].by`, `form[..].seen`, `removed` | histories: who asked for a link, the products there were at a lookup, the rows deleted |

`Submit` starts the form; `CreateProduct`, `FindProduct`, `CreateRival`,
`AddCompetitor`, `CreateAlertRule` are one request each, handler and answer in one
step, with an answer that may be lost; `Refuse` is a 404, 409 or 422, `Unreachable` a
request that never arrives. `Call...`, `RemoveCompetitor` and `DeleteAlertRule` are
direct calls, `SetOwnerEmail` the setup page in another tab. A handler is atomic
although it reads before it writes: products are never updated or deleted, so what it
read of them still holds at its commit, and the unique constraints (which
`InsertProduct` and `Linkable` state) are checked there.

A URL is a page, whether it carries a query or fragment, and whether it is typed as
pydantic's `HttpUrl` prints it. `create_product` gets it through `HttpUrl`, the lookup
as a plain string. A page is an address after that, so the `http` and the `https`
spelling of an address count as two, as they do in the code. Names, thresholds and
channels are left out: validated and stored, never compared.

### Scraper, Notifier, TimedWorker and the code

`worker_loop` is in one await at a time, so one clock, `waited`, serves all three: the
time spent in the present await. `Tick` moves it only while something with a limit
waits (BLPOP, the polite delay, Chromium's start, `page.goto`, the two
`wait_for_selector`, a delivery, a backoff); database and Redis commands and reading
the page take no time. Time is counted in abstract units that all limits share.

| variable | in the code |
|---|---|
| `scrape` | the await of `scrape_product` that is pending |
| `browser` | the Chromium of this scrape |
| `permit` | time since `_last_request_at`; it is noted at the permission, not at the request |
| `visit` | history: time since `page.goto` was last called |
| `verdict` | the class of the exception that left the `try`, or `Ok` |
| `delivery`, `attempt` | where `_send_with_retries` is, its loop variable, how it ended |
| `accepted`, `unanswered` | histories: posts that arrived, and those of them that failed all the same |
| `alerts` | alerts that `evaluate_alerts` has still to deliver (`AlertEngine` says which) |
| `stop` | time since SIGTERM |

`TakeTurn`, `OpenPage`, `NoResponse`, `Respond`, `Rendered`, `NotRendered`, `ReadPage`
and `Close` follow `scrape_product` from top to bottom; `LaunchFails` and `PageBreaks`
are the calls whose Playwright errors nothing turns into a `ScrapeError`. What the page
says is abstracted to which class the read ends in, a status code to the branch of
`_raise_for_status` it takes. `_validate_url` passes, since URLs come normalized out of
the table, and nobody waits for `_delay_lock`, since a process scrapes one page at a
time. In `Notifier`, a post that fails may have `reached` its destination or not.
`ComputedDelay` is `compute_backoff_delay` before its jitter; the sleep is any time up
to it.

Each step of `TimedWorker` is a step of `JobPipeline` together with the step of the
machine that the loop has entered or left: `TakeJob` is `Dequeue` and `StartScrape`,
`Succeed` is `EndScrape` and `HandleSuccess`, `Fail` hands the scraper's verdict to
`RecordFailure`. Deaths are the SIGKILL at the end of the grace period only;
`JobPipeline` has the others.

### Dashboard and the code

`shown`, `load`, `brought` are `history` of `ProductCard` and `loadDetails` with its
answer on the way; `check`, `polls`, `previous`, `message` are `handleCheckNow`, its
`attempt`, `previousLatest` and the text. A history is abstracted to its newest
snapshot, which commits together with the attempt row, hence `Newest` counts the
successes. `present` and `current` remember what was true at the click. `report` is
`scrape_health` between its three queries.

## 3. What the runs check

| run | instance | shows |
|---|---|---|
| `pipeline_crash` | 2 workers with promoters, 2 pushes, 3 attempts, 1 death anywhere | no double delivery, retry budget, attempt log, what is lost was in the hands of the process that died, a parked retry only in its promoter's, finitely many moves per push, refinement of `JobLifecycle` |
| `pipeline_replay` | 2 replay requests, purges, 1 worker, 3 pushes, 2 attempts, 1 death (API or worker) | the same over the dead-letter hash: a replay is a new life with a fresh budget and a log of its own, and without a death only the letter of such a life can get lost |
| `pipeline_live` | 2 workers, 2 pushes, batch of 1, 1 SIGTERM, 1 death, fairness | every push settles; a stopped worker exits; without deaths nothing is lost |
| `pipeline_restart_loss` | 1 worker, 1 push, 1 death | violation: a parked retry is lost |
| `pipeline_replay_race` | 1 worker, 1 request, 2 pushes | violation: a replay's HDEL removes a newer dead letter |
| `alerts_single` | 1 worker, 1 rule of each type in turn, 2 rivals, 3 scrapes, 4 instants, 1 rival move, 1 death | alerts follow condition, cooldown and streak, one after the other; refinement of `AlertLog` |
| `alerts_shared` | 2 workers, 1 rule of 2 types, 3 scrapes, 3 instants, 1 death | what survives concurrency: one event per worker and window; a snapshot is left behind only by an evaluation under way or dead; unaccounted alerts only from dead sessions |
| `alerts_cooldown_race` | 2 workers, 1 rule, 2 scrapes | violation: two alerts within the cooldown |
| `alerts_gap_shrinks` | 1 worker, 1 rule, 2 scrapes | violation: a rising price re-alerts `price_below` |
| `alerts_restock_lost` | 1 worker, 1 rule, 5 scrapes | violation: a suppressed restock is never announced |
| `dashboard` | 1 worker, 2 pushes, 2 attempts, delay 2, timeouts 1, grace 7, 3 posts, 1 card, click or report, 1 SIGTERM, 2 polls | requests keep their distance, a rollout costs no scrape, duplicates come from unanswered posts, what a user is shown is true; refinement of `Delivery` |
| `registry_forms` | 2 browsers, 2 emails, 2 pages in 3 spellings, 2 submissions, 2 other calls | one row per page, owners that agree, success that is complete, a lookup that spares the conflict |

### Properties

Pipeline: `NoDoubleDelivery` (a push is in one place at most), `RetryPolicy` (what
waits earned it, what is dead spent it), `RowsMatchHistory` (the log in Postgres
equals the history in Redis although no transaction spans them), `LossesHaveACause` (a push is lost in the hand or
the lift of a process that goes down, or as the letter of a replayed job whose place
another life of the job takes or a replay's HDEL empties, and in no other way),
`GracefulLosesNothing` (shutdowns alone cost nothing), `RetryLostOnlyInFlight` (a
parked retry is lost only with the process that has it between ZREM and RPUSH: the
exact extent of finding 1), `ImplementsLifecycle`, `MovesRunOut` (every move of a push,
a replay's included, uses up one of `3 * MaxAttempts + 2`), `EverySettles`,
`ShutdownCompletes`.

Alerts: `CooldownPerWorker`, `AlertsAccountedFor` (a delivered alert without an event
comes from a session that died, be it of a rule deleted under it, and each leaves at
most one per rule), `EvaluationsCatchUp` (a snapshot is left without an evaluation, of
itself or of a newer one, only by a scrape under way or by a session that died since the
last evaluation), `OneOpen`, `OneAlertPerStreak`,
`AgreesWithCondition` (what the open events say after a commit is what the
conditions said, except under the cooldown), `AlertsInTurn` (a rule's alerts do not
overlap, although an event is dated when its evaluation begins and written when it
ends), `ImplementsAlertLog`. The last five are for one worker at a time.

Registry: `OneRowPerPage` (however forms race), `OwnersAgree` (the copies of
`owner_email` never contradict each other, also when it changes within a form),
`SuccessIsComplete` (a form that reports success did all it was asked),
`LookupSparesConflict` (the lookup bypasses the owner filter so that no create
follows that must fail, `products.py:63-69`).

Worker, card and report: `RequestSpacing` (two requests are the polite delay apart,
less the time a launch may take), `GraceProtectsScrape` (if the grace period exceeds
the longest scrape, then what a SIGTERM loses has its snapshot in the database),
`DuplicatesUnanswered` and `ImplementsDelivery` (an alert is reported sent only if it
arrived, and arrives again only after a post whose answer did not come), `UpdatedIsNew`
("Updated just now." on an up-to-date card means a scrape after the click),
`HealthAddsUp` (no attempt in the report's total is missing from its classes).

### Bounds and why they are enough

* Two workers and two pushes give every race the pipeline has between two loops:
  promoter against promoter on one job or on two, promoter against the worker that
  re-parks the same job, a stale batch. A third worker only repeats a role. The
  theorems of section 5 lift the bounds for the properties they cover.
* `MaxAttempts` 3 is the least at which a selector failure can come first, last and
  twice in a row after another failure; the program uses 5.
* Three pushes with two requests let one job be replayed twice, or one of two jobs
  once while the other runs; two requests reach both replays of one record.
* One death can fall in any state. `Killable = {w1}` in `pipeline_live` is sound:
  pods are alike, so it loses nothing to fix which one dies; it keeps symmetry out
  of a liveness run.
* Rules of one product share nothing in `evaluate_alerts` but the fate of their
  session, so one rule at a time is evaluated, of every type. That a session which a
  deleted rule aborts takes the alerts of the others with it is in `FewUnrecorded`, which
  holds for any number of rules.
* What a death costs is a matter of the step, not of a count: `LossesHaveACause` looks
  at each lost push and needs one death and one push to fail. The bound of two pushes
  per death, for which an instance would need more pushes than TLC can take, is the
  theorem `LossIsBounded`.
* Prices 6, 8 and 12 around a threshold of 10 with 25 and 50 percent give a
  condition that holds, fails, deepens materially and moves immaterially; three
  scrapes let an event open, change or close, and be followed. Clock bounds exceed
  the cooldown, so both of its sides are met.
* Two submissions give two forms that race for a page, or one that follows a failed
  one; two calls let an email change twice, or a row be added and removed meanwhile.
* In `dashboard` a delay of two units against a launch of one makes the launch eat
  into the spacing; every wait can end early and at its limit; two attempts of two
  pushes let a delay span two scrapes; three posts are the code's number. `Grace` 7 is
  one more than `LongestScrape` there, so the premise of `GraceProtectsScrape` is met
  as tightly as possible. `MaxVisits` bounds SIGTERMs, cards and reports together: a
  card or a report next to a SIGTERM adds nothing, since they only read the tables.
* The alert and registry configurations switch the deadlock check off: scrapes, clock,
  moves, submissions and calls are bounded, so the model stops where the program would go on. The pipeline's
  configurations and `dashboard` check for deadlock.

### Fairness

`FairSpec` assumes weak fairness of each worker's loop, each promoter's, its exit and
its restart, and of backoffs. Each is justified by code: BLPOP has a timeout
(`config.py`), Playwright calls have one, Redis and Postgres answer or raise (a
raise is a `Crash`), asyncio runs both coroutines of a process, backoffs are capped
by `retry_max_delay_seconds`, and Kubernetes replaces an ended pod. No fairness on
requests, signals or deaths. Weak fairness is enough: a loop's next action stays
enabled until it is taken, since `PollTimeout` and `Dequeue` share one condition.
`EverySettles` ends in the bound on pushes: a list that is fed for ever faster than
it is emptied is a question of load, not of this code.

## 4. Where documentation and code part

1. **A parked retry can be lost by a restart.** `queue.py:55-57` and
   `main.py:276-277` promise that it survives; between ZREM (`queue.py:71`) and RPUSH
   (`queue.py:73`) it is only in the promoter's memory. `pipeline_restart_loss`.
2. **A dead letter can vanish.** `replay_dead_letter` pushes first and deletes by
   `job_id` afterwards (`queue.py:136-137`); if the replayed job is dead-lettered
   again in between, the new record goes. `pipeline_replay_race`.
3. **The cooldown is not kept across workers** (`alerts.py:60-62` against
   `alerts.py:409`). `alerts_cooldown_race`. `CooldownPerWorker` is what does hold.
4. **`price_below` re-alerts when the price rises** (`alerts.py:44-45` against the
   absolute value at `alerts.py:196`). `alerts_gap_shrinks`.
5. **A restock suppressed by the cooldown is not tried again** (`alerts.py:411`
   against the flip test at `alerts.py:301`). `alerts_restock_lost`.

These are not runs, but meet the same code:

* **The grace period is shorter than the longest scrape.** `GraceProtectsScrape`
  has `LongestScrape < Grace` as its premise. With the program's numbers a BLPOP of 5 s
  and a polite delay of 3 s that overlap, Playwright's default of 30 s for the launch and
  three page waits of 20 s come to max(5, 3) + 30 + 60 = 95 s; `worker-deployment.yaml:34`
  grants 90 s, where its comment (lines 23-33) and `main.py:41-48` ask for at least one
  scrape. Deliveries after the commit come on top, but cost alerts and no scrape.
* **The spacing is the delay less a launch, and per worker.** `config.py` speaks of
  "scrape requests made by the worker"; the code spaces permissions.
* **"Updated just now." may be about an earlier scrape** on a card whose history was
  not loaded, or behind, at the click; hence `current` in `UpdatedIsNew`. A slow answer to
  `loadDetails` (`ProductCard.tsx:45`) may also put an older history back on the card.
* **A URL typed otherwise than `HttpUrl` prints it** (host in capitals, the default
  port) is stored as `HttpUrl` prints it, but looked up as typed (`products.py:74`): the
  lookup finds nothing and the create answers 409. `LookupSparesConflict` exempts it.
* **A success rate above one**: a success that commits between the first two queries
  is in the numerator only. The other direction is what `HealthAddsUp` excludes.
* **Errors of Playwright's outside `page.goto`**, and one of `browser.close()` after a
  complete scrape, dead-letter the job as unclassified.

## 5. What is proved

Every property that a passing run checks is a theorem too, but for the two of liveness.
`LossIsBounded`, `LettersAreKept` and `CooldownIsKept` go beyond the passing runs.
The theorems hold for every value of the constants, from
the modules' named assumptions alone.

| theorem | says | invariant |
|---|---|---|
| `TypeCorrect` | `JobPipeline`'s `TypeOK` | `Inv1`: adds that every stamp anywhere was issued, without which `closed` could leave `1..pushes` |
| `NeverDeliveredTwice` | `NoDoubleDelivery` | `Inv2`: adds `Distinct`, the pairwise form: no two positions of the list, members, letters, hands or lifts carry one stamp |
| `RetryBudget` | `RetryPolicy` | `Inv3`: adds what a job in a worker's hand satisfies between its failure and its routing, per position of the loop |
| `LogMatchesHistory` | `RowsMatchHistory` | `Inv5`: `Inv2`, the budget, and the rows of a job in a hand, per position of the loop |
| `PipelineImplementsLifecycle` | `ImplementsLifecycle` | `Inv6`: `Inv2`, the budget, and `Settled`: what is closed, or read by a replay request, is live nowhere |
| `LossesAreExplained` | `LossesHaveACause` | `Inv4`: adds `AllNamed`, that a job's id is its own stamp or the stamp of a replayed push, which is closed |
| `LossIsBounded` | `LossBounded` (no run): without replay requests, two pushes per death at most | `Inv4`: there a job's id is its stamp, so HSET replaces nothing but the job's own letter |
| `RetriesRunOut` | `MovesRunOut` | `Inv6`; a weight for each stage and number of tries, which every move that `JobLifecycle` allows lessens |
| `RetriesSurviveInRedis` | `RetryLostOnlyInFlight` | `Inv2`: with a push in one place at most, a step that takes it off both the delayed set and the lifts without listing it is a death |
| `GracefulStopLosesNothing` | `GracefulLosesNothing` | `Inv4` with no deaths |
| `LettersAreKept` | `DeadLetterKept`, without replay requests | `Inv4`: the letter that an HSET would replace is that of a job in a hand, and no job is both |
| `ImplementsPipeline` | `TimedSpec => Spec` of `JobPipeline` | the type invariants of the three machines |
| `TimedTypeCorrect` | `TimedTypeOK` | `TimedInv` |
| `RequestsAreSpaced` | `RequestSpacing` | in `TimedInv`: `visit` is at least `permit`, less the launch while there is one |
| `DuplicatesAreUnanswered`, `NotifierImplementsDelivery` | `DuplicatesUnanswered`, `ImplementsDelivery` | `NotifierInv` |
| `GraceIsEnough` | `GraceProtectsScrape` | in `TimedInv`: how much of the grace each position of the scrape may have used; `Logged`: a success that is being announced has its row |
| `RegistryTypes`, `PagesHaveOneRow`, `OwnersNeverDisagree`, `ReportedIsComplete`, `LookupIsUseful` | `Registry`'s five properties | `RegistryInv`: the tables refer to rows that exist with the owner they copy, and a form at each step knows a product that fits it |
| `AlertTypes` | `AlertEngine`'s `TypeOK` | `Inv1`: what a session in progress has read exists |
| `OnePerWorker` | `CooldownPerWorker` | `InsertedBy`: the worker that opened an event did so outside its rule's cooldown, as that worker could see it |
| `FewUnrecorded` | `AlertsAccountedFor` | `UnrecordedBounded`: the bound over `sent` less what is recorded or open in a session; a session that ends adds one id per rule at most |
| `EvaluationsFollow` | `EvaluationsCatchUp` | `CatchingUp`: `newest` is a snapshot, `excused` no more than have died |
| `OneOpenAtATime` | `OneOpen`, for one worker | `OpenInv`, `HandInv`: a session holds the only open event there is |
| `StreakAnnouncedOnce` | `OneAlertPerStreak`, for one worker | `StreakInv`: an open or pending event marks where its streak began |
| `OpenMeansHeld` | `AgreesWithCondition`, for one worker | `HeldInv`: what a session that judges has resolved, kept or inserted so far |
| `CooldownIsKept` | `CooldownRespected`, for one worker | `InsertedBy`, since all events are one worker's |
| `AlertsFollow` | `AlertsInTurn`, for one worker | `TurnInv`: no event is dated after the session's `now`, and what the session resolves is still open |
| `EngineKeepsLog` | `ImplementsAlertLog`, for one worker | `TurnInv` and the two invariants above: what a commit writes per rule is one of the log's three choices |
| `LookingIsHarmless` | `DashboardSpec => TimedSpec` | none |
| `DashboardTypeCorrect`, `UpdatesAreNew`, `ReportsAddUp` | `Dashboard`'s three properties | the counts of a growing table only grow, and successes and failures are disjoint parts of it |

Assumptions. `JobPipeline`: killable workers are workers, the error classes are the
code's, the limits are naturals (at least one attempt and a promoter's limit of at
least one), `NoJob` is no job; workers and requests may be infinite in number.
`AlertEngine`: workers and rules are finite sets. `TimedWorker`: one pod, no replay
requests, delays and timeouts are naturals. `Registry`: what its `ConstantsAssumption`
says of browsers and URLs. The theorems for one worker assume `Workers = {w}`: with two
they fail, as `alerts_cooldown_race` shows.

Arguments. `NeverDeliveredTwice` is the argument that `promote_due_jobs` makes in its
docstring: a push enters with a new stamp, and every later command moves one copy,
guarded for promoters by the answer of ZREM. A replay pushes under a new stamp, so the
dead letter it leaves for the moment is no second copy. For the losses there is no
counting over the whole history: `NothingLost` shows that a step other than a death
keeps every push whose letter it does not remove, `FirstLivesAreKept` that a letter
under its own stamp leaves the hash only as closed, and `CrashStep` that a death adds
at most the stamps in one hand and one lift. `LossesAreExplained` is these three;
without replays every letter is under its own stamp, hence `CalmStep`, and cardinalities
give the bound. What remains, a replayed job's letter, is finding 2: `Requests = {}` in
`LossBounded` and `GracefulLosesNothing` leaves it out.

For `PipelineImplementsLifecycle`, `StageIsShown` turns the search that `StatusOf` and
`TriesOf` make over all places into being found in one of them, which `Distinct` makes
enough; `StepGoes` then shows, action by action and for each push, a stage before, a
stage after, and that `JobLifecycle` allows the move. `Settled` is needed at a death: a
waiting job that it takes must not be one that counts as closed.

`GraceIsEnough` rests on a bound for each await: at every position of the scrape,
`stop` is at most what the positions before it may have taken, so at the SIGKILL either
no job is held or its row is in the table.

Each proof has one step per action.

`EngineKeepsLog` needs no history of the session: between `Begin` and `Commit` the
tables that `AlertLog` sees change only by deletions, and `TurnInv` says what the rows
to be written are, rule by rule, against the events that are there at the commit.

`RetriesRunOut` is the half of `EverySettles` that needs no fairness: a push cannot go
round for ever. That it does not stand still either is fairness, and TLC's.
`RetriesSurviveInRedis` and `LettersAreKept` bound findings 1 and 2 from the other
side: the first is that a retry is lost in no other way, the second that a letter is
not lost without a replay request.

Only model-checked: `EverySettles` and `ShutdownCompletes`, since liveness is beyond
TLAPS here (it has no ENABLED); and that `evaluate_alerts` as `AlertEngine` has it
delivers what `TimedWorker` abstracts to a number of alerts is stated nowhere.

## 6. Plan

Done: all modules of section 2, their runs and proofs.

Left: a fault model in which Redis itself forgets (`queue.py` keeps no second copy, so every
push would be lost at once and there is no promise to check); several pods in
`TimedWorker`, which today's state spaces do not allow and which share nothing with
each other but the tables and queues that `JobPipeline` has for any number of workers.

## 7. Not modelled

* Metrics and gauges never flow back into the program. `metrics_refresh_loop` sleeps 5 s
  at most before it sees a SIGTERM; it holds nothing that could be lost.
* The alert listing reads only. The test webhook is one `send_notification` without any
  state of its own.
* Migrations are one-off DDL; their result is the tables of `models.py`.
* Listings and the comparison read only. Request validation is left out except where it
  decides what is stored or who may act.
* The frontend is presentation but for the form, the card and the poll.
* Deployment files count only where the worker's life depends on them: replicas,
  SIGTERM, grace period, replacement.
* A drop or a restock between two snapshots that no single evaluation compares
  (`alerts.py:127`): the engine looks at the two newest by design, and nothing promises
  that every pair is looked at. How many snapshots can be passed over is
  `EvaluationsCatchUp`.
* The rate of requests per site: the delay is per worker (`config.py`), so it is the
  number of workers times as high, and no bound is promised.
* Whether a raise site of the scraper has the class its author meant: `Scraper` takes
  the class from the code and there is nothing else to compare it with.
