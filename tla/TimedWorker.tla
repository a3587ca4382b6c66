---------------------------- MODULE TimedWorker ----------------------------
(***************************************************************************)
(* One worker pod with the clock running: JobPipeline's worker, whose      *)
(* scrape is scraper.py's and whose alerts go out through notifiers.py,    *)
(* under Kubernetes' grace period.  worker_loop is in one await at a time, *)
(* and nothing without a limit takes time, so the clock moves only while   *)
(* BLPOP, the polite delay, Playwright, a delivery or a backoff waits.     *)
(*                                                                         *)
(* A death without warning is here only the SIGKILL after the grace        *)
(* period; JobPipeline has them all.                                       *)
(***************************************************************************)
EXTENDS JobPipeline, Scraper, Notifier

CONSTANTS
    Pod,               \* the worker
    DequeueTimeout,    \* dequeue_timeout_seconds
    PromoteInterval,   \* promote_interval_seconds
    Grace,             \* terminationGracePeriodSeconds
    MaxAlerts          \* bound: alerts that follow one scrape

ASSUME TimedAssumption ==
    /\ Workers = {Pod} /\ Killable = {Pod} /\ Requests = {}
    /\ Errors = ErrorTypes
    /\ DequeueTimeout \in Nat /\ PromoteInterval \in Nat /\ Grace \in Nat
    /\ MaxAlerts \in Nat

VARIABLES
    alerts,   \* evaluate_alerts: alerts it has still to deliver
    stop      \* time since SIGTERM, 0 while there was none

timed == <<scraper, notifier, waited, alerts, stop>>
timedVars == <<vars, timed>>

TimedInit ==
    /\ Init /\ ScraperInit /\ NotifierInit
    /\ waited = 0 /\ alerts = 0 /\ stop = 0

-----------------------------------------------------------------------------
(* worker_loop, await by await.                                            *)

TakeJob ==
    /\ Dequeue(Pod)
    /\ StartScrape
    /\ UNCHANGED <<notifier, alerts, stop>>

\* BLPOP has waited for dequeue_timeout_seconds.
PollEmpty ==
    /\ waited = DequeueTimeout
    /\ PollTimeout(Pod)
    /\ waited' = 0
    /\ UNCHANGED <<scraper, notifier, alerts, stop>>

Scraping ==
    /\ ScraperStep
    /\ UNCHANGED <<vars, notifier, alerts, stop>>

\* scrape_product returned; the commit, then evaluate_alerts finds what to
\* deliver (AlertEngine says what).
Succeed ==
    /\ verdict = "Ok"
    /\ EndScrape
    /\ HandleSuccess(Pod)
    /\ alerts' \in 0..MaxAlerts
    /\ UNCHANGED <<notifier, stop>>

\* scrape_product raised: process_job's two handlers.
Fail ==
    /\ verdict # "Ok"
    /\ EndScrape
    /\ RecordFailure(Pod, verdict)
    /\ UNCHANGED <<notifier, alerts, stop>>

Route ==
    /\ DeadLetter(Pod) \/ ScheduleRetry(Pod)
    /\ waited' = 0
    /\ UNCHANGED <<scraper, notifier, alerts, stop>>

\* _deliver, for one alert after the other.
Deliver ==
    /\ loop[Pod] = "alert"
    /\ alerts > 0
    /\ StartNotify
    /\ alerts' = alerts - 1
    /\ UNCHANGED <<vars, scraper, stop>>

Delivering ==
    /\ NotifierStep
    /\ UNCHANGED <<vars, scraper, alerts, stop>>

Delivered ==
    /\ EndNotify
    /\ UNCHANGED <<vars, scraper, alerts, stop>>

Alerted ==
    /\ alerts = 0
    /\ delivery = "idle"
    /\ AlertsDone(Pod)
    /\ waited' = 0
    /\ UNCHANGED <<scraper, notifier, alerts, stop>>

TimedLoop ==
    \/ TakeJob \/ PollEmpty \/ Scraping \/ Succeed \/ Fail \/ Route
    \/ Deliver \/ Delivering \/ Delivered \/ Alerted

-----------------------------------------------------------------------------
(* Around worker_loop.                                                     *)

\* The other coroutine of the process, Redis' clock and the API.
Around ==
    /\ \/ PromoterLoop(Pod)
       \/ \E job \in delayed : BackoffElapses(job)
       \/ \E d \in dead : PurgeDeadLetter(d)
    /\ UNCHANGED timed

TriggerScrape == EnqueueJob /\ UNCHANGED timed

SigtermArrives == Sigterm(Pod) /\ UNCHANGED timed

\* What the process had in memory.
Gone == LoseScrape /\ LoseNotify /\ alerts' = 0 /\ stop' = 0

Exit == GracefulExit(Pod) /\ Gone

Sigkill ==
    /\ proc[Pod] = "stopping"
    /\ stop = Grace
    /\ Crash(Pod)
    /\ Gone

Boot == Restart(Pod) /\ UNCHANGED timed

\* A coroutine that is told to stop has seen it when its sleep is over.
PromoterSeesStop == stop < PromoteInterval \/ mover[Pod] = "exited"

\* Time passes while every coroutine is in an await that may last.
Tick ==
    /\ \/ loop[Pod] = "poll" /\ main = <<>> /\ waited < DequeueTimeout
       \/ loop[Pod] = "exited" /\ mover[Pod] = "fetch"
       \/ ScraperWaits
       \/ NotifierWaits
    /\ mover[Pod] \in {"fetch", "exited"}
    /\ IF proc[Pod] = "stopping"
       THEN stop < Grace /\ PromoterSeesStop /\ stop' = stop + 1
       ELSE UNCHANGED stop
    /\ waited' = waited + 1
    /\ ScraperAges
    /\ UNCHANGED <<vars, notifier, alerts>>

TimedNext ==
    \/ TimedLoop \/ Around \/ TriggerScrape
    \/ SigtermArrives \/ Exit \/ Sigkill \/ Boot
    \/ Tick

TimedSpec == TimedInit /\ [][TimedNext]_timedVars

-----------------------------------------------------------------------------
(* Properties.                                                             *)

\* Type correctness, and that of the three machines exactly the one runs
\* that worker_loop is in.
TimedTypeOK ==
    /\ TypeOK /\ ScraperTypeOK /\ NotifierTypeOK
    /\ scrape # "out" <=> loop[Pod] = "scrape"
    /\ delivery # "idle" \/ alerts > 0 => loop[Pod] = "alert"
    /\ alerts \in 0..MaxAlerts
    /\ stop \in 0..Grace
    /\ proc[Pod] # "stopping" => stop = 0

\* The longest way from SIGTERM to the commit of a job's outcome: a BLPOP
\* just begun is still answered, the polite delay runs meanwhile, and the
\* page times out in its last wait.
LongestScrape ==
    (IF DequeueTimeout < PoliteDelay THEN PoliteDelay ELSE DequeueTimeout)
        + LaunchTimeout + 3 * PageTimeout

Scraped(s) == \E row \in rows : row.enqueued_at = s /\ row.outcome = "Ok"

\* main.py: "a grace period long enough for one scrape actually protects
\* that scrape": what a rollout may then cost is the alerts of a job whose
\* snapshot is in the database, never the scrape.
GraceProtectsScrape ==
    LongestScrape < Grace /\ PromoteInterval < Grace => \A s \in Missing : Scraped(s)
=============================================================================
