------------------------- MODULE TimedWorkerProofs -------------------------
(***************************************************************************)
(* What TimedWorker keeps for every timeout, delay, grace period and       *)
(* number of attempts: the spacing of requests, what duplicates of an      *)
(* alert mean, Delivery, and that a grace period longer than the longest   *)
(* scrape protects the scrape.                                             *)
(*                                                                         *)
(* The pipeline's part of a step is a step of JobPipeline, so its          *)
(* invariants carry over; the scraper's and the notifier's part is a step  *)
(* of theirs or leaves them alone.                                         *)
(***************************************************************************)
EXTENDS TimedWorker, JobLossProofs

-----------------------------------------------------------------------------
(* scraper.py, for every polite delay and timeout.                         *)

\* _last_request_at is taken at most a launch before the request, and while
\* the browser starts the request before lies a launch less than the delay back.
Spaced ==
    /\ permit <= visit + LaunchTimeout
    /\ scrape = "launch" => /\ permit <= waited /\ waited <= LaunchTimeout
                            /\ PoliteDelay <= visit + LaunchTimeout

ScraperInv == ScraperTypeOK /\ Spaced

LEMMA InitScraperInv == ScraperInit /\ waited = 0 => ScraperInv
  BY ScraperAssumption DEF ScraperInit, ScraperInv, ScraperTypeOK, Spaced, Verdicts

\* What happens between two ticks.
LEMMA ScraperStepInv ==
  ASSUME ScraperInv, ScraperStep \/ StartScrape \/ EndScrape \/ LoseScrape
  PROVE  ScraperInv'
  <1> USE ScraperAssumption DEF ScraperInv, ScraperTypeOK, Spaced, At, GoTo, LeaveWith,
          Verdicts, ScrapeErrors
  <1>1. CASE StartScrape \/ EndScrape \/ LoseScrape
    BY <1>1 DEF StartScrape, EndScrape, LoseScrape
  <1>2. CASE TakeTurn \/ LaunchFails
    BY <1>2 DEF TakeTurn, LaunchFails
  <1>3. CASE OpenPage
    BY <1>3 DEF OpenPage
  <1>4. CASE NoResponse \/ \E status \in Statuses : Respond(status)
    BY <1>4 DEF NoResponse, Respond, Statuses
  <1>5. CASE Rendered \/ NotRendered
    BY <1>5 DEF Rendered, NotRendered
  <1>6. CASE ReadPage \/ PageBreaks \/ Close
    BY <1>6 DEF ReadPage, Readings, PageBreaks, Close
  <1> QED BY <1>1, <1>2, <1>3, <1>4, <1>5, <1>6 DEF ScraperStep

\* A tick, which a launch does not outlast.
LEMMA ScraperAgesInv ==
  ASSUME ScraperInv, ScraperAges, waited' = waited + 1,
         scrape = "launch" => waited < LaunchTimeout
  PROVE  ScraperInv'
  BY ScraperAssumption DEF ScraperInv, ScraperTypeOK, Spaced, ScraperAges, Later

\* Steps of others, while nothing is being scraped or without any time passing.
LEMMA ScraperRestsInv ==
  ASSUME ScraperInv, UNCHANGED scraper, waited' \in Nat,
         scrape = "launch" => UNCHANGED waited
  PROVE  ScraperInv'
  BY DEF ScraperInv, ScraperTypeOK, Spaced, scraper

\* RequestSpacing, of one step.
LEMMA SpacedRequests ==
  ASSUME ScraperInv
  PROVE  [scrape = "launch" /\ scrape' = "goto" => visit + LaunchTimeout >= PoliteDelay]_scraper
  BY ScraperAssumption DEF ScraperInv, ScraperTypeOK, Spaced

-----------------------------------------------------------------------------
(* notifiers.py, for every number of attempts and every backoff.           *)

\* An attempt under way has at most the posts of those before it behind it.
Spent == delivery = "posting" => accepted < attempt

NotifierInv == NotifierTypeOK /\ DuplicatesUnanswered /\ Spent

NotifierMove == StartNotify \/ NotifierStep \/ EndNotify \/ LoseNotify

LEMMA InitNotifierInv == NotifierInit => NotifierInv
  BY NotifierAssumption
  DEF NotifierInit, NotifierInv, NotifierTypeOK, DuplicatesUnanswered, Spent

LEMMA NotifierMoveInv ==
  ASSUME NotifierInv, NotifierMove
  PROVE  NotifierInv'
  <1> USE NotifierAssumption DEF NotifierInv, NotifierTypeOK, DuplicatesUnanswered, Spent
  <1>1. CASE StartNotify
    BY <1>1 DEF StartNotify
  <1>2. CASE PostSucceeds
    BY <1>2 DEF PostSucceeds
  <1>3. ASSUME NEW reached \in {0, 1}, PostFails(reached) PROVE NotifierInv'
    BY <1>3 DEF PostFails
  <1>4. CASE BackoffOver
    BY <1>4 DEF BackoffOver
  <1>5. CASE EndNotify \/ LoseNotify
    BY <1>5 DEF EndNotify, LoseNotify, Forgotten
  <1> QED BY <1>1, <1>2, <1>3, <1>4, <1>5 DEF NotifierMove, NotifierStep

LEMMA NotifierRestsInv == NotifierInv /\ UNCHANGED notifier => NotifierInv'
  BY DEF NotifierInv, NotifierTypeOK, DuplicatesUnanswered, Spent, notifier

\* Initial states are initial states of Delivery.
LEMMA InitDelivery == NotifierInit => Abstract!Init
  BY DEF NotifierInit, Abstract!Init

\* Every step is a step of Delivery or leaves its variables alone.
LEMMA StepDelivery ==
  ASSUME NotifierInv, NotifierMove \/ UNCHANGED notifier
  PROVE  [Abstract!Next]_<<IF delivery \in {"posting", "backoff"} THEN "sending" ELSE delivery,
                           accepted>>
  <1> USE NotifierAssumption DEF NotifierInv, NotifierTypeOK, DuplicatesUnanswered, Spent
  <1>1. CASE StartNotify
    BY <1>1 DEF StartNotify, Abstract!Next, Abstract!Send
  <1>2. CASE PostSucceeds
    BY <1>2 DEF PostSucceeds, Abstract!Next, Abstract!Arrive, Abstract!Settle
  <1>3. ASSUME NEW reached \in {0, 1}, PostFails(reached)
        PROVE  [Abstract!Next]_<<IF delivery \in {"posting", "backoff"} THEN "sending"
                                 ELSE delivery, accepted>>
    BY <1>3 DEF PostFails, Abstract!Next, Abstract!Arrive, Abstract!Report, Abstract!Settle
  <1>4. CASE BackoffOver
    BY <1>4 DEF BackoffOver
  <1>5. CASE EndNotify \/ LoseNotify
    BY <1>5 DEF EndNotify, LoseNotify, Forgotten, Abstract!Next, Abstract!Forget
  <1>6. CASE UNCHANGED notifier
    BY <1>6 DEF notifier
  <1> QED BY <1>1, <1>2, <1>3, <1>4, <1>5, <1>6 DEF NotifierMove, NotifierStep

-----------------------------------------------------------------------------
(* Each machine's part of a step.                                          *)

LEMMA PipelinePart ==
  ASSUME ScraperTypeOK, [TimedNext]_timedVars
  PROVE  [Next]_vars
  <1> SUFFICES ASSUME TimedNext PROVE [Next]_vars
    BY DEF timedVars
  <1>1. Pod \in Workers
    BY TimedAssumption
  <1>2. WorkerLoop(Pod) => Next
    BY <1>1 DEF Next
  <1>3. CASE TakeJob \/ PollEmpty \/ Succeed \/ Route \/ Alerted
    BY <1>2, <1>3 DEF TakeJob, PollEmpty, Succeed, Route, Alerted, WorkerLoop
  <1>4. CASE Fail
    <2>1. verdict \in Errors
      BY <1>4, TimedAssumption DEF Fail, ScraperTypeOK, Verdicts, ScrapeErrors, ErrorTypes
    <2> QED BY <1>2, <1>4, <2>1 DEF Fail, WorkerLoop
  <1>5. CASE Scraping \/ Deliver \/ Delivering \/ Delivered \/ Tick
    BY <1>5 DEF Scraping, Deliver, Delivering, Delivered, Tick
  <1>6. CASE Around \/ TriggerScrape
    BY <1>1, <1>6 DEF Around, TriggerScrape, Next
  <1>7. CASE SigtermArrives \/ Exit \/ Sigkill \/ Boot
    BY <1>1, <1>7 DEF SigtermArrives, Exit, Sigkill, Boot, Process, Next
  <1> QED BY <1>3, <1>4, <1>5, <1>6, <1>7 DEF TimedNext, TimedLoop

\* Which of the three machines runs, and in whose await the time passes.
Coupled ==
    /\ scrape # "out" <=> loop[Pod] = "scrape"
    /\ delivery # "idle" \/ alerts > 0 => loop[Pod] = "alert"
    /\ alerts \in 0..MaxAlerts
    /\ stop \in 0..Grace
    /\ proc[Pod] # "stopping" => stop = 0

LEMMA ScraperPart ==
  ASSUME Coupled, [TimedNext]_timedVars
  PROVE  \/ ScraperStep \/ StartScrape \/ EndScrape \/ LoseScrape
         \/ /\ ScraperAges /\ waited' = waited + 1
            /\ scrape = "launch" => waited < LaunchTimeout
         \/ /\ UNCHANGED scraper
            /\ waited' \in {0, waited}
            /\ scrape = "launch" => UNCHANGED waited
  <1>1. CASE UNCHANGED timedVars
    BY <1>1 DEF timedVars, timed
  <1>2. CASE TakeJob \/ Scraping \/ Succeed \/ Fail
    BY <1>2 DEF TakeJob, Scraping, Succeed, Fail
  <1>3. CASE PollEmpty \/ Route \/ Alerted
    <2>1. loop[Pod] # "scrape"
      BY <1>3 DEF PollEmpty, PollTimeout, Route, DeadLetter, ScheduleRetry, Alerted, AlertsDone
    <2> QED BY <1>3, <2>1 DEF PollEmpty, Route, Alerted, Coupled
  <1>4. CASE Deliver \/ Delivering \/ Delivered
    <2>1. loop[Pod] = "alert" /\ waited' = 0
      BY <1>4 DEF Deliver, Delivering, Delivered, StartNotify, NotifierStep, PostSucceeds,
                  PostFails, BackoffOver, EndNotify, Forgotten, Coupled
    <2> QED BY <1>4, <2>1 DEF Deliver, Delivering, Delivered, Coupled
  <1>5. CASE Around \/ TriggerScrape \/ SigtermArrives \/ Boot
    BY <1>5 DEF Around, TriggerScrape, SigtermArrives, Boot, timed
  <1>6. CASE Exit \/ Sigkill
    BY <1>6 DEF Exit, Sigkill, Gone
  <1>7. CASE Tick
    <2>1. ASSUME scrape = "launch" PROVE waited < LaunchTimeout
      <3>1. loop[Pod] = "scrape" /\ delivery = "idle"
        BY <2>1 DEF Coupled
      <3> QED BY <1>7, <2>1, <3>1 DEF Tick, ScraperWaits, NotifierWaits, At
    <2> QED BY <1>7, <2>1 DEF Tick
  <1> QED BY <1>1, <1>2, <1>3, <1>4, <1>5, <1>6, <1>7 DEF TimedNext, TimedLoop

LEMMA NotifierPart ==
  [TimedNext]_timedVars => NotifierMove \/ UNCHANGED notifier
  <1> SUFFICES ASSUME [TimedNext]_timedVars PROVE NotifierMove \/ UNCHANGED notifier
    OBVIOUS
  <1>1. CASE UNCHANGED timedVars
    BY <1>1 DEF timedVars, timed
  <1>2. CASE Deliver \/ Delivering \/ Delivered
    BY <1>2 DEF Deliver, Delivering, Delivered, NotifierMove
  <1>3. CASE Exit \/ Sigkill
    BY <1>3 DEF Exit, Sigkill, Gone, NotifierMove
  <1>4. CASE TakeJob \/ PollEmpty \/ Scraping \/ Succeed \/ Fail \/ Route \/ Alerted
    BY <1>4 DEF TakeJob, PollEmpty, Scraping, Succeed, Fail, Route, Alerted
  <1>5. CASE Around \/ TriggerScrape \/ SigtermArrives \/ Boot \/ Tick
    BY <1>5 DEF Around, TriggerScrape, SigtermArrives, Boot, Tick, timed
  <1> QED BY <1>1, <1>2, <1>3, <1>4, <1>5 DEF TimedNext, TimedLoop

-----------------------------------------------------------------------------
(* The pod's clocks.                                                       *)

\* The wait before the browser starts: BLPOP and the polite delay overlap.
Patience == IF DequeueTimeout < PoliteDelay THEN PoliteDelay ELSE DequeueTimeout

\* Where worker_loop is bounds the time since SIGTERM until the outcome of
\* its job is in the database.
OnTime ==
    /\ proc[Pod] = "down" => waited = 0
    /\ loop[Pod] = "poll" => /\ stop <= waited /\ waited <= DequeueTimeout
                             /\ permit = PoliteDelay \/ waited <= permit
    /\ scrape = "delay" => /\ stop <= Patience
                           /\ permit = PoliteDelay \/ stop <= permit
    /\ scrape = "launch" => stop <= Patience + waited /\ waited <= LaunchTimeout
    /\ scrape \in {"goto", "title", "price"} => waited <= PageTimeout
    /\ scrape = "goto" => stop <= Patience + LaunchTimeout + waited
    /\ scrape = "title" => stop <= Patience + LaunchTimeout + PageTimeout + waited
    /\ scrape = "price" => stop <= Patience + LaunchTimeout + 2 * PageTimeout + waited
    /\ scrape \in {"read", "close", "done"} => stop <= LongestScrape
    /\ loop[Pod] = "route" => stop <= LongestScrape
    /\ PromoteInterval < stop => mover[Pod] = "exited"

PodTypeOK ==
    /\ loop[Pod] \in {"poll", "scrape", "route", "alert", "exited"}
    /\ proc[Pod] \in {"up", "stopping", "down"}
    /\ mover[Pod] \in {"fetch", "move", "push", "exited"}
    /\ proc[Pod] = "down" => loop[Pod] = "exited" /\ mover[Pod] = "exited"

\* What the pipeline's actions do to the pod's positions.
LEMMA PodMoves ==
  ASSUME TypeOK
  PROVE  /\ PodTypeOK
         /\ Dequeue(Pod) => /\ loop[Pod] = "poll" /\ loop'[Pod] = "scrape"
                            /\ UNCHANGED <<proc, mover>>
         /\ PollTimeout(Pod) \/ AlertsDone(Pod) \/ DeadLetter(Pod) \/ ScheduleRetry(Pod) =>
                /\ loop[Pod] \in {"poll", "alert", "route"}
                /\ loop'[Pod] = NextTurn(Pod) /\ UNCHANGED <<proc, mover>>
         /\ HandleSuccess(Pod) => /\ loop[Pod] = "scrape" /\ loop'[Pod] = "alert"
                                  /\ UNCHANGED <<proc, mover>>
         /\ \A error \in Errors : RecordFailure(Pod, error) =>
                /\ loop[Pod] = "scrape" /\ loop'[Pod] = "route" /\ UNCHANGED <<proc, mover>>
         /\ PromoterLoop(Pod) => /\ UNCHANGED <<proc, loop>>
                                 /\ mover[Pod] # "exited"
         /\ Sigterm(Pod) => /\ proc[Pod] = "up" /\ proc'[Pod] = "stopping"
                            /\ UNCHANGED <<loop, mover>>
         /\ GracefulExit(Pod) => /\ loop[Pod] = "exited" /\ mover[Pod] = "exited"
                                 /\ proc'[Pod] = "down" /\ UNCHANGED <<loop, mover>>
         /\ Crash(Pod) => /\ proc'[Pod] = "down"
                          /\ loop'[Pod] = "exited" /\ mover'[Pod] = "exited"
         /\ Restart(Pod) => /\ proc[Pod] = "down" /\ proc'[Pod] = "up"
                            /\ loop'[Pod] = "poll" /\ mover'[Pod] = "fetch"
  <1> USE TimedAssumption DEF TypeOK, worker, promoter
  <1>1. Pod \in Workers
    OBVIOUS
  <1>2. PodTypeOK
    BY DEF PodTypeOK
  <1>3. PollTimeout(Pod) \/ AlertsDone(Pod) \/ DeadLetter(Pod) \/ ScheduleRetry(Pod) =>
            /\ loop[Pod] \in {"poll", "alert", "route"}
            /\ loop'[Pod] = NextTurn(Pod) /\ UNCHANGED <<proc, mover>>
    BY DEF PollTimeout, AlertsDone, DeadLetter, ScheduleRetry
  <1>4. PromoterLoop(Pod) => UNCHANGED <<proc, loop>> /\ mover[Pod] # "exited"
    BY DEF PromoterLoop, FetchDue, RemoveDelayed, PushPromoted, PromoterTurn
  <1>5. /\ Dequeue(Pod) => /\ loop[Pod] = "poll" /\ loop'[Pod] = "scrape"
                           /\ UNCHANGED <<proc, mover>>
        /\ HandleSuccess(Pod) => /\ loop[Pod] = "scrape" /\ loop'[Pod] = "alert"
                                 /\ UNCHANGED <<proc, mover>>
        /\ \A error \in Errors : RecordFailure(Pod, error) =>
                /\ loop[Pod] = "scrape" /\ loop'[Pod] = "route" /\ UNCHANGED <<proc, mover>>
    BY DEF Dequeue, HandleSuccess, RecordFailure
  <1>6. /\ Sigterm(Pod) => /\ proc[Pod] = "up" /\ proc'[Pod] = "stopping"
                           /\ UNCHANGED <<loop, mover>>
        /\ GracefulExit(Pod) => /\ loop[Pod] = "exited" /\ mover[Pod] = "exited"
                                /\ proc'[Pod] = "down" /\ UNCHANGED <<loop, mover>>
        /\ Crash(Pod) => /\ proc'[Pod] = "down"
                         /\ loop'[Pod] = "exited" /\ mover'[Pod] = "exited"
        /\ Restart(Pod) => /\ proc[Pod] = "down" /\ proc'[Pod] = "up"
                           /\ loop'[Pod] = "poll" /\ mover'[Pod] = "fetch"
    BY DEF Sigterm, GracefulExit, Crash, Restart
  <1> HIDE DEF TypeOK, worker, promoter
  <1> QED BY <1>2, <1>3, <1>4, <1>5, <1>6

Clocks == Coupled /\ OnTime

LEMMA InitClocks == TimedInit => Clocks
  <1> SUFFICES ASSUME TimedInit PROVE Clocks
    OBVIOUS
  <1>1. /\ loop[Pod] = "poll" /\ proc[Pod] = "up" /\ mover[Pod] = "fetch"
        /\ scrape = "out" /\ permit = PoliteDelay /\ delivery = "idle"
        /\ waited = 0 /\ alerts = 0 /\ stop = 0
    BY TimedAssumption DEF TimedInit, Init, ScraperInit, NotifierInit
  <1> QED BY <1>1, TimedAssumption DEF Clocks, Coupled, OnTime

LEMMA StepClocks ==
  ASSUME TypeOK, ScraperInv, Clocks, [TimedNext]_timedVars
  PROVE  Clocks'
  <1> USE TimedAssumption, ScraperAssumption DEF Clocks, Coupled, OnTime, Patience, LongestScrape
  <1>0. /\ PodTypeOK /\ waited \in Nat
        /\ permit \in 0..PoliteDelay
        /\ scrape \in {"out", "delay", "launch", "goto", "title", "price", "read", "close", "done"}
    BY PodMoves DEF ScraperInv, ScraperTypeOK
  <1>1. CASE UNCHANGED timedVars
    BY <1>1 DEF timedVars, vars, worker, promoter, timed, scraper, notifier
  <1>2. CASE TakeJob
    <2>1. /\ loop[Pod] = "poll" /\ loop'[Pod] = "scrape" /\ UNCHANGED <<proc, mover>>
      BY <1>2, PodMoves DEF TakeJob
    <2>2. /\ scrape' = "delay" /\ waited' = 0
          /\ UNCHANGED <<permit, delivery, alerts, stop>>
      BY <1>2 DEF TakeJob, StartScrape, GoTo, notifier
    <2> QED BY <1>0, <2>1, <2>2
  <1>3. CASE PollEmpty \/ Route \/ Alerted
    <2>1. /\ loop[Pod] \in {"poll", "alert", "route"}
          /\ loop'[Pod] = NextTurn(Pod) /\ UNCHANGED <<proc, mover>>
      BY <1>3, PodMoves DEF PollEmpty, Route, Alerted
    <2>2. /\ waited' = 0 /\ UNCHANGED <<scrape, permit, delivery, alerts, stop>>
      BY <1>3 DEF PollEmpty, Route, Alerted, scraper, notifier
    <2>3. delivery = "idle" /\ alerts = 0
      BY <1>3, <2>1, PodMoves
         DEF PollEmpty, PollTimeout, Route, DeadLetter, ScheduleRetry, Alerted
    <2> QED BY <1>0, <2>1, <2>2, <2>3 DEF NextTurn
  <1>4. CASE Scraping
    <2>1. /\ UNCHANGED <<loop, proc, mover, delivery, alerts, stop>>
          /\ waited' = 0
          /\ ScraperStep
      BY <1>4 DEF Scraping, ScraperStep, TakeTurn, LaunchFails, OpenPage, NoResponse, Respond,
                  Statuses, Rendered, NotRendered, ReadPage, Readings, PageBreaks, Close, LeaveWith, GoTo,
                  vars, worker, promoter, notifier
    <2>2. \/ scrape = "delay" /\ scrape' = "launch"
          \/ scrape = "launch" /\ scrape' \in {"done", "close", "goto"}
          \/ scrape = "goto" /\ scrape' \in {"close", "title"}
          \/ scrape = "title" /\ scrape' \in {"price", "done", "close"}
          \/ scrape = "price" /\ scrape' \in {"read", "done", "close"}
          \/ scrape = "read" /\ scrape' = "close"
          \/ scrape = "close" /\ scrape' = "done"
      BY <2>1 DEF ScraperStep, TakeTurn, LaunchFails, OpenPage, NoResponse, Respond, Statuses,
                  Rendered, NotRendered, ReadPage, Readings, PageBreaks, Close, LeaveWith, GoTo, At
    <2>3. loop[Pod] = "scrape"
      BY <2>2
    <2> QED BY <1>0, <2>1, <2>2, <2>3
  <1>5. CASE Succeed \/ Fail
    <2>1. /\ loop[Pod] = "scrape" /\ loop'[Pod] \in {"alert", "route"}
          /\ UNCHANGED <<proc, mover>>
          /\ loop'[Pod] = "route" => UNCHANGED alerts
      <3>1. CASE Succeed
        BY <1>5, <3>1, PodMoves DEF Succeed
      <3>2. CASE Fail
        <4>1. verdict \in Errors
          BY <3>2 DEF Fail, ScraperInv, ScraperTypeOK, Verdicts, ScrapeErrors, ErrorTypes
        <4> QED BY <3>2, <4>1, PodMoves DEF Fail
      <3> QED BY <1>5, <3>1, <3>2
    <2>2. /\ scrape = "done" /\ scrape' = "out" /\ waited' = 0
          /\ UNCHANGED <<delivery, stop>> /\ alerts' \in 0..MaxAlerts
      BY <1>5 DEF Succeed, Fail, EndScrape, At, GoTo, notifier
    <2> QED BY <1>0, <2>1, <2>2
  <1>6. CASE Deliver \/ Delivering \/ Delivered
    <2>1. /\ UNCHANGED <<loop, proc, mover, scrape, permit, stop>>
          /\ loop[Pod] = "alert" /\ waited' = 0 /\ alerts' \in 0..MaxAlerts
      BY <1>6 DEF Deliver, Delivering, Delivered, StartNotify, NotifierStep, PostSucceeds,
                  PostFails, BackoffOver, EndNotify, Forgotten, vars, worker, promoter, scraper
    <2> QED BY <1>0, <2>1
  <1>7. CASE Around \/ TriggerScrape
    <2>1. UNCHANGED <<loop, proc, scrape, permit, waited, delivery, alerts, stop>>
      BY <1>7, PodMoves DEF Around, TriggerScrape, EnqueueJob, BackoffElapses, PurgeDeadLetter,
                            worker, timed, scraper, notifier
    <2>2. mover[Pod] = "exited" => mover'[Pod] = "exited"
      BY <1>7, PodMoves DEF Around, TriggerScrape, EnqueueJob, BackoffElapses, PurgeDeadLetter,
                            promoter
    <2> QED BY <1>0, <2>1, <2>2
  <1>8. CASE SigtermArrives
    <2>1. /\ proc[Pod] = "up" /\ proc'[Pod] = "stopping" /\ UNCHANGED <<loop, mover>>
          /\ UNCHANGED <<scrape, permit, waited, delivery, alerts, stop>>
      BY <1>8, PodMoves DEF SigtermArrives, timed, scraper, notifier
    <2> QED BY <1>0, <2>1
  <1>9. CASE Exit \/ Sigkill
    <2>1. /\ proc'[Pod] = "down" /\ loop'[Pod] = "exited" /\ mover'[Pod] = "exited"
      BY <1>9, PodMoves DEF Exit, Sigkill
    <2>2. scrape' = "out" /\ waited' = 0 /\ delivery' = "idle" /\ alerts' = 0 /\ stop' = 0
      BY <1>9 DEF Exit, Sigkill, Gone, LoseScrape, GoTo, LoseNotify, Forgotten
    <2> QED BY <1>0, <2>1, <2>2
  <1>10. CASE Boot
    <2>1. /\ proc[Pod] = "down" /\ proc'[Pod] = "up"
          /\ loop'[Pod] = "poll" /\ mover'[Pod] = "fetch"
          /\ UNCHANGED <<scrape, permit, waited, delivery, alerts, stop>>
      BY <1>10, PodMoves DEF Boot, timed, scraper, notifier
    <2> QED BY <1>0, <2>1 DEF PodTypeOK
  <1>11. CASE Tick
    <2>1. /\ UNCHANGED <<loop, proc, mover, scrape, delivery, alerts>>
          /\ waited' = waited + 1
          /\ permit' = IF permit < PoliteDelay THEN permit + 1 ELSE permit
      BY <1>11 DEF Tick, vars, worker, promoter, notifier, ScraperAges, Later
    <2>2. \/ loop[Pod] = "poll" /\ waited < DequeueTimeout
          \/ loop[Pod] = "exited" /\ mover[Pod] = "fetch"
          \/ loop[Pod] = "alert"
          \/ scrape = "delay" /\ permit < PoliteDelay
          \/ scrape = "launch" /\ waited < LaunchTimeout
          \/ scrape \in {"goto", "title", "price"} /\ waited < PageTimeout
      BY <1>11 DEF Tick, ScraperWaits, NotifierWaits, At
    <2>3. proc[Pod] # "down"
      BY <1>0, <2>2 DEF PodTypeOK
    <2>4. \/ proc[Pod] = "stopping" /\ stop < Grace /\ stop' = stop + 1
             /\ (stop < PromoteInterval \/ mover[Pod] = "exited")
          \/ stop = 0 /\ stop' = 0
      BY <1>11 DEF Tick, PromoterSeesStop
    <2>5. Coupled'
      BY <1>0, <2>1, <2>4
    <2>6. PromoteInterval < stop' => mover'[Pod] = "exited"
      BY <2>1, <2>4
    <2>7. loop[Pod] = "poll" => /\ stop' <= waited' /\ waited' <= DequeueTimeout
                                /\ permit' = PoliteDelay \/ waited' <= permit'
      BY <1>0, <2>1, <2>2, <2>4
    <2>8. scrape = "delay" => /\ stop' <= Patience
                              /\ permit' = PoliteDelay \/ stop' <= permit'
      BY <1>0, <2>1, <2>2, <2>4
    <2>9. CASE scrape \in {"launch", "goto", "title", "price"}
      BY <1>0, <2>1, <2>2, <2>3, <2>4, <2>5, <2>6, <2>9
    <2>10. CASE scrape \notin {"launch", "goto", "title", "price"}
      BY <1>0, <2>1, <2>2, <2>3, <2>5, <2>6, <2>7, <2>8, <2>10
    <2> QED BY <2>9, <2>10
  <1> QED BY <1>1, <1>2, <1>3, <1>4, <1>5, <1>6, <1>7, <1>8, <1>9, <1>10, <1>11
          DEF TimedNext, TimedLoop

-----------------------------------------------------------------------------
(* What a SIGKILL after the grace period takes.                            *)

\* A job whose alerts are under way has its success in the attempt log.
Logged == loop[Pod] = "alert" => hand[Pod] # NoJob /\ Scraped(hand[Pod].enqueued_at)

\* The claim of GraceProtectsScrape on the settings.
GraceSuffices == LongestScrape < Grace /\ PromoteInterval < Grace

Kept == Logged /\ GraceProtectsScrape

LEMMA RowsGrow ==
  ASSUME Requests = {}, [Next]_vars
  PROVE  rows \subseteq rows'
  <1>1. CASE EnqueueJob \/ \E d \in dead : PurgeDeadLetter(d)
    BY <1>1 DEF EnqueueJob, PurgeDeadLetter, ledger
  <1>2. ASSUME NEW w \in Workers, WorkerLoop(w) \/ PromoterLoop(w) \/ Process(w)
        PROVE  rows \subseteq rows'
    BY <1>2 DEF WorkerLoop, Dequeue, PollTimeout, HandleSuccess, AlertsDone, RecordFailure,
                DeadLetter, ScheduleRetry, PromoterLoop, FetchDue, RemoveDelayed, PushPromoted,
                PromoterTurn, Process, Sigterm, GracefulExit, Crash, Restart, ledger
  <1>3. CASE (\E job \in delayed : BackoffElapses(job)) \/ UNCHANGED vars
    BY <1>3 DEF BackoffElapses, vars, ledger
  <1> QED BY <1>1, <1>2, <1>3 DEF Next

\* Only the SIGKILL kills.
LEMMA OnlySigkill ==
  ASSUME TypeOK, [TimedNext]_timedVars, Crash(Pod)
  PROVE  Sigkill
  <1>1. kills' # kills
    BY DEF Crash, TypeOK
  <1> SUFFICES ASSUME ~Sigkill PROVE kills' = kills
    BY <1>1
  <1>2. CASE TimedLoop
    BY <1>2 DEF TimedLoop, TakeJob, PollEmpty, Scraping, Succeed, Fail, Route, Deliver,
                Delivering, Delivered, Alerted, Dequeue, PollTimeout, HandleSuccess, RecordFailure,
                DeadLetter, ScheduleRetry, AlertsDone, vars, faults
  <1>3. CASE Around \/ TriggerScrape
    BY <1>3 DEF Around, PromoterLoop, FetchDue, RemoveDelayed, PushPromoted, PromoterTurn,
                BackoffElapses, PurgeDeadLetter, TriggerScrape, EnqueueJob, faults
  <1>4. CASE SigtermArrives \/ Exit \/ Boot
    BY <1>4 DEF SigtermArrives, Sigterm, Exit, GracefulExit, Boot, Restart, faults
  <1>5. CASE Tick \/ UNCHANGED timedVars
    BY <1>5 DEF Tick, timedVars, vars, faults
  <1> QED BY <1>2, <1>3, <1>4, <1>5 DEF TimedNext

\* CrashStep, with nothing missing for a position that held no job.
LEMMA CrashLoses ==
  ASSUME Inv2, Crash(Pod), NEW s \in Missing'
  PROVE  \/ s \in Missing
         \/ hand[Pod] # NoJob /\ s = hand[Pod].enqueued_at
         \/ lift[Pod] # NoJob /\ s = lift[Pod].enqueued_at
  <1>1. Pod \in Workers /\ \A w \in Workers : w = Pod
    BY TimedAssumption
  <1>2. UNCHANGED <<main, delayed, dead, closed, pushes>>
    BY DEF Crash, redis, ledger
  <1>3. (Missing = Absent)'
    BY MissingIsAbsent, PTL
  <1>4. s \in 1..pushes /\ ~Present(s)'
    BY <1>2, <1>3 DEF Absent
  <1>5. ~Present(s) \/ (\E w \in Workers : hand[w] # NoJob /\ hand[w].enqueued_at = s)
                    \/ (\E w \in Workers : lift[w] # NoJob /\ lift[w].enqueued_at = s)
    BY <1>2, <1>4 DEF Present
  <1> QED BY <1>1, <1>4, <1>5, MissingIsAbsent DEF Absent

LEMMA InitKept == TimedInit => Kept
  <1> SUFFICES ASSUME TimedInit PROVE Kept
    OBVIOUS
  <1>1. loop[Pod] = "poll" /\ Missing = {}
    BY TimedAssumption DEF TimedInit, Init, Missing
  <1> QED BY <1>1 DEF Kept, Logged, GraceProtectsScrape

LEMMA StepLogged ==
  ASSUME TypeOK, TypeOK', ScraperInv, Clocks, Logged, [TimedNext]_timedVars
  PROVE  Logged'
  <1>1. rows \subseteq rows'
    BY PipelinePart, RowsGrow, TimedAssumption DEF ScraperInv
  <1> DEFINE Row == \E row \in rows' : row.enqueued_at = hand'[Pod].enqueued_at /\ row.outcome = "Ok"
  <1> SUFFICES ASSUME loop'[Pod] = "alert" PROVE hand'[Pod] # NoJob /\ Row
    BY DEF Logged, Scraped
  <1>3. hand'[Pod] # NoJob
    BY TimedAssumption DEF TypeOK
  <1>4. CASE loop[Pod] = "alert" /\ hand'[Pod] = hand[Pod]
    BY <1>1, <1>3, <1>4 DEF Logged, Scraped
  <1>5. CASE HandleSuccess(Pod)
    <2>1. AttemptRow(hand[Pod], "Ok") \in rows' /\ hand' = hand
      BY <1>5 DEF HandleSuccess
    <2> QED BY <1>3, <2>1 DEF AttemptRow
  <1>6. CASE UNCHANGED <<loop, hand>>
    BY <1>4, <1>6
  <1>7. CASE TakeJob \/ PollEmpty \/ Route \/ Alerted
    BY <1>7, PodMoves DEF TakeJob, PollEmpty, Route, Alerted, NextTurn
  <1>8. CASE Fail
    <2>1. verdict \in Errors
      BY <1>8, TimedAssumption
         DEF Fail, ScraperInv, ScraperTypeOK, Verdicts, ScrapeErrors, ErrorTypes
    <2> QED BY <1>8, <2>1, PodMoves DEF Fail
  <1>9. CASE Succeed
    BY <1>5, <1>9 DEF Succeed
  <1>10. CASE Scraping \/ Deliver \/ Delivering \/ Delivered \/ Tick \/ UNCHANGED timedVars
    BY <1>6, <1>10 DEF Scraping, Deliver, Delivering, Delivered, Tick, timedVars, vars, worker
  <1>11. CASE Around \/ TriggerScrape \/ SigtermArrives
    BY <1>6, <1>11 DEF Around, PromoterLoop, FetchDue, RemoveDelayed, PushPromoted, PromoterTurn,
                       BackoffElapses, PurgeDeadLetter, TriggerScrape, EnqueueJob, SigtermArrives,
                       Sigterm, worker
  <1>12. CASE Exit \/ Sigkill \/ Boot
    BY <1>12, PodMoves DEF Exit, Sigkill, Boot
  <1> QED BY <1>7, <1>8, <1>9, <1>10, <1>11, <1>12 DEF TimedNext, TimedLoop

LEMMA StepKept ==
  ASSUME Inv2, AllNamed, ScraperInv, Clocks, Kept, Inv2', [TimedNext]_timedVars
  PROVE  Kept'
  <1>1. TypeOK /\ TypeOK' /\ [Next]_vars
    BY PipelinePart DEF Inv2, Inv1, ScraperInv
  <1>2. Logged'
    BY <1>1, StepLogged DEF Kept
  <1> SUFFICES ASSUME GraceSuffices, NEW s \in Missing' PROVE Scraped(s)'
    BY <1>2 DEF Kept, GraceProtectsScrape, GraceSuffices, LongestScrape
  <1>3. rows \subseteq rows'
    BY <1>1, RowsGrow, TimedAssumption
  <1> SUFFICES Scraped(s)
    BY <1>3 DEF Scraped
  <1>4. s \in Missing => Scraped(s)
    BY DEF Kept, GraceProtectsScrape, GraceSuffices
  <1>5. CASE ~Crash(Pod)
    <2>1. \A w \in Workers : ~Crash(w)
      BY <1>5, TimedAssumption
    <2>2. Missing' \subseteq Missing
      BY <1>1, <2>1, CalmStep, TimedAssumption
    <2> QED BY <1>4, <2>2
  <1>6. CASE Crash(Pod)
    <2>1. proc[Pod] = "stopping" /\ stop = Grace
      BY <1>1, <1>6, OnlySigkill DEF Sigkill
    <2>2. mover[Pod] = "exited" /\ lift[Pod] = NoJob
      BY <1>1, <2>1, TimedAssumption DEF GraceSuffices, Clocks, OnTime, TypeOK
    <2>3. loop[Pod] \notin {"poll", "scrape", "route"}
      <3>1. DequeueTimeout <= LongestScrape
        BY TimedAssumption, ScraperAssumption DEF LongestScrape
      <3> QED BY <2>1, <3>1, TimedAssumption, ScraperAssumption
              DEF GraceSuffices, LongestScrape, Patience, Clocks, Coupled, OnTime,
                  ScraperInv, ScraperTypeOK
    <2>4. hand[Pod] # NoJob => loop[Pod] = "alert"
      BY <1>1, <2>3, TimedAssumption DEF TypeOK
    <2> QED BY <1>4, <1>6, <2>2, <2>4, CrashLoses DEF Kept, Logged
  <1> QED BY <1>5, <1>6

-----------------------------------------------------------------------------
TimedInv == Inv2 /\ AllNamed /\ ScraperInv /\ NotifierInv /\ Clocks /\ Kept

LEMMA InitTimedInv == TimedInit => TimedInv
  BY InitInv2, InitNamed, InitScraperInv, InitNotifierInv, InitClocks, InitKept
  DEF TimedInit, TimedInv

LEMMA StepTimedInv == TimedInv /\ [TimedNext]_timedVars => TimedInv'
  <1> SUFFICES ASSUME TimedInv, [TimedNext]_timedVars PROVE TimedInv'
    OBVIOUS
  <1> USE DEF TimedInv
  <1>1. [Next]_vars
    BY PipelinePart DEF ScraperInv
  <1>2. Inv2' /\ AllNamed'
    BY <1>1, StepInv1, StepDistinct, StepNamedJobs, StepNamedRecords DEF Inv2, AllNamed
  <1>3. ScraperInv'
    BY ScraperPart, ScraperStepInv, ScraperAgesInv, ScraperRestsInv
    DEF Clocks, ScraperInv, ScraperTypeOK
  <1>4. NotifierInv'
    BY NotifierPart, NotifierMoveInv, NotifierRestsInv
  <1>5. Clocks'
    BY StepClocks DEF Inv2, Inv1
  <1>6. Kept'
    BY <1>2, StepKept
  <1> QED BY <1>2, <1>3, <1>4, <1>5, <1>6

LEMMA TimedInvariant == TimedSpec => []TimedInv
  BY InitTimedInv, StepTimedInv, PTL DEF TimedSpec

\* The pod with its clock running takes JobPipeline's steps only, so that all
\* that is proved of the pipeline holds of it.
THEOREM ImplementsPipeline == TimedSpec => Spec
  <1>1. TimedInit => Init
    BY DEF TimedInit
  <1>2. TimedInv /\ [TimedNext]_timedVars => [Next]_vars
    BY PipelinePart DEF TimedInv, ScraperInv
  <1> QED BY <1>1, <1>2, TimedInvariant, PTL DEF TimedSpec, Spec

\* Type correctness, whatever the timeouts, and that at every moment the pod
\* runs the one machine that worker_loop is in.
THEOREM TimedTypeCorrect == TimedSpec => []TimedTypeOK
  <1>1. TimedInv => TimedTypeOK
    BY DEF TimedInv, TimedTypeOK, Inv2, Inv1, ScraperInv, NotifierInv, Clocks, Coupled
  <1> QED BY <1>1, TimedInvariant, PTL

\* scraper.py keeps two requests of a worker the polite delay apart, less
\* what the browser took to start, through retries, failures and restarts.
THEOREM RequestsAreSpaced == TimedSpec => RequestSpacing
  <1>1. TimedInv =>
          [scrape = "launch" /\ scrape' = "goto" => visit + LaunchTimeout >= PoliteDelay]_scraper
    BY SpacedRequests DEF TimedInv
  <1> QED BY <1>1, TimedInvariant, PTL DEF RequestSpacing

\* An alert is received twice only when a post that arrived went unanswered.
THEOREM DuplicatesAreUnanswered == TimedSpec => []DuplicatesUnanswered
  <1>1. TimedInv => DuplicatesUnanswered
    BY DEF TimedInv, NotifierInv
  <1> QED BY <1>1, TimedInvariant, PTL

\* notifiers.py, in the worker and through its deaths, keeps the promise that
\* the alert engine counts on.
THEOREM NotifierImplementsDelivery == TimedSpec => ImplementsDelivery
  <1>1. TimedInit => Abstract!Init
    BY InitDelivery DEF TimedInit
  <1>2. TimedInv /\ [TimedNext]_timedVars =>
          [Abstract!Next]_<<IF delivery \in {"posting", "backoff"} THEN "sending" ELSE delivery,
                            accepted>>
    BY NotifierPart, StepDelivery DEF TimedInv
  <1> QED BY <1>1, <1>2, TimedInvariant, PTL
          DEF TimedSpec, ImplementsDelivery, Abstract!Spec

\* A rollout whose grace period exceeds the longest scrape, whatever the
\* timeouts are, loses no scrape: what it may lose is alerts.
THEOREM GraceIsEnough == TimedSpec => []GraceProtectsScrape
  <1>1. TimedInv => GraceProtectsScrape
    BY DEF TimedInv, Kept
  <1> QED BY <1>1, TimedInvariant, PTL
=============================================================================
