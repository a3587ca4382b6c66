-------------------------- MODULE DashboardProofs --------------------------
(***************************************************************************)
(* What Dashboard shows is true, for every timing of the worker, number of *)
(* polls and clicks.                                                       *)
(*                                                                         *)
(* The card and the report only read: a step of Dashboard is a step of     *)
(* TimedWorker or leaves it alone, so the worker's theorems carry over.    *)
(* Everything else rests on one fact about the tables: rows are added and  *)
(* never change (Grown), so a count taken earlier is at most one taken     *)
(* later.                                                                  *)
(***************************************************************************)
EXTENDS Dashboard, TimedWorkerProofs

-----------------------------------------------------------------------------
(* The worker's part of a step.                                            *)

LEMMA WorkerPart == [DashboardNext]_dashboardVars => [TimedNext]_timedVars
  <1> SUFFICES ASSUME DashboardNext PROVE [TimedNext]_timedVars
    BY DEF dashboardVars
  <1> QED BY DEF DashboardNext, Trigger, TimedNext

Tallied ==
    /\ Newest \in Nat /\ Cardinality(Failures) \in Nat /\ Cardinality(rows) \in Nat
    /\ Cardinality(rows) = Newest + Cardinality(Failures)

LEMMA Counted == IsFiniteSet(rows) => Tallied
  <1> SUFFICES ASSUME IsFiniteSet(rows) PROVE Tallied
    OBVIOUS
  <1>1. Successes \in SUBSET rows /\ rows \cap Successes = Successes
    BY DEF Successes
  <1>2. IsFiniteSet(Successes)
    BY <1>1, FS_Subset
  <1>3. IsFiniteSet(Failures)
        /\ Cardinality(Failures) = Cardinality(rows) - Cardinality(Successes)
    BY <1>1, FS_Difference DEF Failures
  <1>4. Cardinality(Successes) \in Nat /\ Cardinality(rows) \in Nat
        /\ Cardinality(Failures) \in Nat
    BY <1>2, <1>3, FS_CardinalityType
  <1> QED BY <1>3, <1>4 DEF Newest, Tallied

\* A commit adds one attempt.
LEMMA OneRowMore ==
  ASSUME Requests = {}, [Next]_vars
  PROVE  rows' = rows \/ \E row : rows' = rows \cup {row}
  <1>1. CASE EnqueueJob \/ \E d \in dead : PurgeDeadLetter(d)
    BY <1>1 DEF EnqueueJob, PurgeDeadLetter, ledger
  <1>2. ASSUME NEW w \in Workers, WorkerLoop(w) \/ PromoterLoop(w) \/ Process(w)
        PROVE  rows' = rows \/ \E row : rows' = rows \cup {row}
    BY <1>2 DEF WorkerLoop, Dequeue, PollTimeout, HandleSuccess, AlertsDone, RecordFailure,
                DeadLetter, ScheduleRetry, PromoterLoop, FetchDue, RemoveDelayed, PushPromoted,
                PromoterTurn, Process, Sigterm, GracefulExit, Crash, Restart, ledger
  <1>3. CASE (\E job \in delayed : BackoffElapses(job)) \/ UNCHANGED vars
    BY <1>3 DEF BackoffElapses, vars, ledger
  <1> QED BY <1>1, <1>2, <1>3 DEF Next

\* What was counted is still there.
Grown ==
    /\ IsFiniteSet(rows')
    /\ Newest <= Newest'
    /\ Cardinality(Failures) <= Cardinality(Failures)'
    /\ Cardinality(rows) <= Cardinality(rows)'

LEMMA TablesGrow ==
  ASSUME IsFiniteSet(rows), [Next]_vars
  PROVE  Grown
  <1>1. IsFiniteSet(rows')
    BY OneRowMore, FS_AddElement, TimedAssumption
  <1>2. rows \subseteq rows'
    BY RowsGrow, TimedAssumption
  <1>3. Successes \in SUBSET Successes' /\ Failures \in SUBSET Failures'
    BY <1>2 DEF Successes, Failures
  <1>4. IsFiniteSet(Successes') /\ IsFiniteSet(Failures')
    <2>1. Successes' \in SUBSET rows' /\ Failures' \in SUBSET rows'
      BY DEF Successes, Failures
    <2> QED BY <1>1, <2>1, FS_Subset
  <1>5. /\ Cardinality(Successes) <= Cardinality(Successes')
        /\ Cardinality(Failures) <= Cardinality(Failures')
        /\ Cardinality(rows) <= Cardinality(rows')
    BY <1>1, <1>2, <1>3, <1>4, FS_Subset
  <1> QED BY <1>1, <1>5 DEF Grown, Newest

-----------------------------------------------------------------------------
(* The card.                                                               *)

CardOK ==
    /\ load \in {"closed", "asked", "answered", "done"}
    /\ check \in {"idle", "trigger", "poll"}
    /\ message \in {"none", "queued", "updated", "processing", "error"}
    /\ shown \in 0..Newest /\ brought \in 0..Newest
    /\ previous \in 0..Newest /\ present \in 0..Newest
    /\ polls \in 0..MaxPolls /\ clicks \in 0..MaxClicks
    /\ current \in BOOLEAN

\* A click on an up-to-date card compares with what there was at the click,
\* and nothing but the polls changes what that card shows any more.
Compares ==
    current => /\ load = "done"
               /\ check # "idle" => previous = present

CardInv == CardOK /\ Compares /\ UpdatedIsNew

LEMMA StepCard ==
  ASSUME IsFiniteSet(rows), CardInv, Grown, [DashboardNext]_dashboardVars
  PROVE  CardInv'
  <1>1. /\ Newest \in Nat /\ Newest' \in Nat /\ Newest <= Newest'
    <2>1. (IsFiniteSet(rows) => Tallied)'
      BY Counted, PTL
    <2> QED BY <2>1, Counted DEF Grown, Tallied
  <1>2. CardOK /\ Compares /\ UpdatedIsNew
    BY DEF CardInv
  <1>3. CASE UNCHANGED card
    <2>1. CardOK'
      BY <1>1, <1>2, <1>3 DEF card, CardOK
    <2>2. Compares' /\ UpdatedIsNew'
      BY <1>2, <1>3 DEF card, Compares, UpdatedIsNew
    <2> QED BY <2>1, <2>2 DEF CardInv
  <1>4. CASE OpenCard \/ ReadHistory \/ Settled
    <2>1. CardOK'
      BY <1>1, <1>2, <1>4 DEF OpenCard, ReadHistory, Settled, CardOK
    <2>2. /\ load # "done" /\ UNCHANGED <<message, current, present>>
      BY <1>4 DEF OpenCard, ReadHistory, Settled
    <2>3. ~current'
      BY <1>2, <2>2 DEF Compares
    <2> QED BY <2>1, <2>3 DEF CardInv, Compares, UpdatedIsNew
  <1>5. CASE CheckNow
    <2>1. /\ current' \in BOOLEAN /\ current' => load' = "done" /\ previous' = present'
      BY <1>5 DEF CheckNow
    <2>2. CardOK'
      BY <1>1, <1>2, <1>5, <2>1, DashboardAssumption DEF CheckNow, CardOK
    <2>3. message' # "updated"
      BY <1>5 DEF CheckNow
    <2> QED BY <2>1, <2>2, <2>3 DEF CardInv, Compares, UpdatedIsNew
  <1>6. CASE Trigger
    <2>1. CardOK'
      BY <1>1, <1>2, <1>6 DEF Trigger, CardOK
    <2>2. /\ check = "trigger" /\ message' = "queued"
          /\ UNCHANGED <<load, previous, present, current>>
      BY <1>6 DEF Trigger
    <2> QED BY <1>2, <2>1, <2>2 DEF CardInv, Compares, UpdatedIsNew
  <1>7. CASE Poll
    <2>1. /\ check = "poll" /\ polls < MaxPolls
          /\ UNCHANGED <<load, brought, present, current, clicks>>
      BY <1>7 DEF Poll
    <2>2. CASE Newest = previous
      <3>1. polls' = polls + 1 /\ UNCHANGED <<shown, message, check, previous>>
        BY <1>7, <2>2 DEF Poll
      <3>2. CardOK'
        BY <1>1, <1>2, <2>1, <3>1, DashboardAssumption DEF CardOK
      <3> QED BY <1>2, <2>1, <3>1, <3>2 DEF CardInv, Compares, UpdatedIsNew
    <2>3. CASE Newest # previous
      <3>1. /\ shown' = Newest /\ check' = "idle" /\ message' = "updated"
            /\ polls' = 0 /\ previous' = 0
        BY <1>7, <2>3 DEF Poll, EndCheck
      <3>2. CardOK'
        BY <1>1, <1>2, <2>1, <3>1, DashboardAssumption DEF CardOK
      <3>3. current => present = previous
        BY <1>2, <2>1 DEF Compares
      <3>4. present = previous => shown' > present'
        BY <1>1, <1>2, <2>1, <2>3, <3>1 DEF CardOK
      <3> QED BY <1>2, <2>1, <3>1, <3>2, <3>3, <3>4 DEF CardInv, Compares, UpdatedIsNew
    <2> QED BY <2>2, <2>3
  <1>8. CASE CheckFails \/ GiveUp
    <2>1. /\ check' = "idle" /\ message' \in {"error", "processing"} /\ polls' = 0
          /\ previous' = 0 /\ present' = 0 /\ UNCHANGED <<shown, load, brought, clicks>>
      BY <1>8 DEF CheckFails, GiveUp, EndCheck
    <2>0. current' \in BOOLEAN /\ ~current'
      BY <1>8 DEF CheckFails, GiveUp
    <2>2. CardOK'
      BY <1>1, <1>2, <2>0, <2>1, DashboardAssumption DEF CardOK
    <2> QED BY <2>0, <2>2 DEF CardInv, Compares, UpdatedIsNew
  <1> QED BY <1>3, <1>4, <1>5, <1>6, <1>7, <1>8
          DEF DashboardNext, CardStep, dashboardVars

-----------------------------------------------------------------------------
(* The report.                                                             *)

Reports == [total : Nat, successes : Nat, failures : Nat, made : 0..3]

\* Each count is at most what the same query would find now, and no attempt
\* of the total is missing from the successes counted and the failures there
\* are.
ReportInv ==
    /\ report \in Reports
    /\ report.made = 1 => report.total <= Cardinality(rows)
    /\ report.made = 2 => /\ report.successes <= Newest
                          /\ report.total <= report.successes + Cardinality(Failures)
    /\ HealthAddsUp

LEMMA StepReport ==
  ASSUME IsFiniteSet(rows), ReportInv, Grown, [DashboardNext]_dashboardVars
  PROVE  ReportInv'
  <1>1. Tallied /\ Tallied'
    <2>1. (IsFiniteSet(rows) => Tallied)'
      BY Counted, PTL
    <2> QED BY <2>1, Counted DEF Grown
  <1>2. /\ Newest <= Newest' /\ Cardinality(Failures) <= Cardinality(Failures)'
        /\ Cardinality(rows) <= Cardinality(rows)'
    BY DEF Grown
  <1> USE DEF ReportInv, Reports, HealthAddsUp, Tallied
  <1>3. CASE UNCHANGED report
    BY <1>1, <1>2, <1>3
  <1>4. CASE HealthStep /\ UNCHANGED timedVars
    <2>0. UNCHANGED <<rows, Newest, Cardinality(Failures), Cardinality(rows)>>
      BY <1>4 DEF timedVars, vars, ledger, Newest, Successes, Failures
    <2>1. CASE CountTotal
      <3>1. report' = [total |-> Cardinality(rows), successes |-> 0, failures |-> 0, made |-> 1]
        BY <2>1 DEF CountTotal, NoReport
      <3> QED BY <1>1, <2>0, <3>1
    <2>2. CASE CountSuccesses
      <3>1. /\ report.made = 1
            /\ report' = [report EXCEPT !.successes = Newest, !.made = 2]
        BY <2>2 DEF CountSuccesses, Newest
      <3>2. /\ report'.total = report.total /\ report'.successes = Newest
            /\ report'.made = 2 /\ report' \in Reports
        <4> DEFINE half == [report EXCEPT !.successes = Newest]
        <4>1. /\ half \in Reports /\ half.total = report.total /\ half.successes = Newest
          BY <1>1, <3>1
        <4>2. report' = [half EXCEPT !.made = 2]
          BY <3>1
        <4> HIDE DEF half
        <4> QED BY <4>1, <4>2
      <3> QED BY <1>1, <2>0, <3>1, <3>2
    <2>3. CASE CountFailures
      <3>1. /\ report.made = 2
            /\ report' = [report EXCEPT !.failures = Cardinality(Failures), !.made = 3]
        BY <2>3 DEF CountFailures
      <3>2. /\ report'.total = report.total /\ report'.successes = report.successes
            /\ report'.failures = Cardinality(Failures) /\ report'.made = 3
            /\ report' \in Reports
        <4> DEFINE half == [report EXCEPT !.failures = Cardinality(Failures)]
        <4>1. /\ half \in Reports /\ half.total = report.total
              /\ half.successes = report.successes /\ half.failures = Cardinality(Failures)
          BY <1>1, <3>1
        <4>2. report' = [half EXCEPT !.made = 3]
          BY <3>1
        <4> HIDE DEF half
        <4> QED BY <4>1, <4>2
      <3> QED BY <1>1, <2>0, <3>1, <3>2
    <2>4. CASE Reported
      BY <1>1, <2>0, <2>4 DEF Reported, NoReport
    <2> QED BY <1>4, <2>1, <2>2, <2>3, <2>4 DEF HealthStep
  <1> QED BY <1>3, <1>4 DEF DashboardNext, Trigger, dashboardVars

-----------------------------------------------------------------------------
(* All of it.                                                              *)

VisitsOK == visits \in Nat /\ terms + visits \in 0..MaxVisits

\* The SMT encoding adds primed naturals only as integers.
LEMMA Sum == \A a, b \in Nat : a + b \in Nat
  OBVIOUS

LEMMA StepVisits ==
  ASSUME TypeOK, TypeOK', VisitsOK, [DashboardNext]_dashboardVars
  PROVE  VisitsOK'
  <1>1. terms \in Nat /\ terms' \in Nat
    BY DEF TypeOK
  <1>2. visits \in Nat /\ terms + visits \in Nat /\ terms + visits <= MaxVisits
    BY DashboardAssumption DEF VisitsOK, TypeOK
  <1>3. visits' \in Nat /\ terms' + visits' <= MaxVisits
    <2>1. CASE UNCHANGED <<terms, visits>>
      BY <1>2, <2>1
    <2>2. CASE terms' + visits <= MaxVisits /\ UNCHANGED visits
      BY <1>2, <2>2
    <2>3. CASE (OpenCard \/ CountTotal) /\ UNCHANGED terms
      <3>1. /\ terms' = terms /\ visits' = visits + 1 /\ terms + visits < MaxVisits
        BY <2>3 DEF OpenCard, CountTotal, Visit
      <3> QED BY <1>1, <1>2, <3>1, DashboardAssumption
    <2>4. UNCHANGED timedVars => UNCHANGED terms
      BY DEF timedVars, vars, faults
    <2>5. Trigger => UNCHANGED terms
      BY DEF Trigger, TriggerScrape, EnqueueJob, faults
    <2> QED BY <2>1, <2>2, <2>3, <2>4, <2>5
            DEF DashboardNext, CardStep, HealthStep, CountSuccesses, CountFailures, Reported,
                dashboardVars
  <1>4. terms' + visits' \in Nat
    BY <1>1, <1>3, Sum, Zenon
  <1> QED BY <1>3, <1>4, DashboardAssumption DEF VisitsOK

DashboardInv == TimedInv /\ IsFiniteSet(rows) /\ CardInv /\ ReportInv /\ VisitsOK

LEMMA InitDashboardInv == DashboardInit => DashboardInv
  <1> SUFFICES ASSUME DashboardInit PROVE DashboardInv
    OBVIOUS
  <1>1. TimedInv /\ rows = {} /\ terms = 0
    BY InitTimedInv DEF DashboardInit, TimedInit, Init
  <1>2. IsFiniteSet(rows)
    BY <1>1, FS_EmptySet
  <1>3. Newest \in Nat
    BY <1>2, Counted DEF Tallied
  <1>4. CardInv
    <2>1. ~current /\ current \in BOOLEAN
      BY DEF DashboardInit
    <2>2. CardOK
      BY <1>3, <2>1, DashboardAssumption DEF DashboardInit, CardOK
    <2> QED BY <2>1, <2>2 DEF CardInv, Compares, UpdatedIsNew
  <1>5. ReportInv
    BY DEF DashboardInit, ReportInv, Reports, NoReport, HealthAddsUp
  <1>6. VisitsOK
    BY <1>1, DashboardAssumption DEF DashboardInit, VisitsOK
  <1> QED BY <1>1, <1>2, <1>4, <1>5, <1>6 DEF DashboardInv

LEMMA StepDashboardInv ==
  DashboardInv /\ [DashboardNext]_dashboardVars => DashboardInv'
  <1> SUFFICES ASSUME DashboardInv, [DashboardNext]_dashboardVars PROVE DashboardInv'
    OBVIOUS
  <1> USE DEF DashboardInv
  <1>1. [TimedNext]_timedVars
    BY WorkerPart
  <1>2. TimedInv'
    BY <1>1, StepTimedInv
  <1>3. [Next]_vars
    BY <1>1, PipelinePart DEF TimedInv, ScraperInv
  <1>4. Grown
    BY <1>3, TablesGrow
  <1>5. TypeOK /\ TypeOK'
    BY <1>2 DEF TimedInv, Inv2, Inv1
  <1> QED BY <1>2, <1>4, <1>5, StepCard, StepReport, StepVisits DEF Grown

LEMMA DashboardInvariant == DashboardSpec => []DashboardInv
  BY InitDashboardInv, StepDashboardInv, PTL DEF DashboardSpec

\* Whoever looks at the card or asks for the report disturbs nothing: what is
\* proved of TimedWorker, and through it of JobPipeline, holds of Dashboard.
THEOREM LookingIsHarmless == DashboardSpec => TimedSpec
  <1>1. DashboardInit => TimedInit
    BY DEF DashboardInit
  <1> QED BY <1>1, WorkerPart, PTL DEF DashboardSpec, TimedSpec

\* Type correctness: no card shows, remembers or is being sent a snapshot
\* that is not in the table.
THEOREM DashboardTypeCorrect == DashboardSpec => []DashboardTypeOK
  <1>1. TimedInv => TimedTypeOK
    BY DEF TimedInv, TimedTypeOK, Inv2, Inv1, ScraperInv, NotifierInv, Clocks, Coupled
  <1>2. DashboardInv => DashboardTypeOK
    BY <1>1 DEF DashboardInv, DashboardTypeOK, CardInv, CardOK, ReportInv, Reports, VisitsOK
  <1> QED BY <1>2, DashboardInvariant, PTL

\* "Updated just now.", on a card that was up to date at the click, means a
\* scrape after the click, however many scrapes, polls and failures there are.
THEOREM UpdatesAreNew == DashboardSpec => []UpdatedIsNew
  <1>1. DashboardInv => UpdatedIsNew
    BY DEF DashboardInv, CardInv
  <1> QED BY <1>1, DashboardInvariant, PTL

\* However many attempts commit between the three queries of scrape_health,
\* none of the total is missing from the classes and none is made up.
THEOREM ReportsAddUp == DashboardSpec => []HealthAddsUp
  <1>1. DashboardInv => HealthAddsUp
    BY DEF DashboardInv, ReportInv
  <1> QED BY <1>1, DashboardInvariant, PTL
=============================================================================
