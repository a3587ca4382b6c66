----------------------------- MODULE Dashboard -----------------------------
(***************************************************************************)
(* What a user sees of the worker: a product card (ProductCard.tsx) with   *)
(* its history and its "Check now" button, and GET /stats/scrape-health    *)
(* (stats.py), over the tables that TimedWorker fills.                     *)
(*                                                                         *)
(* A history is abstracted to its newest snapshot, a snapshot to its place *)
(* among the product's, 0 where there is none: scraped_at undefined.  A    *)
(* request and its answer are one step, except in loadDetails, whose       *)
(* answer may be overtaken by what handleCheckNow does.                    *)
(***************************************************************************)
EXTENDS TimedWorker

CONSTANTS
    MaxPolls,    \* how often handleCheckNow asks for the history
    MaxClicks,   \* bound: clicks on "Check now"
    MaxVisits    \* bound: cards opened, reports asked for and SIGTERMs, together

ASSUME DashboardAssumption ==
    MaxPolls \in Nat \ {0} /\ MaxClicks \in Nat /\ MaxVisits \in Nat

VARIABLES
    shown,     \* history?.[0] of the card
    load,      \* loadDetails: "closed" (no card yet), "asked", "answered" (in flight), "done"
    brought,   \* the history in loadDetails' answer
    check,     \* handleCheckNow: "idle", "trigger", "poll"
    polls,     \* its attempt
    previous,  \* its previousLatest
    message,   \* checkMessage
    present,   \* history: the newest snapshot at the click
    current,   \* history: at the click the card had loaded and showed it
    clicks,    \* number of clicks so far
    report,    \* scrape_health: the counts it has made
    visits     \* number of cards opened and reports asked for so far

card == <<shown, load, brought, check, polls, previous, message, present, current, clicks>>
dashboardVars == <<timedVars, card, report, visits>>

Successes == {row \in rows : row.outcome = "Ok"}
Failures == rows \ Successes

\* The history's first row: snapshots commit together with their attempts.
Newest == Cardinality(Successes)

NoReport == [total |-> 0, successes |-> 0, failures |-> 0, made |-> 0]

DashboardInit ==
    /\ TimedInit
    /\ shown = 0 /\ load = "closed" /\ brought = 0
    /\ check = "idle" /\ polls = 0 /\ previous = 0 /\ message = "none"
    /\ present = 0 /\ current = FALSE /\ clicks = 0
    /\ report = NoReport /\ visits = 0

-----------------------------------------------------------------------------
(* The card.                                                               *)

\* A visit that the bound allows for.
Visit == terms + visits < MaxVisits /\ visits' = visits + 1

OpenCard ==
    /\ load = "closed"
    /\ Visit
    /\ load' = "asked"
    /\ UNCHANGED <<shown, brought, check, polls, previous, message, present, current, clicks>>

\* GET /products/{id}/history, the first of loadDetails' three requests.
ReadHistory ==
    /\ load = "asked"
    /\ load' = "answered" /\ brought' = Newest
    /\ UNCHANGED <<shown, check, polls, previous, message, present, current, clicks>>

\* allSettled: the answers are in, or the request for the history failed.
Settled ==
    /\ \/ load = "answered" /\ shown' = brought
       \/ load \in {"asked", "answered"} /\ UNCHANGED shown
    /\ load' = "done" /\ brought' = 0
    /\ UNCHANGED <<check, polls, previous, message, present, current, clicks>>

\* Mutant: previousLatest is looked up in a history that is not kept.
CheckNowForgetful ==
    /\ load # "closed" /\ check = "idle"
    /\ clicks < MaxClicks
    /\ clicks' = clicks + 1
    /\ check' = "trigger" /\ message' = "none"
    /\ present' = Newest /\ current' = (load = "done" /\ shown = Newest)
    /\ UNCHANGED <<shown, load, brought, polls, previous>>

\* handleCheckNow starts; the button takes no second click until it ends.
CheckNow ==
    /\ load # "closed" /\ check = "idle"
    /\ clicks < MaxClicks
    /\ clicks' = clicks + 1
    /\ check' = "trigger" /\ message' = "none"
    /\ previous' = shown
    /\ present' = Newest /\ current' = (load = "done" /\ shown = Newest)
    /\ UNCHANGED <<shown, load, brought, polls>>

Trigger ==
    /\ check = "trigger"
    /\ TriggerScrape
    /\ check' = "poll" /\ message' = "queued"
    /\ UNCHANGED <<shown, load, brought, polls, previous, present, current, clicks>>

\* handleCheckNow returns.
EndCheck(text) == check' = "idle" /\ message' = text /\ polls' = 0 /\ previous' = 0

\* A request of handleCheckNow's fails, or its answer gets lost.
CheckFails ==
    /\ check # "idle"
    /\ EndCheck("error")
    /\ present' = 0 /\ current' = FALSE
    /\ UNCHANGED <<shown, load, brought, clicks>>

\* GET history three seconds later, which brings something else or not.
Poll ==
    /\ check = "poll"
    /\ polls < MaxPolls
    /\ IF Newest # previous
       THEN shown' = Newest /\ EndCheck("updated")
       ELSE polls' = polls + 1 /\ UNCHANGED <<shown, message, check, previous>>
    /\ UNCHANGED <<load, brought, present, current, clicks>>

GiveUp ==
    /\ check = "poll"
    /\ polls = MaxPolls
    /\ EndCheck("processing")
    /\ present' = 0 /\ current' = FALSE
    /\ UNCHANGED <<shown, load, brought, clicks>>

CardStep ==
    \/ OpenCard
    \/ (ReadHistory \/ Settled \/ CheckNow \/ CheckFails \/ Poll \/ GiveUp) /\ UNCHANGED visits

-----------------------------------------------------------------------------
(* scrape_health: three counts in three queries.                           *)

CountTotal ==
    /\ report.made = 0
    /\ Visit
    /\ report' = [NoReport EXCEPT !.total = Cardinality(rows), !.made = 1]

CountSuccesses ==
    /\ report.made = 1
    /\ report' = [report EXCEPT !.successes = Cardinality(Successes), !.made = 2]
    /\ UNCHANGED visits

\* Mutant: the groups are counted, not what is in them.
CountFailureTypes ==
    /\ report.made = 2
    /\ report' = [report EXCEPT !.failures = Cardinality({row.outcome : row \in Failures}),
                                !.made = 3]
    /\ UNCHANGED visits

CountFailures ==
    /\ report.made = 2
    /\ report' = [report EXCEPT !.failures = Cardinality(Failures), !.made = 3]
    /\ UNCHANGED visits

\* The report is out.
Reported == report.made = 3 /\ report' = NoReport /\ UNCHANGED visits

HealthStep == CountTotal \/ CountSuccesses \/ CountFailures \/ Reported

-----------------------------------------------------------------------------
DashboardNext ==
    \/ TimedNext /\ terms' + visits <= MaxVisits /\ UNCHANGED <<card, report, visits>>
    \/ CardStep /\ UNCHANGED <<timedVars, report>>
    \/ Trigger /\ UNCHANGED <<report, visits>>
    \/ HealthStep /\ UNCHANGED <<timedVars, card>>

DashboardSpec == DashboardInit /\ [][DashboardNext]_dashboardVars

-----------------------------------------------------------------------------
(* Properties.                                                             *)

DashboardTypeOK ==
    /\ TimedTypeOK
    /\ load \in {"closed", "asked", "answered", "done"}
    /\ check \in {"idle", "trigger", "poll"}
    /\ message \in {"none", "queued", "updated", "processing", "error"}
    /\ {shown, brought, previous, present} \subseteq 0..Newest
    /\ polls \in 0..MaxPolls /\ clicks \in 0..MaxClicks /\ terms + visits \in 0..MaxVisits
    /\ current \in BOOLEAN
    /\ report.made \in 0..3

\* "Updated just now." on a card that had its history loaded, up to date, at
\* the click: what it shows was scraped after the click.  (A card whose
\* history was missing or behind says so of an earlier scrape.)
UpdatedIsNew == message = "updated" /\ current => shown > present

\* The three queries of scrape_health each see the table at their own time:
\* no attempt in the total is missing from the classes, and no class counts
\* one that never was.
HealthAddsUp ==
    report.made = 3 =>
        /\ report.total <= report.successes + report.failures
        /\ report.successes + report.failures <= Cardinality(rows)
=============================================================================
