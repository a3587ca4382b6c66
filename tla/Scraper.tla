------------------------------ MODULE Scraper ------------------------------
(***************************************************************************)
(* worker_app/scraper.py in one worker process: the polite delay, a        *)
(* browser for each page, and the exception class that each way to fail    *)
(* ends in.  The URLs of jobs come normalized out of the products table,   *)
(* so _validate_url passes; worker_loop scrapes one page at a time, so     *)
(* nobody ever waits for _delay_lock.                                      *)
(***************************************************************************)
EXTENDS Clock

CONSTANTS
    PoliteDelay,     \* POLITE_DELAY_SECONDS
    LaunchTimeout,   \* the longest that Chromium may take to start
    PageTimeout      \* PAGE_TIMEOUT_MS

ASSUME ScraperAssumption ==
    PoliteDelay \in Nat /\ LaunchTimeout \in Nat /\ PageTimeout \in Nat

VARIABLES
    scrape,    \* where scrape_product is
    browser,   \* Chromium: "none", "running"
    permit,    \* time since _last_request_at; PoliteDelay if longer or None
    visit,     \* history: time since page.goto was last called, likewise
    verdict    \* the class it raised, or "Ok"

scraper == <<scrape, browser, permit, visit, verdict>>

ScrapeErrors == {"Retryable", "Selector", "Terminal"}
Verdicts == ScrapeErrors \cup {"Ok", "Unclassified"}

ScraperInit ==
    /\ scrape = "out" /\ browser = "none" /\ verdict = "Ok"
    /\ permit = PoliteDelay /\ visit = PoliteDelay

-----------------------------------------------------------------------------
At(place) == scrape = place

GoTo(place) == scrape' = place /\ waited' = 0

\* The try block is left with this class; its finally closes the browser.
LeaveWith(class) == verdict' = class /\ GoTo("close")

StartScrape == At("out") /\ GoTo("delay") /\ UNCHANGED <<browser, permit, visit, verdict>>

\* Mutant: _last_request_at keeps the time read before the sleep.
TakeTurnStale ==
    /\ At("delay")
    /\ permit = PoliteDelay
    /\ permit' = IF waited < PoliteDelay THEN waited ELSE PoliteDelay
    /\ GoTo("launch")
    /\ UNCHANGED <<browser, visit, verdict>>

\* _respect_polite_delay has slept what remained of the delay.
TakeTurn ==
    /\ At("delay")
    /\ permit = PoliteDelay
    /\ permit' = 0
    /\ GoTo("launch")
    /\ UNCHANGED <<browser, visit, verdict>>

\* chromium.launch raises: there is no browser to close yet.
LaunchFails ==
    /\ At("launch")
    /\ verdict' = "Unclassified"
    /\ GoTo("done")
    /\ UNCHANGED <<browser, permit, visit>>

\* The browser is up; new_page raises, or page.goto is called.
OpenPage ==
    /\ At("launch")
    /\ browser' = "running"
    /\ \/ LeaveWith("Unclassified") /\ UNCHANGED visit
       \/ GoTo("goto") /\ visit' = 0 /\ UNCHANGED verdict
    /\ UNCHANGED permit

\* No response: a timeout, a network error, or goto returns None.
NoResponse == At("goto") /\ LeaveWith("Retryable") /\ UNCHANGED <<browser, permit, visit>>

Statuses == {"ok", "gone", "limited", "server_error", "client_error"}

\* _raise_for_status, then the wait for the title.
Respond(status) ==
    /\ At("goto")
    /\ CASE status \in {"gone", "client_error"}    -> LeaveWith("Terminal")
         [] status \in {"limited", "server_error"} -> LeaveWith("Retryable")
         [] status = "ok"                          -> GoTo("title") /\ UNCHANGED verdict
    /\ UNCHANGED <<browser, permit, visit>>

\* wait_for_selector returns.
Rendered ==
    /\ \/ At("title") /\ GoTo("price")
       \/ At("price") /\ GoTo("read")
    /\ UNCHANGED <<browser, permit, visit, verdict>>

\* Mutant: the timeout of wait_for_selector goes past the handlers that
\* close the browser.
NotRenderedUnclosed ==
    /\ At("title") \/ At("price")
    /\ waited = PageTimeout
    /\ verdict' = "Selector"
    /\ GoTo("done")
    /\ UNCHANGED <<browser, permit, visit>>

NotRendered ==
    /\ At("title") \/ At("price")
    /\ waited = PageTimeout
    /\ LeaveWith("Selector")
    /\ UNCHANGED <<browser, permit, visit>>

\* How reading the texts ends: _parse_currency or _parse_price finds none.
Readings == {"Ok", "Selector"}

\* Title, price and stock are read, or an element is gone again.
ReadPage ==
    /\ At("read")
    /\ \E class \in Readings : LeaveWith(class)
    /\ UNCHANGED <<browser, permit, visit>>

\* The page or the browser breaks after the response: an error of
\* Playwright's that nothing turns into a ScrapeError.
PageBreaks ==
    /\ At("title") \/ At("price") \/ At("read")
    /\ LeaveWith("Unclassified")
    /\ UNCHANGED <<browser, permit, visit>>

\* browser.close(); an error it raises takes the place of the verdict.
Close ==
    /\ At("close")
    /\ browser' = "none"
    /\ verdict' \in {verdict, "Unclassified"}
    /\ GoTo("done")
    /\ UNCHANGED <<permit, visit>>

\* process_job has the result or the exception.
EndScrape == At("done") /\ GoTo("out") /\ UNCHANGED <<browser, permit, visit, verdict>>

\* The process ends; _last_request_at goes with it, and so does Chromium.
LoseScrape ==
    /\ GoTo("out")
    /\ browser' = "none" /\ verdict' = "Ok"
    /\ permit' = PoliteDelay /\ visit' = PoliteDelay

ScraperStep ==
    \/ TakeTurn \/ LaunchFails \/ OpenPage \/ NoResponse
    \/ \E status \in Statuses : Respond(status)
    \/ Rendered \/ NotRendered \/ ReadPage \/ PageBreaks \/ Close

-----------------------------------------------------------------------------
(* Time.                                                                   *)

\* scrape_product may stay where it is.
ScraperWaits ==
    \/ At("delay") /\ permit < PoliteDelay
    \/ At("launch") /\ waited < LaunchTimeout
    \/ (At("goto") \/ At("title") \/ At("price")) /\ waited < PageTimeout

Later(t) == IF t < PoliteDelay THEN t + 1 ELSE t

ScraperAges ==
    /\ permit' = Later(permit) /\ visit' = Later(visit)
    /\ UNCHANGED <<scrape, browser, verdict>>

-----------------------------------------------------------------------------
(* Properties.                                                             *)

\* Type correctness; a browser runs from the launch to the close and never
\* outlives its scrape, whichever way that ends.
ScraperTypeOK ==
    /\ scrape \in {"out", "delay", "launch", "goto", "title", "price", "read", "close", "done"}
    /\ browser = IF scrape \in {"goto", "title", "price", "read", "close"}
                 THEN "running" ELSE "none"
    /\ permit \in 0..PoliteDelay /\ visit \in 0..PoliteDelay
    /\ verdict \in Verdicts
    /\ waited \in Nat

\* config.py: polite_delay_seconds is the "minimum seconds between scrape
\* requests made by the worker".  The delay is kept between permissions and
\* the browser starts after the permission, so what holds between requests
\* is the delay less the time a launch may take.
RequestSpacing ==
    [][scrape = "launch" /\ scrape' = "goto" => visit + LaunchTimeout >= PoliteDelay]_scraper
=============================================================================
