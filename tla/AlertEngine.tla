---------------------------- MODULE AlertEngine ----------------------------
(***************************************************************************)
(* shared/alerts.py: what evaluate_alerts does for one product after each  *)
(* of its scrapes, in the session of whichever worker scraped it, while    *)
(* other workers do the same, rules come and go through the API and        *)
(* competitors' prices move.                                               *)
(*                                                                         *)
(* A session works at READ COMMITTED: each query sees what is committed at *)
(* that moment, its own writes reach the tables at its one commit, and a   *)
(* failure before it rolls everything back.  Notifications leave at once.  *)
(* Prices are integers and percentages are compared by cross-multiplying.  *)
(***************************************************************************)
EXTENDS Integers, Sequences, FiniteSets

CONSTANTS
    Workers,         \* worker processes, each evaluating at most once at a time
    Rules,           \* ids of alert rules on the product
    Rivals,          \* products that can be linked as its competitors
    Kinds,           \* the rule_types in use
    Prices,          \* prices a scrape can return
    Stocks,          \* values of in_stock a scrape can return
    ThresholdPrice,  \* AlertRule.threshold_price
    ThresholdPct,    \* AlertRule.threshold_pct
    MaterialPct,     \* settings.alert_material_change_pct
    Cooldown,        \* settings.alert_cooldown_minutes, in ticks
    MaxScrapes,      \* bound: successful scrapes of the product
    MaxClock,        \* bound: ticks of the clock
    MaxRivalMoves,   \* bound: changes of competitors' prices or links
    MaxFailures      \* bound: deaths of a worker, out of the blue, in a session

RuleTypes == {"undercut", "price_below", "price_drop_pct", "back_in_stock"}

NoPrice == 0         \* a rival that is not linked or was never scraped
NoRival == "none"    \* competitor_product_id NULL
Unresolved == -1     \* resolved_at NULL

ASSUME ConstantsAssumption ==
    /\ IsFiniteSet(Workers) /\ IsFiniteSet(Rules)
    /\ Kinds \subseteq RuleTypes
    /\ Prices \subseteq Nat \ {0} /\ Stocks \subseteq BOOLEAN
    /\ ThresholdPrice \in Nat /\ ThresholdPct \in Nat /\ MaterialPct \in Nat
    /\ Cooldown \in Nat
    /\ NoRival \notin Rivals
    /\ MaxScrapes \in Nat /\ MaxClock \in Nat
    /\ MaxRivalMoves \in Nat /\ MaxFailures \in Nat

Snapshot == [price : Prices, in_stock : Stocks]

\* id: the primary key; snap: the snapshot evaluated, a history field.
Event == [id : Nat \ {0}, rule : Rules, triggered_at : Nat,
          resolved_at : Nat \cup {Unresolved}, trigger_price : Prices,
          competitor : Rivals \cup {NoRival}, competitor_price : Prices \cup {NoPrice},
          delivery : {"sent", "failed"}, snap : Nat]

VARIABLES
    clock,     \* datetime.now()
    snaps,     \* the product's price_snapshots, oldest first
    rivals,    \* each rival's latest price, if it is linked
    rules,     \* alert_rules: each rule's rule_type, "none" before it exists
    deleted,   \* the rules deleted since
    events,    \* alert_events, committed
    ids,       \* the sequence behind AlertEvent.id
    sent,      \* history: ids of events whose alert was delivered
    owed,      \* history: rules whose fresh trigger the cooldown held back
    session,   \* each worker's evaluation session
    moves,     \* changes of rivals so far
    failures   \* sessions that died so far

vars == <<clock, snaps, rivals, rules, deleted, events, ids, sent, owed, session, moves, failures>>
world == <<clock, snaps, rivals, rules, deleted, moves>>

Active == {r \in Rules : rules[r] # "none"} \ deleted

-----------------------------------------------------------------------------
(* Queries.                                                                *)

\* The snapshots a session evaluates: it keeps the latest one's position.
Latest(s) == snaps[s.snap]
HasPrevious(s) == s.snap > 1
Previous(s) == snaps[s.snap - 1]

\* ORDER BY triggered_at DESC LIMIT 1, ties in any order; empty for no rows.
MostRecent(S) ==
    {{e} : e \in {e \in S : \A f \in S : f.triggered_at <= e.triggered_at}}
    \cup (IF S = {} THEN {{}} ELSE {})

EventsOf(r) == {e \in events : e.rule = r}

\* Mutant: _open_event without its resolved_at IS NULL.
OpenEventsUnfiltered(r) == EventsOf(r)

OpenEvents(r) == {e \in EventsOf(r) : e.resolved_at = Unresolved}

\* Mutant: the last tick of the cooldown is not counted.
InCooldownShort(recent, now) == \E e \in recent : now - e.triggered_at < Cooldown - 1

InCooldown(recent, now) == \E e \in recent : now - e.triggered_at < Cooldown

-----------------------------------------------------------------------------
(* Conditions.                                                             *)

\* _pct_change(old, new) > alert_material_change_pct; a move away from zero
\* always is.
PctMoved(old, new) ==
    LET abs(n) == IF n < 0 THEN -n ELSE n
    IN  IF old = 0 THEN new # 0
        ELSE abs(new - old) * 100 > MaterialPct * abs(old)

Linked == {c \in Rivals : rivals[c] # NoPrice}
Cheapest == {c \in Linked : \A d \in Linked : rivals[c] <= rivals[d]}

Condition(price, rival, rival_price) ==
    [trigger_price |-> price, competitor |-> rival, competitor_price |-> rival_price]

\* The condition of rule r, if it holds: a set of none or one, or of one per
\* equally cheap rival, whichever the loop over competitors meets first.
\* `open' is the set of the open event found, if any.
Conditions(r, s, open) ==
    LET latest == Latest(s)
        alone == {Condition(latest.price, NoRival, NoPrice)}
    IN  CASE rules[r] = "undercut" ->
                {Condition(latest.price, c, rivals[c]) :
                    c \in {c \in Cheapest : rivals[c] < latest.price}}
          [] rules[r] = "price_below" ->
                IF latest.price < ThresholdPrice THEN alone ELSE {}
          [] rules[r] = "back_in_stock" ->
                IF /\ latest.in_stock
                   /\ open # {} \/ (HasPrevious(s) /\ ~Previous(s).in_stock)
                THEN alone ELSE {}
          [] rules[r] = "price_drop_pct" ->
                IF /\ HasPrevious(s)
                   /\ (Previous(s).price - latest.price) * 100
                        > ThresholdPct * Previous(s).price
                THEN alone ELSE {}

\* Mutant: back_in_stock treats a change of price as news.
MateriallyChangedOnPrice(r, e, cond) == cond.trigger_price # e.trigger_price

MateriallyChanged(r, e, cond) ==
    CASE rules[r] = "undercut" ->
            \/ cond.competitor # e.competitor
            \/ PctMoved(e.trigger_price - e.competitor_price,
                        cond.trigger_price - cond.competitor_price)
      [] rules[r] = "price_below" ->
            PctMoved(ThresholdPrice - e.trigger_price,
                     ThresholdPrice - cond.trigger_price)
      [] OTHER -> FALSE

-----------------------------------------------------------------------------
Idle == [pc |-> "idle"]

Init ==
    /\ clock = 0 /\ snaps = <<>> /\ rivals = [c \in Rivals |-> NoPrice]
    /\ rules = [r \in Rules |-> "none"] /\ deleted = {}
    /\ events = {} /\ ids = 0 /\ sent = {} /\ owed = {}
    /\ session = [w \in Workers |-> Idle]
    /\ moves = 0 /\ failures = 0

-----------------------------------------------------------------------------
(* The world around the sessions.                                          *)

Tick ==
    /\ clock < MaxClock
    /\ clock' = clock + 1
    /\ UNCHANGED <<snaps, rivals, rules, deleted, events, ids, sent, owed, session, moves, failures>>

\* A rival is linked, scraped at another price, or unlinked.
RivalMoves(c, price) ==
    /\ moves < MaxRivalMoves
    /\ rivals[c] # price
    /\ moves' = moves + 1
    /\ rivals' = [rivals EXCEPT ![c] = price]
    /\ UNCHANGED <<clock, snaps, rules, deleted, events, ids, sent, owed, session, failures>>

\* POST .../alert-rules.
CreateRule(r, kind) ==
    /\ rules[r] = "none"
    /\ rules' = [rules EXCEPT ![r] = kind]
    /\ UNCHANGED <<clock, snaps, rivals, deleted, events, ids, sent, owed, session, moves, failures>>

Writing(w) == session[w].pc # "idle"

\* Mutant: no ON DELETE CASCADE from alert_rules to alert_events.
DeleteRuleAlone(r) ==
    /\ r \in Active
    /\ \A w \in Workers : Writing(w) => \A e \in session[w].opened : e.rule # r
    /\ deleted' = deleted \cup {r}
    /\ UNCHANGED <<clock, snaps, rivals, rules, events, ids, sent, owed, session, moves, failures>>

\* DELETE .../alert-rules/{id}: the rule's events go with it.  It waits for
\* the lock of a session that has inserted an event of the rule.
DeleteRule(r) ==
    /\ r \in Active
    /\ \A w \in Workers : Writing(w) => \A e \in session[w].opened : e.rule # r
    /\ deleted' = deleted \cup {r}
    /\ events' = events \ EventsOf(r)
    /\ UNCHANGED <<clock, snaps, rivals, rules, ids, sent, owed, session, moves, failures>>

-----------------------------------------------------------------------------
(* evaluate_alerts in worker w's session.                                  *)

\* Mutant: the evaluation is a task of its own, cut short by the next scrape.
ScrapeUnawaited(w, price, in_stock) ==
    /\ Len(snaps) < MaxScrapes
    /\ snaps' = Append(snaps, [price |-> price, in_stock |-> in_stock])
    /\ session' = [session EXCEPT ![w] =
            [pc |-> "begin", snap |-> 0, now |-> 0, todo |-> {}, rule |-> {}, open |-> {},
             cond |-> {}, resolved |-> {}, opened |-> {}, held |-> {}]]
    /\ UNCHANGED <<clock, rivals, rules, deleted, events, ids, sent, owed, moves, failures>>

\* _handle_success commits the snapshot.
Scrape(w, price, in_stock) ==
    /\ ~Writing(w)
    /\ Len(snaps) < MaxScrapes
    /\ snaps' = Append(snaps, [price |-> price, in_stock |-> in_stock])
    /\ session' = [session EXCEPT ![w] =
            [pc |-> "begin", snap |-> 0, now |-> 0, todo |-> {}, rule |-> {}, open |-> {},
             cond |-> {}, resolved |-> {}, opened |-> {}, held |-> {}]]
    /\ UNCHANGED <<clock, rivals, rules, deleted, events, ids, sent, owed, moves, failures>>

\* The two latest snapshots, the active rules and the time are read.
Begin(w) ==
    /\ session[w].pc = "begin"
    /\ session' = [session EXCEPT ![w].pc = "next", ![w].snap = Len(snaps),
                                  ![w].todo = Active, ![w].now = clock]
    /\ UNCHANGED <<world, events, ids, sent, owed, failures>>

\* _open_event of the loop's next rule.
ReadOpenEvent(w, r) ==
    /\ session[w].pc = "next"
    /\ r \in session[w].todo
    /\ \E open \in MostRecent(OpenEvents(r)) :
        session' = [session EXCEPT ![w].pc = "judge", ![w].todo = @ \ {r},
                                   ![w].rule = {r}, ![w].open = open]
    /\ UNCHANGED <<world, events, ids, sent, owed, failures>>

\* The condition does not hold: the open event, if any, is resolved (not for
\* price_drop_pct, which has none).
Resolve(w) ==
    LET s == session[w] IN
    /\ s.pc = "judge"
    /\ \A r \in s.rule : Conditions(r, s, s.open) = {}
    /\ session' = [session EXCEPT ![w].pc = "next",
                                  ![w].resolved = @ \cup {e.id : e \in s.open}]
    /\ UNCHANGED <<world, events, ids, sent, owed, failures>>

\* It holds and the open event already says so.
KeepOpen(w) ==
    LET s == session[w] IN
    /\ s.pc = "judge"
    /\ \E r \in s.rule, e \in s.open : \E cond \in Conditions(r, s, s.open) :
        ~MateriallyChanged(r, e, cond)
    /\ session' = [session EXCEPT ![w].pc = "next", ![w].held = @ \cup s.rule]
    /\ UNCHANGED <<world, events, ids, sent, owed, failures>>

\* It holds and is news: a fresh trigger or a material change.
Judge(w) ==
    LET s == session[w] IN
    /\ s.pc = "judge"
    /\ \E r \in s.rule : \E cond \in Conditions(r, s, s.open) :
        /\ \A e \in s.open : MateriallyChanged(r, e, cond)
        /\ session' = [session EXCEPT ![w].pc = "trigger", ![w].cond = {cond},
                                      ![w].held = @ \cup s.rule]
    /\ UNCHANGED <<world, events, ids, sent, owed, failures>>

\* Mutant: the old event is resolved before the cooldown is looked at.
SuppressResolving(w) ==
    LET s == session[w] IN
    /\ s.pc = "trigger"
    /\ \E r \in s.rule : \E recent \in MostRecent(EventsOf(r)) : InCooldown(recent, s.now)
    /\ session' = [session EXCEPT ![w].pc = "next",
                                  ![w].resolved = @ \cup {e.id : e \in s.open}]
    /\ UNCHANGED <<world, events, ids, sent, owed, failures>>

\* Mutant: the notification goes out although the cooldown drops the event.
SuppressNotifying(w) ==
    LET s == session[w] IN
    /\ s.pc = "trigger"
    /\ \E r \in s.rule : \E recent \in MostRecent(EventsOf(r)) : InCooldown(recent, s.now)
    /\ session' = [session EXCEPT ![w].pc = "next"]
    /\ ids' = ids + 1
    /\ sent' = sent \cup {ids + 1}
    /\ UNCHANGED <<world, events, owed, failures>>

\* _most_recent_event says the rule fired within the cooldown.
Suppress(w) ==
    LET s == session[w] IN
    /\ s.pc = "trigger"
    /\ \E r \in s.rule : \E recent \in MostRecent(EventsOf(r)) : InCooldown(recent, s.now)
    /\ session' = [session EXCEPT ![w].pc = "next"]
    /\ owed' = IF s.open = {} THEN owed \cup s.rule ELSE owed
    /\ UNCHANGED <<world, events, ids, sent, failures>>

NewEvent(s, r, cond, delivery) ==
    [id |-> ids + 1, rule |-> r, triggered_at |-> s.now,
     resolved_at |-> IF rules[r] = "price_drop_pct" THEN s.now ELSE Unresolved,
     trigger_price |-> cond.trigger_price, competitor |-> cond.competitor,
     competitor_price |-> cond.competitor_price, delivery |-> delivery, snap |-> s.snap]

\* Mutant: the event that is replaced stays open.
FireKeeping(w, delivery) ==
    LET s == session[w] IN
    /\ s.pc = "trigger"
    /\ \E r \in s.rule \ deleted, cond \in s.cond :
        /\ \E recent \in MostRecent(EventsOf(r)) : ~InCooldown(recent, s.now)
        /\ session' = [session EXCEPT
                ![w].pc = "next",
                ![w].opened = @ \cup {NewEvent(s, r, cond, delivery)}]
    /\ ids' = ids + 1
    /\ sent' = IF delivery = "sent" THEN sent \cup {ids + 1} ELSE sent
    /\ UNCHANGED <<world, events, owed, failures>>

\* Outside the cooldown: the open event, if any, is resolved, a new one is
\* inserted (its rule must still exist) and the notification is attempted.
Fire(w, delivery) ==
    LET s == session[w] IN
    /\ s.pc = "trigger"
    /\ \E r \in s.rule \ deleted, cond \in s.cond :
        /\ \E recent \in MostRecent(EventsOf(r)) : ~InCooldown(recent, s.now)
        /\ session' = [session EXCEPT
                ![w].pc = "next",
                ![w].resolved = @ \cup {e.id : e \in s.open},
                ![w].opened = @ \cup {NewEvent(s, r, cond, delivery)}]
    /\ ids' = ids + 1
    /\ sent' = IF delivery = "sent" THEN sent \cup {ids + 1} ELSE sent
    /\ owed' = owed \ s.rule
    /\ UNCHANGED <<world, events, failures>>

\* Every event the session resolves still has its row.
RowsExist(s) == s.resolved \subseteq {e.id : e \in events}

\* Mutant: an event is resolved at the time of the commit.
CommitLate(w) ==
    LET s == session[w] IN
    /\ s.pc = "next" /\ s.todo = {}
    /\ RowsExist(s)
    /\ events' = {IF e.id \in s.resolved THEN [e EXCEPT !.resolved_at = clock] ELSE e :
                    e \in events} \cup s.opened
    /\ session' = [session EXCEPT ![w] = Idle]
    /\ UNCHANGED <<world, ids, sent, owed, failures>>

Commit(w) ==
    LET s == session[w] IN
    /\ s.pc = "next" /\ s.todo = {}
    /\ RowsExist(s)
    /\ events' = {IF e.id \in s.resolved THEN [e EXCEPT !.resolved_at = s.now] ELSE e :
                    e \in events} \cup s.opened
    /\ session' = [session EXCEPT ![w] = Idle]
    /\ UNCHANGED <<world, ids, sent, owed, failures>>

\* The foreign key or the vanished row of a rule deleted meanwhile: the
\* error leaves evaluate_alerts, ends the worker and rolls back.
Conflict(w) ==
    LET s == session[w] IN
    /\ \/ s.pc = "trigger" /\ s.rule \subseteq deleted
       \/ s.pc = "next" /\ s.todo = {} /\ ~RowsExist(s)
    /\ session' = [session EXCEPT ![w] = Idle]
    /\ failures' = failures + 1
    /\ UNCHANGED <<world, events, ids, sent, owed>>

\* The worker dies in mid-session.
Die(w) ==
    /\ Writing(w)
    /\ failures < MaxFailures
    /\ session' = [session EXCEPT ![w] = Idle]
    /\ failures' = failures + 1
    /\ UNCHANGED <<world, events, ids, sent, owed>>

-----------------------------------------------------------------------------
Evaluate(w) ==
    \/ Begin(w)
    \/ \E r \in Rules : ReadOpenEvent(w, r)
    \/ Resolve(w) \/ KeepOpen(w) \/ Judge(w) \/ Suppress(w)
    \/ \E delivery \in {"sent", "failed"} : Fire(w, delivery)
    \/ Commit(w) \/ Conflict(w)

Next ==
    \/ Tick
    \/ \E c \in Rivals, price \in Prices \cup {NoPrice} : RivalMoves(c, price)
    \/ \E r \in Rules : DeleteRule(r) \/ \E kind \in Kinds : CreateRule(r, kind)
    \/ \E w \in Workers :
        \/ \E price \in Prices, in_stock \in Stocks : Scrape(w, price, in_stock)
        \/ Evaluate(w)
        \/ Die(w)

Spec == Init /\ [][Next]_vars

-----------------------------------------------------------------------------
(* Properties.                                                             *)

Evaluation ==
    [pc : {"begin", "next", "judge", "trigger"}, snap : Nat, now : Nat,
     todo : SUBSET Rules, rule : {{}} \cup {{r} : r \in Rules}, open : SUBSET Event,
     cond : SUBSET [trigger_price : Prices, competitor : Rivals \cup {NoRival},
                    competitor_price : Prices \cup {NoPrice}],
     resolved : SUBSET Nat, opened : SUBSET Event, held : SUBSET Rules]

\* Type correctness; a session past its start stands on a snapshot, looks at
\* one rule, and has one condition in hand when it is about to fire.
TypeOK ==
    /\ clock \in 0..MaxClock
    /\ snaps \in Seq(Snapshot)
    /\ rivals \in [Rivals -> Prices \cup {NoPrice}]
    /\ rules \in [Rules -> Kinds \cup {"none"}]
    /\ deleted \subseteq {r \in Rules : rules[r] # "none"}
    /\ events \subseteq Event
    /\ ids \in Nat
    /\ \A e \in events : e.id <= ids /\ e.rule \notin deleted
    /\ sent \subseteq 1..ids
    /\ owed \subseteq Rules
    /\ session \in [Workers -> {Idle} \cup Evaluation]
    /\ \A w \in Workers : LET s == session[w] IN
        /\ s.pc \in {"next", "judge", "trigger"} => s.snap \in 1..Len(snaps)
        /\ s.pc \in {"judge", "trigger"} => s.rule # {} /\ Cardinality(s.open) <= 1
        /\ s.pc = "trigger" => Cardinality(s.cond) = 1

\* The cooldown as the code keeps it with several workers: in any cooldown
\* window a rule opens at most one event per worker.  With one worker this is
\* the docstring's "suppressed if this rule already opened an AlertEvent
\* within the cooldown window".
CooldownPerWorker ==
    \A e \in events :
        Cardinality({f \in EventsOf(e.rule) :
                        f.triggered_at - e.triggered_at \in 0..(Cooldown - 1)})
            <= Cardinality(Workers)

\* One worker at a time: never two live alerts for one rule.
OneOpen == \A r \in Rules : Cardinality(OpenEvents(r)) <= 1

Committing(w) == session[w].pc = "next" /\ session'[w] = Idle /\ failures' = failures

\* What is open after the commit of w's session, of each rule that is there.
LeavesOpen(w) ==
    LET s == session[w] IN
    \A r \in Rules \ deleted :
        /\ r \notin s.held => OpenEvents(r)' = {}
        /\ r \in s.held /\ rules[r] # "price_drop_pct" =>
            \/ OpenEvents(r)' # {}
            \/ /\ OpenEvents(r) = {}
               /\ \E recent \in MostRecent(EventsOf(r)) : InCooldown(recent, s.now)

CommitsAgree == \A w \in Workers : Committing(w) => LeavesOpen(w)

\* One worker at a time: when an evaluation commits, a rule whose condition
\* failed has no open event left; one whose condition held has an open event,
\* unless it had none and the cooldown forbade one.  In particular the
\* cooldown never closes an alert "with nothing to replace it".
AgreesWithCondition == [][CommitsAgree]_vars

\* One worker at a time: a continuous in-stock streak is announced once, so
\* between two back_in_stock alerts the product was seen out of stock.
OneAlertPerStreak ==
    \A e, f \in events :
        /\ e.rule = f.rule
        /\ rules[e.rule] = "back_in_stock"
        /\ e.id < f.id
        => \E i \in e.snap..f.snap : ~snaps[i].in_stock

\* One worker at a time: a rule's alerts follow each other, each resolved by
\* the time the next one is triggered, although an alert is dated when its
\* evaluation began and written when it ends.
AlertsInTurn ==
    \A e, f \in events :
        e.rule = f.rule /\ e.id < f.id => e.resolved_at \in 0..f.triggered_at

\* One worker at a time: an evaluation, query by query, with its crashes and
\* conflicts and the rules deleted under it, is one write to an alert log.
Log == INSTANCE AlertLog WITH
    log <- [r \in Rules |->
                {[id |-> e.id, from |-> e.triggered_at, to |-> e.resolved_at] :
                    e \in EventsOf(r)}],
    now <- clock

ImplementsAlertLog == Log!Spec

-----------------------------------------------------------------------------
(* What the documentation says and the code does not keep.                 *)

\* alerts.py's docstring: "even a fresh or materially-changed trigger is
\* suppressed if this rule already opened an AlertEvent within the cooldown
\* window" -- whichever worker evaluates it.
CooldownRespected ==
    \A e, f \in events :
        /\ e.rule = f.rule
        /\ e.id # f.id
        => \/ e.triggered_at - f.triggered_at >= Cooldown
           \/ f.triggered_at - e.triggered_at >= Cooldown

\* alerts.py's docstring: while under the threshold, price_below alerts again
\* only when the price moved "further below the threshold".
OnlyFurtherBelow ==
    \A e, f \in events :
        /\ e.rule = f.rule
        /\ rules[e.rule] = "price_below"
        /\ e.snap < f.snap
        /\ \A i \in e.snap..f.snap : snaps[i].price < ThresholdPrice
        => f.trigger_price < e.trigger_price

\* The comment on the cooldown's `continue': "try again next run".  A restock
\* held back by the cooldown is announced by the first run after it, if the
\* product is in stock still.
RestockRetried ==
    [][\A w \in Workers : Committing(w) =>
        LET s == session[w] IN
        \A r \in owed \ deleted :
            rules[r] = "back_in_stock" /\ Latest(s).in_stock =>
                \/ OpenEvents(r)' # {}
                \/ \E recent \in MostRecent(EventsOf(r)) : InCooldown(recent, s.now)]_vars
=============================================================================
