-------------------------- MODULE AlertSoloProofs --------------------------
(***************************************************************************)
(* What AlertEngine keeps with a single worker, for every finite set of    *)
(* rules, any rivals and prices and every value of the limits: what each   *)
(* step of its session does, field by field (SoloSteps), one open event    *)
(* per rule (OpenInv), what the session has in hand (HandInv), one alert   *)
(* per in-stock streak (StreakInv), and what a commit leaves open          *)
(* (HeldInv).                                                              *)
(***************************************************************************)
EXTENDS AlertEngineProofs

-----------------------------------------------------------------------------
(* One worker at a time.  The steps of its session, field by field.        *)

Same(s, t, fields) == \A f \in fields : t[f] = s[f]

Turns(w, t) ==
    /\ session[w] \in Evaluation /\ t \in Evaluation
    /\ Moves(w, t)
    /\ UNCHANGED <<world, events>>

Begins(w, t) ==
    LET s == session[w] IN
    /\ Turns(w, t)
    /\ s.pc = "begin" /\ t.pc = "next"
    /\ t.snap = Len(snaps) /\ t.todo = Active /\ t.now = clock
    /\ Same(s, t, {"rule", "opened", "resolved", "held"})
    /\ ids' = ids

Reads(w, t, r) ==
    LET s == session[w] IN
    /\ Turns(w, t)
    /\ s.pc = "next" /\ t.pc = "judge"
    /\ r \in s.todo /\ t.todo = s.todo \ {r} /\ t.rule = {r}
    /\ t.open \in MostRecent(OpenEvents(r))
    /\ Same(s, t, {"snap", "now", "opened", "resolved", "held"})
    /\ ids' = ids

\* The condition does not hold.
Clears(w, t) ==
    LET s == session[w] IN
    /\ Turns(w, t)
    /\ s.pc = "judge" /\ t.pc = "next"
    /\ \A r \in s.rule : Conditions(r, s, s.open) = {}
    /\ t.resolved = s.resolved \cup {e.id : e \in s.open}
    /\ Same(s, t, {"snap", "now", "todo", "rule", "open", "opened", "held"})
    /\ ids' = ids

\* It holds, and the rule has an open event or goes on to its trigger.
Holds(w, t) ==
    LET s == session[w] IN
    /\ Turns(w, t)
    /\ s.pc = "judge"
    /\ \/ t.pc = "next" /\ s.open # {}
       \/ /\ t.pc = "trigger"
          /\ \E r \in s.rule : \E cond \in Conditions(r, s, s.open) :
                \A e \in s.open : MateriallyChanged(r, e, cond)
    /\ t.held = s.held \cup s.rule
    /\ Same(s, t, {"snap", "now", "todo", "rule", "open", "opened", "resolved"})
    /\ ids' = ids

Passes(w, t) ==
    LET s == session[w] IN
    /\ Turns(w, t)
    /\ s.pc = "trigger" /\ t.pc = "next"
    /\ \E r \in s.rule : \E recent \in MostRecent(EventsOf(r)) : InCooldown(recent, s.now)
    /\ Same(s, t, {"snap", "now", "todo", "rule", "open", "opened", "resolved", "held"})
    /\ ids' = ids

BeginsSession(w, t) ==
    /\ ~Writing(w) /\ Moves(w, t) /\ t \in Evaluation
    /\ t.pc = "begin" /\ t.opened = {} /\ t.resolved = {} /\ t.held = {}
    /\ \E snapshot \in Snapshot : snaps' = Append(snaps, snapshot)
    /\ UNCHANGED <<clock, rules, deleted, events, ids>>

\* Everybody else: nothing the session has in hand changes its meaning.
Surroundings ==
    /\ UNCHANGED <<snaps, deleted, events, ids, session>>
    /\ \A r \in Rules : rules[r] # "none" => rules'[r] = rules[r]

LEMMA BeginsStep ==
  ASSUME Inv1, NEW w \in Workers, Begin(w) PROVE \E t : Begins(w, t)
  <1> DEFINE s == session[w]
  <1>1. s \in Evaluation /\ Len(snaps) \in Nat /\ clock \in Nat
    BY Here DEF Begin, Writing, TypeOK
  <1>2. PICK t : t = [s EXCEPT !.pc = "next", !.snap = Len(snaps), !.todo = Active,
                               !.now = clock]
    OBVIOUS
  <1>3. /\ t \in Evaluation /\ t.pc = "next"
        /\ t.snap = Len(snaps) /\ t.todo = Active /\ t.now = clock
        /\ Same(s, t, {"rule", "opened", "resolved", "held"})
    BY <1>1, <1>2 DEF Evaluation, Active, Same
  <1>4. Begins(w, t)
    BY <1>1, <1>2, <1>3 DEF Begin, Begins, Turns, Moves
  <1> QED BY <1>4

LEMMA ReadsStep ==
  ASSUME Inv1, NEW w \in Workers, NEW r \in Rules, ReadOpenEvent(w, r)
  PROVE  \E t : Reads(w, t, r)
  <1> DEFINE s == session[w]
  <1>1. s \in Evaluation /\ TypeOK
    BY Here DEF ReadOpenEvent, Writing
  <1>2. PICK open \in MostRecent(OpenEvents(r)) :
          session' = [session EXCEPT ![w].pc = "judge", ![w].todo = @ \ {r},
                                     ![w].rule = {r}, ![w].open = open]
    BY DEF ReadOpenEvent
  <1>3. PICK t : t = [s EXCEPT !.pc = "judge", !.todo = @ \ {r}, !.rule = {r}, !.open = open]
    OBVIOUS
  <1>4. open \subseteq Event
    BY <1>1, MostRecentRows DEF OpenEvents, EventsOf, TypeOK
  <1>5. /\ t \in Evaluation /\ t.pc = "judge" /\ t.todo = s.todo \ {r} /\ t.rule = {r}
        /\ t.open = open
        /\ Same(s, t, {"snap", "now", "opened", "resolved", "held"})
    BY <1>1, <1>3, <1>4 DEF Evaluation, Same
  <1>6. Reads(w, t, r)
    BY <1>1, <1>2, <1>3, <1>5 DEF ReadOpenEvent, Reads, Turns, Moves
  <1> QED BY <1>6

LEMMA ClearsStep ==
  ASSUME Inv1, NEW w \in Workers, Resolve(w) PROVE \E t : Clears(w, t)
  <1> DEFINE s == session[w]
  <1>1. s \in Evaluation
    BY Here DEF Resolve, Writing
  <1>2. PICK t : t = [s EXCEPT !.pc = "next", !.resolved = @ \cup {e.id : e \in s.open}]
    OBVIOUS
  <1>3. {e.id : e \in s.open} \subseteq Nat
    BY <1>1 DEF Evaluation, Event
  <1>4. /\ t \in Evaluation /\ t.pc = "next"
        /\ t.resolved = s.resolved \cup {e.id : e \in s.open}
        /\ Same(s, t, {"snap", "now", "todo", "rule", "open", "opened", "held"})
    BY <1>1, <1>2, <1>3 DEF Evaluation, Same
  <1>5. Clears(w, t)
    BY <1>1, <1>2, <1>4 DEF Resolve, Clears, Turns, Moves
  <1> QED BY <1>5

LEMMA HoldsStep ==
  ASSUME Inv1, NEW w \in Workers, KeepOpen(w) \/ Judge(w) PROVE \E t : Holds(w, t)
  <1> DEFINE s == session[w]
  <1>1. s \in Evaluation /\ SessionOK(s) /\ Placed(s) /\ TypeOK /\ s.pc = "judge"
    BY Here DEF KeepOpen, Judge, Writing
  <1>2. CASE KeepOpen(w)
    <2>1. PICK t : t = [s EXCEPT !.pc = "next", !.held = @ \cup s.rule]
      OBVIOUS
    <2>2. /\ t \in Evaluation /\ t.pc = "next" /\ t.held = s.held \cup s.rule
          /\ Same(s, t, {"snap", "now", "todo", "rule", "open", "opened", "resolved"})
      BY <1>1, <2>1 DEF Evaluation, Same
    <2>3. Holds(w, t)
      BY <1>1, <1>2, <2>1, <2>2 DEF KeepOpen, Holds, Turns, Moves
    <2> QED BY <2>3
  <1>3. CASE Judge(w)
    <2>1. PICK r \in s.rule : \E cond \in Conditions(r, s, s.open) :
            /\ \A e \in s.open : MateriallyChanged(r, e, cond)
            /\ session' = [session EXCEPT ![w].pc = "trigger", ![w].cond = {cond},
                                          ![w].held = @ \cup s.rule]
      BY <1>3 DEF Judge
    <2>2. PICK cond \in Conditions(r, s, s.open) :
            /\ \A e \in s.open : MateriallyChanged(r, e, cond)
            /\ session' = [session EXCEPT ![w].pc = "trigger", ![w].cond = {cond},
                                          ![w].held = @ \cup s.rule]
      BY <2>1
    <2>3. r \in Rules /\ rules[r] # "none" /\ s.snap \in 1..Len(snaps)
      BY <1>1 DEF SessionOK, Evaluation, Placed
    <2>4. cond \in [trigger_price : Prices, competitor : Rivals \cup {NoRival},
                    competitor_price : Prices \cup {NoPrice}]
      BY <1>1, <2>3, ConditionType
    <2>5. PICK t : t = [s EXCEPT !.pc = "trigger", !.cond = {cond}, !.held = @ \cup s.rule]
      OBVIOUS
    <2>6. t \in Evaluation
      BY <1>1, <2>4, <2>5 DEF Evaluation
    <2>7. /\ t.pc = "trigger" /\ t.held = s.held \cup s.rule
          /\ Same(s, t, {"snap", "now", "todo", "rule", "open", "opened", "resolved"})
      BY <1>1, <2>5 DEF Evaluation, Same
    <2>8. Turns(w, t) /\ ids' = ids
      BY <1>1, <1>3, <2>2, <2>5, <2>6 DEF Judge, Turns, Moves
    <2>9. Holds(w, t)
      BY <1>1, <2>2, <2>7, <2>8 DEF Holds
    <2> QED BY <2>9
  <1> QED BY <1>2, <1>3

LEMMA PassesStep ==
  ASSUME Inv1, NEW w \in Workers, Suppress(w) PROVE \E t : Passes(w, t)
  <1> DEFINE s == session[w]
  <1>1. s \in Evaluation
    BY Here DEF Suppress, Writing
  <1>2. PICK t : t = [s EXCEPT !.pc = "next"]
    OBVIOUS
  <1>3. /\ t \in Evaluation /\ t.pc = "next"
        /\ Same(s, t, {"snap", "now", "todo", "rule", "open", "opened", "resolved", "held"})
    BY <1>1, <1>2 DEF Evaluation, Same
  <1>4. Passes(w, t)
    BY <1>1, <1>2, <1>3 DEF Suppress, Passes, Turns, Moves
  <1> QED BY <1>4

LEMMA SessionBegins ==
  ASSUME Inv1, NEW w \in Workers, NEW price \in Prices, NEW in_stock \in Stocks,
         Scrape(w, price, in_stock)
  PROVE  \E t : BeginsSession(w, t)
  <1>1. PICK t : t = [pc |-> "begin", snap |-> 0, now |-> 0, todo |-> {}, rule |-> {},
                      open |-> {}, cond |-> {}, resolved |-> {}, opened |-> {}, held |-> {}]
    OBVIOUS
  <1>2. t \in Evaluation /\ t.pc = "begin" /\ t.opened = {} /\ t.resolved = {} /\ t.held = {}
    BY <1>1 DEF Evaluation
  <1>3. \E snapshot \in Snapshot : snaps' = Append(snaps, snapshot)
    BY DEF Scrape, Snapshot
  <1>4. BeginsSession(w, t)
    BY <1>1, <1>2, <1>3 DEF BeginsSession, Scrape, Moves
  <1> QED BY <1>4

LEMMA SoloSteps ==
  ASSUME Inv1, NEW w, Workers = {w}, [Next]_vars
  PROVE  \/ Surroundings
         \/ \E r \in Rules : DeleteRule(r)
         \/ \E t : \/ BeginsSession(w, t) \/ Begins(w, t) \/ Clears(w, t)
                   \/ Holds(w, t) \/ Passes(w, t)
                   \/ \E r \in Rules : Reads(w, t, r)
         \/ \E r, cond : \E t \in Evaluation, new \in Event : Fires(w, r, cond, t, new)
         \/ Commit(w)
         \/ Ends(w) /\ failures' = failures + 1
  <1>1. CASE Tick \/ UNCHANGED vars
    BY <1>1 DEF Tick, vars, Surroundings
  <1>2. CASE \E c \in Rivals, price \in Prices \cup {NoPrice} : RivalMoves(c, price)
    BY <1>2 DEF RivalMoves, Surroundings
  <1>3. CASE \E r \in Rules : \E kind \in Kinds : CreateRule(r, kind)
    BY <1>3 DEF CreateRule, Surroundings, Inv1, TypeOK
  <1>4. CASE \E r \in Rules : DeleteRule(r)
    BY <1>4
  <1>5. CASE \E price \in Prices, in_stock \in Stocks : Scrape(w, price, in_stock)
    BY <1>5, SessionBegins
  <1>6. CASE Begin(w)
    BY <1>6, BeginsStep
  <1>7. CASE \E r \in Rules : ReadOpenEvent(w, r)
    BY <1>7, ReadsStep
  <1>8. CASE Resolve(w)
    BY <1>8, ClearsStep
  <1>9. CASE KeepOpen(w) \/ Judge(w)
    BY <1>9, HoldsStep
  <1>10. CASE Suppress(w)
    BY <1>10, PassesStep
  <1>11. CASE \E delivery \in {"sent", "failed"} : Fire(w, delivery)
    BY <1>11, FireEffect
  <1>12. CASE Commit(w)
    BY <1>12
  <1>13. CASE Die(w) \/ Conflict(w)
    BY <1>13, EndsStep
  <1> QED BY <1>1, <1>2, <1>3, <1>4, <1>5, <1>6, <1>7, <1>8, <1>9, <1>10, <1>11, <1>12,
            <1>13 DEF Next, Evaluate

-----------------------------------------------------------------------------
(* One open event per rule.                                                *)

Live(e) == e.resolved_at = Unresolved

OneLive == \A e, f \in events : e.rule = f.rule /\ Live(e) /\ Live(f) => e = f

\* The session has in hand what is open of its rule, and resolves what it
\* replaces.
Replaces(s) ==
    /\ Looking(s) => \A e \in events : e.rule \in s.rule /\ Live(e) => e \in s.open
    /\ \A g \in s.opened : \A e \in events : e.rule = g.rule /\ Live(e) => e.id \in s.resolved

OpenInv(w) == OneLive /\ (Writing(w) => Replaces(session[w]))

\* Where the session is after a step that moves it.
LEMMA Moved ==
  ASSUME TypeOK, NEW w \in Workers, NEW t \in {Idle} \cup Evaluation, Moves(w, t)
  PROVE  session'[w] = t
  BY OneMoves

LEMMA OpenTurn ==
  ASSUME Inv1, NEW w \in Workers, OpenInv(w), NEW t, Turns(w, t),
         t.opened = session[w].opened, session[w].resolved \subseteq t.resolved,
         Looking(t) => \A e \in events : e.rule \in t.rule /\ Live(e) => e \in t.open
  PROVE  OpenInv(w)'
  <1>1. session'[w] = t /\ events' = events /\ session[w].pc # "idle"
    BY OneMoves DEF Inv1, Turns, Evaluation
  <1> QED BY <1>1 DEF OpenInv, Replaces, Looking, Writing, OneLive, Live

LEMMA StepOpen ==
  ASSUME Inv1, NEW w, Workers = {w}, OpenInv(w), [Next]_vars
  PROVE  OpenInv(w)'
  <1> DEFINE s == session[w]
  <1> w \in Workers
    OBVIOUS
  <1>1. CASE Surroundings
    BY <1>1 DEF Surroundings, OpenInv, OneLive, Replaces, Looking, Writing, Live
  <1>2. ASSUME NEW r \in Rules, DeleteRule(r) PROVE OpenInv(w)'
    <2>1. events' \subseteq events /\ session' = session
      BY <1>2 DEF DeleteRule
    <2> QED BY <2>1 DEF OpenInv, OneLive, Replaces, Looking, Writing, Live
  <1>3. ASSUME NEW t, BeginsSession(w, t) PROVE OpenInv(w)'
    <2>1. session'[w] = t /\ events' = events /\ t.pc = "begin" /\ t.opened = {}
      BY <1>3, OneMoves DEF Inv1, BeginsSession
    <2> QED BY <2>1 DEF OpenInv, OneLive, Replaces, Looking, Writing, Live
  <1>4. ASSUME NEW t, Begins(w, t) PROVE OpenInv(w)'
    BY <1>4, OpenTurn DEF Begins, Same, Looking
  <1>5. ASSUME NEW t, NEW r \in Rules, Reads(w, t, r) PROVE OpenInv(w)'
    <2>1. \A e \in events : e.rule \in t.rule /\ Live(e) => e \in t.open
      <3> SUFFICES ASSUME NEW e \in events, e.rule = r, Live(e) PROVE e \in t.open
        BY <1>5 DEF Reads
      <3>1. e \in OpenEvents(r)
        BY DEF OpenEvents, EventsOf, Live
      <3>2. PICK f \in OpenEvents(r) : t.open = {f}
        BY <1>5, <3>1, MostRecentRows DEF Reads
      <3> QED BY <3>2 DEF OpenInv, OneLive, OpenEvents, EventsOf, Live
    <2> QED BY <1>5, <2>1, OpenTurn DEF Reads, Same
  <1>6. ASSUME NEW t, Clears(w, t) \/ Holds(w, t) \/ Passes(w, t) PROVE OpenInv(w)'
    <2>1. /\ Turns(w, t) /\ t.opened = s.opened /\ s.resolved \subseteq t.resolved
          /\ t.rule = s.rule /\ t.open = s.open /\ Looking(s) /\ s.pc # "idle"
      BY <1>6 DEF Clears, Holds, Passes, Same, Looking
    <2>2. Replaces(s)
      BY <2>1 DEF OpenInv, Writing
    <2> QED BY <2>1, <2>2, OpenTurn DEF Replaces
  <1>7. ASSUME NEW r, NEW cond, NEW t \in Evaluation, NEW new \in Event,
               Fires(w, r, cond, t, new)
        PROVE  OpenInv(w)'
    <2>1. /\ session'[w] = t /\ events' = events /\ s.pc = "trigger" /\ t.pc = "next"
          /\ t.opened = s.opened \cup {new} /\ new.rule = r /\ r \in s.rule
          /\ t.resolved = s.resolved \cup {e.id : e \in s.open}
      BY <1>7, OneMoves DEF Inv1, Fires
    <2>2. Replaces(s) /\ OneLive /\ Looking(s)
      BY <2>1 DEF OpenInv, Writing, Looking
    <2>3. \A g \in t.opened : \A e \in events :
              e.rule = g.rule /\ Live(e) => e.id \in t.resolved
      BY <2>1, <2>2 DEF Replaces
    <2> QED BY <2>1, <2>2, <2>3 DEF OpenInv, OneLive, Replaces, Looking, Live
  <1>8. CASE Commit(w)
    <2>1. /\ s \in Evaluation /\ session'[w] = Idle /\ Writing(w)
          /\ events' = {Settled(s, e) : e \in events} \cup s.opened
      BY <1>8, CommitEffect, OneMoves DEF Inv1, Commit, Writing
    <2>2. Replaces(s) /\ OneLive /\ SessionOK(s) /\ events \subseteq Event
      BY <2>1, Here DEF OpenInv, TypeOK
    <2>3. ASSUME NEW e \in events', Live(e)
          PROVE  e \in s.opened \/ (e \in events /\ e.id \notin s.resolved)
      <3>1. ASSUME NEW f \in events, e = Settled(s, f) PROVE e = f /\ f.id \notin s.resolved
        BY <2>1, <2>2, <2>3, <3>1, SettledRow DEF Live, Settled, Unresolved
      <3> QED BY <2>1, <3>1
    <2>4. OneLive'
      <3> SUFFICES ASSUME NEW e \in events', NEW f \in events', e.rule = f.rule,
                          Live(e), Live(f)
                   PROVE  e = f
        BY DEF OneLive, Live
      <3>1. e \in s.opened \/ (e \in events /\ e.id \notin s.resolved)
        BY <2>3
      <3>2. f \in s.opened \/ (f \in events /\ f.id \notin s.resolved)
        BY <2>3
      <3> QED BY <2>2, <3>1, <3>2 DEF Replaces, OneLive, SessionOK
    <2> QED BY <2>1, <2>4 DEF OpenInv, Writing, Idle
  <1>9. CASE Ends(w)
    <2>1. session'[w] = Idle /\ events' = events
      BY <1>9, OneMoves DEF Inv1, Ends
    <2> QED BY <2>1 DEF OpenInv, OneLive, Live, Writing, Idle
  <1> QED BY <1>1, <1>2, <1>3, <1>4, <1>5, <1>6, <1>7, <1>8, <1>9, SoloSteps

LEMMA InitOpen == ASSUME NEW w, Workers = {w} PROVE Init => OpenInv(w)
  BY DEF Init, OpenInv, OneLive, Writing, Idle

LEMMA OpenInvariant ==
  ASSUME NEW w, Workers = {w} PROVE Spec => [](Inv1 /\ OpenInv(w))
  <1>1. Init => Inv1 /\ OpenInv(w)
    BY InitInv1, InitOpen
  <1>2. Inv1 /\ OpenInv(w) /\ [Next]_vars => (Inv1 /\ OpenInv(w))'
    BY StepInv1, StepOpen
  <1> QED BY <1>1, <1>2, PTL DEF Spec

\* With one worker there are never two live alerts for a rule: what an
\* evaluation replaces it resolves, in the same commit.
THEOREM OneOpenAtATime == ASSUME NEW w, Workers = {w} PROVE Spec => []OneOpen
  <1>1. Inv1 /\ OpenInv(w) => OneOpen
    <2> SUFFICES ASSUME Inv1, OneLive, NEW r \in Rules
                 PROVE  Cardinality(OpenEvents(r)) <= 1
      BY DEF OneOpen, OpenInv
    <2>1. OpenEvents(r) = {} \/ \E e \in OpenEvents(r) : OpenEvents(r) = {e}
      BY DEF OneLive, OpenEvents, EventsOf, Live
    <2>2. Cardinality(OpenEvents(r)) \in {0, 1}
      BY <2>1, FS_EmptySet, FS_Singleton
    <2> QED BY <2>2
  <1> QED BY <1>1, OpenInvariant, PTL

\* The docstring's cooldown: with one worker no rule opens an event within
\* the cooldown of another one, for any clock, failures and deletions.
THEOREM CooldownIsKept == ASSUME NEW w, Workers = {w} PROVE Spec => []CooldownRespected
  <1>1. Inv2 => CooldownRespected
    <2> SUFFICES ASSUME Inv1, NEW by, InsertedBy(by), NEW e \in events, NEW f \in events,
                        e.rule = f.rule, e.id # f.id
                 PROVE  Apart(e, f)
      BY DEF Inv2, CooldownRespected, Apart
    <2>1. by[e.id] = w /\ by[f.id] = w
      BY EventFacts DEF InsertedBy
    <2> QED BY <2>1 DEF InsertedBy, OwnApart
  <1> QED BY <1>1, Inv2Invariant, PTL

-----------------------------------------------------------------------------
(* What the session of a single worker has in hand.                        *)

Numbered(w) ==
    /\ \A e, f \in events : e.id = f.id => e = f
    /\ \A g, h \in Opened(w) : g.id = h.id => g = h
    /\ \A e \in events, g \in Opened(w) : e.id # g.id

\* The open event it has read is there still, unless its rule was deleted.
InHand(s) ==
    /\ s.pc # "begin" => s.snap = Len(snaps)
    /\ Looking(s) => \A o \in s.open :
            /\ o.rule \in s.rule
            /\ \A e \in events : e.id = o.id => e = o
            /\ o.rule \notin deleted => o \in OpenEvents(o.rule)
    /\ \A g \in s.opened : rules[g.rule] # "price_drop_pct" => Live(g)

HandInv(w) == Numbered(w) /\ (Writing(w) => InHand(session[w]))

LEMMA HandTurn ==
  ASSUME Inv1, NEW w \in Workers, HandInv(w), NEW t, Turns(w, t), t.pc # "begin",
         t.opened = session[w].opened, t.snap = Len(snaps),
         Looking(t) => \A o \in t.open :
            /\ o.rule \in t.rule
            /\ \A e \in events : e.id = o.id => e = o
            /\ o.rule \notin deleted => o \in OpenEvents(o.rule)
  PROVE  HandInv(w)'
  <1>1. session'[w] = t /\ UNCHANGED <<world, events>> /\ Writing(w) /\ t.pc # "idle"
    BY OneMoves DEF Inv1, Turns, Evaluation, Writing
  <1>2. Opened(w)' = Opened(w)
    BY <1>1 DEF Opened, Writing
  <1>3. Numbered(w)'
    BY <1>1, <1>2 DEF HandInv, Numbered
  <1>4. InHand(session[w])'
    BY <1>1 DEF HandInv, InHand, world, OpenEvents, EventsOf, Live, Looking
  <1> QED BY <1>3, <1>4 DEF HandInv

LEMMA StepHand ==
  ASSUME Inv1, NEW w, Workers = {w}, HandInv(w), [Next]_vars
  PROVE  HandInv(w)'
  <1> DEFINE s == session[w]
  <1> w \in Workers
    OBVIOUS
  <1>1. CASE Surroundings
    <2>1. \A g \in Opened(w) : rules[g.rule] # "none" /\ g.rule \in Rules
      BY Here, EventFacts DEF Opened, SessionOK, OpenedOK
    <2>2. Numbered(w)'
      BY <1>1 DEF Surroundings, HandInv, Numbered, Opened, Writing
    <2>3. ASSUME Writing(w) PROVE InHand(s)'
      BY <1>1, <2>1, <2>3
      DEF Surroundings, HandInv, InHand, Opened, Looking, OpenEvents, EventsOf, Live
    <2> QED BY <1>1, <2>2, <2>3 DEF Surroundings, HandInv, Writing
  <1>2. ASSUME NEW r \in Rules, DeleteRule(r) PROVE HandInv(w)'
    <2>1. /\ events' = {e \in events : e.rule # r} /\ deleted' = deleted \cup {r}
          /\ UNCHANGED <<session, snaps, rules>>
      BY <1>2 DEF DeleteRule, EventsOf
    <2>2. Numbered(w)'
      BY <2>1 DEF HandInv, Numbered, Opened, Writing
    <2>3. ASSUME Writing(w) PROVE InHand(s)'
      BY <2>1, <2>3 DEF HandInv, InHand, Looking, OpenEvents, EventsOf, Live
    <2> QED BY <2>1, <2>2, <2>3 DEF HandInv, Writing
  <1>3. ASSUME NEW t, BeginsSession(w, t) PROVE HandInv(w)'
    <2>1. session'[w] = t /\ events' = events /\ t.pc = "begin" /\ t.opened = {}
      BY <1>3, OneMoves DEF Inv1, BeginsSession
    <2> QED BY <2>1 DEF HandInv, Numbered, InHand, Opened, Looking, Writing
  <1>4. ASSUME NEW t, Begins(w, t) PROVE HandInv(w)'
    BY <1>4, HandTurn DEF Begins, Same, Looking
  <1>5. ASSUME NEW t, NEW r \in Rules, Reads(w, t, r) PROVE HandInv(w)'
    <2>1. t.open \subseteq OpenEvents(r)
      BY <1>5, MostRecentRows DEF Reads
    <2>2. \A o \in t.open : o \in events /\ o.rule = r /\ o \in OpenEvents(o.rule)
      BY <2>1 DEF OpenEvents, EventsOf
    <2>3. Writing(w) /\ s.pc # "begin" /\ t.rule = {r}
      BY <1>5 DEF Reads, Writing
    <2> QED BY <1>5, <2>2, <2>3, HandTurn DEF Reads, Same, HandInv, InHand, Numbered
  <1>6. ASSUME NEW t, Clears(w, t) \/ Holds(w, t) \/ Passes(w, t) PROVE HandInv(w)'
    <2>1. /\ Turns(w, t) /\ t.opened = s.opened /\ t.rule = s.rule /\ t.open = s.open
          /\ t.snap = s.snap /\ t.pc # "begin"
          /\ Looking(s) /\ s.pc \notin {"idle", "begin"}
      BY <1>6 DEF Clears, Holds, Passes, Same, Looking
    <2>2. InHand(s)
      BY <2>1 DEF HandInv, Writing
    <2> QED BY <2>1, <2>2, HandTurn DEF InHand
  <1>7. ASSUME NEW r, NEW cond, NEW t \in Evaluation, NEW new \in Event,
               Fires(w, r, cond, t, new)
        PROVE  HandInv(w)'
    <2>1. /\ session'[w] = t /\ events' = events /\ UNCHANGED <<snaps, rules>>
          /\ s.pc = "trigger" /\ t.pc = "next" /\ t.snap = s.snap
          /\ t.opened = s.opened \cup {new} /\ new.rule = r /\ new.id = ids + 1
          /\ rules[r] # "price_drop_pct" => Live(new)
      BY <1>7, OneMoves DEF Inv1, Fires, world, Live
    <2>2. InHand(s) /\ Numbered(w) /\ Writing(w)
      BY <2>1 DEF HandInv, Writing
    <2>3. Opened(w)' = Opened(w) \cup {new}
      BY <2>1, <2>2 DEF Opened, Writing
    <2>4. Numbered(w)'
      BY <2>1, <2>2, <2>3, EventFacts DEF Numbered
    <2>5. InHand(session[w])'
      BY <2>1, <2>2 DEF InHand, Looking, Live
    <2> QED BY <2>4, <2>5 DEF HandInv
  <1>8. CASE Commit(w)
    <2>1. /\ s \in Evaluation /\ session'[w] = Idle /\ Writing(w)
          /\ events' = {Settled(s, e) : e \in events} \cup Opened(w)
      BY <1>8, CommitEffect, OneMoves DEF Inv1, Commit, Writing, Opened
    <2>2. ASSUME NEW e \in events'
          PROVE  e \in Opened(w) \/ \E f \in events : e = Settled(s, f) /\ e.id = f.id
      BY <2>1, EventFacts, SettledRow
    <2>3. \A e, f \in events' : e.id = f.id => e = f
      BY <2>2 DEF HandInv, Numbered
    <2> QED BY <2>1, <2>3 DEF HandInv, Numbered, Opened, Writing, Idle
  <1>9. CASE Ends(w)
    <2>1. session'[w] = Idle /\ events' = events
      BY <1>9, OneMoves DEF Inv1, Ends
    <2> QED BY <2>1 DEF HandInv, Numbered, Opened, Writing, Idle
  <1> QED BY <1>1, <1>2, <1>3, <1>4, <1>5, <1>6, <1>7, <1>8, <1>9, SoloSteps

LEMMA InitHand == ASSUME NEW w, Workers = {w} PROVE Init => HandInv(w)
  BY DEF Init, HandInv, Numbered, Opened, Writing, Idle

-----------------------------------------------------------------------------
(* A streak is announced once.                                             *)

Restocks(r) == rules[r] = "back_in_stock"
OutOfStock(m, n) == \E i \in m..n : ~snaps[i].in_stock

\* An alert is resolved, or about to be, for a snapshot out of stock.
Rests(e, resolved) ==
    Restocks(e.rule) /\ (~Live(e) \/ e.id \in resolved) => OutOfStock(e.snap, Len(snaps))

RestsOK(w) ==
    \A e \in events : Rests(e, IF Writing(w) THEN session[w].resolved ELSE {})

\* A restock is news only where nothing is open.
FreshOK(w) ==
    session[w].pc = "trigger" =>
        \A r \in session[w].rule : Restocks(r) => session[w].open = {}

StreaksOK(w) ==
    \A e, f \in events \cup Opened(w) :
        e.rule = f.rule /\ Restocks(e.rule) /\ e.id < f.id => OutOfStock(e.snap, f.snap)

StreakInv(w) == RestsOK(w) /\ FreshOK(w) /\ StreaksOK(w)

\* What is kept of an event stands on a snapshot, and its rule has a type.
LEMMA Rooted ==
  ASSUME Inv1, NEW w \in Workers, NEW e \in events \cup Opened(w)
  PROVE  e.snap \in 1..Len(snaps) /\ e.rule \in Rules /\ rules[e.rule] # "none"
  <1>1. CASE e \in events
    BY <1>1, EventFacts DEF Inv1, EventsOK
  <1>2. CASE e \in Opened(w)
    <2>1. Writing(w) /\ e \in session[w].opened
      BY <1>2 DEF Opened
    <2>2. session[w] \in Evaluation /\ SessionOK(session[w]) /\ Placed(session[w])
      BY <2>1, Here
    <2> QED BY <1>2, <2>1, <2>2, EventFacts
            DEF SessionOK, OpenedOK, Placed, Evaluation
  <1> QED BY <1>1, <1>2

\* Streaks stay as snapshots come in.
LEMMA StreakStays ==
  ASSUME TypeOK, snaps' = snaps \/ \E snapshot \in Snapshot : snaps' = Append(snaps, snapshot)
  PROVE  \A m \in 1..Len(snaps), n \in 1..Len(snaps) :
            OutOfStock(m, n) => OutOfStock(m, n)' /\ OutOfStock(m, Len(snaps))'
  <1>1. snaps \in Seq(Snapshot) /\ Len(snaps) \in Nat /\ Len(snaps)' >= Len(snaps)
    BY DEF TypeOK
  <1>2. \A i \in 1..Len(snaps) : snaps'[i] = snaps[i]
    BY <1>1
  <1> SUFFICES ASSUME NEW m \in 1..Len(snaps), NEW n \in 1..Len(snaps), OutOfStock(m, n)
               PROVE  OutOfStock(m, n)' /\ OutOfStock(m, Len(snaps))'
    OBVIOUS
  <1>3. PICK i \in m..n : ~snaps[i].in_stock
    BY DEF OutOfStock
  <1>4. i \in 1..Len(snaps) /\ i \in m..(Len(snaps)') /\ ~snaps'[i].in_stock
    BY <1>1, <1>2, <1>3
  <1> QED BY <1>3, <1>4 DEF OutOfStock

\* Steps that neither open nor resolve anything.
LEMMA StreakIdles ==
  ASSUME Inv1, NEW w \in Workers, StreakInv(w),
         events' \subseteq events, Opened(w)' \subseteq Opened(w),
         Writing(w)' => session'[w].resolved = {}
                        \/ (Writing(w) /\ session'[w].resolved = session[w].resolved),
         \A r \in Rules : rules[r] # "none" => rules'[r] = rules[r],
         snaps' = snaps \/ \E snapshot \in Snapshot : snaps' = Append(snaps, snapshot),
         FreshOK(w)'
  PROVE  StreakInv(w)'
  <1>2. Len(snaps) \in Nat
    BY DEF Inv1, TypeOK
  <1>3. RestsOK(w)'
    <2> SUFFICES ASSUME NEW e \in events', Restocks(e.rule)',
                        ~Live(e) \/ (Writing(w)' /\ e.id \in session'[w].resolved)
                 PROVE  OutOfStock(e.snap, Len(snaps))'
      BY DEF RestsOK, Rests, Live
    <2>1. e \in events /\ Restocks(e.rule) /\ e.snap \in 1..Len(snaps)
      BY Rooted DEF Restocks
    <2>2. ~Live(e) \/ (Writing(w) /\ e.id \in session[w].resolved)
      OBVIOUS
    <2>3. OutOfStock(e.snap, Len(snaps))
      BY <2>1, <2>2 DEF StreakInv, RestsOK, Rests
    <2>4. Len(snaps) \in 1..Len(snaps)
      BY <1>2, <2>1
    <2> QED BY <2>1, <2>3, <2>4, StreakStays DEF Inv1
  <1>4. StreaksOK(w)'
    <2> SUFFICES ASSUME NEW e \in (events \cup Opened(w))', NEW f \in (events \cup Opened(w))',
                        e.rule = f.rule, Restocks(e.rule)', e.id < f.id
                 PROVE  OutOfStock(e.snap, f.snap)'
      BY DEF StreaksOK
    <2>1. /\ e \in events \cup Opened(w) /\ f \in events \cup Opened(w)
          /\ Restocks(e.rule) /\ e.snap \in 1..Len(snaps) /\ f.snap \in 1..Len(snaps)
      BY Rooted DEF Restocks
    <2>2. OutOfStock(e.snap, f.snap)
      BY <2>1 DEF StreakInv, StreaksOK
    <2> QED BY <2>1, <2>2, StreakStays DEF Inv1
  <1> QED BY <1>3, <1>4 DEF StreakInv

\* A turn of the session that opens nothing.
LEMMA StreakTurn ==
  ASSUME Inv1, NEW w \in Workers, StreakInv(w), NEW t, Turns(w, t),
         t.opened = session[w].opened,
         \A e \in events : Restocks(e.rule) /\ e.id \in t.resolved =>
            e.id \in session[w].resolved \/ OutOfStock(e.snap, Len(snaps)),
         t.pc = "trigger" => \A r \in t.rule : Restocks(r) => t.open = {}
  PROVE  StreakInv(w)'
  <1>1. /\ session'[w] = t /\ UNCHANGED <<world, events>> /\ session[w].pc # "idle" /\ t.pc # "idle"
        /\ session[w].pc # "idle" => Opened(w)' = Opened(w)
    BY OneMoves DEF Inv1, Turns, Evaluation, Writing, Opened
  <1>2. RestsOK(w)'
    BY <1>1 DEF StreakInv, RestsOK, Rests, Live, Restocks, OutOfStock, world, Writing
  <1>3. StreaksOK(w)'
    BY <1>1 DEF StreakInv, StreaksOK, Restocks, OutOfStock, world
  <1>4. FreshOK(w)'
    BY <1>1 DEF FreshOK, Restocks, world
  <1> QED BY <1>2, <1>3, <1>4 DEF StreakInv

LEMMA StepStreak ==
  ASSUME Inv1, NEW w, Workers = {w}, OpenInv(w), HandInv(w), StreakInv(w), [Next]_vars
  PROVE  StreakInv(w)'
  <1> DEFINE s == session[w]
  <1> w \in Workers
    OBVIOUS
  <1>1. CASE Surroundings
    <2>1. FreshOK(w)'
      <3> SUFFICES ASSUME s.pc = "trigger", NEW r \in s.rule, Restocks(r)'
                   PROVE  s.open = {}
        BY <1>1 DEF Surroundings, FreshOK
      <3>1. r \in Rules /\ rules[r] # "none"
        BY Here DEF Writing, SessionOK, Evaluation
      <3>2. Restocks(r)
        BY <1>1, <3>1 DEF Surroundings, Restocks
      <3> QED BY <3>2 DEF StreakInv, FreshOK
    <2>2. UNCHANGED <<snaps, events, session, Opened(w)>>
      BY <1>1 DEF Surroundings, Opened, Writing
    <2> QED BY <1>1, <2>1, <2>2, StreakIdles DEF Surroundings, Writing
  <1>2. ASSUME NEW r \in Rules, DeleteRule(r) PROVE StreakInv(w)'
    <2>1. events' \subseteq events /\ UNCHANGED <<session, snaps, rules, Opened(w)>>
      BY <1>2 DEF DeleteRule, Opened, Writing
    <2>2. FreshOK(w)'
      BY <2>1 DEF StreakInv, FreshOK, Restocks
    <2> QED BY <2>1, <2>2, StreakIdles DEF Writing
  <1>3. ASSUME NEW t, BeginsSession(w, t) PROVE StreakInv(w)'
    <2>1. /\ session'[w] = t /\ UNCHANGED <<events, rules>> /\ t.pc = "begin"
          /\ t.resolved = {} /\ Opened(w)' = {}
          /\ \E snapshot \in Snapshot : snaps' = Append(snaps, snapshot)
      BY <1>3, OneMoves DEF Inv1, BeginsSession, Opened, Writing
    <2>2. FreshOK(w)'
      BY <2>1 DEF FreshOK
    <2> QED BY <2>1, <2>2, StreakIdles
  <1>4. ASSUME NEW t, Begins(w, t) PROVE StreakInv(w)'
    BY <1>4, StreakTurn DEF Begins, Same
  <1>5. ASSUME NEW t, NEW r \in Rules, Reads(w, t, r) PROVE StreakInv(w)'
    BY <1>5, StreakTurn DEF Reads, Same
  <1>6. ASSUME NEW t, Clears(w, t) PROVE StreakInv(w)'
    <2>1. /\ Turns(w, t) /\ t.opened = s.opened /\ t.pc = "next" /\ s.pc = "judge"
          /\ \A r \in s.rule : Conditions(r, s, s.open) = {}
          /\ t.resolved = s.resolved \cup {e.id : e \in s.open}
      BY <1>6 DEF Clears, Same
    <2>2. /\ s \in Evaluation /\ InHand(s) /\ Placed(s) /\ TypeOK
          /\ s.snap = Len(snaps) /\ Len(snaps) \in Nat
      BY <2>1, Here DEF HandInv, Writing, InHand, TypeOK
    <2>3. ASSUME NEW e \in events, Restocks(e.rule), e.id \in t.resolved,
                 e.id \notin s.resolved
          PROVE  OutOfStock(e.snap, Len(snaps))
      <3>1. e \in s.open /\ e.rule \in s.rule
        BY <2>1, <2>2, <2>3 DEF InHand, Looking
      <3>2. ~Latest(s).in_stock
        BY <2>1, <2>3, <3>1 DEF Conditions, Restocks
      <3>3. e.snap \in 1..Len(snaps)
        BY Rooted
      <3> QED BY <2>2, <3>2, <3>3 DEF Latest, OutOfStock
    <2> QED BY <2>1, <2>3, StreakTurn
  <1>7. ASSUME NEW t, Holds(w, t) PROVE StreakInv(w)'
    <2>1. ASSUME t.pc = "trigger", NEW r \in t.rule, Restocks(r) PROVE t.open = {}
      <3>1. /\ t.rule = s.rule /\ t.open = s.open /\ s \in Evaluation
            /\ \E q \in s.rule : \E cond \in Conditions(q, s, s.open) :
                    \A e \in s.open : MateriallyChanged(q, e, cond)
        BY <1>7, <2>1 DEF Holds, Same, Turns
      <3>2. PICK cond : \A e \in s.open : MateriallyChanged(r, e, cond)
        BY <2>1, <3>1 DEF Evaluation
      <3> QED BY <2>1, <3>1, <3>2 DEF MateriallyChanged, Restocks
    <2> QED BY <1>7, <2>1, StreakTurn DEF Holds, Same
  <1>8. ASSUME NEW t, Passes(w, t) PROVE StreakInv(w)'
    BY <1>8, StreakTurn DEF Passes, Same
  <1>9. ASSUME NEW r, NEW cond, NEW t \in Evaluation, NEW new \in Event,
               Fires(w, r, cond, t, new)
        PROVE  StreakInv(w)'
    <2>1. /\ session'[w] = t /\ UNCHANGED <<world, events>>
          /\ s.pc = "trigger" /\ t.pc = "next" /\ r \in s.rule
          /\ t.opened = s.opened \cup {new} /\ new.rule = r /\ new.id = ids + 1
          /\ new.snap = s.snap
          /\ t.resolved = s.resolved \cup {e.id : e \in s.open}
      BY <1>9, OneMoves DEF Inv1, Fires
    <2>2. /\ s \in Evaluation /\ SessionOK(s) /\ Placed(s) /\ TypeOK /\ Writing(w)
          /\ InHand(s) /\ Replaces(s)
      BY <2>1, Here DEF HandInv, OpenInv, Writing
    <2>3. Opened(w) = s.opened /\ Opened(w)' = Opened(w) \cup {new}
      BY <2>1, <2>2 DEF Opened, Writing
    <2>4. RestsOK(w)'
      <3> SUFFICES ASSUME NEW e \in events, Restocks(e.rule), ~Live(e) \/ e.id \in t.resolved
                   PROVE  OutOfStock(e.snap, Len(snaps))
        BY <2>1 DEF RestsOK, Rests, Live, Restocks, OutOfStock, world, Writing
      <3>1. ASSUME NEW o \in s.open, e.id = o.id PROVE FALSE
        <4>1. e = o /\ o.rule \in s.rule
          BY <2>1, <2>2, <3>1 DEF InHand, Looking
        <4> QED BY <2>1, <4>1 DEF StreakInv, FreshOK
      <3>2. ~Live(e) \/ e.id \in s.resolved
        BY <2>1, <3>1
      <3> QED BY <2>2, <3>2 DEF StreakInv, RestsOK, Rests
    <2>5. ASSUME NEW e \in events, e.rule = r, Restocks(r) PROVE OutOfStock(e.snap, new.snap)
      <3>1. s.open = {} /\ s.snap = Len(snaps)
        BY <2>1, <2>2, <2>5 DEF StreakInv, FreshOK, InHand
      <3>2. ~Live(e)
        BY <2>1, <2>2, <2>5, <3>1 DEF Replaces, Looking
      <3> QED BY <2>1, <2>5, <3>1, <3>2 DEF StreakInv, RestsOK, Rests
    <2>6. ASSUME NEW e \in s.opened PROVE e.rule # r
      BY <2>1, <2>2 DEF SessionOK, OpenedOK, Looking
    <2>7. ids \in Nat /\ \A e \in events \cup Opened(w) : e.id \in 1..ids
      BY EventFacts
    <2>8. StreaksOK(w)'
      <3> SUFFICES ASSUME NEW e \in events \cup Opened(w) \cup {new},
                          NEW f \in events \cup Opened(w) \cup {new},
                          e.rule = f.rule, Restocks(e.rule), e.id < f.id
                   PROVE  OutOfStock(e.snap, f.snap)
        BY <2>1, <2>3 DEF StreaksOK, Restocks, OutOfStock, world
      <3>1. CASE e \in events \cup Opened(w) /\ f \in events \cup Opened(w)
        BY <3>1 DEF StreakInv, StreaksOK
      <3>2. CASE e \in events \cup Opened(w) /\ f = new
        BY <2>1, <2>3, <2>5, <2>6, <3>2
      <3>3. CASE e = new
        BY <2>1, <2>7, <3>3
      <3> QED BY <3>1, <3>2, <3>3
    <2>9. FreshOK(w)'
      BY <2>1 DEF FreshOK
    <2> QED BY <2>4, <2>8, <2>9 DEF StreakInv
  <1>10. CASE Commit(w)
    <2>1. /\ s \in Evaluation /\ s.pc = "next" /\ session'[w] = Idle /\ Writing(w)
          /\ Opened(w) = s.opened /\ Opened(w)' = {}
          /\ events' = {Settled(s, e) : e \in events} \cup Opened(w)
          /\ UNCHANGED world
      BY <1>10, CommitEffect, OneMoves DEF Inv1, Commit, Writing, Opened, Idle
    <2>2. InHand(s)
      BY <2>1 DEF HandInv
    <2>3. ASSUME NEW e \in events'
          PROVE  \/ e \in Opened(w)
                 \/ \E f \in events :
                        /\ e.id = f.id /\ e.rule = f.rule /\ e.snap = f.snap
                        /\ f.id \notin s.resolved => e.resolved_at = f.resolved_at
      BY <2>1, EventFacts, SettledRow
    <2>4. RestsOK(w)'
      <3> SUFFICES ASSUME NEW e \in events', Restocks(e.rule), ~Live(e)
                   PROVE  OutOfStock(e.snap, Len(snaps))
        BY <2>1 DEF RestsOK, Rests, Live, Restocks, OutOfStock, world, Writing, Idle
      <3>1. e \notin Opened(w)
        BY <2>1, <2>2 DEF InHand, Restocks
      <3>2. PICK f \in events : /\ e.id = f.id /\ e.rule = f.rule /\ e.snap = f.snap
                                /\ f.id \notin s.resolved => e.resolved_at = f.resolved_at
        BY <2>3, <3>1
      <3>3. ~Live(f) \/ f.id \in s.resolved
        BY <3>2 DEF Live
      <3> QED BY <2>1, <3>2, <3>3 DEF StreakInv, RestsOK, Rests
    <2>5. StreaksOK(w)'
      <3>1. \A e \in events' : \E f \in events \cup Opened(w) :
                e.id = f.id /\ e.rule = f.rule /\ e.snap = f.snap
        BY <2>3
      <3> SUFFICES ASSUME NEW e \in events', NEW f \in events',
                          e.rule = f.rule, Restocks(e.rule), e.id < f.id
                   PROVE  OutOfStock(e.snap, f.snap)
        BY <2>1 DEF StreaksOK, Restocks, OutOfStock, world
      <3> QED BY <3>1 DEF StreakInv, StreaksOK
    <2>6. FreshOK(w)'
      BY <2>1 DEF FreshOK, Idle
    <2> QED BY <2>4, <2>5, <2>6 DEF StreakInv
  <1>11. CASE Ends(w)
    <2>1. session'[w] = Idle /\ UNCHANGED <<events, snaps, rules>>
      BY <1>11, OneMoves DEF Inv1, Ends, world
    <2>2. Opened(w)' = {} /\ ~Writing(w)' /\ FreshOK(w)'
      BY <2>1 DEF Opened, Writing, Idle, FreshOK
    <2> QED BY <2>1, <2>2, StreakIdles
  <1> QED BY <1>1, <1>2, <1>3, <1>4, <1>5, <1>6, <1>7, <1>8, <1>9, <1>10, <1>11, SoloSteps

LEMMA InitStreak == ASSUME NEW w, Workers = {w} PROVE Init => StreakInv(w)
  BY DEF Init, StreakInv, RestsOK, FreshOK, StreaksOK, Opened, Writing, Idle

SoloInv(w) == Inv1 /\ OpenInv(w) /\ HandInv(w) /\ StreakInv(w)

LEMMA SoloInvariant == ASSUME NEW w, Workers = {w} PROVE Spec => []SoloInv(w)
  <1>1. Init => SoloInv(w)
    BY InitInv1, InitOpen, InitHand, InitStreak DEF SoloInv
  <1>2. SoloInv(w) /\ [Next]_vars => SoloInv(w)'
    BY StepInv1, StepOpen, StepHand, StepStreak DEF SoloInv
  <1> QED BY <1>1, <1>2, PTL DEF Spec

\* With one worker a continuous in-stock streak is announced once, whatever
\* the cooldown suppressed and whatever died in between.
THEOREM StreakAnnouncedOnce ==
  ASSUME NEW w, Workers = {w} PROVE Spec => []OneAlertPerStreak
  <1>1. SoloInv(w) => OneAlertPerStreak
    BY DEF SoloInv, StreakInv, StreaksOK, Restocks, OutOfStock, OneAlertPerStreak
  <1> QED BY <1>1, SoloInvariant, PTL

-----------------------------------------------------------------------------
(* What a commit leaves open is what the conditions say.                   *)

\* Which rules the session has in hand, behind it and before it.
Orderly(s) ==
    /\ s.held \cap s.todo = {}
    /\ \A r \in s.held : rules[r] # "none"
    /\ s.pc = "judge" => s.held \cap s.rule = {}
    /\ s.pc = "trigger" => s.rule \subseteq s.held
    /\ \A g \in s.opened : g.rule \in s.held
    /\ \A e \in events : e.id \in s.resolved =>
            e.rule \notin s.todo /\ (Looking(s) => e.rule \notin s.rule)

\* A rule it is done with and that did not hold has nothing open left.
Cleared(s) ==
    s.pc # "begin" => \A r \in Rules \ (deleted \cup s.held \cup s.todo) :
        \/ s.pc = "judge" /\ r \in s.rule
        \/ \A e \in OpenEvents(r) : e.id \in s.resolved

Answered(s, r) ==
    \/ \E g \in s.opened : g.rule = r
    \/ \E e \in OpenEvents(r) : e.id \notin s.resolved
    \/ /\ OpenEvents(r) = {}
       /\ \E recent \in MostRecent(EventsOf(r)) : InCooldown(recent, s.now)

\* One that held has something open, or the cooldown forbids it.
Answers(s) ==
    \A r \in s.held \ deleted : rules[r] # "price_drop_pct" =>
        (s.pc = "trigger" /\ r \in s.rule) \/ Answered(s, r)

HeldInv(w) ==
    /\ failures \in Nat
    /\ Writing(w) => /\ Orderly(session[w])
                     /\ Cleared(session[w])
                     /\ Answers(session[w])

LEMMA FailuresStay == failures \in Nat /\ [Next]_vars => failures' \in Nat
  <1>1. ASSUME NEW w \in Workers, Evaluate(w)
        PROVE  failures' = failures \/ failures' = failures + 1
    BY <1>1 DEF Evaluate, Begin, ReadOpenEvent, Resolve, KeepOpen, Judge, Suppress, Fire,
                Commit, Conflict
  <1>2. [Next]_vars => failures' = failures \/ failures' = failures + 1
    BY <1>1 DEF Next, vars, Tick, RivalMoves, CreateRule, DeleteRule, Scrape, Die
  <1> QED BY <1>2

LEMMA HeldTurn ==
  ASSUME Inv1, NEW w \in Workers, HeldInv(w), failures' \in Nat, NEW t, Turns(w, t),
         Orderly(t), Cleared(t), Answers(t)
  PROVE  HeldInv(w)'
  <1>1. session'[w] = t /\ UNCHANGED <<world, events>>
    BY OneMoves DEF Inv1, Turns
  <1> QED BY <1>1 DEF HeldInv, Orderly, Cleared, Answers, Answered, world, OpenEvents, EventsOf

\* The rule that a session looks at, if it is there still, and its open event.
LEMMA LookedAt ==
  ASSUME Inv1, NEW w \in Workers, OpenInv(w), HandInv(w), HeldInv(w), Looking(session[w]),
         NEW r \in session[w].rule
  PROVE  /\ session[w].rule = {r}
         /\ OpenEvents(r) \subseteq session[w].open
         /\ r \notin deleted => OpenEvents(r) = session[w].open
         /\ \A e \in events : e.id \in session[w].resolved => e.rule # r
         /\ \A o \in session[w].open : \A e \in events : e.id = o.id => e = o /\ e.rule = r
  <1> DEFINE s == session[w]
  <1>1. Writing(w) /\ s \in Evaluation
    BY Here DEF Looking, Writing
  <1>2. Replaces(s) /\ InHand(s) /\ Orderly(s)
    BY <1>1 DEF OpenInv, HandInv, HeldInv
  <1>3. s.rule = {r}
    BY <1>1 DEF Evaluation
  <1>4. OpenEvents(r) \subseteq s.open
    BY <1>2 DEF Replaces, OpenEvents, EventsOf, Live
  <1>5. r \notin deleted => s.open \subseteq OpenEvents(r)
    BY <1>2, <1>3 DEF InHand
  <1>6. \A e \in events : e.id \in s.resolved => e.rule # r
    BY <1>2 DEF Orderly
  <1>7. \A o \in s.open : \A e \in events : e.id = o.id => e = o /\ e.rule = r
    BY <1>2, <1>3 DEF InHand
  <1> QED BY <1>3, <1>4, <1>5, <1>6, <1>7

LEMMA BeginsHeld ==
  ASSUME Inv1, NEW w \in Workers, HeldInv(w), failures' \in Nat, NEW t, Begins(w, t)
  PROVE  HeldInv(w)'
  <1> DEFINE s == session[w]
  <1>1. /\ s \in Evaluation /\ SessionOK(s) /\ TypeOK
    BY Here DEF Begins, Writing
  <1>2. /\ Turns(w, t) /\ t.pc = "next" /\ t.todo = Active
        /\ t.opened = {} /\ t.resolved = {} /\ t.held = {}
    BY <1>1 DEF Begins, Same, SessionOK
  <1>3. ASSUME NEW r \in Rules \ (deleted \cup Active) PROVE OpenEvents(r) = {}
    <2>1. rules[r] = "none"
      BY DEF Active
    <2> QED BY <2>1 DEF OpenEvents, EventsOf, Inv1, EventsOK
  <1>4. Orderly(t)
    BY <1>2 DEF Orderly
  <1>5. Cleared(t)
    BY <1>2, <1>3 DEF Cleared
  <1>6. Answers(t)
    BY <1>2 DEF Answers
  <1> QED BY <1>2, <1>4, <1>5, <1>6, HeldTurn

LEMMA ReadsHeld ==
  ASSUME Inv1, NEW w \in Workers, HeldInv(w), failures' \in Nat,
         NEW t, NEW r \in Rules, Reads(w, t, r)
  PROVE  HeldInv(w)'
  <1> DEFINE s == session[w]
  <1>1. /\ Turns(w, t) /\ s.pc = "next" /\ t.pc = "judge"
        /\ r \in s.todo /\ t.todo = s.todo \ {r} /\ t.rule = {r}
        /\ t.now = s.now /\ t.opened = s.opened /\ t.resolved = s.resolved /\ t.held = s.held
    BY DEF Reads, Same
  <1>2. Orderly(s) /\ Cleared(s) /\ Answers(s)
    BY <1>1 DEF HeldInv, Writing
  <1>3. Orderly(t)
    BY <1>1, <1>2 DEF Orderly, Looking
  <1>4. Cleared(t)
    BY <1>1, <1>2 DEF Cleared
  <1>5. Answers(t)
    BY <1>1, <1>2 DEF Answers, Answered
  <1> QED BY <1>1, <1>3, <1>4, <1>5, HeldTurn

LEMMA ClearsHeld ==
  ASSUME Inv1, NEW w \in Workers, OpenInv(w), HandInv(w), HeldInv(w), failures' \in Nat,
         NEW t, Clears(w, t)
  PROVE  HeldInv(w)'
  <1> DEFINE s == session[w]
  <1>1. /\ Turns(w, t) /\ s.pc = "judge" /\ t.pc = "next"
        /\ t.resolved = s.resolved \cup {e.id : e \in s.open}
        /\ t.todo = s.todo /\ t.rule = s.rule /\ t.now = s.now
        /\ t.opened = s.opened /\ t.held = s.held
    BY DEF Clears, Same
  <1>2. /\ s \in Evaluation /\ SessionOK(s) /\ Placed(s) /\ Looking(s)
        /\ Orderly(s) /\ Cleared(s) /\ Answers(s)
    BY <1>1, Here DEF HeldInv, Writing, Looking
  <1>3. PICK r \in s.rule : TRUE
    BY <1>2 DEF Placed
  <1>4. /\ s.rule = {r} /\ OpenEvents(r) \subseteq s.open
        /\ \A o \in s.open : \A e \in events : e.id = o.id => e.rule = r
    BY <1>2, LookedAt
  <1>5. \A e \in events : e.id \in t.resolved => e.id \in s.resolved \/ e.rule = r
    BY <1>1, <1>4
  <1>6. r \notin s.todo /\ r \notin s.held
    BY <1>1, <1>2, <1>4 DEF SessionOK, Orderly
  <1>7. Orderly(t)
    BY <1>1, <1>2, <1>5, <1>6 DEF Orderly, Looking
  <1>8. Cleared(t)
    BY <1>1, <1>2, <1>4 DEF Cleared
  <1>9. Answers(t)
    <2> SUFFICES ASSUME NEW q \in s.held \ deleted, rules[q] # "price_drop_pct"
                 PROVE  Answered(t, q)
      BY <1>1 DEF Answers
    <2>1. Answered(s, q) /\ q # r
      BY <1>1, <1>2, <1>6 DEF Answers
    <2> QED BY <1>1, <1>5, <2>1 DEF Answered, OpenEvents, EventsOf
  <1> QED BY <1>1, <1>7, <1>8, <1>9, HeldTurn

\* KeepOpen and Suppress leave the rule answered.
LEMMA HoldsHeld ==
  ASSUME Inv1, NEW w \in Workers, OpenInv(w), HandInv(w), HeldInv(w), failures' \in Nat,
         NEW t, Holds(w, t) \/ Passes(w, t)
  PROVE  HeldInv(w)'
  <1> DEFINE s == session[w]
  <1>1. /\ Turns(w, t) /\ Looking(s) /\ t.pc \in {"next", "trigger"}
        /\ s.pc = "trigger" => t.pc = "next"
        /\ t.todo = s.todo /\ t.rule = s.rule /\ t.now = s.now /\ t.resolved = s.resolved
        /\ t.opened = s.opened
        /\ t.held = s.held \/ t.held = s.held \cup s.rule
        /\ s.pc = "judge" => t.held = s.held \cup s.rule
    BY DEF Holds, Passes, Same, Looking
  <1>2. /\ s \in Evaluation /\ SessionOK(s) /\ Placed(s)
        /\ Orderly(s) /\ Cleared(s) /\ Answers(s)
    BY <1>1, Here DEF HeldInv, Writing, Looking
  <1>3. PICK r \in s.rule : TRUE
    BY <1>1, <1>2 DEF Placed
  <1>4. /\ s.rule = {r} /\ rules[r] # "none" /\ r \notin s.todo
        /\ r \notin deleted => OpenEvents(r) = s.open
        /\ \A e \in events : e.id \in s.resolved => e.rule # r
    BY <1>1, <1>2, LookedAt DEF SessionOK
  <1>5. t.held = s.held \cup {r} /\ r \in t.held
    BY <1>1, <1>2, <1>4 DEF Orderly, Looking
  <1>6. Orderly(t)
    BY <1>1, <1>2, <1>4, <1>5 DEF Orderly, Looking
  <1>7. Cleared(t)
    BY <1>1, <1>2, <1>4, <1>5 DEF Cleared, Looking
  <1>8. ASSUME t.pc = "next", r \notin deleted PROVE Answered(t, r)
    <2>1. CASE s.open # {}
      BY <1>1, <1>4, <1>8, <2>1 DEF Answered, OpenEvents, EventsOf
    <2>2. CASE s.open = {}
      <3>1. \E recent \in MostRecent(EventsOf(r)) : InCooldown(recent, s.now)
        BY <1>4, <1>8, <2>2 DEF Holds, Passes
      <3> QED BY <1>1, <1>4, <1>8, <2>2, <3>1 DEF Answered
    <2> QED BY <2>1, <2>2
  <1>9. Answers(t)
    <2> SUFFICES ASSUME NEW q \in t.held \ deleted, rules[q] # "price_drop_pct"
                 PROVE  (t.pc = "trigger" /\ q \in t.rule) \/ Answered(t, q)
      BY DEF Answers
    <2>1. CASE q = r
      BY <1>1, <1>4, <1>8, <2>1
    <2>2. CASE q # r
      <3>1. Answered(s, q)
        BY <1>2, <1>4, <1>5, <2>2 DEF Answers
      <3> QED BY <1>1, <3>1 DEF Answered
    <2> QED BY <2>1, <2>2
  <1> QED BY <1>1, <1>6, <1>7, <1>9, HeldTurn

LEMMA FiresHeld ==
  ASSUME Inv1, NEW w \in Workers, OpenInv(w), HandInv(w), HeldInv(w), failures' \in Nat,
         NEW r, NEW cond, NEW t \in Evaluation, NEW new \in Event, Fires(w, r, cond, t, new)
  PROVE  HeldInv(w)'
  <1> DEFINE s == session[w]
  <1>1. /\ s.pc = "trigger" /\ t.pc = "next" /\ r \in s.rule
        /\ t.resolved = s.resolved \cup {e.id : e \in s.open}
        /\ t.todo = s.todo /\ t.rule = s.rule /\ t.now = s.now /\ t.held = s.held
        /\ t.opened = s.opened \cup {new} /\ new.rule = r
        /\ Moves(w, t) /\ UNCHANGED <<world, events>>
    BY DEF Fires
  <1>2. /\ s \in Evaluation /\ SessionOK(s) /\ Looking(s)
        /\ Orderly(s) /\ Cleared(s) /\ Answers(s)
    BY <1>1, Here DEF HeldInv, Writing, Looking
  <1>3. /\ s.rule = {r} /\ \A o \in s.open : \A e \in events : e.id = o.id => e.rule = r
    BY <1>1, <1>2, LookedAt
  <1>4. \A e \in events : e.id \in t.resolved => e.id \in s.resolved \/ e.rule = r
    BY <1>1, <1>3
  <1>5. r \notin s.todo /\ r \in s.held
    BY <1>1, <1>2, <1>3 DEF SessionOK, Orderly
  <1>6. Orderly(t)
    BY <1>1, <1>2, <1>4, <1>5 DEF Orderly, Looking
  <1>7. Cleared(t)
    BY <1>1, <1>2 DEF Cleared
  <1>8. Answers(t)
    <2> SUFFICES ASSUME NEW q \in s.held \ deleted, rules[q] # "price_drop_pct", q # r
                 PROVE  Answered(t, q)
      BY <1>1 DEF Answers, Answered
    <2>1. Answered(s, q)
      BY <1>2, <1>3 DEF Answers
    <2> QED BY <1>1, <1>4, <2>1 DEF Answered, OpenEvents, EventsOf
  <1>9. Turns(w, t)
    BY <1>1, <1>2 DEF Turns
  <1> QED BY <1>6, <1>7, <1>8, <1>9, HeldTurn

LEMMA StepHeld ==
  ASSUME Inv1, NEW w, Workers = {w}, OpenInv(w), HandInv(w), HeldInv(w), [Next]_vars
  PROVE  HeldInv(w)'
  <1> DEFINE s == session[w]
  <1> w \in Workers
    OBVIOUS
  <1>0. failures' \in Nat
    BY FailuresStay DEF HeldInv
  <1>1. CASE Surroundings
    <2>1. UNCHANGED <<deleted, events, session>>
      BY <1>1 DEF Surroundings
    <2>2. ASSUME Writing(w) PROVE Orderly(s)' /\ Cleared(s)' /\ Answers(s)'
      <3>1. /\ s.held \subseteq Rules /\ Orderly(s) /\ Cleared(s) /\ Answers(s)
            /\ \A r \in s.held : rules[r] # "none" /\ rules'[r] = rules[r]
        BY <1>1, <2>2, Here DEF HeldInv, Orderly, Surroundings, Evaluation
      <3>2. Orderly(s)'
        BY <2>1, <3>1 DEF Orderly, Looking
      <3>3. Cleared(s)'
        BY <2>1, <3>1 DEF Cleared, OpenEvents, EventsOf
      <3>4. Answers(s)'
        BY <2>1, <3>1 DEF Answers, Answered, OpenEvents, EventsOf
      <3> QED BY <3>2, <3>3, <3>4
    <2> QED BY <1>0, <2>1, <2>2 DEF HeldInv, Writing
  <1>2. ASSUME NEW q \in Rules, DeleteRule(q) PROVE HeldInv(w)'
    <2>1. /\ events' = events \ EventsOf(q) /\ deleted' = deleted \cup {q}
          /\ UNCHANGED <<session, rules>>
      BY <1>2 DEF DeleteRule
    <2>2. ASSUME Writing(w) PROVE Orderly(s)' /\ Cleared(s)' /\ Answers(s)'
      <3>1. Orderly(s) /\ Cleared(s) /\ Answers(s)
        BY <2>2 DEF HeldInv
      <3>2. \A r \in Rules : r # q => EventsOf(r)' = EventsOf(r) /\ OpenEvents(r)' = OpenEvents(r)
        BY <2>1 DEF EventsOf, OpenEvents
      <3>3. s.held \subseteq Rules
        BY <2>2, Here DEF Evaluation
      <3>4. Orderly(s)'
        BY <2>1, <3>1 DEF Orderly, Looking
      <3>5. Cleared(s)'
        BY <2>1, <3>1, <3>2 DEF Cleared
      <3>6. Answers(s)'
        <4> SUFFICES ASSUME NEW r \in s.held \ deleted', rules[r] # "price_drop_pct",
                            ~(s.pc = "trigger" /\ r \in s.rule)
                     PROVE  Answered(s, r)'
          BY <2>1 DEF Answers
        <4>1. Answered(s, r) /\ r # q /\ r \in Rules
          BY <2>1, <3>1, <3>3 DEF Answers
        <4> QED BY <2>1, <3>2, <4>1 DEF Answered
      <3> QED BY <3>4, <3>5, <3>6
    <2> QED BY <1>0, <2>1, <2>2 DEF HeldInv, Writing
  <1>3. ASSUME NEW t, BeginsSession(w, t) PROVE HeldInv(w)'
    <2>1. /\ session'[w] = t /\ t.pc = "begin" /\ t.held = {} /\ t.opened = {}
          /\ t.resolved = {}
      BY <1>3, OneMoves DEF Inv1, BeginsSession
    <2> QED BY <1>0, <2>1 DEF HeldInv, Orderly, Cleared, Answers
  <1>4. ASSUME NEW t, Begins(w, t) PROVE HeldInv(w)'
    BY <1>0, <1>4, BeginsHeld
  <1>5. ASSUME NEW t, NEW r \in Rules, Reads(w, t, r) PROVE HeldInv(w)'
    BY <1>0, <1>5, ReadsHeld
  <1>6. ASSUME NEW t, Clears(w, t) PROVE HeldInv(w)'
    BY <1>0, <1>6, ClearsHeld
  <1>7. ASSUME NEW t, Holds(w, t) \/ Passes(w, t) PROVE HeldInv(w)'
    BY <1>0, <1>7, HoldsHeld
  <1>8. ASSUME NEW r, NEW cond, NEW t \in Evaluation, NEW new \in Event,
               Fires(w, r, cond, t, new)
        PROVE  HeldInv(w)'
    BY <1>0, <1>8, FiresHeld
  <1>9. CASE Commit(w) \/ Ends(w)
    <2>1. session'[w] = Idle
      BY <1>9, CommitEffect, OneMoves DEF Inv1, Ends
    <2> QED BY <1>0, <2>1 DEF HeldInv, Writing, Idle
  <1> QED BY <1>1, <1>2, <1>3, <1>4, <1>5, <1>6, <1>7, <1>8, <1>9, SoloSteps

LEMMA InitHeld == ASSUME NEW w, Workers = {w} PROVE Init => HeldInv(w)
  BY DEF Init, HeldInv, Writing, Idle

\* Only Commit ends a session without a failure.
LEMMA CommittingCommits ==
  ASSUME Inv1, NEW w, Workers = {w}, failures \in Nat, Committing(w), [Next]_vars
  PROVE  Commit(w)
  <1> w \in Workers
    OBVIOUS
  <1>1. session[w].pc = "next" /\ session'[w].pc = "idle" /\ failures' = failures
    BY DEF Committing, Idle
  <1>2. ~Surroundings /\ ~\E r \in Rules : DeleteRule(r)
    BY <1>1 DEF Surroundings, DeleteRule
  <1>3. ASSUME NEW t, Turns(w, t) \/ BeginsSession(w, t) PROVE FALSE
    BY <1>1, <1>3, OneMoves DEF Inv1, Turns, BeginsSession, Evaluation
  <1>4. ASSUME NEW r, NEW cond, NEW t \in Evaluation, NEW new \in Event,
               Fires(w, r, cond, t, new)
        PROVE  FALSE
    BY <1>1, <1>4 DEF Fires
  <1>5. ~(failures' = failures + 1)
    BY <1>1
  <1> QED BY <1>2, <1>3, <1>4, <1>5, SoloSteps
          DEF Begins, Reads, Clears, Holds, Passes

LEMMA CommitAgrees ==
  ASSUME Inv1, NEW w \in Workers, OpenInv(w), HandInv(w), HeldInv(w), Commit(w)
  PROVE  LeavesOpen(w)
  <1> DEFINE s == session[w]
  <1>1. /\ s \in Evaluation /\ s.pc = "next" /\ s.todo = {}
        /\ events' = {Settled(s, e) : e \in events} \cup s.opened
    BY CommitEffect
  <1>2. InHand(s) /\ Orderly(s) /\ Cleared(s) /\ Answers(s)
    BY <1>1 DEF HandInv, HeldInv, Writing
  <1> SUFFICES ASSUME NEW r \in Rules \ deleted
               PROVE  /\ r \notin s.held => OpenEvents(r)' = {}
                      /\ r \in s.held /\ rules[r] # "price_drop_pct" =>
                            \/ OpenEvents(r)' # {}
                            \/ /\ OpenEvents(r) = {}
                               /\ \E recent \in MostRecent(EventsOf(r)) :
                                    InCooldown(recent, s.now)
    BY DEF LeavesOpen
  <1>3. ASSUME r \notin s.held, NEW e \in events', e.rule = r, Live(e) PROVE FALSE
    <2>1. e \notin s.opened
      BY <1>2, <1>3 DEF Orderly
    <2>2. PICK f \in events : e = Settled(s, f)
      BY <1>1, <1>3, <2>1
    <2>3. f.rule = r /\ e.resolved_at = IF f.id \in s.resolved THEN s.now ELSE f.resolved_at
      BY <1>1, <1>3, <2>2, EventFacts, SettledRow
    <2>4. Live(f) /\ f.id \notin s.resolved
      BY <1>1, <1>3, <2>3 DEF Live, Evaluation, Unresolved
    <2>5. f \in OpenEvents(r)
      BY <2>3, <2>4 DEF OpenEvents, EventsOf, Live
    <2> QED BY <1>1, <1>2, <1>3, <2>4, <2>5 DEF Cleared
  <1>4. ASSUME r \in s.held, rules[r] # "price_drop_pct"
        PROVE  \/ OpenEvents(r)' # {}
               \/ /\ OpenEvents(r) = {}
                  /\ \E recent \in MostRecent(EventsOf(r)) : InCooldown(recent, s.now)
    <2>1. CASE \E g \in s.opened : g.rule = r
      <3>1. PICK g \in s.opened : g.rule = r
        BY <2>1
      <3>2. g \in events' /\ Live(g)
        BY <1>1, <1>2, <1>4, <3>1 DEF InHand
      <3> QED BY <3>1, <3>2 DEF OpenEvents, EventsOf, Live
    <2>2. CASE \E e \in OpenEvents(r) : e.id \notin s.resolved
      <3>1. PICK e \in OpenEvents(r) : e.id \notin s.resolved
        BY <2>2
      <3>2. e \in events /\ e.rule = r /\ e.resolved_at = Unresolved /\ Settled(s, e) = e
        BY <3>1 DEF OpenEvents, EventsOf, Settled
      <3> QED BY <1>1, <3>2 DEF OpenEvents, EventsOf
    <2>3. \/ \E g \in s.opened : g.rule = r
          \/ \E e \in OpenEvents(r) : e.id \notin s.resolved
          \/ OpenEvents(r) = {}
             /\ \E recent \in MostRecent(EventsOf(r)) : InCooldown(recent, s.now)
      BY <1>1, <1>2, <1>4 DEF Answers, Answered
    <2> QED BY <2>1, <2>2, <2>3
  <1>5. r \notin s.held => OpenEvents(r)' = {}
    BY <1>3 DEF OpenEvents, EventsOf, Live
  <1> QED BY <1>4, <1>5

\* With one worker, what a commit leaves open says of every rule whether its
\* condition held, but for a fresh trigger within the cooldown; no
\* suppression closes an alert without a successor.
THEOREM OpenMeansHeld ==
  ASSUME NEW solo, Workers = {solo} PROVE Spec => AgreesWithCondition
  <1> DEFINE Inv == SoloInv(solo) /\ HeldInv(solo)
  <1>1. Init => Inv
    BY InitInv1, InitOpen, InitHand, InitStreak, InitHeld DEF SoloInv
  <1>2. Inv /\ [Next]_vars => Inv'
    BY StepInv1, StepOpen, StepHand, StepStreak, StepHeld DEF SoloInv
  <1>3. Inv /\ [Next]_vars => [CommitsAgree]_vars
    <2> SUFFICES ASSUME Inv, [Next]_vars, NEW w \in Workers, Committing(w)
                 PROVE  LeavesOpen(w)
      BY DEF CommitsAgree
    <2>1. w = solo /\ Commit(solo)
      BY CommittingCommits DEF SoloInv, HeldInv
    <2> QED BY <2>1, CommitAgrees DEF SoloInv
  <1> QED BY <1>1, <1>2, <1>3, PTL DEF Spec, AgreesWithCondition

-----------------------------------------------------------------------------
(* The alerts of a rule follow each other.                                 *)

\* No row is dated after the evaluation began, what it resolves is open, and
\* what it inserts is dated as it is.
InTime(s) ==
    /\ s.pc # "begin" => \A e \in events : e.triggered_at <= s.now /\ e.resolved_at <= s.now
    /\ \A e \in events : e.id \in s.resolved => Live(e)
    /\ \A g \in s.opened : g.resolved_at \in {Unresolved, s.now}

TurnInv(w) ==
    /\ \A e \in events : e.resolved_at <= clock
    /\ \A e \in events, g \in Opened(w) : e.id < g.id
    /\ Writing(w) => InTime(session[w])
    /\ AlertsInTurn

LEMMA ClockRuns ==
  ASSUME Inv1, [Next]_vars PROVE clock \in Nat /\ clock' \in {clock, clock + 1}
  <1>1. ASSUME NEW w \in Workers, Evaluate(w) \/ Die(w) PROVE clock' = clock
    BY <1>1 DEF Evaluate, Begin, ReadOpenEvent, Resolve, KeepOpen, Judge, Suppress, Fire,
                Commit, Conflict, Die, world
  <1>2. clock' \in {clock, clock + 1}
    BY <1>1 DEF Next, vars, Tick, RivalMoves, CreateRule, DeleteRule, Scrape
  <1> QED BY <1>2 DEF Inv1, TypeOK

\* The open event in hand is live, if its row is there.
LEMMA InHandLive ==
  ASSUME Inv1, NEW w \in Workers, HandInv(w), Looking(session[w]),
         NEW o \in session[w].open, NEW e \in events, e.id = o.id
  PROVE  Live(e)
  <1>1. InHand(session[w])
    BY DEF HandInv, Looking, Writing
  <1>2. e = o /\ o.rule \notin deleted
    BY <1>1 DEF InHand, Inv1, TypeOK
  <1> QED BY <1>1, <1>2 DEF InHand, OpenEvents, Live

\* A turn of the session that inserts nothing.
LEMMA TimelyTurn ==
  ASSUME Inv1, NEW w \in Workers, TurnInv(w), NEW t, Turns(w, t),
         t.opened = session[w].opened, InTime(t)
  PROVE  TurnInv(w)'
  <1>1. /\ session'[w] = t /\ UNCHANGED <<clock, events>> /\ Writing(w) /\ t.pc # "idle"
    BY OneMoves DEF Inv1, Turns, Evaluation, Writing, world
  <1>2. Opened(w)' = Opened(w) /\ Writing(w)'
    BY <1>1 DEF Opened, Writing
  <1>3. InTime(session[w])'
    BY <1>1 DEF InTime, Live
  <1> QED BY <1>1, <1>2, <1>3 DEF TurnInv, AlertsInTurn

\* What a commit makes of the rows: each is a row there was, or one inserted.
LEMMA CommitTurns ==
  ASSUME Inv1, NEW w \in Workers, OpenInv(w), TurnInv(w), Commit(w)
  PROVE  TurnInv(w)'
  <1> DEFINE s == session[w]
  <1>1. /\ s \in Evaluation /\ s.pc = "next" /\ session'[w] = Idle /\ Writing(w)
        /\ events' = {Settled(s, e) : e \in events} \cup Opened(w)
        /\ Opened(w) = s.opened /\ clock' = clock
    BY CommitEffect, OneMoves DEF Inv1, Commit, Writing, Opened, world
  <1>2. Replaces(s) /\ InTime(s) /\ s.now \in Nat /\ s.now <= clock /\ clock \in Nat
    BY <1>1, Here DEF OpenInv, TurnInv, SessionOK, Evaluation, TypeOK
  <1>3. ASSUME NEW g \in Opened(w)
        PROVE  g \in Event /\ g.triggered_at = s.now /\ g.resolved_at \in {Unresolved, s.now}
    BY <1>1, <1>2, EventFacts, Here DEF SessionOK, OpenedOK, InTime
  <1>4. ASSUME NEW e \in events'
        PROVE  \/ e \in Opened(w)
               \/ \E f \in events :
                    /\ f \in Event /\ e.id = f.id /\ e.rule = f.rule
                    /\ e.triggered_at = f.triggered_at
                    /\ e.resolved_at = IF f.id \in s.resolved THEN s.now ELSE f.resolved_at
    BY <1>1, EventFacts, SettledRow
  <1>5. \A e \in events' : e.resolved_at <= clock
    BY <1>2, <1>3, <1>4 DEF TurnInv, Unresolved
  <1>6. ASSUME NEW e \in events', NEW h \in events', e.rule = h.rule, e.id < h.id
        PROVE  e.resolved_at \in 0..h.triggered_at
    <2>1. CASE e \in Opened(w)
      <3>1. h \notin Opened(w)
        BY <1>6, <2>1, EventFacts
      <3>2. PICK k \in events : k.id = h.id /\ k \in Event
        BY <1>4, <3>1
      <3>3. k.id < e.id
        BY <2>1, <3>2 DEF TurnInv
      <3> QED BY <1>3, <1>6, <2>1, <3>2, <3>3 DEF Event
    <2>2. CASE e \notin Opened(w)
      <3>1. PICK f \in events :
                    /\ f \in Event /\ e.id = f.id /\ e.rule = f.rule
                    /\ e.resolved_at = IF f.id \in s.resolved THEN s.now ELSE f.resolved_at
        BY <1>4, <2>2
      <3>2. f.id \in s.resolved => Live(f)
        BY <1>2 DEF InTime
      <3>3. CASE h \in Opened(w)
        <4>1. Live(f) => f.id \in s.resolved
          BY <1>1, <1>2, <1>6, <3>1, <3>3 DEF Replaces
        <4>2. f.resolved_at <= s.now /\ f.resolved_at \in Nat \cup {Unresolved}
          BY <1>1, <1>2, <3>1 DEF InTime, Event
        <4>3. h.triggered_at = s.now
          BY <1>3, <3>3
        <4> QED BY <1>2, <3>1, <4>1, <4>2, <4>3 DEF Live
      <3>4. CASE h \notin Opened(w)
        <4>1. PICK k \in events : /\ k \in Event /\ h.id = k.id /\ h.rule = k.rule
                                  /\ h.triggered_at = k.triggered_at
          BY <1>4, <3>4
        <4>2. f.resolved_at \in 0..k.triggered_at
          BY <1>6, <3>1, <4>1 DEF TurnInv, AlertsInTurn
        <4>3. ~Live(f)
          BY <4>1, <4>2 DEF Live, Unresolved, Event
        <4> QED BY <3>1, <3>2, <4>1, <4>2, <4>3
      <3> QED BY <3>3, <3>4
    <2> QED BY <2>1, <2>2
  <1>7. AlertsInTurn'
    BY <1>6 DEF AlertsInTurn
  <1> QED BY <1>1, <1>5, <1>7 DEF TurnInv, Opened, Writing, Idle

LEMMA StepTurn ==
  ASSUME Inv1, NEW w, Workers = {w}, OpenInv(w), HandInv(w), TurnInv(w), [Next]_vars
  PROVE  TurnInv(w)'
  <1> DEFINE s == session[w]
  <1> w \in Workers
    OBVIOUS
  <1>0. /\ clock \in Nat /\ clock' \in {clock, clock + 1}
        /\ \A e \in events : e.resolved_at \in Nat \cup {Unresolved}
    BY ClockRuns, EventFacts DEF Event
  <1>a. \A e \in events : e.resolved_at <= clock'
    BY <1>0 DEF TurnInv, Unresolved
  <1>1. CASE Surroundings
    BY <1>1, <1>a DEF Surroundings, TurnInv, InTime, Live, Opened, Writing, AlertsInTurn
  <1>2. ASSUME NEW r \in Rules, DeleteRule(r) PROVE TurnInv(w)'
    <2>1. events' \subseteq events /\ UNCHANGED <<clock, session>>
      BY <1>2 DEF DeleteRule
    <2> QED BY <2>1 DEF TurnInv, InTime, Live, Opened, Writing, AlertsInTurn
  <1>3. ASSUME NEW t, BeginsSession(w, t) PROVE TurnInv(w)'
    <2>1. /\ session'[w] = t /\ UNCHANGED <<clock, events>>
          /\ t.pc = "begin" /\ t.opened = {} /\ t.resolved = {}
      BY <1>3, OneMoves DEF Inv1, BeginsSession
    <2> QED BY <2>1 DEF TurnInv, InTime, Live, Opened, Writing, AlertsInTurn
  <1>4. ASSUME NEW t, Begins(w, t) PROVE TurnInv(w)'
    <2>1. /\ Turns(w, t) /\ t.opened = s.opened /\ t.resolved = s.resolved
          /\ t.now = clock /\ s.pc = "begin"
      BY <1>4 DEF Begins, Same
    <2>2. s.opened = {} /\ s.resolved = {}
      BY <2>1, Here DEF Writing, SessionOK
    <2>3. \A e \in events : e.triggered_at <= clock /\ e.resolved_at <= clock
      BY DEF TurnInv, Inv1, EventsOK
    <2> QED BY <2>1, <2>2, <2>3, TimelyTurn DEF InTime
  <1>5. ASSUME NEW t, NEW r \in Rules, Reads(w, t, r) PROVE TurnInv(w)'
    <2>1. /\ Turns(w, t) /\ t.opened = s.opened /\ t.resolved = s.resolved
          /\ t.now = s.now /\ s.pc = "next"
      BY <1>5 DEF Reads, Same
    <2>2. InTime(t)
      BY <2>1 DEF TurnInv, InTime, Writing
    <2> QED BY <2>1, <2>2, TimelyTurn
  <1>6. ASSUME NEW t, Clears(w, t) \/ Holds(w, t) \/ Passes(w, t) PROVE TurnInv(w)'
    <2>1. /\ Turns(w, t) /\ t.opened = s.opened /\ t.now = s.now /\ Looking(s)
          /\ t.resolved \subseteq s.resolved \cup {o.id : o \in s.open}
      BY <1>6 DEF Clears, Holds, Passes, Same, Looking
    <2>2. InTime(s) /\ s.pc # "begin"
      BY <2>1 DEF TurnInv, Looking, Writing
    <2>3. \A e \in events : e.id \in t.resolved => Live(e)
      BY <2>1, <2>2, InHandLive DEF InTime
    <2> QED BY <2>1, <2>2, <2>3, TimelyTurn DEF InTime
  <1>7. ASSUME NEW r, NEW cond, NEW t \in Evaluation, NEW new \in Event,
               Fires(w, r, cond, t, new)
        PROVE  TurnInv(w)'
    <2>1. /\ session'[w] = t /\ UNCHANGED <<clock, events>> /\ Looking(s) /\ Writing(w)
          /\ s.pc # "begin" /\ t.pc = "next" /\ t.now = s.now
          /\ t.opened = s.opened \cup {new} /\ new.id = ids + 1
          /\ new.resolved_at \in {Unresolved, s.now}
          /\ t.resolved = s.resolved \cup {o.id : o \in s.open}
      BY <1>7, OneMoves DEF Inv1, Fires, Looking, Writing, world
    <2>2. InTime(s)
      BY <2>1 DEF TurnInv
    <2>3. \A e \in events : e.id \in t.resolved => Live(e)
      BY <2>1, <2>2, InHandLive DEF InTime
    <2>4. InTime(session[w])'
      BY <2>1, <2>2, <2>3 DEF InTime, Live
    <2>5. Opened(w)' = Opened(w) \cup {new}
      BY <2>1 DEF Opened, Writing
    <2>6. \A e \in events : e.id < new.id
      BY <2>1, EventFacts
    <2> QED BY <2>1, <2>4, <2>5, <2>6 DEF TurnInv, AlertsInTurn
  <1>8. CASE Commit(w)
    BY <1>8, CommitTurns
  <1>9. CASE Ends(w)
    <2>1. session'[w] = Idle /\ UNCHANGED <<clock, events>>
      BY <1>9, OneMoves DEF Inv1, Ends, world
    <2> QED BY <2>1 DEF TurnInv, AlertsInTurn, Opened, Writing, Idle
  <1> QED BY <1>1, <1>2, <1>3, <1>4, <1>5, <1>6, <1>7, <1>8, <1>9, SoloSteps

LEMMA InitTurn == ASSUME NEW w, Workers = {w} PROVE Init => TurnInv(w)
  BY DEF Init, TurnInv, AlertsInTurn, Writing, Idle

LEMMA TurnInvariant ==
  ASSUME NEW w, Workers = {w} PROVE Spec => [](SoloInv(w) /\ TurnInv(w))
  <1>1. Init => SoloInv(w) /\ TurnInv(w)
    BY InitInv1, InitOpen, InitHand, InitStreak, InitTurn DEF SoloInv
  <1>2. SoloInv(w) /\ TurnInv(w) /\ [Next]_vars => (SoloInv(w) /\ TurnInv(w))'
    BY StepInv1, StepOpen, StepHand, StepStreak, StepTurn DEF SoloInv
  <1> QED BY <1>1, <1>2, PTL DEF Spec

\* With one worker the alerts of a rule never overlap: each is resolved by
\* the time the next one is triggered, whatever the clock did between the
\* beginning of an evaluation, which dates an alert, and its commit.
THEOREM AlertsFollow == ASSUME NEW w, Workers = {w} PROVE Spec => []AlertsInTurn
  <1>1. SoloInv(w) /\ TurnInv(w) => AlertsInTurn
    BY DEF TurnInv
  <1> QED BY <1>1, TurnInvariant, PTL

-----------------------------------------------------------------------------
(* The engine keeps an AlertLog.                                           *)

Entry(e) == [id |-> e.id, from |-> e.triggered_at, to |-> e.resolved_at]

Entries(r) == {Entry(e) : e \in EventsOf(r)}

\* Log's Announce, of the rows.
Announces(r, t) ==
    /\ \A a \in Entries(r) : t - a.from >= Cooldown
    /\ \E new \in Entries(r)' :
        /\ new \in [id : Nat, from : {t}, to : {Log!Open, t}]
        /\ \A a \in Entries(r) : a.id < new.id
        /\ Entries(r)' = Log!Ended(Entries(r), t) \cup {new}

LEMMA LogEvaluates ==
  ASSUME NEW t, clock' = clock,
         \A r \in Rules : \A a \in Entries(r) : a.from <= t /\ a.to <= t,
         \A r \in Rules : \/ Entries(r)' = Entries(r)
                          \/ Entries(r)' = Log!Ended(Entries(r), t)
                          \/ Announces(r, t)
  PROVE  Log!Evaluate(t)
  <1>1. /\ \A r \in Rules : Entries(r) = {[id |-> e.id, from |-> e.triggered_at,
                                          to |-> e.resolved_at] : e \in EventsOf(r)}
        /\ \A r \in Rules : Entries(r)' = {[id |-> e.id, from |-> e.triggered_at,
                                            to |-> e.resolved_at] : e \in EventsOf(r)'}
    BY DEF Entries, Entry
  <1>2. ASSUME NEW r \in Rules PROVE Log!Keep(r) \/ Log!End(r, t) \/ Log!Announce(r, t)
    <2>1. CASE Entries(r)' = Entries(r)
      BY <1>1, <2>1 DEF Log!Keep
    <2>2. CASE Entries(r)' = Log!Ended(Entries(r), t)
      BY <1>1, <2>2 DEF Log!End
    <2>3. CASE Announces(r, t)
      BY <1>1, <2>3 DEF Announces, Log!Announce
    <2> QED BY <2>1, <2>2, <2>3
  <1> QED BY <1>1, <1>2 DEF Log!Evaluate

\* An entry whose row is resolved exactly if it is open.
LEMMA SettledEntry ==
  ASSUME NEW s \in Evaluation, NEW e \in Event, e.id \in s.resolved <=> Live(e)
  PROVE  Entry(Settled(s, e)) = IF Entry(e).to = Log!Open
                                THEN [Entry(e) EXCEPT !.to = s.now]
                                ELSE Entry(e)
  BY SettledRow DEF Entry, Live, Log!Open, Unresolved

LEMMA CommitEntries ==
  ASSUME Inv1, NEW w \in Workers, Commit(w), NEW r \in Rules
  PROVE  LET s == session[w]
         IN  /\ Entries(r)' = {Entry(Settled(s, e)) : e \in EventsOf(r)}
                              \cup {Entry(g) : g \in {g \in s.opened : g.rule = r}}
             /\ (\A e \in EventsOf(r) : e.id \in s.resolved <=> Live(e)) =>
                    {Entry(Settled(s, e)) : e \in EventsOf(r)} = Log!Ended(Entries(r), s.now)
  <1> DEFINE s == session[w]
  <1>1. s \in Evaluation /\ events' = {Settled(s, e) : e \in events} \cup s.opened
    BY CommitEffect
  <1>2. \A e \in events : e \in Event /\ Settled(s, e).rule = e.rule
    BY <1>1, EventFacts, SettledRow
  <1>3. EventsOf(r)' = {Settled(s, e) : e \in EventsOf(r)} \cup {g \in s.opened : g.rule = r}
    BY <1>1, <1>2 DEF EventsOf
  <1>4. Entries(r)' = {Entry(e) : e \in EventsOf(r)'}
    BY DEF Entries, Entry
  <1>5. ASSUME \A e \in EventsOf(r) : e.id \in s.resolved <=> Live(e)
        PROVE  {Entry(Settled(s, e)) : e \in EventsOf(r)} = Log!Ended(Entries(r), s.now)
    <2>1. \A e \in EventsOf(r) :
              Entry(Settled(s, e)) = IF Entry(e).to = Log!Open
                                     THEN [Entry(e) EXCEPT !.to = s.now]
                                     ELSE Entry(e)
      BY <1>1, <1>2, <1>5, SettledEntry DEF EventsOf
    <2> QED BY <2>1 DEF Log!Ended, Entries
  <1>6. Entries(r)' = {Entry(Settled(s, e)) : e \in EventsOf(r)}
                      \cup {Entry(g) : g \in {g \in s.opened : g.rule = r}}
    BY <1>3, <1>4
  <1> QED BY <1>5, <1>6

\* A commit is one write to the log, as of the time its evaluation began.
LEMMA CommitWrites ==
  ASSUME Inv1, NEW w, Workers = {w}, NEW by, InsertedBy(by), OpenInv(w), TurnInv(w),
         Commit(w)
  PROVE  \E t \in 0..clock : Log!Evaluate(t)
  <1> DEFINE s == session[w]
  <1> w \in Workers
    OBVIOUS
  <1>1. /\ s \in Evaluation /\ s.pc = "next" /\ Writing(w) /\ clock' = clock
        /\ SessionOK(s) /\ Opened(w) = s.opened
    BY CommitEffect, Here DEF Commit, Writing, world, Opened
  <1>2. InTime(s) /\ Replaces(s) /\ OneLive /\ NextApart(by, w)
    BY <1>1 DEF TurnInv, OpenInv, InsertedBy
  <1>3. PICK t \in 0..clock : t = s.now
    BY <1>1 DEF Evaluation, SessionOK, Inv1, TypeOK
  <1>4. ASSUME NEW r \in Rules, NEW a \in Entries(r) PROVE a.from <= t /\ a.to <= t
    BY <1>1, <1>2, <1>3, <1>4 DEF Entries, EventsOf, Entry, InTime
  <1>5. ASSUME NEW r \in Rules
        PROVE  \/ Entries(r)' = Entries(r)
               \/ Entries(r)' = Log!Ended(Entries(r), t)
               \/ Announces(r, t)
    <2>1. CASE \E g \in s.opened : g.rule = r
      <3>1. PICK g \in s.opened : g.rule = r
        BY <2>1
      <3>2. {h \in s.opened : h.rule = r} = {g}
        BY <1>1, <3>1 DEF SessionOK
      <3>3. \A e \in EventsOf(r) : e.id \in s.resolved <=> Live(e)
        BY <1>2, <3>1 DEF EventsOf, Replaces, InTime
      <3>4. Entries(r)' = Log!Ended(Entries(r), t) \cup {Entry(g)}
        BY <1>3, <3>2, <3>3, CommitEntries
      <3>5. /\ g \in Event /\ g.triggered_at = t /\ g.resolved_at \in {Unresolved, t}
            /\ g.id \in Nat
        BY <1>1, <1>2, <1>3, <3>1, EventFacts DEF SessionOK, OpenedOK, InTime, Event
      <3>6. ASSUME NEW e \in EventsOf(r)
            PROVE  t - e.triggered_at >= Cooldown /\ e.id < g.id
        <4>1. e \in events /\ e.rule = g.rule /\ by[e.id] = w
          BY <3>1, EventFacts DEF EventsOf, InsertedBy
        <4> QED BY <1>1, <1>2, <3>1, <3>5, <4>1 DEF NextApart, TurnInv
      <3>7. Entry(g) \in [id : Nat, from : {t}, to : {Log!Open, t}]
        BY <3>5 DEF Entry, Log!Open, Unresolved
      <3>8. \A a \in Entries(r) : t - a.from >= Cooldown /\ a.id < Entry(g).id
        BY <3>6 DEF Entries, Entry
      <3>9. Entry(g) \in Entries(r)'
        BY <3>4
      <3> QED BY <3>4, <3>7, <3>8, <3>9 DEF Announces
    <2>2. CASE ~\E g \in s.opened : g.rule = r
      <3>1. Entries(r)' = {Entry(Settled(s, e)) : e \in EventsOf(r)}
        BY <2>2, CommitEntries
      <3>2. CASE \A e \in EventsOf(r) : e.id \notin s.resolved
        <4>1. \A e \in EventsOf(r) : Settled(s, e) = e
          BY <3>2 DEF Settled
        <4> QED BY <3>1, <4>1 DEF Entries
      <3>3. CASE \E e \in EventsOf(r) : e.id \in s.resolved
        <4>1. \A e \in EventsOf(r) : e.id \in s.resolved <=> Live(e)
          BY <1>2, <3>3 DEF EventsOf, InTime, OneLive
        <4> QED BY <1>3, <3>1, <4>1, CommitEntries
      <3> QED BY <3>2, <3>3
    <2> QED BY <2>1, <2>2
  <1>6. Log!Evaluate(t)
    BY <1>1, <1>4, <1>5, LogEvaluates
  <1> QED BY <1>6

\* Whatever else happens either shows in the log as the clock or a rule that
\* is gone, or does not show.
LEMMA StepLog ==
  ASSUME Inv1, NEW w, Workers = {w}, NEW by, InsertedBy(by), OpenInv(w), TurnInv(w),
         [Next]_vars
  PROVE  [Log!Next]_(<<[r \in Rules |-> Entries(r)], clock>>)
  <1> w \in Workers
    OBVIOUS
  <1>0. clock \in Nat /\ clock' \in {clock, clock + 1}
    BY ClockRuns
  <1>1. ASSUME events' = events PROVE Log!Next \/ UNCHANGED <<[r \in Rules |-> Entries(r)], clock>>
    <2>1. CASE clock' = clock
      BY <1>1, <2>1 DEF Entries, EventsOf
    <2>2. CASE clock' = clock + 1
      <3>1. Log!Pass
        BY <1>0, <1>1, <2>2 DEF Log!Pass, EventsOf
      <3> QED BY <3>1 DEF Log!Next
    <2> QED BY <1>0, <2>1, <2>2
  <1>2. ASSUME NEW q \in Rules, DeleteRule(q) PROVE Log!Next
    <2>1. events' = {e \in events : e.rule # q} /\ clock' = clock
      BY <1>2 DEF DeleteRule, EventsOf
    <2>2. EventsOf(q)' = {} /\ \A r \in Rules \ {q} : EventsOf(r)' = EventsOf(r)
      BY <2>1 DEF EventsOf
    <2>3. Log!Forget(q)
      BY <2>1, <2>2 DEF Log!Forget
    <2> QED BY <2>3 DEF Log!Next
  <1>3. CASE Commit(w)
    <2>1. \E t \in 0..clock : Log!Evaluate(t)
      BY <1>3, CommitWrites
    <2> QED BY <2>1 DEF Log!Next
  <1>4. CASE Surroundings
    BY <1>1, <1>4 DEF Surroundings
  <1>5. ASSUME NEW t, Turns(w, t) \/ BeginsSession(w, t)
        PROVE  Log!Next \/ UNCHANGED <<[r \in Rules |-> Entries(r)], clock>>
    BY <1>1, <1>5 DEF Turns, BeginsSession
  <1>6. ASSUME NEW r, NEW cond, NEW t \in Evaluation, NEW new \in Event,
               Fires(w, r, cond, t, new)
        PROVE  Log!Next \/ UNCHANGED <<[q \in Rules |-> Entries(q)], clock>>
    BY <1>1, <1>6 DEF Fires
  <1>7. CASE Ends(w)
    BY <1>1, <1>7 DEF Ends
  <1>8. \/ Surroundings \/ Commit(w) \/ Ends(w)
        \/ \E r \in Rules : DeleteRule(r)
        \/ \E t : Turns(w, t) \/ BeginsSession(w, t)
        \/ \E r, cond : \E t \in Evaluation, new \in Event : Fires(w, r, cond, t, new)
    BY SoloSteps DEF Begins, Clears, Holds, Passes, Reads
  <1> QED BY <1>2, <1>3, <1>4, <1>5, <1>6, <1>7, <1>8

\* With one worker, an evaluation's many queries, its crashes and conflicts,
\* and the rules deleted under it come down to one write to an alert log, at
\* the instant the evaluation takes for its own.
THEOREM EngineKeepsLog == ASSUME NEW w, Workers = {w} PROVE Spec => ImplementsAlertLog
  <1> DEFINE Inv == Inv2 /\ SoloInv(w) /\ TurnInv(w)
  <1>1. Init => Log!Init
    BY DEF Init, Log!Init, EventsOf
  <1>2. Inv /\ [Next]_vars => [Log!Next]_(<<[r \in Rules |-> Entries(r)], clock>>)
    BY StepLog DEF Inv2, SoloInv
  <1>3. Spec => []Inv
    BY Inv2Invariant, TurnInvariant, PTL
  <1>4. [Log!Next]_(<<[r \in Rules |-> Entries(r)], clock>>)
        => [Log!Next]_(<<[r \in Rules |->
                {[id |-> e.id, from |-> e.triggered_at, to |-> e.resolved_at] :
                    e \in EventsOf(r)}], clock>>)
    BY DEF Entries, Entry
  <1> QED BY <1>1, <1>2, <1>3, <1>4, PTL DEF Spec, ImplementsAlertLog, Log!Spec
=============================================================================
