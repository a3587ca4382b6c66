------------------------- MODULE AlertEngineProofs -------------------------
(***************************************************************************)
(* What AlertEngine keeps with any number of workers, for every finite set *)
(* of workers and rules, any rivals and prices and every value of the      *)
(* limits: the types (Inv1); the cooldown, with a function that says who   *)
(* inserted each event; and, with AlertWatch's histories, the alerts       *)
(* without an event, one per rule and ended session, and the snapshots     *)
(* that no evaluation has seen.                                            *)
(***************************************************************************)
EXTENDS AlertWatch, FiniteSetTheorems, FunctionTheorems, TLAPS

Looking(s) == s.pc \in {"judge", "trigger"}

\* The events that worker w has inserted and not committed.
Opened(w) == IF Writing(w) THEN session[w].opened ELSE {}

-----------------------------------------------------------------------------
(* Type correctness.                                                       *)

EventsOK ==
    \A e \in events :
        e.triggered_at <= clock /\ rules[e.rule] # "none" /\ e.snap \in 1..Len(snaps)

OpenedOK(s, e) ==
    /\ e.id <= ids /\ e.triggered_at = s.now /\ e.snap = s.snap
    /\ e.rule \notin deleted \cup s.todo /\ rules[e.rule] # "none"
    /\ Looking(s) => e.rule \notin s.rule

SessionOK(s) ==
    /\ snaps # <<>> /\ s.now <= clock
    /\ s.todo \cap s.rule = {}
    /\ \A r \in s.todo \cup s.rule : rules[r] # "none"
    /\ s.pc = "begin" => s.rule = {} /\ s.opened = {} /\ s.resolved = {} /\ s.held = {}
    /\ \A e \in s.opened : OpenedOK(s, e)
    /\ \A e, f \in s.opened : e.rule = f.rule => e = f

Inv1 == TypeOK /\ EventsOK /\ \A w \in Workers : Writing(w) => SessionOK(session[w])

LEMMA InitInv1 == Init => Inv1
  BY ConstantsAssumption
  DEF Init, Inv1, TypeOK, EventsOK, Writing, Idle, Snapshot, Active, NoPrice, Event

\* A session that is anywhere is a record of its kind.
LEMMA SessionType ==
  ASSUME TypeOK, NEW w \in Workers, Writing(w)
  PROVE  session[w] \in Evaluation /\ session[w].pc # "idle"
  BY DEF TypeOK, Writing, Idle

\* The session record of one worker is replaced.
Moves(w, t) == session' = [session EXCEPT ![w] = t]

LEMMA OneMoves ==
  ASSUME TypeOK, NEW w \in Workers, NEW t \in {Idle} \cup Evaluation, Moves(w, t)
  PROVE  /\ session' \in [Workers -> {Idle} \cup Evaluation]
         /\ session'[w] = t
         /\ \A v \in Workers \ {w} : session'[v] = session[v]
  BY DEF TypeOK, Moves

\* TypeOK's part about where a session stands.
Placed(s) ==
    /\ s.pc \in {"next", "judge", "trigger"} => s.snap \in 1..Len(snaps)
    /\ Looking(s) => s.rule # {} /\ Cardinality(s.open) <= 1
    /\ s.pc = "trigger" => Cardinality(s.cond) = 1

LEMMA PlacedType == TypeOK => \A w \in Workers : Placed(session[w])
  BY DEF TypeOK, Placed, Looking

\* What a step that writes no table but moves one session has to establish.
LEMMA SessionMoves ==
  ASSUME Inv1, NEW w \in Workers, NEW t \in {Idle} \cup Evaluation, Moves(w, t),
         UNCHANGED <<world, events>>,
         ids' \in Nat /\ ids <= ids', sent' \subseteq 1..ids', owed' \subseteq Rules,
         Placed(t), t.pc # "idle" => SessionOK(t)'
  PROVE  Inv1'
  <1>1. /\ session' \in [Workers -> {Idle} \cup Evaluation]
        /\ session'[w] = t
        /\ \A v \in Workers \ {w} : session'[v] = session[v]
    BY OneMoves DEF Inv1
  <1>2. \A v \in Workers : Placed(session'[v])
    BY <1>1, PlacedType DEF Inv1
  <1>3. TypeOK'
    BY <1>1, <1>2 DEF Inv1, TypeOK, Placed, Looking, world, Event
  <1>4. EventsOK'
    BY DEF Inv1, EventsOK, world
  <1>5. ASSUME NEW v \in Workers \ {w}, Writing(v)' PROVE SessionOK(session[v])'
    <2>1. Writing(v) /\ SessionOK(session[v]) /\ session[v] \in Evaluation
      BY <1>1, <1>5, SessionType DEF Inv1, Writing
    <2>2. \A e \in session[v].opened : OpenedOK(session[v], e)'
      <3> TAKE e \in session[v].opened
      <3>1. OpenedOK(session[v], e) /\ e.id \in Nat /\ ids \in Nat
        BY <2>1 DEF SessionOK, Evaluation, Event, Inv1, TypeOK
      <3> QED BY <1>1, <2>1, <3>1 DEF OpenedOK, Looking, world
    <2> QED BY <1>1, <2>1, <2>2 DEF SessionOK, world
  <1>6. ASSUME NEW v \in Workers, Writing(v)' PROVE SessionOK(session[v])'
    BY <1>1, <1>5, <1>6 DEF Writing
  <1> QED BY <1>3, <1>4, <1>6 DEF Inv1

LEMMA StepBegin == ASSUME Inv1, NEW w \in Workers, Begin(w) PROVE Inv1'
  <1> DEFINE s == session[w]
  <1>1. s \in Evaluation /\ SessionOK(s) /\ Writing(w) /\ s.pc = "begin"
    BY SessionType DEF Inv1, Begin, Writing
  <1>2. PICK t : t = [s EXCEPT !.pc = "next", !.snap = Len(snaps), !.todo = Active,
                               !.now = clock]
    OBVIOUS
  <1>3. Len(snaps) \in Nat \ {0} /\ clock \in Nat
    BY <1>1 DEF Inv1, TypeOK, SessionOK
  <1>4. /\ t.pc = "next" /\ t.snap = Len(snaps) /\ t.todo = Active /\ t.now = clock
        /\ t.rule = {} /\ t.opened = {}
        /\ t \in Evaluation
    BY <1>1, <1>2, <1>3 DEF Evaluation, Active, SessionOK
  <1>5. Moves(w, t) /\ UNCHANGED <<world, events, ids, sent, owed>>
    BY <1>2 DEF Begin, Moves
  <1>6. Placed(t)
    BY <1>3, <1>4 DEF Placed, Looking
  <1>7. SessionOK(t)'
    BY <1>1, <1>3, <1>4, <1>5 DEF SessionOK, Active, world, Looking
  <1> QED BY <1>4, <1>5, <1>6, <1>7, SessionMoves DEF Inv1, TypeOK

-----------------------------------------------------------------------------
(* The queries.                                                            *)

LEMMA MostRecentRows ==
  ASSUME NEW S, NEW recent \in MostRecent(S)
  PROVE  /\ \/ recent = {} /\ S = {}
            \/ \E e \in S : recent = {e} /\ \A f \in S : f.triggered_at <= e.triggered_at
         /\ recent \subseteq S
         /\ Cardinality(recent) <= 1
  <1>1. \/ recent = {} /\ S = {}
        \/ \E e \in S : recent = {e} /\ \A f \in S : f.triggered_at <= e.triggered_at
    BY DEF MostRecent
  <1>2. Cardinality(recent) <= 1
    BY <1>1, FS_EmptySet, FS_Singleton
  <1> QED BY <1>1, <1>2

\* A condition is made of prices there are.
LEMMA ConditionType ==
  ASSUME TypeOK, NEW s \in Evaluation, s.snap \in 1..Len(snaps),
         NEW r \in Rules, rules[r] # "none", NEW open, NEW cond \in Conditions(r, s, open)
  PROVE  cond \in [trigger_price : Prices, competitor : Rivals \cup {NoRival},
                   competitor_price : Prices \cup {NoPrice}]
  <1>1. Latest(s) \in Snapshot
    BY DEF TypeOK, Latest
  <1>2. rules[r] \in RuleTypes
    BY ConstantsAssumption DEF TypeOK
  <1>3. \A c \in Cheapest : c \in Rivals /\ rivals[c] \in Prices \cup {NoPrice}
    BY DEF TypeOK, Cheapest, Linked
  <1>4. CASE rules[r] = "undercut"
    BY <1>1, <1>3, <1>4 DEF Conditions, Condition, Snapshot
  <1>5. CASE rules[r] # "undercut"
    <2>1. cond = Condition(Latest(s).price, NoRival, NoPrice)
      BY <1>2, <1>5 DEF Conditions, RuleTypes
    <2> QED BY <1>1, <2>1 DEF Condition, Snapshot
  <1> QED BY <1>4, <1>5

-----------------------------------------------------------------------------
(* The steps of a session that insert nothing.                             *)

LEMMA SessionTurns ==
  ASSUME TypeOK, NEW s \in Evaluation, SessionOK(s), NEW t \in Evaluation,
         t.pc # "begin", t.snap = s.snap, t.now = s.now, t.opened = s.opened,
         t.todo \subseteq s.todo, t.todo \cap t.rule = {},
         t.rule \subseteq s.todo \cup s.rule,
         Looking(t) => \A e \in s.opened : e.rule \notin t.rule,
         UNCHANGED <<world, ids>>
  PROVE  SessionOK(t)'
  BY DEF SessionOK, OpenedOK, world, Looking

\* The facts about the session that a step starts from.
LEMMA Here ==
  ASSUME Inv1, NEW w \in Workers, Writing(w)
  PROVE  /\ session[w] \in Evaluation /\ SessionOK(session[w]) /\ Placed(session[w])
         /\ TypeOK
  BY SessionType, PlacedType DEF Inv1

LEMMA StepReadOpenEvent ==
  ASSUME Inv1, NEW w \in Workers, NEW r \in Rules, ReadOpenEvent(w, r) PROVE Inv1'
  <1> DEFINE s == session[w]
  <1>1. /\ s \in Evaluation /\ SessionOK(s) /\ Placed(s) /\ TypeOK
        /\ s.pc = "next" /\ r \in s.todo
    BY Here DEF ReadOpenEvent, Writing
  <1>2. PICK open \in MostRecent(OpenEvents(r)) :
          session' = [session EXCEPT ![w].pc = "judge", ![w].todo = @ \ {r},
                                     ![w].rule = {r}, ![w].open = open]
    BY DEF ReadOpenEvent
  <1>3. PICK t : t = [s EXCEPT !.pc = "judge", !.todo = @ \ {r}, !.rule = {r}, !.open = open]
    OBVIOUS
  <1>4. open \subseteq Event /\ Cardinality(open) <= 1
    BY <1>1, MostRecentRows DEF OpenEvents, EventsOf, TypeOK
  <1>5. /\ t.pc = "judge" /\ t.snap = s.snap /\ t.now = s.now /\ t.opened = s.opened
        /\ t.todo = s.todo \ {r} /\ t.rule = {r} /\ t.open = open
        /\ t \in Evaluation
    BY <1>1, <1>3, <1>4 DEF Evaluation
  <1>6. Moves(w, t) /\ UNCHANGED <<world, events, ids, sent, owed>>
    BY <1>2, <1>3 DEF ReadOpenEvent, Moves
  <1>7. Placed(t)
    BY <1>1, <1>4, <1>5 DEF Placed, Looking
  <1>8. \A e \in s.opened : e.rule \notin t.rule
    BY <1>1, <1>5 DEF SessionOK, OpenedOK
  <1>9. SessionOK(t)'
    BY <1>1, <1>5, <1>6, <1>8, SessionTurns
  <1> QED BY <1>1, <1>5, <1>6, <1>7, <1>9, SessionMoves DEF TypeOK

\* A verdict: the loop goes on, or to the trigger.
LEMMA StepVerdict ==
  ASSUME Inv1, NEW w \in Workers, Writing(w), session[w].pc # "begin",
         NEW t \in Evaluation, Moves(w, t), t.pc \in {"next", "trigger"},
         t.pc = "trigger" => Looking(session[w]) /\ Cardinality(t.cond) = 1,
         \A f \in {"snap", "now", "opened", "todo", "rule", "open"} : t[f] = session[w][f],
         UNCHANGED <<world, events, ids, sent>>, owed' \subseteq Rules
  PROVE  Inv1'
  <1> DEFINE s == session[w]
  <1>1. s \in Evaluation /\ SessionOK(s) /\ Placed(s) /\ TypeOK
    BY Here
  <1>2. /\ t.snap = s.snap /\ t.now = s.now /\ t.opened = s.opened
        /\ t.todo = s.todo /\ t.rule = s.rule /\ t.open = s.open
    OBVIOUS
  <1>3. Placed(t)
    BY <1>1, <1>2 DEF Placed, Looking, Writing, Evaluation
  <1>4. Looking(t) => \A e \in s.opened : e.rule \notin t.rule
    BY <1>1, <1>2 DEF SessionOK, OpenedOK, Looking
  <1>5. SessionOK(t)'
    BY <1>1, <1>2, <1>4, SessionTurns DEF SessionOK
  <1> QED BY <1>1, <1>3, <1>5, SessionMoves DEF TypeOK

LEMMA StepResolve == ASSUME Inv1, NEW w \in Workers, Resolve(w) PROVE Inv1'
  <1> DEFINE s == session[w]
  <1>1. s \in Evaluation /\ Writing(w) /\ s.pc = "judge" /\ TypeOK
    BY Here DEF Resolve, Writing
  <1>2. PICK t : t = [s EXCEPT !.pc = "next", !.resolved = @ \cup {e.id : e \in s.open}]
    OBVIOUS
  <1>3. t \in Evaluation /\ t.pc = "next"
    <2>1. {e.id : e \in s.open} \subseteq Nat
      BY <1>1 DEF Evaluation, Event
    <2> QED BY <1>1, <1>2, <2>1 DEF Evaluation
  <1>4. \A f \in {"snap", "now", "opened", "todo", "rule", "open"} : t[f] = s[f]
    BY <1>1, <1>2 DEF Evaluation
  <1>5. Moves(w, t) /\ UNCHANGED <<world, events, ids, sent, owed>>
    BY <1>2 DEF Resolve, Moves
  <1> QED BY <1>1, <1>3, <1>4, <1>5, StepVerdict DEF TypeOK

LEMMA StepKeepOpen == ASSUME Inv1, NEW w \in Workers, KeepOpen(w) PROVE Inv1'
  <1> DEFINE s == session[w]
  <1>1. s \in Evaluation /\ Writing(w) /\ s.pc = "judge" /\ TypeOK
    BY Here DEF KeepOpen, Writing
  <1>2. PICK t : t = [s EXCEPT !.pc = "next", !.held = @ \cup s.rule]
    OBVIOUS
  <1>3. t \in Evaluation /\ t.pc = "next"
    BY <1>1, <1>2 DEF Evaluation
  <1>4. \A f \in {"snap", "now", "opened", "todo", "rule", "open"} : t[f] = s[f]
    BY <1>1, <1>2 DEF Evaluation
  <1>5. Moves(w, t) /\ UNCHANGED <<world, events, ids, sent, owed>>
    BY <1>2 DEF KeepOpen, Moves
  <1> QED BY <1>1, <1>3, <1>4, <1>5, StepVerdict DEF TypeOK

LEMMA StepJudge == ASSUME Inv1, NEW w \in Workers, Judge(w) PROVE Inv1'
  <1> DEFINE s == session[w]
  <1>1. /\ s \in Evaluation /\ Writing(w) /\ s.pc = "judge" /\ TypeOK
        /\ SessionOK(s) /\ Placed(s)
    BY Here DEF Judge, Writing
  <1>2. PICK r \in s.rule : \E cond \in Conditions(r, s, s.open) :
          session' = [session EXCEPT ![w].pc = "trigger", ![w].cond = {cond},
                                     ![w].held = @ \cup s.rule]
    BY DEF Judge
  <1>3. PICK cond \in Conditions(r, s, s.open) :
          session' = [session EXCEPT ![w].pc = "trigger", ![w].cond = {cond},
                                     ![w].held = @ \cup s.rule]
    BY <1>2
  <1>4. r \in Rules /\ rules[r] # "none" /\ s.snap \in 1..Len(snaps)
    BY <1>1 DEF SessionOK, Evaluation, Placed
  <1>5. cond \in [trigger_price : Prices, competitor : Rivals \cup {NoRival},
                  competitor_price : Prices \cup {NoPrice}]
    BY <1>1, <1>4, ConditionType
  <1>6. PICK t : t = [s EXCEPT !.pc = "trigger", !.cond = {cond}, !.held = @ \cup s.rule]
    OBVIOUS
  <1>7. t.pc = "trigger" /\ t.cond = {cond} /\ Cardinality(t.cond) = 1
    BY <1>1, <1>6, FS_Singleton DEF Evaluation
  <1>8. t \in Evaluation
    BY <1>1, <1>5, <1>6 DEF Evaluation
  <1>9. \A f \in {"snap", "now", "opened", "todo", "rule", "open"} : t[f] = s[f]
    BY <1>1, <1>6 DEF Evaluation
  <1>10. Moves(w, t) /\ UNCHANGED <<world, events, ids, sent, owed>>
    BY <1>3, <1>6 DEF Judge, Moves
  <1> QED BY <1>1, <1>7, <1>8, <1>9, <1>10, StepVerdict DEF TypeOK, Looking

LEMMA StepSuppress == ASSUME Inv1, NEW w \in Workers, Suppress(w) PROVE Inv1'
  <1> DEFINE s == session[w]
  <1>1. s \in Evaluation /\ Writing(w) /\ s.pc = "trigger" /\ TypeOK
    BY Here DEF Suppress, Writing
  <1>2. PICK t : t = [s EXCEPT !.pc = "next"]
    OBVIOUS
  <1>3. t \in Evaluation /\ t.pc = "next"
    BY <1>1, <1>2 DEF Evaluation
  <1>4. \A f \in {"snap", "now", "opened", "todo", "rule", "open"} : t[f] = s[f]
    BY <1>1, <1>2 DEF Evaluation
  <1>5. Moves(w, t) /\ UNCHANGED <<world, events, ids, sent>>
    BY <1>2 DEF Suppress, Moves
  <1>6. owed' \subseteq Rules
    BY <1>1 DEF Suppress, TypeOK, Evaluation
  <1> QED BY <1>1, <1>3, <1>4, <1>5, <1>6, StepVerdict

\* A session that ends without its commit.
Ends(w) == Moves(w, Idle) /\ UNCHANGED <<world, events, ids, sent, owed>>

LEMMA StepEnds == ASSUME Inv1, NEW w \in Workers, Ends(w) PROVE Inv1'
  <1>1. PICK t : t = Idle
    OBVIOUS
  <1>2. t \in {Idle} \cup Evaluation /\ t.pc = "idle" /\ Moves(w, t)
    BY <1>1 DEF Ends, Idle
  <1>3. Placed(t)
    BY <1>2 DEF Placed, Looking
  <1> QED BY <1>2, <1>3, SessionMoves DEF Ends, Inv1, TypeOK

-----------------------------------------------------------------------------
(* Fire and Commit.                                                        *)

\* What Fire does, in one place.
Fires(w, r, cond, t, new) ==
    LET s == session[w] IN
    /\ s.pc = "trigger" /\ r \in s.rule \ deleted /\ cond \in s.cond
    /\ \E recent \in MostRecent(EventsOf(r)) : ~InCooldown(recent, s.now)
    /\ Moves(w, t)
    /\ t.pc = "next" /\ t.opened = s.opened \cup {new}
    /\ t.resolved = s.resolved \cup {e.id : e \in s.open}
    /\ \A f \in {"snap", "now", "todo", "rule", "open", "held"} : t[f] = s[f]
    /\ new.id = ids + 1 /\ new.rule = r /\ new.triggered_at = s.now /\ new.snap = s.snap
    /\ new.resolved_at = IF rules[r] = "price_drop_pct" THEN s.now ELSE Unresolved
    /\ ids' = ids + 1 /\ sent' \subseteq sent \cup {ids + 1} /\ owed' \subseteq owed
    /\ UNCHANGED <<world, events, failures>>

LEMMA FireEffect ==
  ASSUME Inv1, NEW w \in Workers, NEW delivery \in {"sent", "failed"}, Fire(w, delivery)
  PROVE  \E r, cond : \E t \in Evaluation, new \in Event : Fires(w, r, cond, t, new)
  <1> DEFINE s == session[w]
  <1>1. s \in Evaluation /\ Writing(w) /\ s.pc = "trigger" /\ TypeOK
    BY Here DEF Fire, Writing
  <1>2. PICK r \in s.rule \ deleted, cond \in s.cond :
        /\ \E recent \in MostRecent(EventsOf(r)) : ~InCooldown(recent, s.now)
        /\ session' = [session EXCEPT
                ![w].pc = "next",
                ![w].resolved = @ \cup {e.id : e \in s.open},
                ![w].opened = @ \cup {NewEvent(s, r, cond, delivery)}]
    BY DEF Fire
  <1>3. PICK new : new = NewEvent(s, r, cond, delivery)
    OBVIOUS
  <1>4. PICK t : t = [s EXCEPT !.pc = "next",
                               !.resolved = @ \cup {e.id : e \in s.open},
                               !.opened = @ \cup {new}]
    OBVIOUS
  <1>5. r \in Rules /\ s.now \in Nat /\ s.snap \in Nat /\ ids \in Nat
    BY <1>1 DEF Evaluation, TypeOK
  <1>6. /\ cond.trigger_price \in Prices /\ cond.competitor \in Rivals \cup {NoRival}
        /\ cond.competitor_price \in Prices \cup {NoPrice}
    BY <1>1 DEF Evaluation
  <1>7. /\ new.id = ids + 1 /\ new.rule = r /\ new.triggered_at = s.now /\ new.snap = s.snap
        /\ new.resolved_at = IF rules[r] = "price_drop_pct" THEN s.now ELSE Unresolved
        /\ new \in Event
    BY <1>3, <1>5, <1>6 DEF NewEvent, Event
  <1>8. /\ t.pc = "next" /\ t.opened = s.opened \cup {new}
        /\ t.resolved = s.resolved \cup {e.id : e \in s.open}
        /\ \A f \in {"snap", "now", "todo", "rule", "open", "held"} : t[f] = s[f]
    BY <1>1, <1>4 DEF Evaluation
  <1>9. t \in Evaluation
    <2>1. {e.id : e \in s.open} \subseteq Nat
      BY <1>1 DEF Evaluation, Event
    <2> QED BY <1>1, <1>4, <1>7, <2>1 DEF Evaluation
  <1>10. Moves(w, t)
    BY <1>2, <1>3, <1>4 DEF Moves
  <1>11. Fires(w, r, cond, t, new)
    BY <1>1, <1>2, <1>7, <1>8, <1>10 DEF Fires, Fire
  <1> QED BY <1>7, <1>9, <1>11

LEMMA StepFire ==
  ASSUME Inv1, NEW w \in Workers, NEW r, NEW cond, NEW t \in Evaluation, NEW new \in Event,
         Fires(w, r, cond, t, new)
  PROVE  Inv1'
  <1> DEFINE s == session[w]
  <1>1. /\ s \in Evaluation /\ SessionOK(s) /\ Placed(s) /\ TypeOK /\ s.pc = "trigger"
        /\ r \in s.rule \ deleted /\ r \in Rules
    BY Here DEF Fires, Writing, Evaluation
  <1>2. /\ t.pc = "next" /\ t.opened = s.opened \cup {new}
        /\ t.snap = s.snap /\ t.now = s.now /\ t.todo = s.todo /\ t.rule = s.rule
        /\ Moves(w, t) /\ UNCHANGED <<world, events>>
        /\ ids' = ids + 1 /\ sent' \subseteq sent \cup {ids + 1} /\ owed' \subseteq owed
        /\ new.id = ids + 1 /\ new.rule = r /\ new.triggered_at = s.now /\ new.snap = s.snap
    BY DEF Fires
  <1>3. Placed(t)
    BY <1>1, <1>2 DEF Placed, Looking
  <1>4. /\ ids \in Nat /\ ids' \in Nat /\ ids <= ids'
        /\ sent' \subseteq 1..ids' /\ owed' \subseteq Rules
    BY <1>1, <1>2 DEF TypeOK
  <1>5. ASSUME NEW e \in s.opened PROVE OpenedOK(t, e)'
    <2>1. OpenedOK(s, e) /\ e.id \in Nat
      BY <1>1 DEF SessionOK, Evaluation, Event
    <2> QED BY <1>2, <1>4, <2>1 DEF OpenedOK, Looking, world
  <1>6. OpenedOK(t, new)'
    BY <1>1, <1>2, <1>4 DEF OpenedOK, SessionOK, Looking, world
  <1>7. \A e, f \in t.opened : e.rule = f.rule => e = f
    <2>1. \A e \in s.opened : e.rule # r
      BY <1>1 DEF SessionOK, OpenedOK, Looking
    <2> QED BY <1>1, <1>2, <2>1 DEF SessionOK
  <1>8. SessionOK(t)'
    BY <1>1, <1>2, <1>5, <1>6, <1>7 DEF SessionOK, world
  <1> QED BY <1>2, <1>3, <1>4, <1>8, SessionMoves

\* A row after the commit of a session that resolves it or not.
Settled(s, e) == IF e.id \in s.resolved THEN [e EXCEPT !.resolved_at = s.now] ELSE e

LEMMA SettledRow ==
  ASSUME NEW s \in Evaluation, NEW e \in Event
  PROVE  /\ Settled(s, e) \in Event
         /\ Settled(s, e).id = e.id /\ Settled(s, e).rule = e.rule
         /\ Settled(s, e).triggered_at = e.triggered_at /\ Settled(s, e).snap = e.snap
         /\ Settled(s, e).resolved_at = IF e.id \in s.resolved THEN s.now ELSE e.resolved_at
         /\ s.now \in Nat
  BY DEF Settled, Evaluation, Event

LEMMA CommitEffect ==
  ASSUME Inv1, NEW w \in Workers, Commit(w)
  PROVE  /\ session[w] \in Evaluation /\ session[w].pc = "next" /\ session[w].todo = {}
         /\ events' = {Settled(session[w], e) : e \in events} \cup session[w].opened
         /\ Moves(w, Idle)
         /\ UNCHANGED <<world, ids, sent, owed, failures>>
  <1>1. session[w] \in Evaluation
    BY Here DEF Commit, Writing
  <1>2. {IF e.id \in session[w].resolved THEN [e EXCEPT !.resolved_at = session[w].now] ELSE e :
            e \in events}
          = {Settled(session[w], e) : e \in events}
    BY DEF Settled
  <1> QED BY <1>1, <1>2 DEF Commit, Moves

LEMMA StepCommit == ASSUME Inv1, NEW w \in Workers, Commit(w) PROVE Inv1'
  <1> DEFINE s == session[w]
  <1>1. /\ s \in Evaluation /\ SessionOK(s) /\ Placed(s) /\ TypeOK /\ s.pc = "next"
        /\ Moves(w, Idle) /\ UNCHANGED <<world, ids, sent, owed, failures>>
        /\ events' = {Settled(s, e) : e \in events} \cup s.opened
    BY CommitEffect, Here DEF Commit, Writing
  <1>2. /\ session' \in [Workers -> {Idle} \cup Evaluation]
        /\ session'[w] = Idle
        /\ \A v \in Workers \ {w} : session'[v] = session[v]
    BY <1>1, OneMoves
  <1>3. ASSUME NEW e \in events'
        PROVE  /\ e \in Event /\ e.id <= ids /\ e.rule \notin deleted
               /\ e.triggered_at <= clock /\ rules[e.rule] # "none"
               /\ e.snap \in 1..Len(snaps)
    <2>1. CASE e \in s.opened
      BY <1>1, <2>1 DEF SessionOK, OpenedOK, Placed, Evaluation
    <2>2. CASE \E f \in events : e = Settled(s, f)
      <3>1. PICK f \in events : e = Settled(s, f)
        BY <2>2
      <3>2. f \in Event /\ f.id <= ids /\ f.rule \notin deleted
        BY <1>1 DEF TypeOK
      <3>3. f.triggered_at <= clock /\ rules[f.rule] # "none" /\ f.snap \in 1..Len(snaps)
        BY DEF Inv1, EventsOK
      <3> QED BY <1>1, <3>1, <3>2, <3>3, SettledRow
    <2> QED BY <1>1, <2>1, <2>2
  <1>4. \A v \in Workers : Placed(session'[v])
    <2>1. Idle.pc = "idle"
      BY DEF Idle
    <2> QED BY <1>1, <1>2, <2>1, PlacedType DEF Placed, Looking
  <1>5. TypeOK'
    BY <1>1, <1>2, <1>3, <1>4 DEF TypeOK, Placed, Looking, world
  <1>6. EventsOK'
    BY <1>1, <1>3 DEF EventsOK, world
  <1>7. ASSUME NEW v \in Workers, Writing(v)' PROVE SessionOK(session[v])'
    <2>1. v # w /\ Writing(v) /\ SessionOK(session[v]) /\ session'[v] = session[v]
      BY <1>2, <1>7 DEF Inv1, Writing, Idle
    <2> QED BY <1>1, <2>1 DEF SessionOK, OpenedOK, Looking, world
  <1> QED BY <1>5, <1>6, <1>7 DEF Inv1

-----------------------------------------------------------------------------
(* The world around the sessions.                                          *)

\* Every session stays as it is.
LEMMA StepTick == ASSUME Inv1, Tick PROVE Inv1'
  <1>1. TypeOK'
    BY ConstantsAssumption DEF Inv1, TypeOK, Tick
  <1>2. EventsOK'
    BY DEF Inv1, TypeOK, EventsOK, Tick, Event
  <1>3. ASSUME NEW v \in Workers, Writing(v)' PROVE SessionOK(session[v])'
    <2>1. SessionOK(session[v]) /\ session[v].now \in Nat
      BY <1>3, SessionType DEF Inv1, Tick, Writing, Evaluation
    <2> QED BY <2>1 DEF SessionOK, OpenedOK, Looking, Tick, Inv1, TypeOK
  <1> QED BY <1>1, <1>2, <1>3 DEF Inv1

LEMMA StepRivalMoves ==
  ASSUME Inv1, NEW c \in Rivals, NEW price \in Prices \cup {NoPrice}, RivalMoves(c, price)
  PROVE  Inv1'
  <1>1. TypeOK'
    BY DEF Inv1, TypeOK, RivalMoves
  <1> QED BY <1>1 DEF Inv1, EventsOK, SessionOK, OpenedOK, Looking, Writing, RivalMoves

LEMMA StepCreateRule ==
  ASSUME Inv1, NEW r \in Rules, NEW kind \in Kinds, CreateRule(r, kind) PROVE Inv1'
  <1>1. rules' \in [Rules -> Kinds \cup {"none"}] /\ kind # "none"
    BY ConstantsAssumption DEF Inv1, TypeOK, CreateRule, RuleTypes
  <1>2. \A q \in Rules : rules[q] # "none" => rules'[q] # "none"
    BY <1>1 DEF Inv1, TypeOK, CreateRule
  <1>3. TypeOK'
    BY <1>1, <1>2 DEF Inv1, TypeOK, CreateRule
  <1>4. EventsOK'
    BY <1>2 DEF Inv1, TypeOK, EventsOK, CreateRule, Event
  <1>5. ASSUME NEW v \in Workers, Writing(v)' PROVE SessionOK(session[v])'
    <2>1. SessionOK(session[v]) /\ session[v] \in Evaluation
      BY <1>5, SessionType DEF Inv1, CreateRule, Writing
    <2>2. \A e \in session[v].opened : e.rule \in Rules
      BY <2>1 DEF Evaluation, Event
    <2> QED BY <1>2, <2>1, <2>2 DEF SessionOK, OpenedOK, Looking, CreateRule, Evaluation
  <1> QED BY <1>3, <1>4, <1>5 DEF Inv1

LEMMA StepDeleteRule == ASSUME Inv1, NEW r \in Rules, DeleteRule(r) PROVE Inv1'
  <1>1. /\ rules[r] # "none" /\ deleted' = deleted \cup {r}
        /\ events' = {e \in events : e.rule # r}
        /\ \A w \in Workers : Writing(w) => \A e \in session[w].opened : e.rule # r
        /\ UNCHANGED <<clock, snaps, rivals, rules, ids, sent, owed, session, moves, failures>>
    BY DEF DeleteRule, Active, EventsOf
  <1>2. TypeOK'
    BY <1>1 DEF Inv1, TypeOK
  <1>3. EventsOK'
    BY <1>1 DEF Inv1, EventsOK
  <1>4. ASSUME NEW v \in Workers, Writing(v)' PROVE SessionOK(session[v])'
    BY <1>1, <1>4 DEF Inv1, SessionOK, OpenedOK, Looking, Writing
  <1> QED BY <1>2, <1>3, <1>4 DEF Inv1

LEMMA StepScrape ==
  ASSUME Inv1, NEW w \in Workers, NEW price \in Prices, NEW in_stock \in Stocks,
         Scrape(w, price, in_stock)
  PROVE  Inv1'
  <1>1. PICK t : t = [pc |-> "begin", snap |-> 0, now |-> 0, todo |-> {}, rule |-> {},
                      open |-> {}, cond |-> {}, resolved |-> {}, opened |-> {}, held |-> {}]
    OBVIOUS
  <1>2. Moves(w, t) /\ t \in Evaluation /\ t.pc = "begin"
    BY <1>1 DEF Scrape, Moves, Evaluation
  <1>3. /\ session' \in [Workers -> {Idle} \cup Evaluation]
        /\ session'[w] = t
        /\ \A v \in Workers \ {w} : session'[v] = session[v]
    BY <1>2, OneMoves DEF Inv1
  <1>4. PICK snapshot \in Snapshot : snaps' = Append(snaps, snapshot)
    BY DEF Scrape, Snapshot
  <1>5. /\ snaps' \in Seq(Snapshot) /\ Len(snaps') = Len(snaps) + 1 /\ Len(snaps) \in Nat
        /\ UNCHANGED <<clock, rivals, rules, deleted, events, ids, sent, owed, moves, failures>>
    BY <1>4 DEF Inv1, TypeOK, Scrape
  <1>6. \A v \in Workers : Placed(session[v])'
    <2>1. Placed(t)'
      BY <1>2 DEF Placed, Looking
    <2>2. ASSUME NEW v \in Workers \ {w} PROVE Placed(session[v])'
      BY <1>3, <1>5, PlacedType DEF Placed, Looking, Inv1
    <2> QED BY <1>3, <2>1, <2>2
  <1>7. TypeOK'
    BY <1>3, <1>5, <1>6 DEF Inv1, TypeOK, Placed, Looking
  <1>8. EventsOK'
    BY <1>5 DEF Inv1, EventsOK
  <1>9. ASSUME NEW v \in Workers, Writing(v)' PROVE SessionOK(session[v])'
    <2>1. snaps' # <<>>
      BY <1>5
    <2>2. CASE v = w
      <3>1. t.now = 0 /\ t.rule = {} /\ t.todo = {} /\ t.opened = {}
            /\ t.resolved = {} /\ t.held = {}
        BY <1>1
      <3> QED BY <1>3, <1>5, <2>1, <2>2, <3>1 DEF SessionOK, Inv1, TypeOK
    <2>3. CASE v # w
      <3>1. SessionOK(session[v]) /\ session'[v] = session[v]
        BY <1>3, <1>9, <2>3 DEF Inv1, Writing
      <3> QED BY <1>5, <2>1, <3>1 DEF SessionOK, OpenedOK, Looking
    <2> QED BY <2>2, <2>3
  <1> QED BY <1>7, <1>8, <1>9 DEF Inv1

-----------------------------------------------------------------------------
LEMMA EndsStep ==
  ASSUME NEW w \in Workers, Die(w) \/ Conflict(w)
  PROVE  Ends(w) /\ failures' = failures + 1 /\ Writing(w)
  BY DEF Die, Conflict, Ends, Moves, Writing

LEMMA StepInv1 == Inv1 /\ [Next]_vars => Inv1'
  <1> SUFFICES ASSUME Inv1, [Next]_vars PROVE Inv1'
    OBVIOUS
  <1>1. CASE Tick
    BY <1>1, StepTick
  <1>2. CASE \E c \in Rivals, price \in Prices \cup {NoPrice} : RivalMoves(c, price)
    BY <1>2, StepRivalMoves
  <1>3. CASE \E r \in Rules : DeleteRule(r) \/ \E kind \in Kinds : CreateRule(r, kind)
    BY <1>3, StepDeleteRule, StepCreateRule
  <1>4. ASSUME NEW w \in Workers,
               \/ \E price \in Prices, in_stock \in Stocks : Scrape(w, price, in_stock)
               \/ Evaluate(w)
               \/ Die(w)
        PROVE  Inv1'
    <2>1. CASE \E price \in Prices, in_stock \in Stocks : Scrape(w, price, in_stock)
      BY <2>1, StepScrape
    <2>2. CASE Begin(w)
      BY <2>2, StepBegin
    <2>3. CASE \E r \in Rules : ReadOpenEvent(w, r)
      BY <2>3, StepReadOpenEvent
    <2>4. CASE Resolve(w)
      BY <2>4, StepResolve
    <2>5. CASE KeepOpen(w)
      BY <2>5, StepKeepOpen
    <2>6. CASE Judge(w)
      BY <2>6, StepJudge
    <2>7. CASE Suppress(w)
      BY <2>7, StepSuppress
    <2>8. CASE \E delivery \in {"sent", "failed"} : Fire(w, delivery)
      BY <2>8, FireEffect, StepFire
    <2>9. CASE Commit(w)
      BY <2>9, StepCommit
    <2>10. CASE Die(w) \/ Conflict(w)
      BY <2>10, EndsStep, StepEnds
    <2> QED BY <1>4, <2>1, <2>2, <2>3, <2>4, <2>5, <2>6, <2>7, <2>8, <2>9, <2>10
          DEF Evaluate
  <1>5. CASE UNCHANGED vars
    BY <1>5 DEF vars, Inv1, TypeOK, EventsOK, SessionOK, OpenedOK, Looking, Writing, Active
  <1> QED BY <1>1, <1>2, <1>3, <1>4, <1>5 DEF Next

LEMMA Inv1Invariant == Spec => []Inv1
  BY InitInv1, StepInv1, PTL DEF Spec

\* Type correctness of the alert engine: for any workers, rules and rivals
\* a session that judges stands on a snapshot that exists, has one rule and
\* at most one open event in hand, and no committed event's rule is gone.
THEOREM AlertTypes == Spec => []TypeOK
  <1>1. Inv1 => TypeOK
    BY DEF Inv1
  <1> QED BY Inv1Invariant, <1>1, PTL

-----------------------------------------------------------------------------
(* What steps do to the events: nothing, delete a rule's, insert one,      *)
(* commit a session's, or drop a session's.                                *)

Quiet ==
    /\ UNCHANGED <<events, ids, sent, failures, deleted>>
    /\ \A v \in Workers : Opened(v)' = Opened(v)

Drops(r) ==
    /\ events' = {e \in events : e.rule # r} /\ deleted' = deleted \cup {r}
    /\ UNCHANGED <<ids, sent, failures>>
    /\ \A v \in Workers : Opened(v)' = Opened(v)

Inserts(w, new) ==
    /\ new \in Event
    /\ new.id = ids + 1 /\ ids' = ids + 1 /\ sent' \subseteq sent \cup {ids + 1}
    /\ UNCHANGED <<events, failures, deleted>>
    /\ \A e \in events : e.rule = new.rule => new.triggered_at - e.triggered_at >= Cooldown
    /\ Opened(w)' = Opened(w) \cup {new}
    /\ \A v \in Workers \ {w} : Opened(v)' = Opened(v)

Commits(w) ==
    /\ events' = {Settled(session[w], e) : e \in events} \cup Opened(w)
    /\ session[w] \in Evaluation
    /\ UNCHANGED <<ids, sent, failures, deleted>>
    /\ Opened(w)' = {}
    /\ \A v \in Workers \ {w} : Opened(v)' = Opened(v)

Loses(w) ==
    /\ failures' = failures + 1
    /\ UNCHANGED <<events, ids, sent, deleted>>
    /\ Opened(w)' = {}
    /\ \A v \in Workers \ {w} : Opened(v)' = Opened(v)

\* A trigger outside the cooldown is one that no committed event is near.
LEMMA CooldownOver ==
  ASSUME TypeOK, NEW r \in Rules, NEW now \in Nat,
         NEW recent \in MostRecent(EventsOf(r)), ~InCooldown(recent, now)
  PROVE  \A e \in events : e.rule = r => now - e.triggered_at >= Cooldown
  <1> SUFFICES ASSUME NEW e \in EventsOf(r) PROVE now - e.triggered_at >= Cooldown
    BY DEF EventsOf
  <1>1. EventsOf(r) \subseteq Event
    BY DEF EventsOf, TypeOK
  <1>2. PICK m \in EventsOf(r) : recent = {m} /\ e.triggered_at <= m.triggered_at
    BY MostRecentRows
  <1>3. e.triggered_at \in Nat /\ m.triggered_at \in Nat
    BY <1>1, <1>2 DEF Event
  <1>4. ~(now - m.triggered_at < Cooldown)
    BY <1>2 DEF InCooldown
  <1> QED BY <1>2, <1>3, <1>4, ConstantsAssumption

LEMMA QuietSteps ==
  ASSUME Inv1, NEW w \in Workers, NEW t \in Evaluation, Moves(w, t),
         t.opened = Opened(w), t.pc # "idle",
         UNCHANGED <<events, ids, sent, failures, deleted>>
  PROVE  Quiet
  BY OneMoves DEF Inv1, Quiet, Opened, Writing

LEMMA OpenedStays ==
  ASSUME NEW w \in Workers, Writing(w), session'[w].pc # "idle",
         session'[w].opened = session[w].opened,
         \A v \in Workers \ {w} : session'[v] = session[v],
         UNCHANGED <<world, events, ids, sent, failures>>
  PROVE  Quiet
  BY DEF Quiet, Opened, Writing, world

LEMMA StepKinds ==
  ASSUME Inv1, [Next]_vars
  PROVE  \/ Quiet
         \/ \E r \in Rules : Drops(r)
         \/ \E w \in Workers, new \in Event : Inserts(w, new)
         \/ \E w \in Workers : Commits(w) \/ Loses(w)
  <1>1. CASE Tick \/ UNCHANGED vars
    BY <1>1 DEF Tick, vars, Quiet, Opened, Writing
  <1>2. CASE \E c \in Rivals, price \in Prices \cup {NoPrice} : RivalMoves(c, price)
    BY <1>2 DEF RivalMoves, Quiet, Opened, Writing
  <1>3. CASE \E r \in Rules : \E kind \in Kinds : CreateRule(r, kind)
    BY <1>3 DEF CreateRule, Quiet, Opened, Writing
  <1>4. CASE \E r \in Rules : DeleteRule(r)
    <2>1. PICK r \in Rules : DeleteRule(r)
      BY <1>4
    <2>2. Drops(r)
      BY <2>1 DEF DeleteRule, Drops, EventsOf, Opened, Writing
    <2> QED BY <2>2
  <1>5. ASSUME NEW w \in Workers,
               \/ \E price \in Prices, in_stock \in Stocks : Scrape(w, price, in_stock)
               \/ Evaluate(w)
               \/ Die(w)
        PROVE  Quiet \/ Commits(w) \/ Loses(w) \/ \E new \in Event : Inserts(w, new)
    <2> DEFINE s == session[w]
    <2>1. CASE \E price \in Prices, in_stock \in Stocks : Scrape(w, price, in_stock)
      <3>1. PICK t : t = [pc |-> "begin", snap |-> 0, now |-> 0, todo |-> {}, rule |-> {},
                          open |-> {}, cond |-> {}, resolved |-> {}, opened |-> {},
                          held |-> {}]
        OBVIOUS
      <3>2. t \in Evaluation /\ t.pc = "begin" /\ t.opened = {} /\ Moves(w, t)
        BY <2>1, <3>1 DEF Scrape, Moves, Evaluation
      <3>3. Opened(w) = {} /\ UNCHANGED <<events, ids, sent, failures, deleted>>
        BY <2>1 DEF Scrape, Opened
      <3> QED BY <3>2, <3>3, QuietSteps
    <2>2. CASE Begin(w)
      <3>1. s \in Evaluation /\ Writing(w)
        BY <2>2, Here DEF Begin, Writing
      <3>2. /\ session'[w].pc = "next" /\ session'[w].opened = s.opened
            /\ \A v \in Workers \ {w} : session'[v] = session[v]
            /\ UNCHANGED <<world, events, ids, sent, failures>>
        BY <2>2, <3>1 DEF Begin, Evaluation, Inv1, TypeOK
      <3> QED BY <3>1, <3>2, OpenedStays
    <2>3. CASE \E r \in Rules : ReadOpenEvent(w, r)
      <3>1. s \in Evaluation /\ Writing(w)
        BY <2>3, Here DEF ReadOpenEvent, Writing
      <3>2. /\ session'[w].pc = "judge" /\ session'[w].opened = s.opened
            /\ \A v \in Workers \ {w} : session'[v] = session[v]
            /\ UNCHANGED <<world, events, ids, sent, failures>>
        BY <2>3, <3>1 DEF ReadOpenEvent, Evaluation, Inv1, TypeOK
      <3> QED BY <3>1, <3>2, OpenedStays
    <2>4. CASE Resolve(w)
      <3>1. s \in Evaluation /\ Writing(w)
        BY <2>4, Here DEF Resolve, Writing
      <3>2. /\ session'[w].pc = "next" /\ session'[w].opened = s.opened
            /\ \A v \in Workers \ {w} : session'[v] = session[v]
            /\ UNCHANGED <<world, events, ids, sent, failures>>
        BY <2>4, <3>1 DEF Resolve, Evaluation, Inv1, TypeOK
      <3> QED BY <3>1, <3>2, OpenedStays
    <2>5. CASE KeepOpen(w)
      <3>1. s \in Evaluation /\ Writing(w)
        BY <2>5, Here DEF KeepOpen, Writing
      <3>2. /\ session'[w].pc = "next" /\ session'[w].opened = s.opened
            /\ \A v \in Workers \ {w} : session'[v] = session[v]
            /\ UNCHANGED <<world, events, ids, sent, failures>>
        BY <2>5, <3>1 DEF KeepOpen, Evaluation, Inv1, TypeOK
      <3> QED BY <3>1, <3>2, OpenedStays
    <2>6. CASE Judge(w)
      <3>1. s \in Evaluation /\ Writing(w)
        BY <2>6, Here DEF Judge, Writing
      <3>2. /\ session'[w].pc = "trigger" /\ session'[w].opened = s.opened
            /\ \A v \in Workers \ {w} : session'[v] = session[v]
            /\ UNCHANGED <<world, events, ids, sent, failures>>
        BY <2>6, <3>1 DEF Judge, Evaluation, Inv1, TypeOK
      <3> QED BY <3>1, <3>2, OpenedStays
    <2>7. CASE Suppress(w)
      <3>1. s \in Evaluation /\ Writing(w)
        BY <2>7, Here DEF Suppress, Writing
      <3>2. /\ session'[w].pc = "next" /\ session'[w].opened = s.opened
            /\ \A v \in Workers \ {w} : session'[v] = session[v]
            /\ UNCHANGED <<world, events, ids, sent, failures>>
        BY <2>7, <3>1 DEF Suppress, Evaluation, Inv1, TypeOK
      <3> QED BY <3>1, <3>2, OpenedStays
    <2>8. CASE \E delivery \in {"sent", "failed"} : Fire(w, delivery)
      <3>1. PICK r, cond : \E t \in Evaluation, new \in Event : Fires(w, r, cond, t, new)
        BY <2>8, FireEffect
      <3>2. PICK t \in Evaluation, new \in Event : Fires(w, r, cond, t, new)
        BY <3>1
      <3>3. s \in Evaluation /\ Writing(w) /\ TypeOK /\ r \in Rules /\ s.now \in Nat
        BY <3>2, Here DEF Fires, Writing, Evaluation
      <3>4. \A e \in events : e.rule = r => s.now - e.triggered_at >= Cooldown
        BY <3>2, <3>3, CooldownOver DEF Fires
      <3>5. /\ Opened(w)' = Opened(w) \cup {new}
            /\ \A v \in Workers \ {w} : Opened(v)' = Opened(v)
        BY <3>2, <3>3, OneMoves DEF Fires, Opened, Writing
      <3>6. Inserts(w, new)
        BY <3>2, <3>4, <3>5 DEF Fires, Inserts, world
      <3> QED BY <3>6
    <2>9. CASE Commit(w)
      <3>1. /\ s \in Evaluation /\ s.pc = "next"
            /\ events' = {Settled(s, e) : e \in events} \cup s.opened
            /\ Moves(w, Idle) /\ UNCHANGED <<world, ids, sent, failures>>
        BY <2>9, CommitEffect
      <3>2. /\ Opened(w)' = {} /\ Opened(w) = s.opened
            /\ \A v \in Workers \ {w} : Opened(v)' = Opened(v)
        BY <3>1, OneMoves DEF Inv1, Opened, Writing, Idle
      <3> QED BY <3>1, <3>2 DEF Commits, world
    <2>10. CASE Die(w) \/ Conflict(w)
      <3>1. Moves(w, Idle) /\ UNCHANGED <<world, events, ids, sent>> /\ failures' = failures + 1
        BY <2>10, EndsStep DEF Ends
      <3>2. Opened(w)' = {} /\ \A v \in Workers \ {w} : Opened(v)' = Opened(v)
        BY <3>1, OneMoves DEF Inv1, Opened, Writing, Idle
      <3> QED BY <3>1, <3>2 DEF Loses, world
    <2> QED BY <1>5, <2>1, <2>2, <2>3, <2>4, <2>5, <2>6, <2>7, <2>8, <2>9, <2>10
          DEF Evaluate
  <1> QED BY <1>1, <1>2, <1>3, <1>4, <1>5 DEF Next

-----------------------------------------------------------------------------
(* The cooldown: two events of one rule that one worker inserted are a     *)
(* cooldown apart.  Events do not say who inserted them; `by' does.        *)

Apart(e, f) ==
    \/ e.triggered_at - f.triggered_at >= Cooldown
    \/ f.triggered_at - e.triggered_at >= Cooldown

OwnApart(by) ==
    \A e, f \in events : e.rule = f.rule /\ by[e.id] = by[f.id] => e = f \/ Apart(e, f)

NextApart(by, w) ==
    \A g \in Opened(w) :
        /\ by[g.id] = w
        /\ \A e \in events :
            e.rule = g.rule /\ by[e.id] = w => g.triggered_at - e.triggered_at >= Cooldown

InsertedBy(by) ==
    /\ by \in [1..ids -> Workers]
    /\ OwnApart(by)
    /\ \A w \in Workers : NextApart(by, w)

\* The rows and the ids of Inv1, for events and those about to be.
LEMMA EventFacts ==
  ASSUME Inv1
  PROVE  /\ \A e \in events : e \in Event /\ e.id \in 1..ids /\ e.rule \in Rules
                              /\ e.triggered_at \in Nat
         /\ \A w \in Workers : \A g \in Opened(w) :
                g \in Event /\ g.id \in 1..ids /\ g.rule \in Rules /\ g.triggered_at \in Nat
         /\ \A w \in Workers : \A g, h \in Opened(w) : g.rule = h.rule => g = h
         /\ ids \in Nat
  <1>1. ids \in Nat
    BY DEF Inv1, TypeOK
  <1>2. \A e \in events : e \in Event /\ e.id \in 1..ids /\ e.rule \in Rules
                          /\ e.triggered_at \in Nat
    BY <1>1 DEF Inv1, TypeOK, Event
  <1>3. ASSUME NEW w \in Workers, NEW g \in Opened(w)
        PROVE  g \in Event /\ g.id \in 1..ids /\ g.rule \in Rules /\ g.triggered_at \in Nat
    <2>1. Writing(w) /\ g \in session[w].opened
      BY <1>3 DEF Opened
    <2>2. g \in Event /\ OpenedOK(session[w], g)
      BY <2>1, Here DEF Evaluation, SessionOK
    <2> QED BY <1>1, <2>2 DEF Event, OpenedOK
  <1>4. ASSUME NEW w \in Workers, NEW g \in Opened(w), NEW h \in Opened(w), g.rule = h.rule
        PROVE  g = h
    BY <1>4, Here DEF Opened, SessionOK
  <1> QED BY <1>1, <1>2, <1>3, <1>4

LEMMA InitInsertedBy == Init => \E by : InsertedBy(by)
  <1> SUFFICES ASSUME Init PROVE \E by : InsertedBy(by)
    OBVIOUS
  <1> DEFINE none == [i \in {} |-> {}]
  <1>1. none \in [1..ids -> Workers]
    BY DEF Init
  <1>2. events = {} /\ \A w \in Workers : Opened(w) = {}
    BY DEF Init, Opened, Writing, Idle
  <1>3. InsertedBy(none)
    BY <1>1, <1>2 DEF InsertedBy, OwnApart, NextApart
  <1> QED BY <1>3

LEMMA InsertInsertedBy ==
  ASSUME Inv1, NEW by, InsertedBy(by), NEW w \in Workers, NEW new \in Event, Inserts(w, new)
  PROVE  \E also : InsertedBy(also)'
  <1>1. PICK also : also = [i \in 1..(ids + 1) |-> IF i <= ids THEN by[i] ELSE w]
    OBVIOUS
  <1>2. /\ ids \in Nat /\ ids' = ids + 1 /\ events' = events
        /\ also \in [1..ids' -> Workers]
        /\ also[ids + 1] = w /\ \A i \in 1..ids : also[i] = by[i]
    BY <1>1, EventFacts DEF Inserts, InsertedBy
  <1>3. OwnApart(also)'
    BY <1>2, EventFacts DEF OwnApart, Apart, InsertedBy
  <1>4. ASSUME NEW v \in Workers PROVE NextApart(also, v)'
    <2>1. ASSUME NEW g \in Opened(v)
          PROVE  /\ also[g.id] = v
                 /\ \A e \in events : e.rule = g.rule /\ also[e.id] = v
                        => g.triggered_at - e.triggered_at >= Cooldown
      BY <1>2, <2>1, EventFacts DEF InsertedBy, NextApart
    <2>2. CASE v # w
      <3>1. Opened(v)' = Opened(v)
        BY <2>2 DEF Inserts
      <3> QED BY <1>2, <2>1, <3>1 DEF NextApart
    <2>3. CASE v = w
      <3>1. Opened(v)' = Opened(v) \cup {new}
        BY <2>3 DEF Inserts
      <3>2. /\ also[new.id] = v
            /\ \A e \in events : e.rule = new.rule
                    => new.triggered_at - e.triggered_at >= Cooldown
        BY <1>2, <2>3 DEF Inserts
      <3> QED BY <1>2, <2>1, <3>1, <3>2 DEF NextApart
    <2> QED BY <2>2, <2>3
  <1>5. InsertedBy(also)'
    BY <1>2, <1>3, <1>4 DEF InsertedBy
  <1> QED BY <1>5

LEMMA CommitInsertedBy ==
  ASSUME Inv1, NEW by, InsertedBy(by), NEW w \in Workers, Commits(w)
  PROVE  InsertedBy(by)'
  <1> DEFINE s == session[w]
  <1>1. /\ s \in Evaluation /\ events' = {Settled(s, e) : e \in events} \cup Opened(w)
        /\ ids' = ids /\ Opened(w)' = {}
        /\ \A v \in Workers \ {w} : Opened(v)' = Opened(v)
    BY DEF Commits
  <1>2. ASSUME NEW e \in events'
        PROVE  \/ e \in Opened(w)
               \/ \E f \in events : /\ e = Settled(s, f)
                                    /\ e.id = f.id /\ e.rule = f.rule
                                    /\ e.triggered_at = f.triggered_at
    BY <1>1, EventFacts, SettledRow
  <1>3. ASSUME NEW e \in events', NEW f \in events', e.rule = f.rule, by[e.id] = by[f.id]
        PROVE  e = f \/ Apart(e, f)
    <2>1. CASE e \in Opened(w) /\ f \in Opened(w)
      BY <1>3, <2>1, EventFacts
    <2>2. CASE e \in Opened(w) /\ f \notin Opened(w)
      <3>1. PICK g \in events : g.id = f.id /\ g.rule = f.rule
                                /\ g.triggered_at = f.triggered_at
        BY <1>2, <2>2
      <3> QED BY <1>3, <2>2, <3>1 DEF InsertedBy, NextApart, Apart
    <2>3. CASE e \notin Opened(w) /\ f \in Opened(w)
      <3>1. PICK g \in events : g.id = e.id /\ g.rule = e.rule
                                /\ g.triggered_at = e.triggered_at
        BY <1>2, <2>3
      <3> QED BY <1>3, <2>3, <3>1 DEF InsertedBy, NextApart, Apart
    <2>4. CASE e \notin Opened(w) /\ f \notin Opened(w)
      <3>1. PICK g \in events : /\ e = Settled(s, g) /\ g.id = e.id /\ g.rule = e.rule
                                /\ g.triggered_at = e.triggered_at
        BY <1>2, <2>4
      <3>2. PICK h \in events : /\ f = Settled(s, h) /\ h.id = f.id /\ h.rule = f.rule
                                /\ h.triggered_at = f.triggered_at
        BY <1>2, <2>4
      <3>3. g = h \/ Apart(g, h)
        BY <1>3, <3>1, <3>2 DEF InsertedBy, OwnApart
      <3> QED BY <3>1, <3>2, <3>3 DEF Apart
    <2> QED BY <2>1, <2>2, <2>3, <2>4
  <1>4. ASSUME NEW v \in Workers PROVE NextApart(by, v)'
    <2>1. CASE v = w
      BY <1>1, <2>1 DEF NextApart
    <2>2. CASE v # w
      <3>1. Opened(v)' = Opened(v) /\ \A g \in Opened(w) : by[g.id] = w
        BY <1>1, <2>2 DEF InsertedBy, NextApart
      <3>2. ASSUME NEW g \in Opened(v), NEW e \in events', e.rule = g.rule, by[e.id] = v
            PROVE  g.triggered_at - e.triggered_at >= Cooldown
        <4>1. PICK f \in events : f.id = e.id /\ f.rule = e.rule
                                  /\ f.triggered_at = e.triggered_at
          BY <1>2, <2>2, <3>1, <3>2
        <4> QED BY <3>2, <4>1 DEF InsertedBy, NextApart
      <3> QED BY <3>1, <3>2 DEF InsertedBy, NextApart
    <2> QED BY <2>1, <2>2
  <1> QED BY <1>1, <1>3, <1>4 DEF InsertedBy, OwnApart

LEMMA StepInsertedBy ==
  ASSUME Inv1, [Next]_vars, NEW by, InsertedBy(by)
  PROVE  \E also : InsertedBy(also)'
  <1>1. ASSUME events' \subseteq events, ids' = ids,
               \A v \in Workers : Opened(v)' \subseteq Opened(v)
        PROVE  InsertedBy(by)'
    BY <1>1 DEF InsertedBy, OwnApart, NextApart
  <1>2. CASE Quiet
    BY <1>1, <1>2 DEF Quiet
  <1>3. CASE \E r \in Rules : Drops(r)
    BY <1>1, <1>3 DEF Drops
  <1>4. CASE \E w \in Workers, new \in Event : Inserts(w, new)
    BY <1>4, InsertInsertedBy
  <1>5. ASSUME NEW w \in Workers, Commits(w) PROVE InsertedBy(by)'
    BY <1>5, CommitInsertedBy
  <1>6. ASSUME NEW w \in Workers, Loses(w) PROVE InsertedBy(by)'
    BY <1>1, <1>6 DEF Loses
  <1> QED BY <1>2, <1>3, <1>4, <1>5, <1>6, StepKinds

\* Events near each other have different workers: there are no more of them.
LEMMA PerWorker ==
  ASSUME Inv1, NEW by, InsertedBy(by) PROVE CooldownPerWorker
  <1> SUFFICES ASSUME NEW e \in events
               PROVE  Cardinality({f \in EventsOf(e.rule) :
                            f.triggered_at - e.triggered_at \in 0..(Cooldown - 1)})
                        <= Cardinality(Workers)
    BY DEF CooldownPerWorker
  <1> DEFINE near == {f \in EventsOf(e.rule) :
                        f.triggered_at - e.triggered_at \in 0..(Cooldown - 1)}
             who == [f \in near |-> by[f.id]]
  <1>1. ASSUME NEW f \in near
        PROVE  /\ f \in events /\ f.rule = e.rule /\ by[f.id] \in Workers
               /\ f.triggered_at - e.triggered_at >= 0
               /\ f.triggered_at - e.triggered_at < Cooldown
               /\ f.triggered_at \in Nat /\ e.triggered_at \in Nat
    BY <1>1, EventFacts, ConstantsAssumption DEF EventsOf, InsertedBy
  <1>2. ASSUME NEW f \in near, NEW g \in near, by[f.id] = by[g.id] PROVE f = g
    <2>1. f = g \/ Apart(f, g)
      BY <1>1, <1>2 DEF InsertedBy, OwnApart
    <2>2. ~Apart(f, g)
      BY <1>1, ConstantsAssumption DEF Apart
    <2> QED BY <2>1, <2>2
  <1>3. who \in Injection(near, Workers)
    BY <1>1, <1>2 DEF Injection, IsInjective
  <1> QED BY <1>3, FS_Injection, ConstantsAssumption

Inv2 == Inv1 /\ \E by : InsertedBy(by)

LEMMA Inv2Invariant == Spec => []Inv2
  <1>1. Init => Inv2
    BY InitInv1, InitInsertedBy DEF Inv2
  <1>2. Inv2 /\ [Next]_vars => Inv2'
    BY StepInv1, StepInsertedBy DEF Inv2
  <1> QED BY <1>1, <1>2, PTL DEF Spec

\* The cooldown that several workers do keep: in any window of its length a
\* rule opens no more events than there are workers, however many workers
\* evaluate the product, however their sessions interleave or die.
THEOREM OnePerWorker == Spec => []CooldownPerWorker
  <1>1. Inv2 => CooldownPerWorker
    BY PerWorker DEF Inv2
  <1> QED BY Inv2Invariant, <1>1, PTL

-----------------------------------------------------------------------------
(* Alerts without an event.                                                *)

\* What an observed step is, and what it notes.
LEMMA WatchedStep ==
  ASSUME [WatchNext]_watchVars
  PROVE  /\ [Next]_vars
         /\ erased \subseteq erased'
         /\ \A e \in events : e.rule \in deleted' \ deleted => e.id \in erased'
  BY DEF WatchNext, Note, watchVars, vars

\* The ids of delivered alerts that no event records or recorded.
Unrecorded ==
    {i \in sent \ erased : /\ \A e \in events : e.id # i
                           /\ \A w \in Workers : \A g \in Opened(w) : g.id # i}

UnrecordedBounded ==
    failures \in Nat /\ Cardinality(Unrecorded) <= failures * Cardinality(Rules)

LEMMA UnrecordedFinite ==
  TypeOK => IsFiniteSet(Unrecorded) /\ Cardinality(Unrecorded) \in Nat
  <1> SUFFICES ASSUME TypeOK PROVE IsFiniteSet(Unrecorded) /\ Cardinality(Unrecorded) \in Nat
    OBVIOUS
  <1>1. Unrecorded \subseteq 1..ids /\ ids \in Nat
    BY DEF Unrecorded, TypeOK
  <1>2. IsFiniteSet(1..ids)
    BY <1>1, FS_Interval
  <1> QED BY <1>1, <1>2, FS_Subset, FS_CardinalityType

\* Dropping a session leaves unrecorded what it inserted: one event a rule.
LEMMA OneSession ==
  ASSUME Inv1, NEW w \in Workers
  PROVE  LET dropped == {g.id : g \in Opened(w)}
         IN  IsFiniteSet(dropped) /\ Cardinality(dropped) <= Cardinality(Rules)
  <1> DEFINE dropped == {g.id : g \in Opened(w)}
             inserted == [i \in dropped |-> CHOOSE g \in Opened(w) : g.id = i]
             ruleOf == [i \in dropped |-> inserted[i].rule]
  <1>1. ASSUME NEW i \in dropped
        PROVE  inserted[i] \in Opened(w) /\ inserted[i].id = i
    BY <1>1
  <1>2. ruleOf \in [dropped -> Rules]
    BY <1>1, EventFacts
  <1>3. ASSUME NEW i \in dropped, NEW j \in dropped, ruleOf[i] = ruleOf[j] PROVE i = j
    BY <1>1, <1>3, EventFacts
  <1>4. ruleOf \in Injection(dropped, Rules)
    BY <1>2, <1>3 DEF Injection, IsInjective
  <1> QED BY <1>4, FS_Injection, ConstantsAssumption

LEMMA StepUnrecorded ==
  ASSUME Inv1, UnrecordedBounded, [WatchNext]_watchVars
  PROVE  UnrecordedBounded'
  <1> DEFINE K == Cardinality(Rules)
  <1>1. /\ IsFiniteSet(Unrecorded) /\ Cardinality(Unrecorded) \in Nat
        /\ K \in Nat /\ failures \in Nat
    BY UnrecordedFinite, FS_CardinalityType, ConstantsAssumption DEF Inv1, UnrecordedBounded
  <1>w. /\ [Next]_vars /\ erased \subseteq erased'
        /\ \A e \in events : e.rule \in deleted' \ deleted => e.id \in erased'
    BY WatchedStep
  <1>2. ASSUME Unrecorded' \subseteq Unrecorded, failures' = failures
        PROVE  UnrecordedBounded'
    <2>1. Cardinality(Unrecorded') <= Cardinality(Unrecorded) /\ Cardinality(Unrecorded') \in Nat
      BY <1>1, <1>2, FS_Subset, FS_CardinalityType
    <2> HIDE DEF K
    <2>2. failures * K \in Int
      BY <1>1
    <2> QED BY <1>1, <1>2, <2>1, <2>2 DEF UnrecordedBounded, K
  <1>3. CASE Quiet
    <2>1. Unrecorded' \subseteq Unrecorded
      BY <1>w, <1>3 DEF Quiet, Unrecorded
    <2> QED BY <1>2, <1>3, <2>1 DEF Quiet
  <1>4. ASSUME NEW r \in Rules, Drops(r) PROVE UnrecordedBounded'
    <2>1. Unrecorded' \subseteq Unrecorded
      <3> SUFFICES ASSUME NEW i \in Unrecorded' PROVE i \in Unrecorded
        OBVIOUS
      <3>1. /\ i \in sent \ erased' /\ \A e \in events' : e.id # i
            /\ \A v \in Workers : \A g \in Opened(v) : g.id # i
        BY <1>4 DEF Drops, Unrecorded
      <3>2. ASSUME NEW e \in events PROVE e.id # i
        <4>1. CASE e.rule = r
          BY <1>4, <1>w, <3>1, <4>1 DEF Drops, Inv1, TypeOK
        <4>2. CASE e.rule # r
          BY <1>4, <3>1, <4>2 DEF Drops
        <4> QED BY <4>1, <4>2
      <3> QED BY <1>w, <3>1, <3>2 DEF Unrecorded
    <2> QED BY <1>2, <1>4, <2>1 DEF Drops
  <1>5. ASSUME NEW w \in Workers, NEW new \in Event, Inserts(w, new) PROVE UnrecordedBounded'
    <2>1. Unrecorded' \subseteq Unrecorded
      <3> SUFFICES ASSUME NEW i \in Unrecorded' PROVE i \in Unrecorded
        OBVIOUS
      <3>1. new \in Opened(w)' /\ new.id = ids + 1
        BY <1>5 DEF Inserts
      <3>2. i \in sent \ erased /\ \A v \in Workers : Opened(v) \subseteq Opened(v)'
        BY <1>5, <1>w, <3>1 DEF Inserts, Unrecorded
      <3> QED BY <1>5, <3>2 DEF Unrecorded, Inserts
    <2> QED BY <1>2, <1>5, <2>1 DEF Inserts
  <1>6. ASSUME NEW w \in Workers, Commits(w) PROVE UnrecordedBounded'
    <2>1. Unrecorded' \subseteq Unrecorded
      <3> SUFFICES ASSUME NEW i \in Unrecorded' PROVE i \in Unrecorded
        OBVIOUS
      <3>1. i \in sent \ erased /\ \A e \in events' : e.id # i
        BY <1>6, <1>w DEF Commits, Unrecorded
      <3>2. ASSUME NEW e \in events PROVE e.id # i
        <4>1. Settled(session[w], e) \in events' /\ Settled(session[w], e).id = e.id
          BY <1>6, EventFacts, SettledRow DEF Commits
        <4> QED BY <3>1, <4>1
      <3>3. ASSUME NEW v \in Workers, NEW g \in Opened(v) PROVE g.id # i
        BY <1>6, <3>1, <3>3 DEF Commits, Unrecorded
      <3> QED BY <3>1, <3>2, <3>3 DEF Unrecorded
    <2> QED BY <1>2, <1>6, <2>1 DEF Commits
  <1>7. ASSUME NEW w \in Workers, Loses(w) PROVE UnrecordedBounded'
    <2> SUFFICES Cardinality(Unrecorded') <= failures' * K
      BY <1>1, <1>7 DEF UnrecordedBounded, Loses
    <2> DEFINE dropped == {g.id : g \in Opened(w)}
    <2>1. IsFiniteSet(dropped) /\ Cardinality(dropped) <= K /\ Cardinality(dropped) \in Nat
      BY OneSession, FS_CardinalityType
    <2>2. Unrecorded' \subseteq Unrecorded \cup dropped
      BY <1>7, <1>w DEF Loses, Unrecorded
    <2> HIDE DEF dropped, K
    <2>3. IsFiniteSet(Unrecorded \cup dropped)
          /\ Cardinality(Unrecorded \cup dropped)
                <= Cardinality(Unrecorded) + Cardinality(dropped)
      <3>1. Cardinality(Unrecorded \cap dropped) \in Nat
        BY <1>1, FS_Subset, FS_CardinalityType
      <3>2. /\ IsFiniteSet(Unrecorded \cup dropped)
            /\ Cardinality(Unrecorded \cup dropped)
                = Cardinality(Unrecorded) + Cardinality(dropped)
                    - Cardinality(Unrecorded \cap dropped)
        BY <1>1, <2>1, FS_Union
      <3> QED BY <1>1, <2>1, <3>1, <3>2
    <2>4. /\ Cardinality(Unrecorded') <= Cardinality(Unrecorded \cup dropped)
          /\ Cardinality(Unrecorded') \in Nat /\ Cardinality(Unrecorded \cup dropped) \in Nat
      BY <2>2, <2>3, FS_Subset, FS_CardinalityType
    <2>5. Cardinality(Unrecorded) <= failures * K
      BY DEF UnrecordedBounded, K
    <2>6. failures' = failures + 1 /\ (failures + 1) * K = failures * K + K
          /\ failures * K \in Int
      BY <1>1, <1>7 DEF Loses
    <2> QED BY <1>1, <2>1, <2>3, <2>4, <2>5, <2>6
  <1> QED BY <1>w, <1>3, <1>4, <1>5, <1>6, <1>7, StepKinds

LEMMA UnrecordedMeaning == UnrecordedBounded => AlertsAccountedFor
  <1>1. Unrecorded = sent \ ({e.id : e \in Recorded} \cup erased)
    BY DEF Unrecorded, Opened, Recorded
  <1> QED BY <1>1 DEF UnrecordedBounded, AlertsAccountedFor

\* Notifications leave before the commit; what that costs is bounded: n
\* sessions that died or were refused left n alerts per rule at most without
\* an event, for any workers, rules and interleavings, whichever rules are
\* deleted under whichever sessions.
THEOREM FewUnrecorded == WatchSpec => []AlertsAccountedFor
  <1> DEFINE Inv == Inv1 /\ UnrecordedBounded
  <1>1. WatchInit => Inv
    <2> SUFFICES ASSUME WatchInit PROVE UnrecordedBounded
      BY InitInv1 DEF WatchInit
    <2>1. Unrecorded = {} /\ failures = 0
      BY DEF WatchInit, Init, Unrecorded
    <2>2. Cardinality(Rules) \in Nat
      BY FS_CardinalityType, ConstantsAssumption
    <2> QED BY <2>1, <2>2, FS_EmptySet DEF UnrecordedBounded
  <1>2. Inv /\ [WatchNext]_watchVars => Inv'
    BY WatchedStep, StepInv1, StepUnrecorded
  <1>3. Inv => AlertsAccountedFor
    BY UnrecordedMeaning
  <1> QED BY <1>1, <1>2, <1>3, PTL DEF WatchSpec

-----------------------------------------------------------------------------
(* Snapshots that no evaluation has seen.                                  *)

Beginning == {w \in Workers : session[w].pc = "begin"}

\* The steps as they bear on that: none, a scrape, the start of an
\* evaluation, the end of a session.
Idles ==
    /\ UNCHANGED <<snaps, failures>>
    /\ Beginning' = Beginning /\ Started = {}

Scrapes(w) ==
    /\ Len(snaps') = Len(snaps) + 1 /\ UNCHANGED failures
    /\ w \notin Beginning /\ Beginning' = Beginning \cup {w} /\ Started = {}

SetsOut(w) ==
    /\ UNCHANGED <<snaps, failures>>
    /\ Started = {w} /\ session'[w].snap = Len(snaps)

Gives(w) ==
    /\ UNCHANGED snaps /\ failures' = failures + 1
    /\ Beginning' = Beginning \ {w} /\ Started = {}

LEMMA ElsewhereIdles ==
  ASSUME NEW w \in Workers, \A v \in Workers \ {w} : session'[v] = session[v],
         session[w].pc # "begin", session'[w].pc # "begin"
  PROVE  Beginning' = Beginning /\ Started = {}
  BY DEF Beginning, Started

LEMMA StepBeginning ==
  ASSUME Inv1, [Next]_vars
  PROVE  Idles \/ \E w \in Workers : Scrapes(w) \/ SetsOut(w) \/ Gives(w)
  <1>1. CASE \/ Tick \/ UNCHANGED vars
             \/ \E c \in Rivals, price \in Prices \cup {NoPrice} : RivalMoves(c, price)
             \/ \E r \in Rules : DeleteRule(r) \/ \E kind \in Kinds : CreateRule(r, kind)
    BY <1>1 DEF Tick, vars, RivalMoves, DeleteRule, CreateRule, Idles, Beginning, Started
  <1>2. ASSUME NEW w \in Workers,
               \/ \E price \in Prices, in_stock \in Stocks : Scrape(w, price, in_stock)
               \/ Evaluate(w)
               \/ Die(w)
        PROVE  Idles \/ Scrapes(w) \/ SetsOut(w) \/ Gives(w)
    <2> DEFINE s == session[w]
    <2>0. TypeOK
      BY DEF Inv1
    <2>1. CASE \E price \in Prices, in_stock \in Stocks : Scrape(w, price, in_stock)
      <3>1. PICK price \in Prices, in_stock \in Stocks : Scrape(w, price, in_stock)
        BY <2>1
      <3>2. PICK t : t = [pc |-> "begin", snap |-> 0, now |-> 0, todo |-> {}, rule |-> {},
                          open |-> {}, cond |-> {}, resolved |-> {}, opened |-> {},
                          held |-> {}]
        OBVIOUS
      <3>3. t \in Evaluation /\ t.pc = "begin" /\ Moves(w, t)
        BY <3>1, <3>2 DEF Scrape, Moves, Evaluation
      <3>4. session'[w] = t /\ \A v \in Workers \ {w} : session'[v] = session[v]
        BY <2>0, <3>3, OneMoves
      <3>5. w \notin Beginning /\ Beginning' = Beginning \cup {w} /\ Started = {}
        BY <3>1, <3>3, <3>4 DEF Scrape, Writing, Beginning, Started
      <3>6. PICK snapshot \in Snapshot : snaps' = Append(snaps, snapshot)
        BY <3>1 DEF Scrape, Snapshot
      <3>7. Len(snaps') = Len(snaps) + 1
        BY <2>0, <3>6 DEF TypeOK
      <3> QED BY <3>1, <3>5, <3>7 DEF Scrapes, Scrape
    <2>2. CASE Begin(w)
      <3>1. s \in Evaluation /\ s.pc = "begin"
        BY <2>2, Here DEF Begin, Writing
      <3>2. /\ session'[w].pc = "next" /\ session'[w].snap = Len(snaps)
            /\ \A v \in Workers \ {w} : session'[v] = session[v]
            /\ UNCHANGED <<snaps, failures>>
        BY <2>0, <2>2, <3>1 DEF Begin, Evaluation, TypeOK, world
      <3>3. Started = {w}
        BY <3>1, <3>2 DEF Started
      <3> QED BY <3>2, <3>3 DEF SetsOut
    <2>3. CASE \/ \E r \in Rules : ReadOpenEvent(w, r)
               \/ Resolve(w) \/ KeepOpen(w) \/ Judge(w) \/ Suppress(w)
      <3>1. s.pc \in {"next", "judge", "trigger"}
        BY <2>3 DEF ReadOpenEvent, Resolve, KeepOpen, Judge, Suppress
      <3>2. s \in Evaluation
        BY <3>1, Here DEF Writing
      <3>3. /\ session'[w].pc # "begin"
            /\ \A v \in Workers \ {w} : session'[v] = session[v]
            /\ UNCHANGED <<snaps, failures>>
        <4>1. CASE \E r \in Rules : ReadOpenEvent(w, r)
          BY <2>0, <3>2, <4>1 DEF ReadOpenEvent, Evaluation, TypeOK, world
        <4>2. CASE Resolve(w)
          BY <2>0, <3>2, <4>2 DEF Resolve, Evaluation, TypeOK, world
        <4>3. CASE KeepOpen(w)
          BY <2>0, <3>2, <4>3 DEF KeepOpen, Evaluation, TypeOK, world
        <4>4. CASE Judge(w)
          BY <2>0, <3>2, <4>4 DEF Judge, Evaluation, TypeOK, world
        <4>5. CASE Suppress(w)
          BY <2>0, <3>2, <4>5 DEF Suppress, Evaluation, TypeOK, world
        <4> QED BY <2>3, <4>1, <4>2, <4>3, <4>4, <4>5
      <3> QED BY <3>1, <3>3, ElsewhereIdles DEF Idles
    <2>4. CASE \E delivery \in {"sent", "failed"} : Fire(w, delivery)
      <3>1. PICK r, cond : \E t \in Evaluation, new \in Event : Fires(w, r, cond, t, new)
        BY <2>4, FireEffect
      <3>2. PICK t \in Evaluation, new \in Event : Fires(w, r, cond, t, new)
        BY <3>1
      <3>3. /\ s.pc = "trigger" /\ session'[w].pc = "next"
            /\ \A v \in Workers \ {w} : session'[v] = session[v]
            /\ UNCHANGED <<snaps, failures>>
        BY <2>0, <3>2, OneMoves DEF Fires, world
      <3> QED BY <3>3, ElsewhereIdles DEF Idles
    <2>5. CASE Commit(w)
      <3>1. s.pc = "next" /\ Moves(w, Idle) /\ UNCHANGED <<snaps, failures>>
        BY <2>5, CommitEffect DEF world
      <3>2. session'[w].pc = "idle" /\ \A v \in Workers \ {w} : session'[v] = session[v]
        BY <2>0, <3>1, OneMoves DEF Idle
      <3> QED BY <3>1, <3>2, ElsewhereIdles DEF Idles
    <2>6. CASE Die(w) \/ Conflict(w)
      <3>1. Moves(w, Idle) /\ UNCHANGED snaps /\ failures' = failures + 1
        BY <2>6, EndsStep DEF Ends, world
      <3>2. session'[w].pc = "idle" /\ \A v \in Workers \ {w} : session'[v] = session[v]
        BY <2>0, <3>1, OneMoves DEF Idle
      <3>3. Beginning' = Beginning \ {w} /\ Started = {}
        BY <3>2 DEF Beginning, Started
      <3> QED BY <3>1, <3>3 DEF Gives
    <2> QED BY <1>2, <2>1, <2>2, <2>3, <2>4, <2>5, <2>6 DEF Evaluate
  <1> QED BY <1>1, <1>2 DEF Next

CatchingUp ==
    /\ newest \in 0..Len(snaps) /\ excused \in 0..failures /\ failures \in Nat
    /\ Len(snaps) - newest <= Cardinality(Beginning) + (failures - excused)

LEMMA StepCatchingUp ==
  ASSUME Inv1, CatchingUp, [WatchNext]_watchVars
  PROVE  CatchingUp'
  <1>1. [Next]_vars
    BY WatchedStep
  <1>2. /\ Len(snaps) \in Nat /\ newest \in Nat /\ excused \in Nat /\ failures \in Nat
        /\ newest <= Len(snaps) /\ excused <= failures
        /\ Len(snaps) - newest <= Cardinality(Beginning) + (failures - excused)
    BY DEF CatchingUp, Inv1, TypeOK
  <1>3. IsFiniteSet(Beginning) /\ Cardinality(Beginning) \in Nat
    BY FS_Subset, FS_CardinalityType, ConstantsAssumption DEF Beginning
  <1>4. IsFiniteSet(Beginning') /\ Cardinality(Beginning') \in Nat
    BY FS_Subset, FS_CardinalityType, ConstantsAssumption DEF Beginning
  <1>5. ASSUME Started = {} PROVE UNCHANGED <<newest, excused>>
    BY <1>5 DEF WatchNext, Note, watchVars
  <1>6. CASE Idles
    BY <1>2, <1>3, <1>5, <1>6 DEF Idles, CatchingUp
  <1>7. ASSUME NEW w \in Workers, Scrapes(w) PROVE CatchingUp'
    <2>1. Cardinality(Beginning') = Cardinality(Beginning) + 1
      BY <1>3, <1>7, FS_AddElement DEF Scrapes
    <2> QED BY <1>2, <1>3, <1>5, <1>7, <2>1 DEF Scrapes, CatchingUp
  <1>8. ASSUME NEW w \in Workers, SetsOut(w) PROVE CatchingUp'
    <2>1. CASE Len(snaps) > newest
      <3>1. newest' = Len(snaps) /\ excused' = failures
        BY <1>8, <2>1 DEF SetsOut, WatchNext, Note, watchVars, Started, vars
      <3> QED BY <1>2, <1>4, <1>8, <3>1 DEF SetsOut, CatchingUp
    <2>2. CASE newest = Len(snaps)
      <3>1. UNCHANGED <<newest, excused>>
        BY <1>2, <1>8, <2>2 DEF SetsOut, WatchNext, Note, watchVars
      <3> QED BY <1>2, <1>4, <1>8, <2>2, <3>1 DEF SetsOut, CatchingUp
    <2> QED BY <1>2, <2>1, <2>2
  <1>9. ASSUME NEW w \in Workers, Gives(w) PROVE CatchingUp'
    <2>1. \/ Cardinality(Beginning \ {w}) = Cardinality(Beginning) - 1
          \/ Cardinality(Beginning \ {w}) = Cardinality(Beginning)
      BY <1>3, FS_RemoveElement
    <2>2. Cardinality(Beginning') = Cardinality(Beginning \ {w})
      BY <1>9 DEF Gives
    <2> QED BY <1>2, <1>3, <1>4, <1>5, <1>9, <2>1, <2>2 DEF Gives, CatchingUp
  <1> QED BY <1>1, <1>6, <1>7, <1>8, <1>9, StepBeginning

\* However many workers evaluate the product, whatever they overlap, skip or
\* die with: all but the scrapes whose evaluation is about to start, and one
\* for each session that died since, an evaluation has started from, or from
\* a newer one.
THEOREM EvaluationsFollow == WatchSpec => []EvaluationsCatchUp
  <1> DEFINE Inv == Inv1 /\ CatchingUp
  <1>1. WatchInit => Inv
    <2> SUFFICES ASSUME WatchInit PROVE CatchingUp
      BY InitInv1 DEF WatchInit
    <2>1. Beginning = {} /\ Len(snaps) = 0
      BY DEF WatchInit, Init, Beginning, Idle
    <2> QED BY <2>1, FS_EmptySet DEF WatchInit, Init, CatchingUp
  <1>2. Inv /\ [WatchNext]_watchVars => Inv'
    BY WatchedStep, StepInv1, StepCatchingUp
  <1>3. Inv => EvaluationsCatchUp
    BY DEF CatchingUp, EvaluationsCatchUp, Beginning
  <1> QED BY <1>1, <1>2, <1>3, PTL DEF WatchSpec
=============================================================================
