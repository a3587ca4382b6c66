------------------------------ MODULE AlertLog ------------------------------
(***************************************************************************)
(* What alerts.py promises of each rule's alerts, if one evaluation at a   *)
(* time is under way: an evaluation takes effect at one instant, which is  *)
(* its `now', however many queries and notifications it needed.  Then each *)
(* rule's alerts stay, or the one that is open ends, or another one begins *)
(* outside the cooldown and ends the one that is open.  An alert that has  *)
(* ended stays as it is until its rule is deleted.                         *)
(***************************************************************************)
EXTENDS Integers

CONSTANTS Rules, Cooldown

VARIABLES
    log,   \* each rule's alerts
    now

Open == -1   \* the end of an alert that is open

Init == log = [r \in Rules |-> {}] /\ now = 0

Pass == now' > now /\ UNCHANGED log

Ended(alerts, t) == {IF a.to = Open THEN [a EXCEPT !.to = t] ELSE a : a \in alerts}

Keep(r) == log'[r] = log[r]

End(r, t) == log'[r] = Ended(log[r], t)

Announce(r, t) ==
    /\ \A a \in log[r] : t - a.from >= Cooldown
    /\ \E new \in log'[r] :
        /\ new \in [id : Nat, from : {t}, to : {Open, t}]
        /\ \A a \in log[r] : a.id < new.id
        /\ log'[r] = Ended(log[r], t) \cup {new}

\* All rules are evaluated as of t, which no earlier evaluation was later than.
Evaluate(t) ==
    /\ \A r \in Rules : \A a \in log[r] : a.from <= t /\ a.to <= t
    /\ DOMAIN log' = Rules
    /\ \A r \in Rules : Keep(r) \/ End(r, t) \/ Announce(r, t)
    /\ UNCHANGED now

\* The rule is deleted, and its alerts with it.
Forget(r) == log' = [log EXCEPT ![r] = {}] /\ UNCHANGED now

Next ==
    \/ Pass
    \/ \E t \in 0..now : Evaluate(t)
    \/ \E r \in Rules : Forget(r)

Spec == Init /\ [][Next]_<<log, now>>
=============================================================================
