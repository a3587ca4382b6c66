---------------------------- MODULE JobLifecycle ----------------------------
(***************************************************************************)
(* What the job pipeline promises about one push of a job, whatever queue, *)
(* process or request happens to hold it: it is ready, then running, then  *)
(* either done, or waiting for the next of at most MaxTries tries, or a    *)
(* dead letter; it is in one of these at a time, never goes back, and      *)
(* never runs again once it is dead, closed or lost.                       *)
(***************************************************************************)
EXTENDS Integers

CONSTANTS Pushes,   \* the pushes that may happen
          MaxTries  \* tries a push is given

VARIABLES status, tries

vars == <<status, tries>>

\* Push s moves from one status to another, leaving its tries at n.
Move(s, from, to, n) ==
    /\ status[s] = from
    /\ status'[s] = to
    /\ tries'[s] = n

Enter(s) == Move(s, "unborn", "ready", 1)
Start(s) == Move(s, "ready", "running", tries[s])
Wait(s) == tries[s] < MaxTries /\ Move(s, "running", "waiting", tries[s] + 1)
Wake(s) == Move(s, "waiting", "ready", tries[s])
Bury(s) == Move(s, "running", "dead", tries[s])
Close(s) == \E from \in {"running", "dead"} : Move(s, from, "closed", 0)

\* A crash takes what its process held; a write under the same job_id
\* replaces or removes another dead letter.
Lose(s) == \E from \in {"running", "waiting", "dead"} : Move(s, from, "lost", 0)

\* A replay that had read the dead letter before it was lost re-queues it.
Recover(s) == Move(s, "lost", "closed", 0)

Step(s) ==
    \/ Enter(s) \/ Start(s) \/ Wait(s) \/ Wake(s)
    \/ Bury(s) \/ Close(s) \/ Lose(s) \/ Recover(s)

Stay(s) == status'[s] = status[s] /\ tries'[s] = tries[s]

Init ==
    /\ status = [s \in Pushes |-> "unborn"]
    /\ tries = [s \in Pushes |-> 0]

\* One crash or one write may move several pushes at once.
Next ==
    /\ DOMAIN status' = Pushes /\ DOMAIN tries' = Pushes
    /\ \A s \in Pushes : Step(s) \/ Stay(s)

Spec == Init /\ [][Next]_vars
=============================================================================
