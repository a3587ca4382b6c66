----------------------------- MODULE AlertWatch -----------------------------
(***************************************************************************)
(* AlertEngine under the eyes of an observer, who writes down from which   *)
(* snapshot evaluations have started and which events went with a deleted  *)
(* rule.  The observer changes nothing: every step is one of AlertEngine's.*)
(* What is promised of evaluations that overlap, die, or lose their rule   *)
(* in mid-session is about these histories.                                *)
(***************************************************************************)
EXTENDS AlertEngine

VARIABLES
    newest,   \* the newest snapshot that an evaluation has started from
    excused,  \* the sessions that had died by then
    erased    \* ids of the events that were deleted with their rule

watchVars == <<vars, newest, excused, erased>>

WatchInit == Init /\ newest = 0 /\ excused = 0 /\ erased = {}

\* The evaluations that a step starts.
Started == {w \in Workers : session[w].pc = "begin" /\ session'[w].pc = "next"}

Note ==
    /\ IF \E w \in Started : session'[w].snap > newest
       THEN /\ newest' \in {session'[w].snap : w \in Started}
            /\ excused' = failures
       ELSE UNCHANGED <<newest, excused>>
    /\ erased' = erased \cup {e.id : e \in {e \in events : e.rule \in deleted' \ deleted}}

WatchNext == Next /\ Note

WatchSpec == WatchInit /\ [][WatchNext]_watchVars

-----------------------------------------------------------------------------
(* Properties.                                                             *)

\* Every scrape's rules are looked at: a snapshot that no evaluation has
\* started from, nor from a newer one, has a session about to, or a session
\* that died since.  So what two workers on one product skip of its history
\* is never more than the scrapes under way, and the alerts that a death
\* after _handle_success' first commit costs are up to the next evaluation.
EvaluationsCatchUp ==
    Len(snaps) - newest
        <= Cardinality({w \in Workers : session[w].pc = "begin"}) + (failures - excused)

Recorded == events \cup UNION {session[w].opened : w \in {w \in Workers : Writing(w)}}

\* An alert that was delivered and has no event, committed, about to be, or
\* deleted with its rule, comes from a session that died, be it of a rule
\* that was deleted under it: each leaves one per rule at most.
AlertsAccountedFor ==
    Cardinality(sent \ ({e.id : e \in Recorded} \cup erased))
        <= failures * Cardinality(Rules)
=============================================================================
