------------------------------ MODULE Notifier ------------------------------
(***************************************************************************)
(* shared/notifiers.py: send_notification, one alert at a time, with its   *)
(* retries and the backoff of shared/retry.py between them.  Email and     *)
(* webhook go the same way; the API lets no third channel in.              *)
(***************************************************************************)
EXTENDS Clock

CONSTANTS
    NotifyMaxAttempts,  \* NOTIFY_MAX_ATTEMPTS
    PostTimeout,        \* the longest that one delivery may take
    RetryBaseDelay, RetryBackoffFactor, RetryMaxDelay  \* settings.retry_...

ASSUME NotifierAssumption ==
    /\ NotifyMaxAttempts \in Nat \ {0}
    /\ PostTimeout \in Nat
    /\ RetryBaseDelay \in Nat /\ RetryBackoffFactor \in Nat /\ RetryMaxDelay \in Nat

VARIABLES
    delivery,    \* where send_notification is, and how it ended
    attempt,     \* its attempt
    accepted,    \* history: posts of this alert that reached their destination
    unanswered   \* history: those among them that failed all the same

notifier == <<delivery, attempt, accepted, unanswered>>

NotifierInit == delivery = "idle" /\ attempt = 0 /\ accepted = 0 /\ unanswered = 0

\* compute_backoff_delay draws from 0 to this.
ComputedDelay(attempt_number) ==
    LET delay == RetryBaseDelay * RetryBackoffFactor ^ (attempt_number - 1)
    IN  IF delay < RetryMaxDelay THEN delay ELSE RetryMaxDelay

-----------------------------------------------------------------------------
StartNotify ==
    /\ delivery = "idle"
    /\ delivery' = "posting" /\ attempt' = 1
    /\ accepted' = 0 /\ unanswered' = 0 /\ waited' = 0

\* Mutant: the loop goes on after a success.
PostSucceedsOnly ==
    /\ delivery = "posting"
    /\ accepted' = accepted + 1
    /\ IF attempt < NotifyMaxAttempts
       THEN delivery' = "posting" /\ attempt' = attempt + 1
       ELSE delivery' = "sent" /\ UNCHANGED attempt
    /\ waited' = 0
    /\ UNCHANGED unanswered

PostSucceeds ==
    /\ delivery = "posting"
    /\ accepted' = accepted + 1
    /\ delivery' = "sent"
    /\ waited' = 0
    /\ UNCHANGED <<attempt, unanswered>>

\* Mutant: nothing is raised after the last attempt.
PostFailsQuietly(reached) ==
    /\ delivery = "posting"
    /\ delivery' = IF attempt < NotifyMaxAttempts THEN "backoff" ELSE "sent"
    /\ accepted' = accepted + reached /\ unanswered' = unanswered + reached
    /\ waited' = 0
    /\ UNCHANGED attempt

\* An exception, a timeout or an error status; the post may have reached its
\* destination (1) or not (0).
PostFails(reached) ==
    /\ delivery = "posting"
    /\ delivery' = IF attempt < NotifyMaxAttempts THEN "backoff" ELSE "failed"
    /\ accepted' = accepted + reached /\ unanswered' = unanswered + reached
    /\ waited' = 0
    /\ UNCHANGED attempt

BackoffOver ==
    /\ delivery = "backoff"
    /\ delivery' = "posting"
    /\ attempt' = attempt + 1
    /\ waited' = 0
    /\ UNCHANGED <<accepted, unanswered>>

Forgotten == delivery' = "idle" /\ attempt' = 0 /\ accepted' = 0 /\ unanswered' = 0 /\ waited' = 0

\* _deliver notes delivery_status.
EndNotify == delivery \in {"sent", "failed"} /\ Forgotten

\* The process ends.
LoseNotify == Forgotten

NotifierStep ==
    \/ PostSucceeds \/ BackoffOver
    \/ \E reached \in {0, 1} : PostFails(reached)

NotifierWaits ==
    \/ delivery = "posting" /\ waited < PostTimeout
    \/ delivery = "backoff" /\ waited < ComputedDelay(attempt)

-----------------------------------------------------------------------------
(* Properties.                                                             *)

NotifierTypeOK ==
    /\ delivery \in {"idle", "posting", "backoff", "sent", "failed"}
    /\ attempt \in 0..NotifyMaxAttempts
    /\ delivery = "idle" => accepted = 0
    /\ delivery \in {"posting", "backoff"} => attempt > 0
    /\ delivery = "backoff" => attempt < NotifyMaxAttempts
    /\ unanswered \in 0..attempt
    /\ accepted \in unanswered..attempt

\* notifiers.py retries a delivery whose answer did not come although it may
\* have arrived: an alert is received again only after that, and what a
\* failed one left behind went unanswered.
DuplicatesUnanswered ==
    /\ delivery \in {"posting", "backoff", "failed"} => accepted = unanswered
    /\ delivery = "sent" => accepted = unanswered + 1

Abstract == INSTANCE Delivery WITH
    MaxCopies <- NotifyMaxAttempts,
    status <- IF delivery \in {"posting", "backoff"} THEN "sending" ELSE delivery,
    copies <- accepted

\* Retries, timeouts and deaths of the process included, the notifier keeps
\* the promise that the alert engine counts on.
ImplementsDelivery == Abstract!Spec
=============================================================================
