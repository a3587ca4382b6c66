------------------------------ MODULE Delivery ------------------------------
(***************************************************************************)
(* What send_notification promises of one alert: it is sent or failed in   *)
(* the end, at most MaxCopies copies arrive, and it is reported sent only  *)
(* if one did.  A failed one may have arrived as well.                     *)
(***************************************************************************)
EXTENDS Integers

CONSTANT MaxCopies

VARIABLES
    status,   \* "idle", "sending", "sent", "failed"
    copies    \* copies that have arrived

Init == status = "idle" /\ copies = 0

Send == status = "idle" /\ status' = "sending" /\ copies' = 0

Settle == status' = "failed" \/ (status' = "sent" /\ copies' > 0)

Arrive ==
    /\ status = "sending"
    /\ copies < MaxCopies
    /\ copies' = copies + 1
    /\ status' = "sending" \/ Settle

Report ==
    /\ status = "sending"
    /\ UNCHANGED copies
    /\ Settle

\* The caller has taken note, or has died.
Forget == status' = "idle" /\ copies' = 0

Next == Send \/ Arrive \/ Report \/ Forget

Spec == Init /\ [][Next]_<<status, copies>>
=============================================================================
