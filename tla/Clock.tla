------------------------------- MODULE Clock -------------------------------
(***************************************************************************)
(* Time as worker_loop feels it.  The loop is in one await at a time; the  *)
(* clock is how long it has been there, in units that all limits share.    *)
(* What no limit is set for (a database or Redis command, reading the DOM) *)
(* takes no time.                                                          *)
(***************************************************************************)
EXTENDS Integers

VARIABLE waited   \* time spent in the await that worker_loop is in
=============================================================================
