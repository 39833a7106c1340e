---------------------------- MODULE MCScheduler ----------------------------
(***************************************************************************)
(* Two ids with room for one, so that refusals, replacements with no room  *)
(* to spare and three timers over two ids all happen.                      *)
(***************************************************************************)
EXTENDS Scheduler

CONSTANTS a, b

MCId == {a, b}
=============================================================================
