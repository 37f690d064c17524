---------------------------- MODULE MCScheduler -----------------------------
(* An instance of Scheduler for TLC. *)
EXTENDS Scheduler

CONSTANTS shop, billing

\* `databases add` and `databases remove` of the second database.
OneOrTwo == {<<shop>>, <<shop, billing>>}
=============================================================================
