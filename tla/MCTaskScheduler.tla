-------------------------- MODULE MCTaskScheduler --------------------------
(* TaskScheduler for TLC.  The liveness properties are checked in the same  *)
(* run as the invariants, so that no symmetry is used; one task shows every *)
(* step, and what holds of several is proved in TaskSchedulerProofs.        *)
EXTENDS TaskScheduler
=============================================================================
