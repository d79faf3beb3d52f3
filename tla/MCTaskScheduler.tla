-------------------------- MODULE MCTaskScheduler --------------------------
(* Instances of TaskScheduler for TLC: two background tasks, one of them   *)
(* transient, and a oneshot for the safety properties; one background task *)
(* and two oneshots for the liveness properties.                           *)
EXTENDS TaskScheduler
=============================================================================
