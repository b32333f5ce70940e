---------------------------- MODULE MCScheduler ----------------------------
(***************************************************************************)
(* The delays of Scheduler for model-checking: the code's own, in seconds, *)
(* with the backoff of 750 ms rounded up, and a month of little more than  *)
(* the slowest way to a run.                                               *)
(***************************************************************************)
EXTENDS Scheduler

BackoffSeconds == <<0, 1, 2>>
=============================================================================
