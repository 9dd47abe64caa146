---------------------------- MODULE MCScheduler ----------------------------
(* Scheduler with interchangeable events.                                  *)
EXTENDS Scheduler, TLC

EventSymmetry == Permutations(Events)
=============================================================================
