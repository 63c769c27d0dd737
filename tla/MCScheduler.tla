---------------------------- MODULE MCScheduler ----------------------------
(* Instances of the scheduler for TLC. *)
EXTENDS Scheduler, TLC

CONSTANTS g1, g2     \* two game threads

MCDelays == {1, 2}
Games == Permutations({g1, g2})
NoGarbage == {}
AnyGarbage == 0..MaxId

============================================================================
