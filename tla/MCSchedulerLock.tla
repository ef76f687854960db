--------------------------- MODULE MCSchedulerLock ---------------------------
(* Instances of SchedulerLock for TLC. *)
EXTENDS SchedulerLock, TLC

Symmetry == Permutations(Procs)
=============================================================================
