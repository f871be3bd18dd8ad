--------------------------- MODULE MCJobScheduler ---------------------------
(* A TLC instance of JobScheduler. *)
EXTENDS JobScheduler, TLC

SchedulerSymmetry == Permutations(Schedulers)
=============================================================================
