--------------------------- MODULE MCRestoreLock ---------------------------
(* A TLC instance of RestoreLock: three workers, whole runs of three       *)
(* machines, with the shortest timeout for which the lock is one.          *)
EXTENDS RestoreLock, TLC

CONSTANTS w1, w2, w3

WorkerSymmetry == Permutations(Workers)
=============================================================================
