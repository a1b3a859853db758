---------------------------- MODULE MCWorkerPool ----------------------------
(* Small instances of WorkerPool. *)
EXTENDS WorkerPool, TLC

WorkerSymmetry == Permutations(Workers)
=============================================================================
