--------------------------- MODULE MCWorkerEngine ---------------------------
(* TLC instances of WorkerEngine.                                          *)
EXTENDS WorkerEngine, TLC

MCSymmetry == Permutations(JobIds) \cup Permutations(Requests)
=============================================================================
