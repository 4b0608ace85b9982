---------------------------- MODULE MCWorkerPool ----------------------------
(* Small instances of WorkerPool for TLC. *)
EXTENDS WorkerPool

CONSTANTS t1, t2, t3, t4, w1, w2

FourTasks == {t1, t2, t3, t4}
ThreeTasks == {t1, t2, t3}
TwoWorkers == {w1, w2}
=============================================================================
