----------------------------- MODULE MCTaskQueue -----------------------------
(* TLC instances of TaskQueue. *)
EXTENDS TaskQueue, TLC

CONSTANTS t1, t2, w1, w2

MCTasks == {t1, t2}
MCWorkers == {w1, w2}
MCOneWorker == {w1}
MCNone == {}

=============================================================================
