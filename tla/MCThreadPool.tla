---------------------------- MODULE MCThreadPool ----------------------------
(* ThreadPool with two workers and three requests: more requests than      *)
(* workers, so that tasks queue up while every worker is busy or asleep.   *)
EXTENDS ThreadPool

CONSTANTS w1, w2, t1, t2, t3

MCWorkers == {w1, w2}
MCTasks == {t1, t2, t3}
=============================================================================
