----------------------------- MODULE MCTaskThread -----------------------------
(* Instances of TaskThread for TLC. *)
EXTENDS TaskThread

CONSTANTS t1, t2, d1, d2  \* tasks

TwoTasks == {t1, t2}
OneDelayedTask == {d1}
TwoDelayedTasks == {d1, d2}
NowOrLater == {0, 1}
Later == {1}
===============================================================================
