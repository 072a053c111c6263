---------------------------- MODULE MCNetworkThread ---------------------------
(* Instances of NetworkThread for TLC. *)
EXTENDS NetworkThread

CONSTANTS t1, t2, report

AllTasks == {t1, t2, report}
OneReport == {report}
===============================================================================
