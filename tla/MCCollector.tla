---------------------------- MODULE MCCollector ----------------------------
(* Instances of Collector for TLC: the values the configurations give to   *)
(* its sets of faults and of web client requests.                          *)
EXTENDS Collector

NoFaults == {}
Refusals == {"refused"}                     \* the co-processor overflows
AllFaults == {"refused", "unanswered"}      \* or its reply is lost

NoApps == {}
AllApps == {"config", "toggle"}
=============================================================================
