-------------------------- MODULE MCCollectorConfig --------------------------
(***************************************************************************)
(* The configuration of two devices for the model checker: they are        *)
(* tracked, become inactive if they do not answer, leave, come back and    *)
(* become orphans meanwhile.  As a bound, the confirm of a tracking        *)
(* request comes before the tracking clock ends; what a later one does to  *)
(* the status bits is left to CollectorMembers.                            *)
(***************************************************************************)
EXTENDS MCCollector

ConfirmedInTime == TimerFires("TRACKING") => \A m \in tx : m.type # "tracking"

ConfigNext == Next /\ ConfirmedInTime

ConfigSpec == Init /\ [][ConfigNext]_vars /\ ConfigFairness
=============================================================================
