--------------------------- MODULE MCTimedMonitor ---------------------------
(***************************************************************************)
(* How long a shutdown may wait, with an alarm beside it.                  *)
(***************************************************************************)
EXTENDS TimedMonitorProperties

TimedStatuses == {{"OL"}, {"OL", "ALARM"}, {"OB", "LB"}, {"OB", "LB", "FSD"}}

\* The bound on a handler's time cuts none short.
ASSUME InstanceAssumption == LongestHandler < MaxBusy
=============================================================================
