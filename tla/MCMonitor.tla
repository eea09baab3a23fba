------------------------------ MODULE MCMonitor ------------------------------
(***************************************************************************)
(* Small instances of Monitor for TLC: one set of statuses per question.   *)
(***************************************************************************)
EXTENDS MonitorProperties

\* Power, shutdown and one toggle, together and apart.
PowerStatuses ==
  {{"OL"}, {"OB"}, {"OB", "LB"}, {"OL", "LB"}, {"OB", "FSD"}, {"OB", "LB", "FSD"},
   {"OL", "TRIM"}, {"OB", "BYPASS"}}

\* The debounced faults and their coincidence with a shutdown condition.
FaultStatuses == {{"OL"}, {"OL", "RB"}, {"OL", "ALARM", "RB"},
                  {"OB", "LB", "ALARM"}}

\* An outage does not depend on the status.
QuietStatuses == {{"OL"}}
=============================================================================
