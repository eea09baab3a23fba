------------------------------ MODULE MCSystem ------------------------------
(***************************************************************************)
(* Two targets, one for everything and one for shutdown and the alarm.     *)
(***************************************************************************)
EXTENDS SystemProperties

SomeStatuses == {{"OL"}, {"OB", "LB"}, {"OL", "ALARM"}}
SomeFilters == <<Kind, {"LOWBATT", "FSD", "ALARM", "NOTALARM"}>>
=============================================================================
