---------------------------- MODULE MCDispatcher ----------------------------
(***************************************************************************)
(* Four notifiers: two that want everything, one for shutdown only, one    *)
(* that leaves the shutdown event out.                                     *)
(***************************************************************************)
EXTENDS DispatcherProperties

SomeKinds == {"FSD", "COMMOK", "ONBATT"}

SomeFilters == <<SomeKinds, {"FSD"}, {"COMMOK", "ONBATT"},
                 SomeKinds>>
=============================================================================
