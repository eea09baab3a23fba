------------------------------ MODULE Broadcast ------------------------------
(***************************************************************************)
(* What the README promises of notifications: targets run in parallel for  *)
(* each event, and events are delivered in order.  Event number round + 1  *)
(* is published once every target that wants event number round has        *)
(* handled it; each handles it exactly once.                               *)
(***************************************************************************)
EXTENDS Integers

CONSTANTS Target, Kinds, Wants

VARIABLES
  round,  \* number of events published
  owing   \* the targets that have not handled the last one

vars == <<round, owing>>

Init == round = 0 /\ owing = {}

Publish(kind) ==
  /\ owing = {}
  /\ round' = round + 1
  /\ owing' = {t \in Target : kind \in Wants[t]}

Handle(t) ==
  /\ t \in owing
  /\ owing' = owing \ {t}
  /\ UNCHANGED round

Next ==
  \/ \E kind \in Kinds : Publish(kind)
  \/ \E t \in Target : Handle(t)

Spec == Init /\ [][Next]_vars
=============================================================================
