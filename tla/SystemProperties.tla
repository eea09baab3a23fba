--------------------------- MODULE SystemProperties ---------------------------
(***************************************************************************)
(* What a target may rely on, with everything between it and the UPS.      *)
(***************************************************************************)
EXTENDS System

\* The conditions whose appearance, and end if it is announced, a target
\* subscribes to.
Follows(t) ==
  {c \in Condition : EnterKind[c] \in Wants[t] /\ (c \in Audible => LeaveKind[c] \in Wants[t])}

Informed(t) ==
  told[t] \cap Follows(t) =
    {c \in Conditions(prev) \cap Follows(t) : c \in Fault => confirmed[c]}

\* Between two snapshots every target that never failed believes exactly what
\* was last observed of the conditions it follows, across outages, failed
\* reads and whatever the other targets did, slow or failing.
TargetsInformed ==
  pc \in {"loop", "wait", "dial", "list", "get", "select"} /\ dispatch = "idle" /\ ~canceled =>
    \A t \in D!Target \ missed : Informed(t)

\* A target that follows a shutdown condition has handled its event before the
\* monitor reads the alarm text or dispatches anything else of that snapshot
\* to anyone.
ShutdownHandledFirst ==
  pc \in {"alarm", "edges"} /\ ~canceled =>
    \A t \in D!Target \ missed :
      Shutdown \cap Conditions(snap.tokens) \cap Follows(t) \subseteq told[t]

\* While a notifier runs the monitor is in the emit that started it: it
\* neither reads the server nor ends, and a program that ends leaves no
\* notification half done.
NotifiersJoined ==
  workers # {} => dispatch = "loop" /\ pc \in {"critical", "edges", "bad", "escalate"}

\* A cancelled program ends, also from inside a Dispatch.
EndsOnCancel == canceled ~> (pc = "stopped" /\ workers = {} /\ sockets = 0)
=============================================================================
