------------------------- MODULE DispatcherProperties -------------------------
(***************************************************************************)
(* What Dispatch must guarantee to the monitor and to the targets.         *)
(***************************************************************************)
EXTENDS Dispatcher

\* The type of every variable.
TypeOK ==
  /\ pc \in {"idle", "loop"}
  /\ event \in [n : 0 .. MaxEvents, kind : Kinds]
  /\ next \in 1 .. N + 1
  /\ wg \in 0 .. N
  /\ workers \in SUBSET Worker

\* The notifiers that have still to handle the event: those the loop has not
\* reached and those whose goroutine has not returned.
Owing == {t \in next .. N : event.kind \in Wants[t]}
           \cup {w.target : w \in workers}

Contract == INSTANCE Broadcast WITH round <- event.n, owing <- Owing

\* Dispatch delivers event after event to every notifier that wants it, once,
\* and none sees an event before all have finished with the one before.
KeepsContract == Contract!Spec

\* A notifier never runs twice at a time, so that a slow script of ONBATT
\* cannot overtake or overlap the one of LOWBATT.
NoOverlap ==
  /\ \A v, w \in workers : v.target = w.target => v = w
  /\ \A w \in workers : w.n = event.n /\ w.target < next

\* Dispatch returns, whatever the notifiers do within their timeouts.
DispatchReturns == pc = "loop" ~> pc = "idle"
=============================================================================
