----------------------------- MODULE Dispatcher -----------------------------
(***************************************************************************)
(* Dispatcher.Dispatch of notifier/notifier.go: the monitor's goroutine    *)
(* starts one goroutine for every notifier whose filter matches the event, *)
(* and waits on a WaitGroup until all have returned.                       *)
(***************************************************************************)
EXTENDS Integers, FiniteSets

CONSTANTS
  N,         \* the notifiers are 1 .. N, in the order of the configuration
  Kinds,     \* event kinds
  Wants,     \* the kinds that pass the filter of each notifier
  MaxEvents  \* bound: events dispatched

ASSUME DispatcherAssumption ==
  /\ N \in Nat /\ MaxEvents \in Nat
  /\ Wants \in [1 .. N -> SUBSET Kinds]

VARIABLES
  pc,       \* the monitor: outside Dispatch ("idle") or inside ("loop")
  event,    \* the event being dispatched, and its number
  next,     \* the notifier the loop has reached
  wg,       \* the counter of the WaitGroup
  workers   \* the goroutines that have not returned

vars == <<pc, event, next, wg, workers>>

Target == 1 .. N

Worker == [target : Target, n : 1 .. MaxEvents, stage : {"started", "notifying"}]

Init ==
  /\ pc = "idle" /\ next = N + 1 /\ wg = 0 /\ workers = {}
  /\ event \in [n : {0}, kind : Kinds]

-----------------------------------------------------------------------------
Dispatch(kind) ==
  /\ pc = "idle" /\ event.n < MaxEvents
  /\ pc' = "loop" /\ next' = 1
  /\ event' = [n |-> event.n + 1, kind |-> kind]
  /\ UNCHANGED <<wg, workers>>

Skip ==
  /\ pc = "loop" /\ next <= N
  /\ event.kind \notin Wants[next]
  /\ next' = next + 1
  /\ UNCHANGED <<pc, event, wg, workers>>

\* Faulty variant: the loop ends at the first match.
StartOne ==
  /\ pc = "loop" /\ next <= N
  /\ event.kind \in Wants[next]
  /\ wg' = wg + 1
  /\ workers' = workers \cup {[target |-> next, n |-> event.n, stage |-> "started"]}
  /\ next' = N + 1
  /\ UNCHANGED <<pc, event>>

\* wg.Add and the go statement.
Start ==
  /\ pc = "loop" /\ next <= N
  /\ event.kind \in Wants[next]
  /\ wg' = wg + 1
  /\ workers' = workers \cup {[target |-> next, n |-> event.n, stage |-> "started"]}
  /\ next' = next + 1
  /\ UNCHANGED <<pc, event>>

\* Faulty variant: Done is called before Notify as well.
NotifyDone(w) ==
  /\ w.stage = "started"
  /\ workers' = (workers \ {w}) \cup {[w EXCEPT !.stage = "notifying"]}
  /\ wg' = wg - 1
  /\ UNCHANGED <<pc, event, next>>

\* The goroutine runs and calls Notify.
Notify(w) ==
  /\ w.stage = "started"
  /\ workers' = (workers \ {w}) \cup {[w EXCEPT !.stage = "notifying"]}
  /\ UNCHANGED <<pc, event, next, wg>>

\* Faulty variant: a Notify that fails skips wg.Done.
DoneMissing(w) ==
  /\ w.stage = "notifying"
  /\ workers' = workers \ {w}
  /\ UNCHANGED <<pc, event, next, wg>>

\* Notify returns, with an error or without, and wg.Done runs.
Done(w) ==
  /\ w.stage = "notifying"
  /\ workers' = workers \ {w}
  /\ wg' = wg - 1
  /\ UNCHANGED <<pc, event, next>>

\* Faulty variant: no Wait.
ReturnEarly ==
  /\ pc = "loop" /\ next = N + 1
  /\ pc' = "idle"
  /\ UNCHANGED <<event, next, wg, workers>>

\* wg.Wait is over: Dispatch returns.
Return ==
  /\ pc = "loop" /\ next = N + 1 /\ wg = 0
  /\ pc' = "idle"
  /\ UNCHANGED <<event, next, wg, workers>>

-----------------------------------------------------------------------------
Work == \E w \in workers : Notify(w) \/ Done(w)

Next ==
  \/ \E kind \in Kinds : Dispatch(kind)
  \/ Skip \/ Start \/ Return \/ Work
  \/ pc = "idle" /\ event.n = MaxEvents /\ UNCHANGED vars

Spec == Init /\ [][Next]_vars

\* Every goroutine is scheduled and every Notify returns: each target bounds
\* itself by its timeout.
FairSpec ==
  Spec /\ WF_vars(Skip \/ Start \/ Return)
       /\ \A t \in Target : WF_vars(\E w \in workers : w.target = t /\ (Notify(w) \/ Done(w)))
=============================================================================
