-------------------------- MODULE DispatcherProofs --------------------------
(***************************************************************************)
(* Theorems about Dispatcher, for any number of notifiers, any filters and *)
(* any number of events, and their proofs.                                 *)
(***************************************************************************)
EXTENDS DispatcherProperties, FiniteSetTheorems, TLAPS

\* The notifiers whose goroutine has not returned.
Running == {w.target : w \in workers}

\* The WaitGroup counts the notifiers that are running, each of which runs
\* once, for the event in progress; outside Dispatch there are none.
Inv ==
  /\ pc \in {"idle", "loop"}
  /\ event \in [n : 0 .. MaxEvents, kind : Kinds]
  /\ next \in 1 .. N + 1
  /\ workers \in SUBSET Worker
  /\ wg = Cardinality(Running)
  /\ NoOverlap
  /\ \A w \in workers : event.kind \in Wants[w.target]
  /\ pc = "idle" => workers = {} /\ next = N + 1
  /\ pc = "loop" => event.n >= 1

LEMMA RunningIsFinite ==
  ASSUME workers \in SUBSET Worker
  PROVE  /\ Running \subseteq Target
         /\ IsFiniteSet(Running) /\ Cardinality(Running) \in 0 .. N
<1>1. Running \subseteq 1 .. N
  BY DEF Running, Worker, Target
<1>2. IsFiniteSet(1 .. N) /\ Cardinality(1 .. N) = N
  BY DispatcherAssumption, FS_Interval
<1>3. IsFiniteSet(Running) /\ Cardinality(Running) <= N
  BY <1>1, <1>2, FS_Subset
<1>4. Cardinality(Running) \in Nat
  BY <1>3, FS_CardinalityType
<1> QED BY <1>1, <1>3, <1>4, DispatcherAssumption DEF Target

LEMMA InvInit ==
  ASSUME Init
  PROVE  Inv
<1>1. Running = {}
  BY DEF Init, Running
<1>2. Cardinality(Running) = 0
  BY <1>1, FS_EmptySet
<1> QED BY <1>2, DispatcherAssumption DEF Init, Inv, NoOverlap

\* wg.Add(1): the notifier of the loop is not running yet.
LEMMA StartKeepsInv ==
  ASSUME Inv, Start
  PROVE  Inv'
<1> DEFINE new == [target |-> next, n |-> event.n, stage |-> "started"]
<1>1. /\ pc = "loop" /\ next \in 1 .. N /\ event.kind \in Wants[next]
      /\ wg' = wg + 1 /\ workers' = workers \cup {new} /\ next' = next + 1
      /\ UNCHANGED <<pc, event>>
  BY DispatcherAssumption DEF Start, Inv
<1>2. new \in Worker
  BY <1>1 DEF Inv, Worker, Target
<1>3. next \notin Running /\ \A w \in workers : w.target # next
  BY <1>1 DEF Inv, NoOverlap, Running, Worker, Target
<1>4. Running' = Running \cup {next}
  <2>1. new.target = next
    OBVIOUS
  <2> HIDE DEF new
  <2> QED BY <1>1, <2>1 DEF Running
<1>5. wg' = Cardinality(Running')
  BY <1>1, <1>3, <1>4, RunningIsFinite, FS_AddElement DEF Inv
<1>6. NoOverlap'
  BY <1>1, <1>3 DEF Inv, NoOverlap, Worker, Target
<1> HIDE DEF new
<1>7. \A w \in workers' : event'.kind \in Wants[w.target]
  BY <1>1 DEF Inv, new
<1> QED BY <1>1, <1>2, <1>5, <1>6, <1>7, DispatcherAssumption DEF Inv

LEMMA NotifyKeepsInv ==
  ASSUME Inv, NEW w \in workers, Notify(w)
  PROVE  Inv'
<1> DEFINE busy == [w EXCEPT !.stage = "notifying"]
<1>1. /\ workers' = (workers \ {w}) \cup {busy}
      /\ UNCHANGED <<pc, event, next, wg>>
  BY DEF Notify
<1>2. /\ busy \in Worker /\ busy.target = w.target /\ busy.n = w.n
  BY DEF Inv, Worker
<1> HIDE DEF busy
<1>3. Running' = Running
  BY <1>1, <1>2 DEF Running
<1>4. NoOverlap'
  BY <1>1, <1>2 DEF Inv, NoOverlap
<1> QED BY <1>1, <1>2, <1>3, <1>4 DEF Inv

\* wg.Done: the notifier was counted once.
LEMMA DoneKeepsInv ==
  ASSUME Inv, NEW w \in workers, Done(w)
  PROVE  Inv'
<1>1. /\ workers' = workers \ {w} /\ wg' = wg - 1
      /\ UNCHANGED <<pc, event, next>>
  BY DEF Done
<1>2. Running' = Running \ {w.target} /\ w.target \in Running
  BY <1>1 DEF Inv, NoOverlap, Running
<1>3. wg' = Cardinality(Running')
  <2>1. IsFiniteSet(Running) /\ wg = Cardinality(Running)
    BY RunningIsFinite DEF Inv
  <2>2. Cardinality(Running \ {w.target}) = Cardinality(Running) - 1
    BY <1>2, <2>1, FS_RemoveElement
  <2> QED BY <1>1, <1>2, <2>1, <2>2
<1>4. NoOverlap'
  BY <1>1 DEF Inv, NoOverlap
<1> QED BY <1>1, <1>3, <1>4 DEF Inv

\* wg.Wait: a count of zero means that none is running.
LEMMA ReturnKeepsInv ==
  ASSUME Inv, Return
  PROVE  Inv'
<1>1. Running = {}
  BY RunningIsFinite, FS_EmptySet DEF Inv, Return
<1>2. workers = {}
  BY <1>1 DEF Running
<1> QED BY <1>2 DEF Inv, Return, NoOverlap, Running

LEMMA InvStep ==
  ASSUME Inv, [Next]_vars
  PROVE  Inv'
<1>1. ASSUME NEW kind \in Kinds, Dispatch(kind)
      PROVE  Inv'
  <2>1. /\ pc' = "loop" /\ next' = 1 /\ workers = {} /\ workers' = {}
        /\ event' = [n |-> event.n + 1, kind |-> kind] /\ wg' = wg
        /\ event.n \in 0 .. MaxEvents /\ event.n < MaxEvents
    BY <1>1 DEF Dispatch, Inv
  <2>2. event' \in [n : 0 .. MaxEvents, kind : Kinds] /\ event'.n >= 1
    BY <2>1, DispatcherAssumption
  <2>3. Running' = Running
    BY <2>1 DEF Running
  <2> QED BY <2>1, <2>2, <2>3, DispatcherAssumption DEF Inv, NoOverlap
<1>2. CASE Skip
  <2>1. next' \in 1 .. N + 1 /\ next' > next
    BY <1>2, DispatcherAssumption DEF Skip, Inv
  <2>2. Running' = Running /\ UNCHANGED <<pc, event, wg, workers>> /\ pc = "loop"
    BY <1>2 DEF Skip, Running
  <2>3. NoOverlap'
    BY <2>1, <2>2 DEF Inv, NoOverlap, Worker, Target
  <2> QED BY <2>1, <2>2, <2>3 DEF Inv
<1>3. CASE Start
  BY <1>3, StartKeepsInv
<1>4. CASE Return
  BY <1>4, ReturnKeepsInv
<1>5. CASE Work
  BY <1>5, NotifyKeepsInv, DoneKeepsInv DEF Work
<1>6. CASE UNCHANGED vars
  BY <1>6 DEF vars, Inv, NoOverlap, Running
<1> QED BY <1>1, <1>2, <1>3, <1>4, <1>5, <1>6 DEF Next

LEMMA InvAlways == Spec => []Inv
BY InvInit, InvStep, PTL DEF Spec

\* Every variable keeps its type; the WaitGroup is never negative.
THEOREM DispatcherTypes == Spec => []TypeOK
<1>1. Inv => TypeOK
  BY RunningIsFinite DEF Inv, TypeOK
<1> QED BY <1>1, InvAlways, PTL

\* No notifier runs twice at a time, nor for an event that is over.
THEOREM NeverOverlaps == Spec => []NoOverlap
<1>1. Inv => NoOverlap
  BY DEF Inv
<1> QED BY <1>1, InvAlways, PTL

-----------------------------------------------------------------------------
\* Dispatch owes the event to every notifier that wants it.
LEMMA DispatchOwes ==
  ASSUME Inv, NEW kind \in Kinds, Dispatch(kind)
  PROVE  Owing = {} /\ Owing' = {t \in Target : kind \in Wants[t]}
<1>1. workers = {} /\ workers' = {} /\ next = N + 1 /\ next' = 1
      /\ event'.kind = kind
  BY DEF Dispatch, Inv
<1> QED BY <1>1, DispatcherAssumption DEF Owing, Target

\* The loop and the beginning of a goroutine settle nothing.
LEMMA FanOutOwes ==
  ASSUME Inv, Skip \/ Start \/ Return
  PROVE  Owing' = Owing
<1> USE DispatcherAssumption
<1>1. CASE Skip
  BY <1>1 DEF Skip, Owing, Inv
<1>2. CASE Start
  <2> DEFINE new == [target |-> next, n |-> event.n, stage |-> "started"]
  <2>1. /\ next \in 1 .. N /\ next' = next + 1 /\ event' = event
        /\ event.kind \in Wants[next] /\ workers' = workers \cup {new}
    BY <1>2 DEF Start, Inv
  <2>2. new.target = next
    OBVIOUS
  <2> HIDE DEF new
  <2>3. next .. N = {next} \cup (next' .. N)
    BY <2>1
  <2>4. {w.target : w \in workers'} = {w.target : w \in workers} \cup {next}
    BY <2>1, <2>2
  <2>5. {t \in next .. N : event.kind \in Wants[t]}
          = {next} \cup {t \in next' .. N : event'.kind \in Wants[t]}
    BY <2>1, <2>3
  <2> QED BY <2>4, <2>5 DEF Owing
<1>3. CASE Return
  BY <1>3 DEF Return, Owing
<1> QED BY <1>1, <1>2, <1>3

LEMMA NotifyOwes ==
  ASSUME Inv, NEW w \in workers, Notify(w)
  PROVE  Owing' = Owing
<1>1. [w EXCEPT !.stage = "notifying"].target = w.target
  BY DEF Inv, Worker
<1> QED BY <1>1 DEF Notify, Owing

\* The end of a Notify settles what its notifier is owed.
LEMMA DoneSettles ==
  ASSUME Inv, NEW w \in workers, Done(w)
  PROVE  /\ w.target \in Owing /\ Owing' = Owing \ {w.target}
         /\ w.target \in Target
<1> USE DispatcherAssumption
<1>1. w.target < next /\ w.target \in 1 .. N
  BY DEF Inv, NoOverlap, Worker, Target
<1>2. \A v \in workers : v.target = w.target => v = w
  BY DEF Inv, NoOverlap
<1>3. Owing' = Owing \ {w.target}
  BY <1>1, <1>2 DEF Done, Owing, Inv
<1> QED BY <1>1, <1>3 DEF Owing, Target

\* Each step is a publication, the end of one notifier's work, or a stutter.
LEMMA StepRefines ==
  ASSUME Inv, [Next]_vars
  PROVE  [Contract!Next]_(Contract!vars)
<1>1. ASSUME NEW kind \in Kinds, Dispatch(kind)
      PROVE  Contract!Publish(kind)
  <2>1. event'.n = event.n + 1
    BY <1>1 DEF Dispatch
  <2> QED BY <1>1, <2>1, DispatchOwes DEF Contract!Publish
<1>2. CASE Skip \/ Start \/ Return
  BY <1>2, FanOutOwes DEF Skip, Start, Return, Contract!vars
<1>3. ASSUME NEW w \in workers, Notify(w)
      PROVE  UNCHANGED Contract!vars
  BY <1>3, NotifyOwes DEF Notify, Contract!vars
<1>4. ASSUME NEW w \in workers, Done(w)
      PROVE  Contract!Handle(w.target) /\ w.target \in Target
  BY <1>4, DoneSettles DEF Done, Contract!Handle
<1>5. CASE UNCHANGED vars
  BY <1>5 DEF Owing, Contract!vars, vars
<1> QED BY <1>1, <1>2, <1>3, <1>4, <1>5
        DEF Next, Work, Contract!Next

\* Dispatch implements Broadcast: every event once to every notifier that
\* wants it, and the next only after all have finished.
THEOREM DispatcherKeepsContract == Spec => KeepsContract
<1>1. Init => Contract!Init
  BY DispatcherAssumption DEF Init, Contract!Init, Owing
<1>2. Inv /\ [Next]_vars => [Contract!Next]_(Contract!vars)
  BY StepRefines
<1> QED BY <1>1, <1>2, InvAlways, PTL DEF Spec, KeepsContract, Contract!Spec
=============================================================================
