---------------------------- MODULE SystemProofs ----------------------------
(***************************************************************************)
(* Theorems about the program as a whole, and their proofs.  First what    *)
(* the targets believe, for any number of targets and any filters: the     *)
(* theorems about the monitor and those about Dispatch put together.  Then *)
(* how long a shutdown waits, for any interval and timeouts: the monitor   *)
(* with its ticker and the limits of its calls.                            *)
(***************************************************************************)
EXTENDS SystemProperties, TimedMonitorProperties, MonitorProofs

DP == INSTANCE DispatcherProofs WITH pc <- dispatch, Kinds <- Kind

-----------------------------------------------------------------------------
\* A step of the program is a step of the monitor or none.
LEMMA StepOfMonitor ==
  ASSUME [SysNext]_sysVars
  PROVE  [Next]_vars
BY DEF SysNext, SysEmit, Proceed, Goroutine, Outside, FanOut, Works, Begin,
       Delivered, Fails, Rest, sysVars, Next, Handler

\* The monitor's theorems are the program's.
THEOREM RunsTheMonitor == SysSpec => Spec
<1>1. SysInit => Init
  BY DEF SysInit
<1>2. [SysNext]_sysVars => [Next]_vars
  BY StepOfMonitor
<1> QED BY <1>1, <1>2, PTL DEF SysSpec, Spec

\* What the monitor emits is an event kind.
LEMMA EmitsKinds ==
  ASSUME TypeOK, Emit
  PROVE  Earliest(pending) \in Kind /\ Earliest(pending) \in pending
BY EarliestIsFirst DEF Emit, TypeOK

\* A step of the program is a step of Dispatch or none.
LEMMA StepOfDispatcher ==
  ASSUME TypeOK, [SysNext]_sysVars
  PROVE  [DP!Next]_DP!vars
<1>1. CASE SysEmit
  BY <1>1, EmitsKinds
  DEF SysEmit, sinkVars, DP!Next, DP!vars, D!Dispatch, DP!Dispatch
<1>2. CASE Proceed \/ Outside \/ Rest \/ UNCHANGED sysVars
  BY <1>2 DEF Proceed, Outside, Rest, sysVars, sinkVars, DP!vars
<1>3. CASE FanOut
  BY <1>3 DEF FanOut, DP!Next, D!Skip, D!Start, D!Return, DP!Skip, DP!Start, DP!Return
<1>4. ASSUME NEW w \in workers, Works(w)
      PROVE  DP!Next
  BY <1>4 DEF Works, Begin, Delivered, Fails, DP!Next, DP!Work, D!Notify,
              D!Done, DP!Notify, DP!Done
<1> QED BY <1>1, <1>2, <1>3, <1>4 DEF SysNext

\* The assumption of Dispatcher, which its instance rests on.
LEMMA DispatcherMayBeUsed == DP!DispatcherAssumption
BY SinkAssumption DEF DP!DispatcherAssumption

LEMMA SinkInit == SysInit => DP!Inv
BY DP!InvInit, DispatcherMayBeUsed
DEF SysInit, D!Init, DP!Init

LEMMA SinkStep ==
  ASSUME TypeOK, DP!Inv, [SysNext]_sysVars
  PROVE  DP!Inv'
BY StepOfDispatcher, DP!InvStep, DispatcherMayBeUsed

\* Inside the program Dispatch still implements Broadcast, with the events of
\* the monitor: each of them reaches each target that wants it once, in order.
THEOREM EventsReachTargets == SysSpec => DP!KeepsContract
<1>1. SysInit => DP!Init
  BY DEF SysInit, D!Init, DP!Init
<1>2. TypeOK /\ [SysNext]_sysVars => [DP!Next]_DP!vars
  BY StepOfDispatcher
<1>3. DP!Spec => DP!KeepsContract
  BY DP!DispatcherKeepsContract, DispatcherMayBeUsed
<1>4. SysSpec => DP!Spec
  BY <1>1, <1>2, RunsTheMonitor, TypeCorrect, PTL DEF SysSpec, DP!Spec
<1> QED BY <1>3, <1>4

-----------------------------------------------------------------------------
(***************************************************************************)
(* What the targets believe.  TargetsInformed and ShutdownHandledFirst     *)
(* speak of the moments at which nothing is on its way; the invariant says *)
(* at every moment what a target will believe once it has handled what it  *)
(* is owed: of the conditions it follows, what the monitor's subscriber    *)
(* has heard.                                                              *)
(***************************************************************************)

Awaits(t) == IF t \in DP!Owing THEN Believes(told[t], event.kind) ELSE told[t]

\* Where the monitor is while it dispatches; FSD and LOWBATT come before the
\* other events of a snapshot.
PlaceInv ==
  dispatch = "loop" =>
    /\ pc \in {"critical", "edges", "bad", "escalate"}
    /\ pc = "edges" => event.kind \notin {"FSD", "LOWBATT"}

BeliefInv ==
  /\ told \in [D!Target -> SUBSET Condition]
  /\ \A t \in D!Target \ missed :
       Awaits(t) \cap Follows(t) = active \cap Follows(t)

SysInv == DP!Inv /\ PlaceInv /\ BeliefInv

\* A target learns from an event what the subscriber hears in it.
LEMMA HeardIsBelieved ==
  ASSUME NEW k \in Kind, Hears(k)
  PROVE  active' = Believes(active, k)
<1>1. Audible \subseteq Condition
  BY DEF Audible, Condition, Fault
<1>2. CASE k \in {"COMMBAD", "NOCOMM", "COMMOK", "STARTUP"}
  BY <1>1, <1>2, KindsDistinct DEF Hears, Believes
<1>3. ASSUME NEW c \in Condition, k = EnterKind[c], active' = active \cup {c}
      PROVE  active' = Believes(active, k)
  BY <1>3, KindsDistinct DEF Believes
<1>4. ASSUME NEW c \in Audible, k = LeaveKind[c], active' = active \ {c}
      PROVE  active' = Believes(active, k)
  BY <1>1, <1>4, KindsDistinct DEF Believes
<1> QED BY <1>2, <1>3, <1>4 DEF Hears

\* An event outside its filter is about nothing a target follows.
LEMMA FollowsWhatItWants ==
  ASSUME NEW t, NEW k, k \notin Wants[t], NEW old
  PROVE  Believes(old, k) \cap Follows(t) = old \cap Follows(t)
BY DEF Believes, Follows

LEMMA BelievesTogether ==
  ASSUME NEW a, NEW b, NEW k, NEW seen, a \cap seen = b \cap seen
  PROVE  Believes(a, k) \cap seen = Believes(b, k) \cap seen
BY DEF Believes

\* Outside of Dispatch no target is owed anything.
LEMMA IdleOwesNothing ==
  ASSUME DP!Inv, dispatch = "idle"
  PROVE  DP!Owing = {} /\ workers = {}
BY SinkAssumption DEF DP!Inv, DP!Owing

LEMMA SysInvInit ==
  ASSUME SysInit
  PROVE  SysInv
<1>1. DP!Inv /\ dispatch = "idle"
  BY SinkInit DEF SysInit, D!Init
<1> QED BY <1>1, IdleOwesNothing DEF SysInit, Init, SysInv, PlaceInv, BeliefInv, Awaits

\* The monitor hands an event over: every target that wants it is owed what
\* the subscriber has just heard.
LEMMA EmitKeepsSysInv ==
  ASSUME TypeOK, Inv, SysInv, SysEmit
  PROVE  PlaceInv' /\ BeliefInv'
<1> DEFINE k == Earliest(pending)
<1>1. /\ dispatch = "idle" /\ DP!Owing = {} /\ UNCHANGED <<told, missed, pc>>
      /\ pc \in {"critical", "edges", "bad", "escalate"}
  BY IdleOwesNothing DEF SysInv, SysEmit, Emit, believeVars
<1>2. CASE canceled
  <2>1. UNCHANGED <<active, sinkVars>>
    BY <1>2 DEF SysEmit, Emit, streamVars
  <2>2. DP!Owing' = DP!Owing
    BY <2>1 DEF sinkVars, DP!Owing
  <2> QED BY <1>1, <2>1, <2>2 DEF sinkVars, SysInv, PlaceInv, BeliefInv, Awaits, Follows
<1>3. CASE ~canceled
  <2>1. k \in Kind /\ active' = Believes(active, k)
    BY <1>3, EmitsKinds, HeardIsBelieved DEF SysEmit, Emit
  <2>2. k \in {"FSD", "LOWBATT"} => pc = "critical"
    BY <1>3, EmitPlace DEF Inv, SysEmit
  <2>3. DP!Dispatch(k) /\ event'.kind = k
    BY <1>3 DEF SysEmit, D!Dispatch, DP!Dispatch
  <2>4. DP!Owing' = {t \in D!Target : k \in Wants[t]}
    BY <2>1, <2>3, DP!DispatchOwes, DispatcherMayBeUsed DEF SysInv, D!Target, DP!Target
  <2>5. PlaceInv'
    BY <1>1, <2>2, <2>3 DEF PlaceInv
  <2> HIDE DEF k
  <2>6. ASSUME NEW t \in D!Target \ missed
        PROVE  Awaits(t)' \cap Follows(t) = active' \cap Follows(t)
    <3>1. told[t] \cap Follows(t) = active \cap Follows(t)
      BY <1>1 DEF SysInv, BeliefInv, Awaits
    <3>2. Believes(told[t], k) \cap Follows(t) = active' \cap Follows(t)
      BY <2>1, <3>1, BelievesTogether
    <3>3. CASE k \in Wants[t]
      BY <1>1, <2>3, <2>4, <3>2, <3>3 DEF Awaits
    <3>4. CASE k \notin Wants[t]
      <4>1. Awaits(t)' = told[t]
        BY <1>1, <2>4, <3>4 DEF Awaits
      <4>2. Believes(told[t], k) \cap Follows(t) = told[t] \cap Follows(t)
        BY <3>4, FollowsWhatItWants
      <4> QED BY <3>2, <4>1, <4>2
    <3> QED BY <3>3, <3>4
  <2> QED BY <1>1, <2>5, <2>6 DEF BeliefInv, SysInv, Follows
<1> QED BY <1>2, <1>3

\* Outside of emit the subscriber hears nothing; a condition may lapse.
LEMMA GoroutineLapses ==
  ASSUME Goroutine
  PROVE  active' \subseteq active
<1>1. ASSUME NEW status, NEW text, Observe(status, text)
      PROVE  active' \subseteq active
  BY <1>1 DEF Observe
<1>2. CASE ~(\E status, text : Observe(status, text))
  BY <1>2 DEF Goroutine, Loop, Timers, Replies, Failures, BeginWait,
     BeginConnect, Resume, Stop, PollTick, RefreshTick, RetryTimer, NoCommTimer,
     DialOk, GetStatus, ListStatus, ListLacksStatus, AlarmRead, CallFails,
     AlarmReadFails, CriticalDone, Edges, Commit, ConnErr, Marked, OtherEdges,
     streamVars
<1> QED BY <1>1, <1>2

LEMMA ProceedKeepsSysInv ==
  ASSUME TypeOK, SysInv, Proceed
  PROVE  PlaceInv' /\ BeliefInv'
<1>1. /\ dispatch = "idle" /\ UNCHANGED <<sinkVars, missed>> /\ DP!Owing = {}
      /\ told' = [t \in D!Target |-> told[t] \ (active \ active')]
      /\ active' \subseteq active
  BY IdleOwesNothing, GoroutineLapses DEF Proceed, SysInv
<1>2. DP!Owing' = {}
  BY <1>1 DEF DP!Owing, sinkVars
<1>3. ASSUME NEW t \in D!Target \ missed
      PROVE  Awaits(t)' \cap Follows(t) = active' \cap Follows(t)
  BY <1>1, <1>2 DEF SysInv, BeliefInv, Awaits
<1> QED BY <1>1, <1>3 DEF PlaceInv, BeliefInv, sinkVars, SysInv, Follows

\* Time, the cancellation and the AfterFunc on it.
LEMMA OutsideKeepsSysInv ==
  ASSUME SysInv, Outside
  PROVE  PlaceInv' /\ BeliefInv'
<1>1. UNCHANGED <<sinkVars, believeVars, pc, active>>
  BY DEF Outside, Cancel, CloseOnCancel, Tick, streamVars
<1>2. DP!Owing' = DP!Owing
  BY <1>1 DEF DP!Owing, sinkVars
<1> QED BY <1>1, <1>2 DEF SysInv, PlaceInv, BeliefInv, Awaits, sinkVars,
                          believeVars, Follows

LEMMA FanOutKeepsSysInv ==
  ASSUME SysInv, FanOut
  PROVE  PlaceInv' /\ BeliefInv'
<1>1. /\ UNCHANGED <<told, missed, pc, active, event>>
      /\ dispatch' \in {dispatch, "idle"}
  BY DEF FanOut, D!Skip, D!Start, D!Return, vars, streamVars, believeVars
<1>2. DP!Owing' = DP!Owing
  BY DP!FanOutOwes, DispatcherMayBeUsed
  DEF FanOut, SysInv, D!Skip, D!Start, D!Return, DP!Skip, DP!Start, DP!Return
<1> QED BY <1>1, <1>2 DEF SysInv, PlaceInv, BeliefInv, Awaits, Follows

LEMMA WorksKeepsSysInv ==
  ASSUME SysInv, NEW w \in workers, Works(w)
  PROVE  PlaceInv' /\ BeliefInv'
<1>1. /\ UNCHANGED <<pc, active, event, dispatch>>
  BY DEF Works, Begin, Delivered, Fails, D!Notify, D!Done, vars, streamVars
<1>2. PlaceInv'
  BY <1>1 DEF SysInv, PlaceInv
<1>3. CASE Begin(w)
  <2>1. DP!Owing' = DP!Owing
    BY <1>3, DP!NotifyOwes, DispatcherMayBeUsed
    DEF Begin, SysInv, D!Notify, DP!Notify
  <2> QED BY <1>1, <1>2, <1>3, <2>1
          DEF Begin, believeVars, SysInv, BeliefInv, Awaits, Follows
<1>4. CASE D!Done(w)
  <2>1. /\ w.target \in DP!Owing /\ DP!Owing' = DP!Owing \ {w.target}
        /\ w.target \in D!Target
    BY <1>4, DP!DoneSettles, DispatcherMayBeUsed
    DEF SysInv, D!Done, DP!Done, D!Target, DP!Target
  <2>2. CASE Delivered(w)
    <3>1. /\ told' = [told EXCEPT ![w.target] = Believes(@, event.kind)]
          /\ UNCHANGED missed
      BY <2>2 DEF Delivered
    <3>2. \A t \in D!Target : Awaits(t)' = Awaits(t)
      BY <1>1, <2>1, <3>1 DEF Awaits, SysInv, BeliefInv
    <3>3. told' \in [D!Target -> SUBSET Condition]
      <4>1. Believes(told[w.target], event.kind) \in SUBSET Condition
        BY <2>1 DEF Believes, SysInv, BeliefInv
      <4> QED BY <3>1, <4>1 DEF SysInv, BeliefInv
    <3> QED BY <1>1, <1>2, <3>1, <3>2, <3>3 DEF SysInv, BeliefInv, Follows
  <2>3. CASE Fails(w)
    <3>1. missed' = missed \cup {w.target} /\ UNCHANGED told
      BY <2>3 DEF Fails
    <3>2. \A t \in D!Target \ missed' : Awaits(t)' = Awaits(t)
      BY <1>1, <2>1, <3>1 DEF Awaits
    <3> QED BY <1>1, <1>2, <3>1, <3>2 DEF SysInv, BeliefInv, Follows
  <2> QED BY <1>3, <2>2, <2>3 DEF Works, Begin, Delivered, Fails, D!Notify, D!Done
<1> QED BY <1>3, <1>4 DEF Works, Delivered, Fails

LEMMA SysInvStep ==
  ASSUME TypeOK, Inv, SysInv, [SysNext]_sysVars
  PROVE  SysInv'
<1>1. DP!Inv'
  BY SinkStep DEF SysInv
<1>2. CASE Rest \/ UNCHANGED sysVars
  <2>1. UNCHANGED <<sinkVars, believeVars, pc, active>>
    BY <1>2 DEF Rest, sysVars, vars, streamVars
  <2>2. DP!Owing' = DP!Owing
    BY <2>1 DEF DP!Owing, sinkVars
  <2> QED BY <1>1, <2>1, <2>2 DEF SysInv, PlaceInv, BeliefInv, Awaits,
             sinkVars, believeVars, Follows
<1> QED BY <1>1, <1>2, EmitKeepsSysInv, ProceedKeepsSysInv, OutsideKeepsSysInv,
           FanOutKeepsSysInv, WorksKeepsSysInv DEF SysNext, SysInv

\* The inductive invariant of the program.
THEOREM SystemInvariant == SysSpec => [](TypeOK /\ Inv /\ SysInv)
<1>1. SysInit => SysInv
  BY SysInvInit
<1>2. TypeOK /\ Inv /\ SysInv /\ [SysNext]_sysVars => SysInv'
  BY SysInvStep
<1> QED BY <1>1, <1>2, RunsTheMonitor, TypeCorrect, ViewInvariant, PTL DEF SysSpec

\* Between two snapshots every target that never failed believes what was last
\* observed of the conditions it follows.
THEOREM TargetsAlwaysInformed == SysSpec => []TargetsInformed
<1>1. TypeOK /\ Inv /\ SysInv /\ SubscriberInformed => TargetsInformed
  <2> SUFFICES ASSUME SysInv, SubscriberInformed, Settled, dispatch = "idle",
                      ~canceled, NEW t \in D!Target \ missed
               PROVE  Informed(t)
    BY DEF TargetsInformed, Settled
  <2>1. told[t] \cap Follows(t) = active \cap Follows(t)
    BY IdleOwesNothing DEF SysInv, BeliefInv, Awaits
  <2>2. active = {c \in Conditions(prev) : c \in Fault => confirmed[c]}
    BY DEF SubscriberInformed
  <2> QED BY <2>1, <2>2 DEF Informed
<1>2. SysSpec => []SubscriberInformed
  BY RunsTheMonitor, SubscriberAlwaysInformed
<1> QED BY <1>1, <1>2, SystemInvariant, PTL

\* A target that follows a shutdown condition has handled its event before the
\* alarm text is read and before any other event of the snapshot is sent.
THEOREM ShutdownAlwaysHandledFirst == SysSpec => []ShutdownHandledFirst
<1>1. TypeOK /\ Inv /\ SysInv /\ ShutdownAlertedFirst => ShutdownHandledFirst
  <2> SUFFICES ASSUME SysInv, ShutdownAlertedFirst, pc \in {"alarm", "edges"},
                      ~canceled, NEW t \in D!Target \ missed,
                      NEW c \in Shutdown \cap Conditions(snap.tokens) \cap Follows(t)
               PROVE  c \in told[t]
    BY DEF ShutdownHandledFirst
  <2>1. c \in active /\ c \in Follows(t)
    BY DEF ShutdownAlertedFirst
  <2>2. c \in Awaits(t)
    BY <2>1 DEF SysInv, BeliefInv
  <2>3. CASE t \notin DP!Owing
    BY <2>2, <2>3 DEF Awaits
  <2>4. CASE t \in DP!Owing
    <3>1. dispatch = "loop"
      BY <2>4, IdleOwesNothing DEF SysInv, DP!Inv
    <3>2. event.kind \notin {"FSD", "LOWBATT"}
      BY <3>1 DEF SysInv, PlaceInv
    <3>3. c \in Condition /\ EnterKind[c] \in {"FSD", "LOWBATT"}
      BY KindsDistinct DEF Conditions
    <3> QED BY <2>2, <2>4, <3>2, <3>3 DEF Awaits, Believes
  <2> QED BY <2>3, <2>4
<1>2. SysSpec => []ShutdownAlertedFirst
  BY RunsTheMonitor, ShutdownAlwaysAlertedFirst
<1> QED BY <1>1, <1>2, SystemInvariant, PTL

\* While a notifier runs the monitor is in the emit that started it: it
\* neither reads the server nor ends.
THEOREM NotifiersAlwaysJoined == SysSpec => []NotifiersJoined
<1>1. SysInv => NotifiersJoined
  BY DEF SysInv, DP!Inv, PlaceInv, NotifiersJoined
<1> QED BY <1>1, SystemInvariant, PTL

\* The events of the program keep the contract of the monitor's event stream.
THEOREM SystemKeepsStream == SysSpec => Contract
BY RunsTheMonitor, MonitorKeepsContract

-----------------------------------------------------------------------------
(***************************************************************************)
(* How long LOWBATT may wait.  The invariant says of every place of the    *)
(* monitor how much of the bound is used up.                               *)
(***************************************************************************)

\* LOWBATT is among the events that emitCritical has still to send.
Caught == pc = "critical" /\ "LOWBATT" \in pending

TimedTypes ==
  /\ lag \in Nat \cup {Never} /\ clock \in 0 .. StatusInterval - 1 /\ due \in BOOLEAN
  /\ spent \in Nat \cup {Never} /\ spent <= Limit(pc)
  /\ pc \in Blocked => spent # Never
  /\ pc \in {"loop", "select", "wait"} => spent = Never

\* Where LOWBATT can be waiting, and that no snapshot had it before.
LagInv ==
  lag # Never =>
    /\ conn = "up" /\ ~alarmErr /\ ~canceled
    /\ pc \in {"list", "get", "critical", "alarm", "edges", "select", "loop"}
    /\ "LOWBATT" \notin Conditions(prev)
    /\ pc \in {"critical", "alarm", "edges"} /\ ~Caught =>
         "LOWBATT" \notin Conditions(snap.tokens)

Critical == CriticalEvents(prev, snap.tokens)

\* The time that n deliveries may take, and what is left of the present one.
Cost(n) == n * LongestNotify
Left == IF spent = Never THEN 0 ELSE LongestNotify - spent

\* A handler takes no longer than its deliveries and its alarm read.
HandlerInv ==
  ~canceled =>
    /\ prev \in Statuses \cup {{}} /\ (prev = {} \/ started)
    /\ pc \in {"critical", "alarm", "edges"} => snap.tokens \in Statuses
    /\ pc = "critical" =>
         /\ pending \subseteq Critical
         /\ spent # Never => pending # Critical
         /\ snapAge + Left <= Cost(Cardinality(Critical) - Cardinality(pending))
    /\ pc = "alarm" => snapAge <= Cost(Cardinality(Critical)) + spent
    /\ pc = "edges" =>
         /\ Cardinality(pending) <= MostEvents
         /\ snapAge + Left <= NutTimeout + Cost(MostEvents - Cardinality(pending))

\* With no tick to take, the last poll began after the last tick; what it
\* missed appeared since.
TickerInv ==
  ~due =>
    /\ lag <= clock \/ Caught \/ (pc = "get" /\ op = "pollStatus" /\ lag > spent)
    /\ pc = "get" /\ op = "pollStatus" => spent <= clock

\* What is used up of the bound.
DelayInv ==
  /\ pc \in {"loop", "select"} => lag <= LongestTurn
  /\ pc = "list" => lag <= LongestTurn + spent
  /\ pc = "get" =>
       lag <= LongestTurn + spent + (IF op = "pollStatus" THEN 0 ELSE NutTimeout)
  /\ Caught =>
       lag <= LongestTurn + 2 * NutTimeout + (IF spent = Never THEN 0 ELSE spent)
  /\ pc \in {"critical", "alarm", "edges"} /\ ~Caught => lag <= NutTimeout + snapAge

TimedInv == TimedTypes /\ LagInv /\ HandlerInv /\ TickerInv /\ DelayInv

-----------------------------------------------------------------------------
\* Facts about the limits.

LEMMA Timeouts ==
  /\ StatusInterval \in Nat \ {0} /\ NutTimeout \in Nat /\ LongestNotify \in Nat
  /\ MostEvents \in Nat
BY LimitsAssumption, MostEventsAssumption DEF LongestNotify

LEMMA LimitFacts ==
  /\ StatusInterval \in Nat \ {0} /\ NutTimeout \in Nat /\ LongestNotify \in Nat
  /\ MostEvents \in Nat
  /\ \A p \in PC : Limit(p) \in Nat
  /\ \A n \in Nat : Cost(n) \in Nat
  /\ \A m, n \in Nat : m <= n => Cost(m) <= Cost(n)
  /\ \A m, n \in Nat : Cost(m + n) = Cost(m) + Cost(n)
  /\ \A n \in Nat : Cost(n + 1) = Cost(n) + LongestNotify
  /\ Cost(0) = 0
<1>1. /\ StatusInterval \in Nat \ {0} /\ NutTimeout \in Nat /\ LongestNotify \in Nat
      /\ MostEvents \in Nat
  BY Timeouts
<1>2. \A p \in PC : Limit(p) \in Nat
  BY <1>1 DEF Limit, LongestDial
<1>3. ASSUME NEW n \in Nat
      PROVE  Cost(n) \in Nat /\ Cost(n + 1) = Cost(n) + LongestNotify
  BY <1>1 DEF Cost
<1>4. ASSUME NEW m \in Nat, NEW n \in Nat
      PROVE  Cost(m + n) = Cost(m) + Cost(n)
  BY <1>1 DEF Cost
<1>5. ASSUME NEW m \in Nat, NEW n \in Nat, m <= n
      PROVE  Cost(m) <= Cost(n)
  <2>1. n - m \in Nat /\ n = m + (n - m)
    BY <1>5
  <2>2. Cost(n) = Cost(m) + Cost(n - m) /\ Cost(n - m) \in Nat /\ Cost(m) \in Nat
    BY <1>3, <1>4, <2>1
  <2> QED BY <2>2
<1>6. Cost(0) = 0
  BY <1>1 DEF Cost
<1> QED BY <1>1, <1>2, <1>3, <1>4, <1>5, <1>6

LEMMA TurnFacts ==
  /\ LongestTurn \in Nat /\ StatusInterval <= LongestTurn
  /\ 2 * NutTimeout + Cost(MostEvents) <= LongestTurn
<1>1. LongestHandler = 2 * NutTimeout + Cost(MostEvents)
  BY DEF LongestHandler, Cost
<1>2. Cost(MostEvents) \in Nat /\ NutTimeout \in Nat /\ StatusInterval \in Nat
  BY LimitFacts
<1> QED BY <1>1, <1>2 DEF LongestTurn

\* Event kinds are finitely many, and so are those queued.
LEMMA KindsFinite == IsFiniteSet(Kind)
<1>1. ASSUME NEW S, IsFiniteSet(S), NEW a, NEW b, NEW c, NEW d
      PROVE  IsFiniteSet(S \cup {a, b, c, d})
  <2>1. IsFiniteSet(S \cup {a} \cup {b} \cup {c} \cup {d})
    BY <1>1, FS_AddElement
  <2>2. S \cup {a} \cup {b} \cup {c} \cup {d} = S \cup {a, b, c, d}
    OBVIOUS
  <2> QED BY <2>1, <2>2
<1> DEFINE K4 == {} \cup {"COMMBAD", "NOCOMM", "FSD", "LOWBATT"}
           K8 == K4 \cup {"COMMOK", "STARTUP", "BOOST", "NOTBOOST"}
           K12 == K8 \cup {"BYPASS", "NOTBYPASS", "CAL", "NOTCAL"}
           K16 == K12 \cup {"ONBATT", "OFF", "NOTOFF", "ONLINE"}
           K20 == K16 \cup {"OVERLOAD", "NOTOVERLOAD", "TRIM", "NOTTRIM"}
           K24 == K20 \cup {"REPLBATT", "ALARM", "NOTALARM", "NOTALARM"}
<1>2. Kind = K24
  BY DEF Kind, Rank
<1>3. IsFiniteSet(K4)
  BY <1>1, FS_EmptySet
<1> HIDE DEF K4
<1>4. IsFiniteSet(K8)
  BY <1>1, <1>3
<1> HIDE DEF K8
<1>5. IsFiniteSet(K12)
  BY <1>1, <1>4
<1> HIDE DEF K12
<1>6. IsFiniteSet(K16)
  BY <1>1, <1>5
<1> HIDE DEF K16
<1>7. IsFiniteSet(K20)
  BY <1>1, <1>6
<1> HIDE DEF K20
<1>8. IsFiniteSet(K24)
  BY <1>1, <1>7
<1> QED BY <1>2, <1>8

LEMMA KindsCounted ==
  ASSUME NEW S \in SUBSET Kind
  PROVE  IsFiniteSet(S) /\ Cardinality(S) \in Nat
BY KindsFinite, FS_Subset, FS_CardinalityType

-----------------------------------------------------------------------------
\* Steps that keep the handler: time, the appearance of LOWBATT, emissions.

\* What a step may rely on before it.
Known == TypeOK /\ Inv /\ SnapInv /\ OneConnection /\ TimedInv

\* CriticalEvents announces LOWBATT exactly if it is new.
LEMMA LowBattery ==
  ASSUME NEW p, NEW s
  PROVE  "LOWBATT" \in CriticalEvents(p, s) <=>
           "LOWBATT" \in Conditions(s) \ Conditions(p)
BY DEF CriticalEvents, Shutdown, EnterKind

\* Nothing that the handler's time depends on has changed.
LEMMA HandlerKept ==
  ASSUME HandlerInv,
         UNCHANGED <<pc, canceled, prev, started, snap, snapAge, pending, spent>>
  PROVE  HandlerInv'
<1>1. UNCHANGED <<Left, Critical>>
  BY DEF Left, Critical
<1>2. /\ Cost(Cardinality(Critical) - Cardinality(pending))'
           = Cost(Cardinality(Critical) - Cardinality(pending))
      /\ Cost(Cardinality(Critical))' = Cost(Cardinality(Critical))
      /\ Cost(MostEvents - Cardinality(pending))' = Cost(MostEvents - Cardinality(pending))
  BY <1>1 DEF Cost
<1> QED BY <1>1, <1>2 DEF HandlerInv

\* While LOWBATT is not waiting there is nothing to bound.
LEMMA WithoutLag ==
  ASSUME TimedTypes', SnapInv', TypeOK', lag' = Never,
         pc' = "get" /\ op' = "pollStatus" /\ ~due' => spent' <= clock'
  PROVE  LagInv' /\ TickerInv' /\ DelayInv'
<1>1. LagInv'
  BY DEF LagInv, Never
<1>2. TickerInv'
  BY DEF TickerInv, TimedTypes, Never
<1>3. DelayInv'
  <2>1. LongestTurn' = LongestTurn
    BY DEF LongestTurn, LongestHandler
  <2>2. pc' \in {"list", "get"} => spent' \in Nat
    BY DEF TimedTypes, Blocked
  <2>3. spent' \in Nat \cup {-1}
    BY DEF TimedTypes, Never
  <2>4. pc' \in {"critical", "alarm", "edges"} => snapAge' \in Nat
    BY DEF SnapInv, TypeOK
  <2>5. LongestTurn \in Nat /\ NutTimeout \in Nat
    BY TurnFacts, Timeouts
  <2>6. pc' \in {"loop", "select"} => lag' <= LongestTurn
    BY <2>5 DEF Never
  <2>7. pc' = "list" => lag' <= LongestTurn + spent'
    BY <2>2, <2>5 DEF Never
  <2>8. pc' = "get" =>
          lag' <= LongestTurn + spent' + (IF op' = "pollStatus" THEN 0 ELSE NutTimeout)
    BY <2>2, <2>5 DEF Never
  <2>9. lag' <= LongestTurn + 2 * NutTimeout + (IF spent' = Never THEN 0 ELSE spent')
    <3> DEFINE n == IF spent' = Never THEN 0 ELSE spent'
    <3>1. n \in Nat
      BY <2>3 DEF Never
    <3> HIDE DEF n
    <3>2. lag' <= LongestTurn + 2 * NutTimeout + n
      BY <2>5, <3>1 DEF Never
    <3> QED BY <3>2 DEF n
  <2>10. pc' \in {"critical", "alarm", "edges"} => lag' <= NutTimeout + snapAge'
    BY <2>4, <2>5 DEF Never
  <2> QED BY <2>1, <2>6, <2>7, <2>8, <2>9, <2>10 DEF DelayInv
<1> QED BY <1>1, <1>2, <1>3

LEMMA TimeKeepsBounds ==
  ASSUME Known, TimedTick
  PROVE  TimedInv'
<1>1. /\ UNCHANGED <<pc, op, conn, canceled, prev, started, snap, pending, alarmErr>>
      /\ snapAge' = Older(snapAge) /\ snapAge < MaxBusy
  BY DEF TimedTick, Tick, connVars
<1>2. /\ spent' = Later(spent) /\ lag' = Later(lag)
      /\ clock' = (clock + 1) % StatusInterval /\ (due' <=> due \/ clock' = 0)
      /\ due' \in BOOLEAN
  BY DEF TimedTick, Known, TimedInv, TimedTypes
<1>3. /\ pc \in {"select", "wait"} => ~(pc = "select" /\ due)
      /\ pc \notin {"select", "wait"} => spent # Never /\ spent < Limit(pc)
  BY DEF TimedTick
<1>4. /\ lag \in Nat \cup {Never} /\ spent \in Nat \cup {Never} /\ pc \in PC
      /\ clock \in 0 .. StatusInterval - 1 /\ due \in BOOLEAN
      /\ snapAge \in (0 .. MaxBusy) \cup {Never}
  BY DEF Known, TypeOK, TimedInv, TimedTypes
<1>5. /\ StatusInterval \in Nat \ {0} /\ NutTimeout \in Nat /\ LongestNotify \in Nat
      /\ Limit(pc) \in Nat
  BY <1>4, LimitFacts
<1>6. /\ clock' \in 0 .. StatusInterval - 1
      /\ clock' # 0 => clock' = clock + 1
      /\ clock' = 0 => clock = StatusInterval - 1
  BY <1>2, <1>4, <1>5
<1>7. /\ lag = Never => lag' = Never
      /\ lag # Never => lag' = lag + 1
      /\ spent = Never => spent' = Never
      /\ spent # Never => spent' = spent + 1
      /\ lag' \in Nat \cup {Never} /\ spent' \in Nat \cup {Never}
  BY <1>2, <1>4 DEF Later, Never
<1>8. snapAge # Never => snapAge' = snapAge + 1
  BY <1>1, <1>4, BoundsAssumption, DurationsAssumption DEF Older, Never
<1>9. Limit(pc)' = Limit(pc) /\ (Caught' <=> Caught) /\ Critical' = Critical
  BY <1>1 DEF Limit, Caught, Critical
<1>10. TimedTypes'
  <2>1. pc \in {"select", "wait"} => Limit(pc) >= 0
    BY <1>5
  <2>2. spent' <= Limit(pc)
    BY <1>3, <1>4, <1>5, <1>7 DEF Known, TimedInv, TimedTypes, Never
  <2> QED BY <1>1, <1>2, <1>6, <1>7, <1>9, <2>2 DEF Known, TimedInv, TimedTypes, Never
<1>11. LagInv'
  BY <1>1, <1>7, <1>9 DEF Known, TimedInv, LagInv
<1>12. HandlerInv'
  <2>1. pc = "critical" \/ pc = "edges" => spent # Never /\ Left' = Left - 1 /\ Left \in Int
    <3>1. pc = "critical" \/ pc = "edges" => spent # Never
      BY <1>3
    <3>2. spent # Never => Left = LongestNotify - spent /\ Left' = LongestNotify - (spent + 1)
      BY <1>4, <1>7 DEF Left, Never
    <3> QED BY <1>4, <1>5, <3>1, <3>2 DEF Never
  <2>2. pc = "alarm" => spent # Never
    BY <1>3
  <2>3. pc \in {"critical", "alarm", "edges"} => snapAge # Never
    BY DEF Known, SnapInv
  <2> HIDE DEF Left
  <2>4. Cost(Cardinality(Critical))' = Cost(Cardinality(Critical))
    BY <1>9 DEF Cost
  <2>5. /\ Cost(Cardinality(Critical) - Cardinality(pending))'
           = Cost(Cardinality(Critical) - Cardinality(pending))
        /\ Cost(MostEvents - Cardinality(pending))' = Cost(MostEvents - Cardinality(pending))
    BY <1>1, <1>9 DEF Cost
  <2> DEFINE x == Cost(Cardinality(Critical) - Cardinality(pending))
             y == Cost(Cardinality(Critical))
             z == Cost(MostEvents - Cardinality(pending))
  <2>6. /\ pc = "critical" => (snapAge + Left)' = snapAge + Left
        /\ pc = "edges" => (snapAge + Left)' = snapAge + Left
        /\ pc = "alarm" => snapAge' - spent' = snapAge - spent
    BY <1>1, <1>4, <1>7, <1>8, <2>1, <2>2, <2>3 DEF Never
  <2>7. pc = "alarm" /\ ~canceled => snapAge' <= y + spent'
    <3>1. pc = "alarm" /\ ~canceled => y + spent >= snapAge
      BY DEF Known, TimedInv, HandlerInv
    <3>2. y \in Int
      <4>1. Cardinality(Critical) \in Nat
        BY EventsDefined, KindsCounted DEF Critical
      <4> QED BY <1>5, <4>1 DEF Cost
    <3> QED BY <1>4, <1>7, <1>8, <2>2, <2>3, <3>1, <3>2 DEF Never
  <2> QED BY <1>1, <1>7, <1>9, <2>1, <2>4, <2>5, <2>6, <2>7 DEF Known, TimedInv, HandlerInv
<1>13. TickerInv'
  <2>1. ~due' => ~due /\ clock' = clock + 1
    BY <1>2, <1>6
  <2> QED BY <1>1, <1>3, <1>4, <1>7, <1>9, <2>1 DEF Known, TimedInv, TickerInv, Never
<1>14. DelayInv'
  <2>1. CASE pc = "select"
    <3>1. lag <= clock
      BY <1>3, <2>1 DEF Known, TimedInv, TickerInv, Caught
    <3> QED BY <1>1, <1>4, <1>5, <1>7, <2>1, <3>1, TurnFacts
            DEF DelayInv, LongestTurn, LongestHandler, Caught, Never
  <2>2. CASE pc # "select"
    <3>1. pc # "loop"
      BY DEF TimedTick, Tick
    <3>2. pc \in {"critical", "alarm", "edges"} => snapAge # Never
      BY DEF Known, SnapInv
    <3>3. LongestTurn' = LongestTurn /\ LongestTurn \in Nat
      BY TurnFacts DEF LongestTurn, LongestHandler
    <3>4. pc \in {"list", "get"} => spent # Never
      BY DEF Known, TimedInv, TimedTypes, Blocked
    <3>5. pc = "list" => lag' <= LongestTurn + spent'
      BY <1>4, <1>7, <3>3, <3>4 DEF Known, TimedInv, DelayInv, Never
    <3>6. pc = "get" =>
            lag' <= LongestTurn + spent' + (IF op = "pollStatus" THEN 0 ELSE NutTimeout)
      BY <1>4, <1>5, <1>7, <3>3, <3>4 DEF Known, TimedInv, DelayInv, Never
    <3>7. Caught => lag' <= LongestTurn + 2 * NutTimeout
                              + (IF spent' = Never THEN 0 ELSE spent')
      <4>1. Caught => spent # Never
        BY <1>3 DEF Caught
      <4> QED BY <1>4, <1>5, <1>7, <3>3, <4>1 DEF Known, TimedInv, DelayInv, Never
    <3>8. pc \in {"critical", "alarm", "edges"} /\ ~Caught => lag' <= NutTimeout + snapAge'
      BY <1>4, <1>5, <1>7, <1>8, <3>2 DEF Known, TimedInv, DelayInv, Never
    <3> QED BY <1>1, <1>9, <2>2, <3>1, <3>3, <3>5, <3>6, <3>7, <3>8 DEF DelayInv
  <2> QED BY <2>1, <2>2
<1> QED BY <1>10, <1>11, <1>12, <1>13, <1>14 DEF TimedInv

LEMMA AppearanceKeepsBounds ==
  ASSUME Known, Appears
  PROVE  TimedInv'
<1>1. /\ UNCHANGED <<pc, op, conn, canceled, prev, started, snap, snapAge, pending, alarmErr>>
      /\ UNCHANGED <<spent, clock, due>> /\ lag' = 0
  BY DEF Appears, vars, connVars, diffVars, workVars
<1>2. /\ conn = "up" /\ ~alarmErr /\ ~canceled /\ pc # "failed"
      /\ "LOWBATT" \notin Conditions(prev) \cup Conditions(snap.tokens)
  BY DEF Appears
<1>3. pc \in {"list", "get", "critical", "alarm", "edges", "select", "loop"}
  BY <1>2 DEF Known, TypeOK, PC, OneConnection
<1>4. Limit(pc)' = Limit(pc) /\ (Caught' <=> Caught) /\ UNCHANGED <<Left, Critical>>
  BY <1>1 DEF Limit, Caught, Left, Critical
<1>5. ~Caught
  <2>1. ASSUME Caught PROVE FALSE
    <3>1. pending \subseteq Critical /\ pc = "critical"
      BY <1>2, <2>1 DEF Known, TimedInv, HandlerInv, Caught
    <3>2. "LOWBATT" \in Critical
      BY <2>1, <3>1 DEF Caught
    <3> QED BY <1>2, <3>2, LowBattery DEF Critical
  <2> QED BY <2>1
<1>6. TimedTypes'
  BY <1>1, <1>4 DEF Known, TimedInv, TimedTypes
<1>7. LagInv'
  BY <1>1, <1>2, <1>3, <1>4 DEF LagInv
<1>8. HandlerInv'
  BY <1>1, <1>4, HandlerKept DEF Known, TimedInv
<1>9. TickerInv'
  BY <1>1, <1>4, <1>5 DEF Known, TimedInv, TimedTypes, TickerInv
<1>10. DelayInv'
  <2>1. pc \in {"list", "get"} => spent \in Nat
    BY DEF Known, TimedInv, TimedTypes, Blocked
  <2>2. pc \in {"critical", "alarm", "edges"} => snapAge \in Nat
    BY DEF Known, SnapInv, TypeOK
  <2>3. LongestTurn' = LongestTurn
    BY DEF LongestTurn, LongestHandler
  <2>4. LongestTurn \in Nat /\ NutTimeout \in Nat
    BY TurnFacts, Timeouts
  <2>5. pc \in {"list", "get"} => lag' <= LongestTurn + spent
    BY <1>1, <2>1, <2>4
  <2>6. lag' <= LongestTurn
    BY <1>1, <2>4
  <2>7. pc = "get" =>
          lag' <= LongestTurn + spent + (IF op = "pollStatus" THEN 0 ELSE NutTimeout)
    BY <1>1, <2>1, <2>4
  <2>8. pc \in {"critical", "alarm", "edges"} => lag' <= NutTimeout + snapAge
    BY <1>1, <2>2, <2>4
  <2> QED BY <1>1, <1>4, <1>5, <2>3, <2>5, <2>6, <2>7, <2>8 DEF DelayInv
<1> QED BY <1>6, <1>7, <1>8, <1>9, <1>10 DEF TimedInv

\* emit sends the earliest event, and its Dispatch begins to take time.
LEMMA EmissionKeepsBounds ==
  ASSUME Known, TimedEmit, TypeOK', SnapInv'
  PROVE  TimedInv'
<1>1. /\ UNCHANGED <<pc, op, conn, canceled, prev, started, snap, snapAge, alarmErr>>
      /\ pending # {} /\ pending' = pending \ {Earliest(pending)}
      /\ pc \in {"critical", "edges", "bad", "escalate"}
  BY DEF TimedEmit, Emit, connVars, diffVars
<1>2. /\ UNCHANGED <<clock, due>>
      /\ spent' = IF canceled THEN Never ELSE 0
      /\ lag' = IF Earliest(pending) = "LOWBATT" THEN Never ELSE lag
  BY DEF TimedEmit
<1>3. Earliest(pending) \in pending /\ \A k \in pending : Rank[Earliest(pending)] <= Rank[k]
  BY <1>1, EarliestIsFirst DEF Known, TypeOK
<1>4. TimedTypes'
  <2>1. Limit(pc)' \in Nat
    BY <1>1, LimitFacts DEF Limit, Known, TypeOK
  <2> QED BY <1>1, <1>2, <2>1 DEF Known, TimedInv, TimedTypes, Blocked, Never
<1>5. HandlerInv'
  <2> SUFFICES ASSUME ~canceled PROVE HandlerInv'
    BY <1>1 DEF HandlerInv
  <2>1. spent' = 0 /\ Left' = LongestNotify /\ Critical' = Critical
    BY <1>1, <1>2, Timeouts DEF Left, Critical, Never
  <2>2. /\ Cardinality(pending) \in Nat /\ Cardinality(pending') = Cardinality(pending) - 1
        /\ Cardinality(pending') \in Nat
    <3>1. pending \in SUBSET Kind /\ pending' \in SUBSET Kind
      BY DEF Known, TypeOK
    <3> QED BY <1>1, <1>3, <3>1, KindsCounted, FS_RemoveElement
  <2>3. Left \in Nat
    <3>1. Limit(pc) = LongestNotify
      BY <1>1 DEF Limit, Blocked
    <3>2. spent \in Nat \cup {-1} /\ spent <= LongestNotify
      BY <3>1 DEF Known, TimedInv, TimedTypes, Never
    <3> QED BY <3>2, Timeouts DEF Left, Never
  <2>4. snapAge \in Int
    BY BoundsAssumption DEF Known, TypeOK, Never
  <2>5. CASE pc = "critical"
    <3> DEFINE n == Cardinality(Critical) - Cardinality(pending)
               m == Cardinality(Critical') - Cardinality(pending')
    <3>1. /\ pending \subseteq Critical /\ snapAge + Left <= Cost(n)
      BY <2>5 DEF Known, TimedInv, HandlerInv
    <3>2. n \in Nat /\ m = n + 1
      <4>1. Critical \in SUBSET Kind
        BY EventsDefined DEF Critical
      <4>2. Cardinality(Critical) \in Nat /\ Cardinality(pending) <= Cardinality(Critical)
        BY <3>1, <4>1, KindsCounted, FS_Subset
      <4> QED BY <2>1, <2>2, <4>2
    <3>3. (Cost(Cardinality(Critical) - Cardinality(pending)))' = Cost(m)
      BY DEF Cost
    <3> HIDE DEF n, m
    <3>4. snapAge + LongestNotify <= Cost(m)
      <4>1. Cost(n) \in Nat /\ Cost(m) = Cost(n) + LongestNotify
        BY <3>2, LimitFacts
      <4> QED BY <2>3, <2>4, <3>1, <4>1, Timeouts
    <3>5. pending' \subseteq Critical' /\ pending' # Critical'
      BY <1>1, <1>3, <2>1, <3>1
    <3> QED BY <1>1, <2>1, <2>5, <3>3, <3>4, <3>5 DEF Known, TimedInv, HandlerInv
  <2>6. CASE pc = "edges"
    <3> DEFINE n == MostEvents - Cardinality(pending)
               m == MostEvents - Cardinality(pending')
    <3>1. Cardinality(pending) <= MostEvents /\ snapAge + Left <= NutTimeout + Cost(n)
      BY <2>6 DEF Known, TimedInv, HandlerInv
    <3>2. n \in Nat /\ m = n + 1 /\ Cardinality(pending') <= MostEvents
      BY <2>2, <3>1, Timeouts
    <3>3. (Cost(MostEvents - Cardinality(pending)))' = Cost(m)
      BY DEF Cost
    <3> HIDE DEF n, m
    <3>4. snapAge + LongestNotify <= NutTimeout + Cost(m)
      <4>1. Cost(n) \in Nat /\ Cost(m) = Cost(n) + LongestNotify
        BY <3>2, LimitFacts
      <4> QED BY <2>3, <2>4, <3>1, <4>1, Timeouts
    <3> QED BY <1>1, <2>1, <2>6, <3>2, <3>3, <3>4 DEF Known, TimedInv, HandlerInv
  <2>7. CASE pc \notin {"critical", "edges"}
    BY <1>1, <2>7 DEF Known, TimedInv, HandlerInv
  <2> QED BY <2>5, <2>6, <2>7
<1>6. CASE lag' = Never
  <2>1. ~(pc' = "get")
    BY <1>1
  <2> QED BY <1>4, <1>5, <1>6, <2>1, WithoutLag DEF TimedInv
<1>7. CASE lag' # Never
  <2>1. lag' = lag /\ Earliest(pending) # "LOWBATT" /\ lag # Never
    BY <1>2, <1>7
  <2>2. (Caught' <=> Caught) /\ ~canceled /\ pc \in {"critical", "edges"} /\ spent' = 0
    BY <1>1, <1>2, <2>1 DEF Caught, Known, TimedInv, LagInv
  <2>3. LagInv'
    BY <1>1, <2>1, <2>2 DEF Known, TimedInv, LagInv
  <2>4. TickerInv'
    BY <1>1, <1>2, <2>1, <2>2 DEF Known, TimedInv, TickerInv
  <2>5. Caught => spent = Never
    <3> SUFFICES ASSUME Caught, spent # Never PROVE FALSE
      OBVIOUS
    <3>1. pending \subseteq Critical /\ pending # Critical
      BY <2>2 DEF Known, TimedInv, HandlerInv, Caught
    <3>2. Critical \subseteq {"FSD", "LOWBATT"}
      BY DEF Critical, CriticalEvents, Shutdown, EnterKind
    <3>3. pending = {"LOWBATT"}
      BY <3>1, <3>2 DEF Caught
    <3> QED BY <1>3, <2>1, <3>3
  <2>6. LongestTurn' = LongestTurn
    BY DEF LongestTurn, LongestHandler
  <2>7. DelayInv'
    BY <1>1, <2>1, <2>2, <2>5, <2>6, LimitFacts, TurnFacts
    DEF Known, TimedInv, TimedTypes, DelayInv, Never
  <2> QED BY <1>4, <1>5, <2>3, <2>4, <2>7 DEF TimedInv
<1> QED BY <1>6, <1>7

-----------------------------------------------------------------------------
\* Steps from one call to the next.

\* The goroutine goes on to a place outside of a snapshot's handling.
Outer == {"loop", "wait", "dial", "list", "get", "failed", "bad", "escalate", "select",
          "stopped"}

LEMMA OuterKeepsBounds ==
  ASSUME Known, TypeOK', SnapInv', pc' \in Outer,
         UNCHANGED <<prev, started, clock>>, canceled => canceled',
         due' \in BOOLEAN, lag' \in {lag, Never}, Entering
  PROVE  TimedTypes' /\ HandlerInv' /\ ~Caught'
<1>1. spent' = IF pc' \in Blocked THEN 0 ELSE Never
  BY DEF Entering
<1>2. Limit(pc)' \in Nat
  <2>1. Limit(pc)' = Limit(pc')
    BY DEF Limit
  <2> QED BY <2>1, LimitFacts DEF TypeOK
<1>3. TimedTypes'
  BY <1>1, <1>2 DEF Known, TimedInv, TimedTypes, Blocked, Never
<1>4. HandlerInv'
  BY DEF Known, TimedInv, HandlerInv, Outer
<1> QED BY <1>3, <1>4 DEF Caught, Outer

\* The same, after which LOWBATT is not waiting.
LEMMA OuterWithoutLag ==
  ASSUME Known, TypeOK', SnapInv', pc' \in Outer,
         UNCHANGED <<prev, started, clock>>, canceled => canceled',
         due' \in BOOLEAN, lag' = Never, Entering
  PROVE  TimedInv'
<1>1. TimedTypes' /\ HandlerInv'
  BY OuterKeepsBounds
<1>2. pc' = "get" => spent' <= clock'
  BY DEF Entering, Blocked, Known, TimedInv, TimedTypes
<1> QED BY <1>1, <1>2, WithoutLag DEF TimedInv

LEMMA PollKeepsBounds ==
  ASSUME Known, TimedPoll, TypeOK', SnapInv'
  PROVE  TimedInv'
<1>1. /\ pc = "select" /\ pc' = "get" /\ op' = "pollStatus" /\ spent' = 0
      /\ UNCHANGED <<conn, canceled, prev, started, snap, snapAge, pending, alarmErr>>
      /\ UNCHANGED <<clock, lag>> /\ due' = FALSE
  BY DEF TimedPoll, PollTick, connVars, diffVars, workVars, Entering, Blocked
<1>2. TimedTypes' /\ HandlerInv' /\ ~Caught'
  <2>1. pc' \in Outer /\ Entering
    BY <1>1 DEF Outer, TimedPoll
  <2> QED BY <1>1, <2>1, OuterKeepsBounds
<1>3. LagInv'
  BY <1>1 DEF Known, TimedInv, LagInv
<1>4. TickerInv'
  BY <1>1 DEF Known, TimedInv, TimedTypes, TickerInv, Never
<1>5. DelayInv'
  <2>1. LongestTurn' = LongestTurn /\ LongestTurn \in Nat
    BY TurnFacts DEF LongestTurn, LongestHandler
  <2>2. lag <= LongestTurn
    BY <1>1 DEF Known, TimedInv, DelayInv
  <2> QED BY <1>1, <1>2, <2>1, <2>2 DEF DelayInv, Known, TimedInv, TimedTypes, Never
<1> QED BY <1>2, <1>3, <1>4, <1>5 DEF TimedInv

\* The steps of the loop and of an outage, and the replies that are no snapshot.
LEMMA MovesKeepBounds ==
  ASSUME Known, TypeOK', SnapInv', Entering, UNCHANGED <<clock, due, lag>>,
         \/ BeginWait \/ BeginConnect \/ Resume \/ RefreshTick \/ Timers \/ DialOk
         \/ ConnErr \/ Marked \/ \E alarm \in BOOLEAN : ListLacksStatus(alarm)
  PROVE  TimedInv'
<1>1. UNCHANGED <<prev, started, canceled>> /\ pc' \in Outer
  BY DEF BeginWait, BeginConnect, Resume, RefreshTick, Timers, RetryTimer, NoCommTimer,
         MarkCommBad, DialOk, ConnErr, Marked, ListLacksStatus, diffVars, Outer
<1>2. TimedTypes' /\ HandlerInv' /\ ~Caught'
  BY <1>1, OuterKeepsBounds DEF Known, TimedInv, TimedTypes
<1>3. CASE lag = Never
  BY <1>1, <1>3, OuterWithoutLag DEF Known, TimedInv, TimedTypes
<1>4. CASE lag # Never
  <2>1. /\ conn = "up" /\ pc \in {"list", "get", "critical", "alarm", "edges", "select", "loop"}
        /\ ~alarmErr /\ ~canceled /\ "LOWBATT" \notin Conditions(prev)
    BY <1>4 DEF Known, TimedInv, LagInv
  <2>2. Resume \/ RefreshTick \/ \E alarm \in BOOLEAN : ListLacksStatus(alarm)
    BY <2>1 DEF BeginWait, BeginConnect, Timers, RetryTimer, NoCommTimer, DialOk,
                ConnErr, Marked
  <2>3. /\ UNCHANGED <<conn, alarmErr>>
        /\ \/ pc = "loop" /\ pc' = "select"
           \/ pc = "select" /\ pc' = "list"
           \/ pc = "list" /\ pc' = "get" /\ op' = op /\ op # "pollStatus"
    BY <2>2 DEF Resume, RefreshTick, ListLacksStatus, connVars, workVars, Known, SnapInv
  <2>4. LagInv'
    BY <1>1, <2>1, <2>3 DEF LagInv
  <2>5. TickerInv'
    BY <2>3 DEF Known, TimedInv, TickerInv, Caught
  <2>6. LongestTurn' = LongestTurn /\ LongestTurn \in Nat /\ NutTimeout \in Nat
    BY TurnFacts, Timeouts DEF LongestTurn, LongestHandler
  <2>7. spent' = IF pc' \in Blocked THEN 0 ELSE Never
    BY DEF Entering
  <2>8. pc = "list" => spent \in Nat /\ spent <= NutTimeout
    BY DEF Known, TimedInv, TimedTypes, Limit, Blocked
  <2>9. lag \in Nat /\ (pc \in {"loop", "select"} => lag <= LongestTurn)
        /\ (pc = "list" => lag <= LongestTurn + spent)
    BY <1>4 DEF Known, TimedInv, TimedTypes, DelayInv
  <2>10. DelayInv'
    <3>1. CASE pc' = "select"
      BY <1>2, <2>3, <2>6, <2>9, <3>1 DEF DelayInv
    <3>2. CASE pc' = "list"
      <4>1. pc = "select" /\ spent' = 0
        BY <2>3, <2>7, <3>2 DEF Blocked
      <4>2. lag' <= LongestTurn + 0
        BY <2>6, <2>9, <4>1
      <4> QED BY <1>2, <2>6, <3>2, <4>1, <4>2 DEF DelayInv
    <3>3. CASE pc' = "get"
      <4>1. pc = "list" /\ spent' = 0 /\ op' # "pollStatus"
        BY <2>3, <2>7, <3>3 DEF Blocked
      <4>2. lag' <= LongestTurn + 0 + NutTimeout
        BY <2>6, <2>8, <2>9, <4>1
      <4> QED BY <1>2, <2>6, <3>3, <4>1, <4>2 DEF DelayInv
    <3> QED BY <2>3, <3>1, <3>2, <3>3
  <2> QED BY <1>2, <2>4, <2>5, <2>10 DEF TimedInv
<1> QED BY <1>3, <1>4

\* A failure, a cancellation or the end.
LEMMA GivingUpKeepsBounds ==
  ASSUME Known, TypeOK', SnapInv', Entering, UNCHANGED <<clock, due>>, lag' = Never,
         CallFails \/ Stop
  PROVE  TimedInv'
<1>1. UNCHANGED <<prev, started, canceled>> /\ pc' \in Outer
  BY DEF CallFails, Stop, diffVars, Outer
<1> QED BY <1>1, OuterWithoutLag DEF Known, TimedInv, TimedTypes

LEMMA CancellationKeepsBounds ==
  ASSUME Known, TypeOK', SnapInv', Entering, UNCHANGED <<clock, due>>, lag' = Never,
         Cancel
  PROVE  TimedInv'
<1>1. canceled' /\ pc' \in PC /\ spent' = IF pc' \in Blocked THEN 0 ELSE Never
  BY DEF Cancel, Entering, TypeOK
<1>2. Limit(pc)' \in Nat
  <2>1. Limit(pc)' = Limit(pc')
    BY DEF Limit
  <2> QED BY <1>1, <2>1, LimitFacts
<1>3. TimedTypes'
  BY <1>1, <1>2 DEF Known, TimedInv, TimedTypes, Blocked, Never
<1>4. HandlerInv'
  BY <1>1 DEF HandlerInv
<1>5. pc' = "get" => spent' <= clock'
  BY <1>1 DEF Blocked, Known, TimedInv, TimedTypes
<1> QED BY <1>3, <1>4, <1>5, WithoutLag DEF TimedInv

-----------------------------------------------------------------------------
\* Steps of a handler.

\* A reply with a status: LOWBATT is queued, or it appeared during the call.
LEMMA ReplyKeepsBounds ==
  ASSUME Known, TypeOK', SnapInv', Reply
  PROVE  TimedInv'
<1>1. PICK status \in Statuses :
        /\ Current(status)
        /\ GetStatus(status) \/ \E alarm \in BOOLEAN : ListStatus(status, alarm)
  BY DEF Reply
<1>2. /\ pc \in {"list", "get"} /\ pc' = "critical"
      /\ snap'.tokens = status /\ snapAge' = 0 /\ pending' = CriticalEvents(prev, status)
      /\ UNCHANGED <<conn, canceled, prev, started, op, alarmErr>>
  BY <1>1 DEF GetStatus, ListStatus, Observe, connVars
<1>3. spent' = Never /\ UNCHANGED <<clock, due, lag>>
  BY <1>2 DEF Reply, Entering, Blocked
<1>4. TimedTypes'
  <2>1. Limit(pc)' = LongestNotify
    BY <1>2 DEF Limit, Blocked
  <2> QED BY <1>2, <1>3, <2>1, Timeouts DEF Known, TimedInv, TimedTypes, Blocked, Never
<1>5. Critical' = pending' /\ (Caught' <=> "LOWBATT" \in Conditions(status) \ Conditions(prev))
  BY <1>2, LowBattery DEF Critical, Caught
<1>6. HandlerInv'
  <2>1. Cardinality(pending') \in Nat
    BY KindsCounted DEF TypeOK
  <2>2. /\ (Cost(Cardinality(Critical) - Cardinality(pending)))' = Cost(0)
        /\ Left' = 0 /\ Cost(0) = 0
    BY <1>3, <1>5, <2>1, LimitFacts DEF Cost, Left
  <2> QED BY <1>2, <1>3, <1>5, <2>2 DEF Known, TimedInv, HandlerInv
<1>7. CASE lag = Never
  BY <1>2, <1>3, <1>4, <1>6, <1>7, WithoutLag DEF TimedInv
<1>8. CASE lag # Never
  <2>1. /\ lag \in Nat /\ spent \in Nat /\ spent <= NutTimeout
    BY <1>2, <1>8 DEF Known, TimedInv, TimedTypes, Limit, Blocked
  <2>2. /\ conn = "up" /\ ~alarmErr /\ ~canceled /\ "LOWBATT" \notin Conditions(prev)
    BY <1>8 DEF Known, TimedInv, LagInv
  <2>3. lag <= spent \/ Caught'
    BY <1>1, <1>5, <1>8, <2>2 DEF Current
  <2>4. LagInv'
    BY <1>2, <1>3, <1>5, <2>2 DEF LagInv
  <2>5. TickerInv'
    BY <1>2, <1>3, <2>1, <2>3 DEF Known, TimedInv, TimedTypes, TickerInv, Caught
  <2>6. LongestTurn' = LongestTurn /\ LongestTurn \in Nat /\ NutTimeout \in Nat
    BY TurnFacts, Timeouts DEF LongestTurn, LongestHandler
  <2>7. lag <= LongestTurn + 2 * NutTimeout
    <3>1. CASE pc = "list"
      BY <2>1, <2>6, <3>1 DEF Known, TimedInv, DelayInv
    <3>2. CASE pc = "get"
      BY <2>1, <2>6, <3>2 DEF Known, TimedInv, DelayInv
    <3> QED BY <1>2, <3>1, <3>2
  <2>8. ~Caught' => lag <= NutTimeout + snapAge'
    BY <1>2, <2>1, <2>3, <2>6
  <2>9. DelayInv'
    <3>1. Caught' => lag' <= LongestTurn' + 2 * NutTimeout + 0
      BY <1>3, <2>1, <2>6, <2>7
    <3> QED BY <1>2, <1>3, <2>6, <2>8, <3>1 DEF DelayInv
  <2> QED BY <1>4, <1>6, <2>4, <2>5, <2>9 DEF TimedInv
<1> QED BY <1>7, <1>8

\* emitCritical is done, and the alarm text is asked for.
LEMMA AlarmCallKeepsBounds ==
  ASSUME Known, TypeOK', SnapInv', CriticalDone, Entering, UNCHANGED <<clock, due, lag>>
  PROVE  TimedInv'
<1>1. /\ pc = "critical" /\ pending = {} /\ pc' = "alarm"
      /\ UNCHANGED <<op, conn, canceled, prev, started, snap, snapAge, pending, alarmErr>>
  BY DEF CriticalDone, connVars, diffVars, workVars
<1>2. spent' = 0
  BY <1>1 DEF Entering, Blocked
<1>3. TimedTypes'
  BY <1>1, <1>2, Timeouts DEF Known, TimedInv, TimedTypes, Limit, Blocked, Never
<1>4. ~Caught /\ ~Caught' /\ Critical' = Critical
  BY <1>1 DEF Caught, Critical
<1>5. LagInv'
  BY <1>1, <1>4 DEF Known, TimedInv, LagInv
<1>6. HandlerInv'
  <2> SUFFICES ASSUME ~canceled PROVE HandlerInv'
    BY <1>1 DEF HandlerInv
  <2>1. Critical \in SUBSET Kind
    BY EventsDefined DEF Critical
  <2>2. Cardinality(Critical) \in Nat /\ Cardinality(pending) = 0
    BY <1>1, <2>1, KindsCounted, FS_EmptySet
  <2>3. snapAge + Left <= Cost(Cardinality(Critical))
    <3>1. Cardinality(Critical) - Cardinality(pending) = Cardinality(Critical)
      BY <2>2
    <3> QED BY <1>1, <3>1 DEF Known, TimedInv, HandlerInv
  <2>4. Left \in Nat
    <3>1. Limit(pc) = LongestNotify
      BY <1>1 DEF Limit, Blocked
    <3>2. spent \in Nat \cup {-1} /\ spent <= LongestNotify
      BY <3>1 DEF Known, TimedInv, TimedTypes, Never
    <3> QED BY <3>2, Timeouts DEF Left, Never
  <2>5. Cost(Cardinality(Critical)) \in Nat /\ snapAge \in Int
    BY <2>2, LimitFacts, BoundsAssumption DEF Known, TypeOK, Never
  <2>6. Cost(Cardinality(Critical))' = Cost(Cardinality(Critical))
    BY <1>4 DEF Cost
  <2>7. snapAge' <= Cost(Cardinality(Critical))' + spent'
    BY <1>1, <1>2, <2>3, <2>4, <2>5, <2>6
  <2> QED BY <1>1, <2>7 DEF Known, TimedInv, HandlerInv
<1>7. TickerInv'
  BY <1>1, <1>4 DEF Known, TimedInv, TickerInv
<1>8. DelayInv'
  BY <1>1, <1>4 DEF Known, TimedInv, DelayInv
<1> QED BY <1>3, <1>5, <1>6, <1>7, <1>8 DEF TimedInv

\* emitOtherEdges queues no more than what is left of MostEvents.
LEMMA EdgesCounted ==
  ASSUME Known, TypeOK', Inv', OtherEdges, ~canceled, pc \in {"critical", "alarm"}
  PROVE  /\ Cardinality(Critical) \in Nat /\ Cardinality(pending') \in Nat
         /\ Cardinality(Critical) + Cardinality(pending') <= MostEvents
<1>1. View /\ View'
  <2>1. ~canceled'
    BY DEF OtherEdges
  <2> QED BY <2>1 DEF Known, Inv
<1>2. Critical \in SUBSET Kind /\ pending' \in SUBSET Kind
  BY EventsDefined DEF Critical, TypeOK
<1>3. Critical \cap pending' = {}
  <2>1. pending' \subseteq Kind \ {"FSD", "LOWBATT", "COMMBAD", "NOCOMM"}
    BY <1>1 DEF View, PendingInv, OtherEdges
  <2>2. Critical \subseteq {"FSD", "LOWBATT"}
    BY DEF Critical, CriticalEvents, Shutdown, EnterKind
  <2> QED BY <2>1, <2>2
<1> DEFINE C == Caused(prev, snap.tokens)
<1>4. Critical \subseteq C
  BY DEF Critical, Caused
<1>5. pending' \subseteq C
  <2>1. (IF commBad THEN {"COMMOK"} ELSE {}) \subseteq C
    BY DEF Caused
  <2>2. (IF started THEN {} ELSE {"STARTUP"}) \subseteq C
    <3>1. ~started => prev = {}
      BY DEF Known, TimedInv, HandlerInv
    <3> QED BY <3>1 DEF Caused
  <2>3. EdgeEvents(prev, snap.tokens) \subseteq C
    BY DEF Caused
  <2>4. FaultEvents \subseteq C
    <3>1. Ripe \subseteq Fault \cap snap.tokens
      BY DEF Ripe
    <3>2. \A f \in Fault : confirmed[f] => f \in prev
      BY <1>1 DEF View, ConditionsInv, Observed
    <3>3. {g \in Fault \cap Audible : g \notin snap.tokens /\ confirmed[g]}
            \subseteq Fault \cap Audible \cap (prev \ snap.tokens)
      BY <3>2
    <3> QED BY <3>1, <3>3 DEF FaultEvents, Caused
  <2> HIDE DEF C
  <2> QED BY <2>1, <2>2, <2>3, <2>4 DEF OtherEdges
<1>6. C \subseteq Kind
  <2>1. Fault \subseteq Condition /\ {"COMMOK", "STARTUP"} \subseteq Kind
    BY DEF Condition, Kind, Rank
  <2> QED BY <2>1, EventsDefined, KindsDefined DEF Caused
<1>7. Cardinality(C) <= MostEvents
  BY MostEventsAssumption DEF Known, TimedInv, HandlerInv
<1> HIDE DEF C
<1>8. Critical \cup pending' \in SUBSET C /\ C \in SUBSET Kind
  BY <1>4, <1>5, <1>6
<1>9. /\ IsFiniteSet(C) /\ IsFiniteSet(Critical) /\ IsFiniteSet(pending')
      /\ Cardinality(C) \in Nat /\ Cardinality(Critical) \in Nat /\ Cardinality(pending') \in Nat
  BY <1>2, <1>8, KindsCounted
<1>10. Cardinality(Critical \cup pending') = Cardinality(Critical) + Cardinality(pending')
  <2>1. Cardinality(Critical \cup pending')
          = Cardinality(Critical) + Cardinality(pending') - Cardinality(Critical \cap pending')
    BY <1>9, FS_Union
  <2>2. Cardinality(Critical \cap pending') = 0
    BY <1>3, FS_EmptySet
  <2> QED BY <1>9, <2>1, <2>2
<1>11. Cardinality(Critical \cup pending') <= Cardinality(C)
  BY <1>8, <1>9, FS_Subset
<1> QED BY <1>7, <1>9, <1>10, <1>11, Timeouts

\* The other events of the snapshot are queued.
LEMMA EdgesKeepBounds ==
  ASSUME Known, TypeOK', SnapInv', Inv', Entering, UNCHANGED <<clock, due>>,
         \/ (Edges \/ \E alarm \in BOOLEAN : AlarmRead(alarm)) /\ lag' = lag
         \/ AlarmReadFails /\ lag' = Never
  PROVE  TimedInv'
<1>1. /\ OtherEdges /\ pc' = "edges" /\ snap'.tokens = snap.tokens /\ started' = TRUE
      /\ UNCHANGED <<op, conn, canceled, prev, snapAge>>
      /\ \/ pc = "critical" /\ pending = {}
         \/ pc = "alarm"
  BY DEF Edges, AlarmRead, AlarmReadFails, OtherEdges, connVars, TypeOK, Known, Snapshots
<1>2. spent' = Never /\ ~Caught /\ ~Caught'
  BY <1>1 DEF Entering, Blocked, Caught
<1>3. TimedTypes'
  BY <1>1, <1>2, Timeouts DEF Known, TimedInv, TimedTypes, Limit, Blocked, Never
<1>4. HandlerInv'
  <2> SUFFICES ASSUME ~canceled PROVE HandlerInv'
    BY <1>1 DEF HandlerInv
  <2>1. /\ Cardinality(Critical) \in Nat /\ Cardinality(pending') \in Nat
        /\ Cardinality(Critical) + Cardinality(pending') <= MostEvents
    BY <1>1, EdgesCounted
  <2> DEFINE c == Cost(Cardinality(Critical))
             r == MostEvents - Cardinality(pending')
  <2>2. c \in Nat /\ c <= Cost(r) /\ Cost(r) \in Nat /\ Cardinality(pending') <= MostEvents
    <3>1. Cardinality(Critical) <= r /\ r \in Nat /\ Cardinality(pending') <= MostEvents
      BY <2>1, Timeouts
    <3> HIDE DEF r
    <3> QED BY <2>1, <3>1, LimitFacts
  <2>3. snapAge \in Int
    BY BoundsAssumption DEF Known, TypeOK, Never
  <2>4. snapAge <= c + NutTimeout
    <3>1. CASE pc = "critical"
      <4>1. Cardinality(Critical) - Cardinality(pending) = Cardinality(Critical)
        BY <1>1, <2>1, <3>1, FS_EmptySet
      <4>2. snapAge + Left <= c
        BY <3>1, <4>1 DEF Known, TimedInv, HandlerInv
      <4>3. Left \in Nat
        <5>1. Limit(pc) = LongestNotify
          BY <3>1 DEF Limit, Blocked
        <5>2. spent \in Nat \cup {-1} /\ spent <= LongestNotify
          BY <5>1 DEF Known, TimedInv, TimedTypes, Never
        <5> QED BY <5>2, Timeouts DEF Left, Never
      <4> HIDE DEF c
      <4> QED BY <2>2, <2>3, <4>2, <4>3, Timeouts
    <3>2. CASE pc = "alarm"
      <4>1. snapAge <= c + spent
        BY <3>2 DEF Known, TimedInv, HandlerInv
      <4>2. spent \in Nat /\ spent <= NutTimeout
        BY <3>2 DEF Known, TimedInv, TimedTypes, Limit, Blocked
      <4> HIDE DEF c
      <4> QED BY <2>2, <2>3, <4>1, <4>2, Timeouts
    <3> QED BY <1>1, <3>1, <3>2
  <2>5. (Cost(MostEvents - Cardinality(pending)))' = Cost(r) /\ Left' = 0
    BY <1>2 DEF Cost, Left
  <2> HIDE DEF c, r
  <2>6. snapAge' + Left' <= NutTimeout + (Cost(MostEvents - Cardinality(pending)))'
    BY <1>1, <2>2, <2>3, <2>4, <2>5, Timeouts
  <2> QED BY <1>1, <2>2, <2>6 DEF Known, TimedInv, HandlerInv
<1>5. CASE lag' = Never
  <2>1. pc' # "get"
    BY <1>1
  <2> QED BY <1>3, <1>4, <1>5, <2>1, WithoutLag DEF TimedInv
<1>6. CASE lag' # Never
  <2>1. lag' = lag /\ lag # Never /\ alarmErr' = alarmErr
    BY <1>6 DEF Edges, AlarmRead
  <2>2. LagInv'
    BY <1>1, <1>2, <2>1 DEF Known, TimedInv, LagInv
  <2>3. TickerInv'
    BY <1>1, <1>2, <2>1 DEF Known, TimedInv, TickerInv
  <2>4. DelayInv'
    BY <1>1, <1>2, <2>1 DEF Known, TimedInv, DelayInv
  <2> QED BY <1>3, <1>4, <2>2, <2>3, <2>4 DEF TimedInv
<1> QED BY <1>5, <1>6

\* The handler is over.
LEMMA CommitKeepsBounds ==
  ASSUME Known, TypeOK', SnapInv', Commit, Entering, UNCHANGED <<clock, due, lag>>
  PROVE  TimedInv'
<1>1. /\ pc = "edges" /\ pending = {} /\ prev' = snap.tokens
      /\ pc' = IF alarmErr THEN "failed" ELSE IF op = "tryConnect" THEN "select" ELSE "loop"
      /\ UNCHANGED <<conn, canceled, started, alarmErr>>
  BY DEF Commit, connVars
<1>2. spent' = Never /\ ~Caught /\ ~Caught'
  BY <1>1 DEF Entering, Blocked, Caught
<1>3. TimedTypes'
  BY <1>1, <1>2, Timeouts DEF Known, TimedInv, TimedTypes, Limit, Blocked, Never
<1>4. HandlerInv'
  <2> SUFFICES ASSUME ~canceled PROVE HandlerInv'
    BY <1>1 DEF HandlerInv
  <2>1. snap.tokens \in Statuses /\ started
    BY <1>1 DEF Known, TimedInv, HandlerInv, Inv, View, StartInv
  <2> QED BY <1>1, <2>1 DEF HandlerInv
<1>5. CASE lag = Never
  <2>1. pc' # "get"
    BY <1>1
  <2> QED BY <1>3, <1>4, <1>5, <2>1, WithoutLag DEF TimedInv
<1>6. CASE lag # Never
  <2>1. /\ conn = "up" /\ ~alarmErr /\ ~canceled /\ pc' \in {"loop", "select"}
        /\ "LOWBATT" \notin Conditions(prev')
    BY <1>1, <1>2, <1>6 DEF Known, TimedInv, LagInv
  <2>2. LagInv'
    BY <1>1, <2>1 DEF LagInv
  <2>3. TickerInv'
    BY <1>1, <1>2, <2>1 DEF Known, TimedInv, TickerInv
  <2>4. lag <= NutTimeout + snapAge
    BY <1>1, <1>2 DEF Known, TimedInv, DelayInv
  <2>5. snapAge <= NutTimeout + Cost(MostEvents)
    <3>1. MostEvents - Cardinality(pending) = MostEvents
      BY <1>1, Timeouts, FS_EmptySet
    <3>2. snapAge + Left <= NutTimeout + Cost(MostEvents)
      BY <1>1, <2>1, <3>1 DEF Known, TimedInv, HandlerInv
    <3>3. Left \in Nat
      <4>1. Limit(pc) = LongestNotify
        BY <1>1 DEF Limit, Blocked
      <4>2. spent \in Nat \cup {-1} /\ spent <= LongestNotify
        BY <4>1 DEF Known, TimedInv, TimedTypes, Never
      <4> QED BY <4>2, Timeouts DEF Left, Never
    <3>4. Cost(MostEvents) \in Nat
      BY LimitFacts
    <3>5. snapAge \in Int
      BY BoundsAssumption DEF Known, TypeOK, Never
    <3> HIDE DEF Left
    <3> QED BY <3>2, <3>3, <3>4, <3>5, Timeouts
  <2>6. lag <= LongestTurn
    <3>1. Cost(MostEvents) \in Nat
      BY LimitFacts
    <3>2. snapAge \in Int
      BY BoundsAssumption DEF Known, TypeOK, Never
    <3>3. lag \in Int
      BY DEF Known, TimedInv, TimedTypes, Never
    <3> QED BY <2>4, <2>5, <3>1, <3>2, <3>3, Timeouts, TurnFacts
  <2>7. LongestTurn' = LongestTurn
    BY DEF LongestTurn, LongestHandler
  <2>8. DelayInv'
    BY <1>2, <2>1, <2>6, <2>7 DEF DelayInv
  <2> QED BY <1>3, <1>4, <2>2, <2>3, <2>8 DEF TimedInv
<1> QED BY <1>5, <1>6

\* Neither the goroutine nor the clock moves.
LEMMA AsideKeepsBounds ==
  ASSUME Known, Aside \/ UNCHANGED <<vars, timeVars>>
  PROVE  TimedInv'
<1>1. /\ UNCHANGED <<pc, op, canceled, prev, started, snap, snapAge, pending, alarmErr>>
      /\ UNCHANGED <<spent, clock, due, lag>>
      /\ conn' = conn \/ canceled
  BY DEF Aside, CloseOnCancel, vars, timeVars, connVars, diffVars, workVars
<1>2. (Caught' <=> Caught) /\ Limit(pc)' = Limit(pc) /\ LongestTurn' = LongestTurn
  BY <1>1 DEF Caught, Limit, LongestTurn, LongestHandler
<1>3. HandlerInv'
  BY <1>1, HandlerKept DEF Known, TimedInv
<1>4. TimedTypes' /\ LagInv' /\ TickerInv' /\ DelayInv'
  BY <1>1, <1>2 DEF Known, TimedInv, TimedTypes, LagInv, TickerInv, DelayInv
<1> QED BY <1>3, <1>4 DEF TimedInv

-----------------------------------------------------------------------------
\* A timed step is a step of the monitor or none.
LEMMA TimedStepOfMonitor ==
  ASSUME [TimedNext]_<<vars, timeVars>>
  PROVE  [Next]_vars
BY DEF TimedNext, TimedTick, Appears, Reply, TimedEmit, TimedPoll, Other, GivesUp, Aside,
       Next, Loop, Replies, Handler, Failures

LEMMA TimedStep ==
  ASSUME Known, TypeOK', Inv', SnapInv', [TimedNext]_<<vars, timeVars>>
  PROVE  TimedInv'
<1>1. CASE TimedTick
  BY <1>1, TimeKeepsBounds
<1>2. CASE Appears
  BY <1>2, AppearanceKeepsBounds
<1>3. CASE Reply
  BY <1>3, ReplyKeepsBounds
<1>4. CASE TimedEmit
  BY <1>4, EmissionKeepsBounds
<1>5. CASE TimedPoll
  BY <1>5, PollKeepsBounds
<1>6. CASE Other
  <2>1. Entering /\ UNCHANGED <<clock, due, lag>>
    BY <1>6 DEF Other
  <2>2. CASE \/ BeginWait \/ BeginConnect \/ Resume \/ RefreshTick \/ Timers \/ DialOk
             \/ ConnErr \/ Marked \/ \E alarm \in BOOLEAN : ListLacksStatus(alarm)
    BY <2>1, <2>2, MovesKeepBounds
  <2>3. CASE Edges \/ \E alarm \in BOOLEAN : AlarmRead(alarm)
    BY <2>1, <2>3, EdgesKeepBounds
  <2>4. CASE CriticalDone
    BY <2>1, <2>4, AlarmCallKeepsBounds
  <2>5. CASE Commit
    BY <2>1, <2>5, CommitKeepsBounds
  <2> QED BY <1>6, <2>2, <2>3, <2>4, <2>5 DEF Other
<1>7. CASE GivesUp
  <2>1. Entering /\ lag' = Never /\ UNCHANGED <<clock, due>>
    BY <1>7 DEF GivesUp
  <2>2. CASE CallFails \/ Stop
    BY <2>1, <2>2, GivingUpKeepsBounds
  <2>3. CASE AlarmReadFails
    BY <2>1, <2>3, EdgesKeepBounds
  <2>4. CASE Cancel
    BY <2>1, <2>4, CancellationKeepsBounds
  <2> QED BY <1>7, <2>2, <2>3, <2>4 DEF GivesUp, Failures
<1>8. CASE Aside \/ (Stopped /\ UNCHANGED timeVars) \/ UNCHANGED <<vars, timeVars>>
  BY <1>8, AsideKeepsBounds DEF Stopped
<1> QED BY <1>1, <1>2, <1>3, <1>4, <1>5, <1>6, <1>7, <1>8 DEF TimedNext

LEMMA TimedInitially ==
  ASSUME TimedInit
  PROVE  TimedInv
<1>1. /\ pc = "loop" /\ op = "none" /\ canceled = FALSE /\ prev = {} /\ pending = {}
      /\ spent = Never /\ clock = 0 /\ due = FALSE /\ lag = Never
  BY DEF TimedInit, Init
<1>2. TimedTypes
  <2>1. Never <= Limit("loop")
    BY Timeouts DEF Limit, Blocked, Never
  <2>2. 0 \in 0 .. StatusInterval - 1
    BY Timeouts
  <2> QED BY <1>1, <2>1, <2>2 DEF TimedTypes, Blocked
<1>3. LagInv /\ HandlerInv /\ TickerInv
  BY <1>1 DEF LagInv, HandlerInv, TickerInv, Never
<1>4. DelayInv
  BY <1>1, TurnFacts DEF DelayInv, Caught, Never
<1> QED BY <1>2, <1>3, <1>4 DEF TimedInv

\* With its timeouts and its ticker the program is still the monitor.
THEOREM TimedRunsTheMonitor == TimedSpec => Spec
<1>1. TimedInit => Init
  BY DEF TimedInit
<1>2. [TimedNext]_<<vars, timeVars>> => [Next]_vars
  BY TimedStepOfMonitor
<1> QED BY <1>1, <1>2, PTL DEF TimedSpec, Spec

\* The inductive invariant of the delay.
THEOREM TimedInvariant == TimedSpec => [](TypeOK /\ TimedInv)
<1>1. TimedInit => TimedInv
  BY TimedInitially
<1>2. /\ TypeOK /\ Inv /\ SnapInv /\ OneConnection /\ TimedInv
      /\ TypeOK' /\ Inv' /\ SnapInv' /\ [TimedNext]_<<vars, timeVars>>
      => TimedInv'
  BY TimedStep DEF Known
<1> QED BY <1>1, <1>2, TimedRunsTheMonitor, TypeCorrect, ViewInvariant, SnapAlways,
           AlwaysOneConnection, PTL DEF TimedSpec

\* A snapshot is at most as old as the deliveries it may cause and one read.
LEMMA HandlerTime ==
  ASSUME TypeOK, TimedInv, ~canceled, pc \in {"critical", "alarm", "edges"}
  PROVE  snapAge <= NutTimeout + Cost(MostEvents)
<1> DEFINE c == Cardinality(Critical)
           n == Cardinality(pending)
<1>1. HandlerInv /\ TimedTypes /\ snap.tokens \in Statuses /\ prev \in Statuses \cup {{}}
  BY DEF TimedInv, HandlerInv
<1>2. snapAge \in Int
  BY BoundsAssumption DEF TypeOK, Never
<1>3. c \in Nat /\ c <= MostEvents
  <2> DEFINE K == Caused(prev, snap.tokens)
  <2>1. Critical \subseteq K /\ K \subseteq Kind
    <3>1. Fault \subseteq Condition /\ {"COMMOK", "STARTUP"} \subseteq Kind
      BY DEF Condition, Kind, Rank
    <3> QED BY <3>1, EventsDefined, KindsDefined DEF Caused, Critical
  <2>2. Cardinality(K) <= MostEvents
    BY <1>1, MostEventsAssumption
  <2> HIDE DEF K
  <2>3. c <= Cardinality(K) /\ c \in Nat /\ Cardinality(K) \in Nat
    BY <2>1, KindsCounted, FS_Subset
  <2> QED BY <2>2, <2>3, Timeouts
<1>4. pending \subseteq Kind
  BY DEF TypeOK
<1>5. n \in Nat
  BY <1>4, KindsCounted
<1>6. spent \in Nat \cup {-1} /\ spent <= Limit(pc)
  BY <1>1 DEF TimedTypes, Never
<1>7. pc # "alarm" => Left \in Nat
  <2>1. pc # "alarm" => Limit(pc) = LongestNotify
    BY DEF Limit, Blocked
  <2> QED BY <1>6, <2>1, Timeouts DEF Left, Never
<1>8. CASE pc = "critical"
  <2>1. snapAge + Left <= Cost(c - n) /\ pending \subseteq Critical
    BY <1>1, <1>8 DEF HandlerInv
  <2>2. n <= c
    <3>1. Critical \subseteq Kind
      BY EventsDefined DEF Critical
    <3> QED BY <2>1, <3>1, KindsCounted, FS_Subset
  <2> HIDE DEF c, n, Left
  <2>3. c - n \in Nat /\ c - n <= MostEvents
    BY <1>3, <1>5, <2>2, Timeouts
  <2>4. Cost(c - n) \in Nat /\ Cost(MostEvents) \in Nat /\ Cost(c - n) <= Cost(MostEvents)
    BY <2>3, LimitFacts
  <2> QED BY <1>2, <1>7, <1>8, <2>1, <2>4, Timeouts
<1>9. CASE pc = "alarm"
  <2>1. snapAge <= Cost(c) + spent
    BY <1>1, <1>9 DEF HandlerInv
  <2>2. spent \in Int /\ spent <= NutTimeout
    BY <1>6, <1>9 DEF Limit, Blocked
  <2> HIDE DEF c
  <2>3. Cost(c) \in Nat /\ Cost(MostEvents) \in Nat /\ Cost(c) <= Cost(MostEvents)
    BY <1>3, LimitFacts
  <2> QED BY <1>2, <2>1, <2>2, <2>3, Timeouts
<1>10. CASE pc = "edges"
  <2>1. snapAge + Left <= NutTimeout + Cost(MostEvents - n) /\ n <= MostEvents
    BY <1>1, <1>10 DEF HandlerInv
  <2> HIDE DEF n, Left
  <2>2. MostEvents - n \in Nat /\ MostEvents - n <= MostEvents
    BY <1>5, <2>1, Timeouts
  <2>3. /\ Cost(MostEvents - n) \in Nat /\ Cost(MostEvents) \in Nat
        /\ Cost(MostEvents - n) <= Cost(MostEvents)
    BY <2>2, LimitFacts
  <2> QED BY <1>2, <1>7, <1>10, <2>1, <2>3, Timeouts
<1> QED BY <1>8, <1>9, <1>10

\* LOWBATT is out within one turn and two reads of the moment at which the UPS
\* reaches it, with one delivery more only if FSD can come with it: for every
\* interval, timeout and set of statuses (monitor.go: Run, pollStatus, emit).
THEOREM ShutdownDelayAlwaysBounded == TimedSpec => []ShutdownDelayBounded
<1>1. TypeOK /\ TimedInv => ShutdownDelayBounded
  <2> SUFFICES ASSUME TypeOK, TimedInv, lag # Never PROVE ShutdownDelayBounded
    <3>1. LongestTurn \in Nat /\ NutTimeout \in Nat /\ Before \in Nat
      BY TurnFacts, Timeouts DEF Before
    <3> QED BY <3>1 DEF ShutdownDelayBounded, Never
  <2>1. LongestTurn \in Nat /\ NutTimeout \in Nat /\ Before \in Nat /\ LongestNotify \in Nat
    BY TurnFacts, Timeouts DEF Before
  <2>2. CASE pc \in {"loop", "select"}
    BY <2>1, <2>2 DEF TimedInv, TimedTypes, DelayInv, ShutdownDelayBounded, Never
  <2>3. CASE pc \in {"list", "get"}
    <3>1. spent \in Nat /\ spent <= NutTimeout /\ lag \in Nat
      BY <2>3 DEF TimedInv, TimedTypes, Limit, Blocked
    <3>2. lag <= LongestTurn + spent + NutTimeout
      BY <2>1, <2>3, <3>1 DEF TimedInv, DelayInv
    <3> QED BY <2>1, <3>1, <3>2 DEF ShutdownDelayBounded
  <2>4. CASE Caught
    <3>1. spent \in Nat \cup {Never} /\ spent <= LongestNotify /\ lag \in Nat
      BY <2>4 DEF TimedInv, TimedTypes, Limit, Blocked, Caught
    <3>2. spent # Never => Before = LongestNotify
      <4> SUFFICES ASSUME spent # Never PROVE Shutdown \subseteq Conditions(snap.tokens)
                                              /\ snap.tokens \in Statuses
        BY DEF Before
      <4>1. /\ pending \subseteq Critical /\ pending # Critical /\ snap.tokens \in Statuses
        BY <2>4 DEF Caught, TimedInv, HandlerInv, LagInv
      <4>2. Critical \subseteq {"FSD", "LOWBATT"}
        BY DEF Critical, CriticalEvents, Shutdown, EnterKind
      <4>3. Critical = {"FSD", "LOWBATT"}
        BY <2>4, <4>1, <4>2 DEF Caught
      <4> QED BY <4>1, <4>3 DEF Critical, CriticalEvents, Shutdown, EnterKind
    <3>3. CASE spent = Never
      <4>1. lag <= LongestTurn + 2 * NutTimeout + 0
        BY <2>4, <3>3 DEF TimedInv, DelayInv
      <4> QED BY <2>1, <3>1, <4>1 DEF ShutdownDelayBounded
    <3>4. CASE spent # Never
      <4>1. lag <= LongestTurn + 2 * NutTimeout + spent
        BY <2>4, <3>4 DEF TimedInv, DelayInv
      <4>2. lag <= LongestTurn + 2 * NutTimeout + Before
        BY <2>1, <3>1, <3>2, <3>4, <4>1
      <4> QED BY <4>2 DEF ShutdownDelayBounded
    <3> QED BY <3>3, <3>4
  <2>5. CASE pc \in {"critical", "alarm", "edges"} /\ ~Caught
    <3>1. lag <= NutTimeout + snapAge
      BY <2>5 DEF TimedInv, DelayInv
    <3>2. snapAge <= NutTimeout + Cost(MostEvents)
      BY <2>5, HandlerTime DEF TimedInv, LagInv
    <3>3. lag \in Nat /\ snapAge \in Int
      BY BoundsAssumption DEF TimedInv, TimedTypes, TypeOK, Never
    <3>4. Cost(MostEvents) \in Nat
      BY LimitFacts
    <3>5. lag <= LongestTurn
      BY <2>1, <3>1, <3>2, <3>3, <3>4, TurnFacts
    <3> QED BY <2>1, <3>3, <3>5 DEF ShutdownDelayBounded
  <2> QED BY <2>2, <2>3, <2>4, <2>5 DEF TimedInv, LagInv
<1> QED BY <1>1, TimedInvariant, PTL
=============================================================================
