---------------------------- MODULE MonitorProofs ----------------------------
(***************************************************************************)
(* Theorems about Monitor that hold for every set of statuses and every    *)
(* duration, and their proofs.                                             *)
(***************************************************************************)
EXTENDS MonitorProperties, FiniteSetTheorems, TLAPS

-----------------------------------------------------------------------------
(***************************************************************************)
(* Facts about the vocabulary.                                             *)
(***************************************************************************)

\* Every condition and every audible end has an event kind.
LEMMA KindsDefined ==
  /\ \A c \in Condition : EnterKind[c] \in Kind
  /\ \A c \in Audible : LeaveKind[c] \in Kind
BY DEF Condition, Toggle, Fault, Shutdown, Audible, EnterKind, LeaveKind, Kind,
       Rank

\* No two events share a kind: each is the enter event of one condition, the
\* leave event of one condition, or one of the events about communication.
LEMMA KindsDistinct ==
  /\ \A c, d \in Condition : EnterKind[c] = EnterKind[d] => c = d
  /\ \A c, d \in Audible : LeaveKind[c] = LeaveKind[d] => c = d
  /\ \A c \in Condition, d \in Audible : EnterKind[c] # LeaveKind[d]
  /\ \A c \in Condition :
       EnterKind[c] \notin {"COMMBAD", "NOCOMM", "COMMOK", "STARTUP"}
  /\ \A c \in Audible :
       LeaveKind[c] \notin {"COMMBAD", "NOCOMM", "COMMOK", "STARTUP", "FSD",
                            "LOWBATT"}
  /\ \A c \in Condition :
       EnterKind[c] \in {"FSD", "LOWBATT"} <=> c \in Shutdown
<1>1. \A c, d \in Condition : EnterKind[c] = EnterKind[d] => c = d
  BY DEF Condition, Toggle, Fault, Shutdown, EnterKind
<1>2. \A c, d \in Audible : LeaveKind[c] = LeaveKind[d] => c = d
  BY DEF Audible, Toggle, LeaveKind
<1>3. \A c \in Condition, d \in Audible : EnterKind[c] # LeaveKind[d]
  BY DEF Condition, Toggle, Fault, Shutdown, Audible, EnterKind, LeaveKind
<1>4. \A c \in Condition :
        /\ EnterKind[c] \notin {"COMMBAD", "NOCOMM", "COMMOK", "STARTUP"}
        /\ EnterKind[c] \in {"FSD", "LOWBATT"} <=> c \in Shutdown
  BY DEF Condition, Toggle, Fault, Shutdown, EnterKind
<1>5. \A c \in Audible :
        LeaveKind[c] \notin {"COMMBAD", "NOCOMM", "COMMOK", "STARTUP", "FSD",
                             "LOWBATT"}
  BY DEF Audible, Toggle, LeaveKind
<1> QED BY <1>1, <1>2, <1>3, <1>4, <1>5

\* The events of a snapshot are event kinds.
LEMMA EventsDefined ==
  ASSUME NEW p, NEW s
  PROVE  CriticalEvents(p, s) \subseteq Kind /\ EdgeEvents(p, s) \subseteq Kind
<1>1. Toggle \subseteq Audible /\ Shutdown \subseteq Condition
      /\ Toggle \cup {"OL", "OB"} \subseteq Condition
  BY DEF Audible, Condition, Fault
<1> QED BY <1>1, KindsDefined DEF CriticalEvents, EdgeEvents

\* The order dispatches the earliest event of a set that is not empty.
LEMMA EarliestIsFirst ==
  ASSUME NEW kinds \in SUBSET Kind, kinds # {}
  PROVE  /\ Earliest(kinds) \in kinds
         /\ \A k \in kinds : Rank[Earliest(kinds)] <= Rank[k]
<1>1. \A k \in Kind : Rank[k] \in 0 .. 15
  BY DEF Kind, Rank
<1> DEFINE At(n) == \E k \in kinds : Rank[k] = n
<1>2. \E n \in 0 .. 15 : At(n) /\ \A m \in 0 .. 15 : m < n => ~At(m)
  <2>1. \E n \in 0 .. 15 : At(n)
    BY <1>1
  <2> HIDE DEF At
  <2> QED BY <2>1, Z3
<1>3. \E k \in kinds : \A j \in kinds : Rank[k] <= Rank[j]
  <2>1. PICK n \in 0 .. 15 : At(n) /\ \A m \in 0 .. 15 : m < n => ~At(m)
    BY <1>2
  <2>2. PICK k \in kinds : Rank[k] = n
    BY <2>1
  <2>3. ASSUME NEW j \in kinds PROVE Rank[k] <= Rank[j]
    BY <1>1, <2>1, <2>2
  <2> QED BY <2>3
<1> QED BY <1>3 DEF Earliest

LEMMA OlderIsAge ==
  ASSUME NEW a \in Age \cup {Never}
  PROVE  Older(a) \in Age \cup {Never}
BY BoundsAssumption DEF Older, Age, Never

-----------------------------------------------------------------------------
(***************************************************************************)
(* Type correctness.                                                       *)
(***************************************************************************)

LEMMA MarkCommBadType ==
  ASSUME TypeOK, NEW next \in PC, MarkCommBad(next)
  PROVE  /\ pc' \in PC /\ commBad' \in BOOLEAN /\ noCommEmitted' \in BOOLEAN
         /\ commBadSince' \in Age \cup {Never} /\ pending' \in SUBSET Kind
<1>1. 0 \in Age
  BY BoundsAssumption DEF Age
<1>2. {"COMMBAD", "NOCOMM"} \subseteq Kind
  BY DEF Kind, Rank
<1> QED BY <1>1, <1>2 DEF MarkCommBad, OutageAge, Escalates, TypeOK

\* emitOtherEdges and the snapshot it is given keep the types.
LEMMA OtherEdgesType ==
  ASSUME TypeOK, OtherEdges, snap' \in Snapshots, alarmErr' \in BOOLEAN
  PROVE  TypeOK'
<1>1. pending' \in SUBSET Kind
  <2>1. Ripe \subseteq Condition /\ Fault \cap Audible \subseteq Audible
    BY DEF Ripe, Condition
  <2>2. FaultEvents \subseteq Kind
    BY <2>1, KindsDefined DEF FaultEvents
  <2>3. {"COMMOK", "STARTUP"} \subseteq Kind
    BY DEF Kind, Rank
  <2> QED BY <2>2, <2>3, EventsDefined DEF OtherEdges
<1>2. firstSeen' \in [Fault -> Age \cup {Never}]
  <2>1. snapAge \in Age \cup {Never}
    BY BoundsAssumption, DurationsAssumption DEF TypeOK, Age, Never
  <2> QED BY <2>1 DEF OtherEdges, TypeOK, SeenFor
<1>3. confirmed' \in [Fault -> BOOLEAN]
  BY DEF OtherEdges, TypeOK
<1>4. pc' \in PC /\ started' \in BOOLEAN
  BY DEF OtherEdges, PC
<1>5. UNCHANGED <<op, connVars, canceled, prev, last, commVars, snapAge,
                  pauseVars, streamVars, held, retries>>
  BY DEF OtherEdges
<1> QED BY <1>1, <1>2, <1>3, <1>4, <1>5
        DEF TypeOK, connVars, commVars, pauseVars, streamVars

\* The texts a handler gives to Observe.
LEMMA GivenTexts ==
  ASSUME TypeOK, NEW status, NEW alarm
  PROVE  /\ Text(alarm) \in Texts
         /\ (IF op = "pollStatus" THEN Deleted(status, Copied)
                                  ELSE snap.alarm) \in Texts
BY DEF TypeOK, Snapshots, Texts, Text, Deleted

LEMMA ObserveType ==
  ASSUME TypeOK, NEW status \in Statuses, NEW text \in Texts,
         Observe(status, text)
  PROVE  TypeOK'
<1>1. 0 \in Age /\ 0 \in 0 .. MaxBusy
  BY BoundsAssumption DEF Age
<1>2. snap' \in Snapshots /\ snapAge' \in (0 .. MaxBusy) \cup {Never}
  BY <1>1, StatusesAssumption DEF Observe, Snapshots
<1>3. pending' \in SUBSET Kind
  BY EventsDefined DEF Observe
<1>4. firstSeen' \in [Fault -> Age \cup {Never}]
  BY DEF Observe, TypeOK
<1>5. held' \in [Fault -> Age \cup {Never}]
  BY <1>1 DEF Observe, TypeOK
<1>6. active' \in SUBSET Condition /\ pc' \in PC
  BY DEF Observe, TypeOK, PC
<1>7. UNCHANGED <<op, connVars, canceled, prev, last, started, confirmed,
                  commVars, alarmErr, pauseVars, up, comm, beat, retries>>
  BY DEF Observe
<1> QED BY <1>2, <1>3, <1>4, <1>5, <1>6, <1>7
        DEF TypeOK, connVars, commVars, pauseVars

\* Next, one action at a time.
LEMMA TypeStep ==
  ASSUME TypeOK, [Next]_vars
  PROVE  TypeOK'
<1> USE DEF connVars, diffVars, commVars, workVars, pauseVars, streamVars
<1>1. CASE Cancel
  BY <1>1 DEF Cancel, TypeOK
<1>2. CASE CloseOnCancel
  BY <1>2 DEF CloseOnCancel, TypeOK
<1>3. CASE Tick
  <2>1. snapAge' \in (0 .. MaxBusy) \cup {Never}
    BY <1>3, BoundsAssumption DEF Tick, TypeOK, Older, Never
  <2>2. /\ commBadSince' \in Age \cup {Never} /\ waited' \in Age \cup {Never}
        /\ firstSeen' \in [Fault -> Age \cup {Never}]
        /\ held' \in [Fault -> Age \cup {Never}]
    BY <1>3, OlderIsAge DEF Tick, TypeOK
  <2> QED BY <1>3, <2>1, <2>2 DEF Tick, TypeOK
<1>4. CASE Loop
  <2>1. 0 \in Age
    BY BoundsAssumption DEF Age
  <2> QED BY <1>4, <2>1 DEF Loop, BeginWait, BeginConnect, Resume, Stop,
                PollTick, RefreshTick, TypeOK, PC
<1>5. CASE RetryTimer
  <2>1. backoff' \in Nat
    BY <1>5, DurationsAssumption DEF RetryTimer, Doubled, TypeOK
  <2>2. retries' \in Nat
    BY <1>5 DEF RetryTimer, TypeOK
  <2> QED BY <1>5, <2>1, <2>2 DEF RetryTimer, TypeOK, PC
<1>6. CASE NoCommTimer
  BY <1>6, MarkCommBadType DEF NoCommTimer, TypeOK, PC
<1>7. CASE ConnErr
  <2>1. conn' \in {"nil", "up", "down"} /\ sockets' \in Int
    BY <1>7 DEF ConnErr, TypeOK
  <2>2. /\ pc' \in PC /\ commBad' \in BOOLEAN /\ noCommEmitted' \in BOOLEAN
        /\ commBadSince' \in Age \cup {Never} /\ pending' \in SUBSET Kind
    <3>1. CASE canceled
      BY <1>7, <3>1 DEF ConnErr, TypeOK, PC
    <3>2. CASE ~canceled
      BY <1>7, <3>2, MarkCommBadType DEF ConnErr, PC
    <3> QED BY <3>1, <3>2
  <2>3. snap' \in Snapshots /\ snapAge' = Never /\ alarmErr' = FALSE
        /\ op' = "none"
    BY <1>7 DEF ConnErr, NoSnap, Snapshots, Texts
  <2> QED BY <1>7, <2>1, <2>2, <2>3 DEF ConnErr, TypeOK
<1>8. CASE Marked
  BY <1>8 DEF Marked, TypeOK, PC
<1>9. CASE DialOk \/ CallFails \/ CriticalDone
  BY <1>9 DEF DialOk, CallFails, CriticalDone, TypeOK, PC
<1>10. ASSUME NEW alarm \in BOOLEAN, ListLacksStatus(alarm)
       PROVE  TypeOK'
  BY <1>10 DEF ListLacksStatus, TypeOK, PC, NoSnap, Snapshots, Texts, Text
<1>11. ASSUME NEW status \in Statuses, NEW alarm \in BOOLEAN,
              GetStatus(status) \/ ListStatus(status, alarm)
       PROVE  TypeOK'
  <2>1. CASE GetStatus(status)
    BY <2>1, GivenTexts, ObserveType DEF GetStatus
  <2>2. CASE ListStatus(status, alarm)
    BY <2>2, GivenTexts, ObserveType DEF ListStatus
  <2> QED BY <1>11, <2>1, <2>2
<1>12. CASE Edges
  BY <1>12, OtherEdgesType DEF Edges, TypeOK
<1>13. ASSUME NEW alarm \in BOOLEAN, AlarmRead(alarm)
       PROVE  TypeOK'
  <2>1. snap' \in Snapshots /\ alarmErr' \in BOOLEAN
    BY <1>13 DEF AlarmRead, TypeOK, Snapshots, Texts
  <2> QED BY <1>13, <2>1, OtherEdgesType DEF AlarmRead
<1>14. CASE AlarmReadFails
  BY <1>14, OtherEdgesType DEF AlarmReadFails, TypeOK
<1>15. CASE Emit
  <2>1. pending' \in SUBSET Kind
    BY <1>15 DEF Emit, TypeOK
  <2>2. /\ up' \in BOOLEAN /\ comm' \in {"ok", "bad", "lost"}
        /\ active' \in SUBSET Condition /\ beat' \in BOOLEAN
    <3>1. CASE canceled
      BY <1>15, <3>1 DEF Emit, TypeOK
    <3>2. CASE ~canceled
      BY <1>15, <3>2 DEF Emit, Hears, TypeOK
    <3> QED BY <3>1, <3>2
  <2> QED BY <1>15, <2>1, <2>2 DEF Emit, TypeOK
<1>16. CASE Commit
  <2>1. /\ commBad' \in BOOLEAN /\ noCommEmitted' \in BOOLEAN
        /\ commBadSince' \in Age \cup {Never} /\ pc' \in PC
        /\ op' \in {"none", "tryConnect", "pollStatus", "refreshVars"}
    BY <1>16 DEF Commit, TypeOK, PC
  <2>2. backoff' \in Nat /\ retries' \in Nat
    BY <1>16, DurationsAssumption DEF Commit, GoodPoll, TypeOK
  <2>3. /\ prev' \in SUBSET Token /\ last' \in Snapshots
        /\ snap' \in Snapshots /\ snapAge' = Never
    BY <1>16 DEF Commit, TypeOK, NoSnap, Snapshots, Texts
  <2> QED BY <1>16, <2>1, <2>2, <2>3 DEF Commit, TypeOK
<1>17. CASE UNCHANGED vars
  BY <1>17 DEF vars, TypeOK
<1> QED
  BY <1>1, <1>2, <1>3, <1>4, <1>5, <1>6, <1>7, <1>8, <1>9, <1>10, <1>11,
     <1>12, <1>13, <1>14, <1>15, <1>16, <1>17
  DEF Next, Timers, Replies, Failures, Handler, Stopped

LEMMA TypeInit ==
  ASSUME Init
  PROVE  TypeOK
<1>1. NoSnap \in Snapshots
  BY DEF NoSnap, Snapshots, Texts
<1>2. backoff \in Nat /\ prev \in SUBSET Token
  BY DurationsAssumption DEF Init
<1>3. /\ firstSeen \in [Fault -> Age \cup {Never}]
      /\ held \in [Fault -> Age \cup {Never}]
      /\ confirmed \in [Fault -> BOOLEAN]
  BY DEF Init
<1>4. /\ pc \in PC /\ op = "none" /\ conn = "nil" /\ comm = "ok"
      /\ sockets \in Int /\ retries \in Nat
  BY DEF Init, PC
<1>5. /\ canceled \in BOOLEAN /\ alarmErr \in BOOLEAN /\ started \in BOOLEAN
      /\ commBad \in BOOLEAN /\ noCommEmitted \in BOOLEAN /\ up \in BOOLEAN
      /\ beat \in BOOLEAN
  BY DEF Init
<1>6. /\ last = NoSnap /\ snap = NoSnap /\ snapAge = Never /\ waited = Never
      /\ commBadSince = Never /\ pending = {} /\ active = {}
  BY DEF Init
<1> QED BY <1>1, <1>2, <1>3, <1>4, <1>5, <1>6 DEF TypeOK

\* Every variable keeps its type, for every set of statuses and durations.
THEOREM TypeCorrect == Spec => []TypeOK
BY TypeInit, TypeStep, PTL DEF Spec

-----------------------------------------------------------------------------
(***************************************************************************)
(* The inductive invariant behind Contract, SubscriberInformed and         *)
(* ShutdownAlertedFirst.  It says what the subscriber's view will be once  *)
(* the pending events are out, and that each of them changes it.  Nothing  *)
(* is said once the context is cancelled, because events are then dropped. *)
(***************************************************************************)

Due(c)  == EnterKind[c] \in pending
Over(c) == c \in Audible /\ LeaveKind[c] \in pending

Announced(c, status) ==
  c \in Conditions(status) /\ (c \in Fault => confirmed[c])

\* The status the edges were last computed from.
Observed == IF pc = "edges" THEN snap.tokens ELSE prev

\* Whether c is active once the pending events have been emitted.
Target(c) ==
  IF pc \in {"critical", "alarm"}
  THEN IF c \in Shutdown THEN c \in Conditions(snap.tokens)
       ELSE /\ Announced(c, prev)
            /\ c \in Silent => c \in Conditions(snap.tokens)
  ELSE Announced(c, Observed)

ConditionsInv ==
  /\ \A f \in Fault : confirmed[f] => f \in Observed
  /\ \A c \in Condition :
       /\ Due(c)  => Target(c) /\ ~Over(c)
       /\ Over(c) => ~Target(c)
       /\ c \in active <=> Over(c) \/ (Target(c) /\ ~Due(c))

CommState == IF noCommEmitted THEN "lost" ELSE IF commBad THEN "bad" ELSE "ok"

CommInv ==
  /\ noCommEmitted => commBad
  /\ comm = IF "COMMBAD" \in pending THEN "ok"
            ELSE IF "NOCOMM" \in pending THEN "bad"
            ELSE IF pc = "edges" /\ "COMMOK" \notin pending THEN "ok"
            ELSE CommState
  /\ "COMMBAD" \in pending => commBad /\ ~noCommEmitted
  /\ "NOCOMM" \in pending => noCommEmitted
  /\ "COMMOK" \in pending => commBad
  /\ pc = "select" \/ op \in {"pollStatus", "refreshVars"}
       \/ (pc = "loop" /\ conn # "nil") => ~commBad

StartInv ==
  /\ up <=> started /\ "STARTUP" \notin pending
  /\ pc = "edges" => started
  /\ "STARTUP" \in pending => started

\* Which events can be pending where.
PendingInv ==
  pending \subseteq
    CASE pc = "critical" -> {"FSD", "LOWBATT"}
      [] pc \in {"bad", "escalate"} -> {"COMMBAD", "NOCOMM"}
      [] pc = "edges" -> Kind \ {"FSD", "LOWBATT", "COMMBAD", "NOCOMM"}
      [] OTHER -> {}

\* Where a handler is running, and where it has closed the connection.
ControlInv ==
  /\ pc \in {"critical", "alarm", "edges", "failed", "list", "get", "dial"}
       => op # "none"
  /\ pc \in {"loop", "wait", "bad", "escalate", "select"} => op = "none"
  /\ pc = "bad" => conn = "nil"

View == ConditionsInv /\ CommInv /\ StartInv /\ PendingInv /\ ControlInv

Inv == ~canceled => View

LEMMA ViewInit ==
  ASSUME Init
  PROVE  View
<1> USE DEF Init
<1>1. ConditionsInv
  <2>1. /\ Conditions({}) = {} /\ ~(\E f \in Fault : confirmed[f])
        /\ Observed = prev
    BY DEF Conditions, Demands, Observed
  <2> QED BY <2>1 DEF ConditionsInv, Due, Over, Target, Announced
<1>2. CommInv
  BY DEF CommInv, CommState
<1>3. StartInv
  BY DEF StartInv
<1>4. PendingInv
  BY DEF PendingInv
<1>5. ControlInv
  BY DEF ControlInv
<1> QED BY <1>1, <1>2, <1>3, <1>4, <1>5 DEF View

\* A step that touches neither the pending events nor what they are computed
\* from leaves the conditions alone.
LEMMA ConditionsKept ==
  ASSUME ConditionsInv, UNCHANGED <<pending, prev, confirmed, active>>,
         \/ pc' = pc /\ snap' = snap
         \/ {pc, pc'} \cap {"critical", "alarm", "edges"} = {}
         \/ pc = "critical" /\ pc' = "alarm" /\ snap' = snap
  PROVE  ConditionsInv'
<1>1. Observed' = Observed
  BY DEF Observed
<1>2. \A c \in Condition : Target(c)' <=> Target(c)
  BY <1>1 DEF Target, Announced
<1>3. \A c \in Condition : (Due(c)' <=> Due(c)) /\ (Over(c)' <=> Over(c))
  BY DEF Due, Over
<1> QED BY <1>1, <1>2, <1>3 DEF ConditionsInv

\* The actions that only move the goroutine from one call to the next.
Moves ==
  \/ BeginWait \/ BeginConnect \/ Resume \/ RetryTimer \/ PollTick
  \/ RefreshTick \/ DialOk \/ CallFails \/ CriticalDone \/ Marked \/ Tick
  \/ \E alarm \in BOOLEAN : ListLacksStatus(alarm)

LEMMA MovesKeepView ==
  ASSUME TypeOK, View, Moves
  PROVE  View'
<1> USE DEF Moves, BeginWait, BeginConnect, Resume, RetryTimer, PollTick,
            RefreshTick, DialOk, CallFails, CriticalDone, Marked, Tick,
            ListLacksStatus, connVars, diffVars, commVars, workVars,
            pauseVars, streamVars
<1>1. UNCHANGED <<prev, confirmed, active, pending, started, commBad,
                  noCommEmitted, up, comm>>
  OBVIOUS
<1>2. ConditionsInv'
  <2>1. \/ pc' = pc /\ snap' = snap
        \/ {pc, pc'} \cap {"critical", "alarm", "edges"} = {}
        \/ pc = "critical" /\ pc' = "alarm" /\ snap' = snap
    OBVIOUS
  <2> QED BY <1>1, <2>1, ConditionsKept DEF View
<1>3. CommInv'
  BY <1>1 DEF View, CommInv, CommState, ControlInv, PendingInv
<1>4. StartInv'
  BY <1>1 DEF View, StartInv
<1>5. PendingInv'
  BY <1>1 DEF View, PendingInv
<1>6. ControlInv'
  BY <1>1 DEF View, ControlInv
<1> QED BY <1>2, <1>3, <1>4, <1>5, <1>6 DEF View

\* markCommBad queues COMMBAD exactly if the subscriber does not know of the
\* outage, and NOCOMM only if it has heard COMMBAD and no NOCOMM.
LEMMA MarkKeepsView ==
  ASSUME TypeOK, View, NoCommTimer \/ (ConnErr /\ ~canceled)
  PROVE  View'
<1>1. /\ pending = {} /\ pc \in {"wait", "failed"} /\ op' = "none"
      /\ UNCHANGED <<prev, confirmed, active, started, up, comm>>
      /\ pc' \in {"bad", "escalate"}
      /\ pc' = "bad" => conn' = "nil"
  BY DEF NoCommTimer, ConnErr, diffVars, streamVars, View, PendingInv,
         ControlInv, MarkCommBad
<1>2. PICK next : MarkCommBad(next)
  BY DEF NoCommTimer, ConnErr
<1>3. pending' \subseteq {"COMMBAD", "NOCOMM"}
  BY <1>2 DEF MarkCommBad
<1>4. ConditionsInv'
  <2>1. Observed' = Observed
    BY <1>1 DEF Observed
  <2>2. \A c \in Condition : Target(c)' <=> Target(c)
    BY <1>1, <2>1 DEF Target, Announced
  <2>3. \A c \in Condition : ~Due(c) /\ ~Due(c)' /\ ~Over(c) /\ ~Over(c)'
    BY <1>1, <1>3, KindsDistinct DEF Due, Over
  <2> QED BY <1>1, <2>1, <2>2, <2>3 DEF ConditionsInv, View
<1>5. CommInv'
  <2>1. comm = CommState /\ (noCommEmitted => commBad)
    BY <1>1 DEF View, CommInv
  <2>2. commBad' /\ pc' # "select" /\ pc' # "loop" /\ pc' # "edges"
        /\ "COMMOK" \notin pending'
    BY <1>1, <1>2, <1>3 DEF MarkCommBad
  <2>3. CASE commBad
    BY <1>1, <1>2, <2>1, <2>2, <2>3
    DEF MarkCommBad, Escalates, CommInv, CommState
  <2>4. CASE ~commBad
    <3>1. pending' = {"COMMBAD"} /\ ~noCommEmitted'
      <4>1. ~Escalates
        BY <2>4, DurationsAssumption DEF Escalates, OutageAge
      <4>2. ~noCommEmitted
        BY <2>1, <2>4
      <4> QED BY <1>2, <2>4, <4>1, <4>2, Zenon DEF MarkCommBad
    <3> QED BY <1>1, <2>1, <2>2, <2>4, <3>1 DEF CommInv, CommState
  <2> QED BY <2>3, <2>4
<1>6. StartInv'
  BY <1>1, <1>3 DEF View, StartInv
<1>7. PendingInv'
  BY <1>1, <1>3 DEF PendingInv
<1>8. ControlInv'
  BY <1>1 DEF ControlInv
<1> QED BY <1>4, <1>5, <1>6, <1>7, <1>8 DEF View

\* Which conditions are debounced and which end silently.
LEMMA ConditionClasses ==
  /\ Shutdown \subseteq Silent /\ Shutdown \subseteq Condition
  /\ Shutdown \cap Fault = {} /\ Shutdown \cap Toggle = {}
  /\ Toggle \cap Fault = {} /\ Toggle \subseteq Audible
  /\ Silent = {"FSD", "LOWBATT", "OL", "OB", "RB"}
  /\ Condition = Silent \cup Audible
BY DEF Shutdown, Silent, Condition, Audible, Fault, Toggle

\* What emitCritical queues.
LEMMA CriticalQueue ==
  ASSUME NEW status, pending' = CriticalEvents(prev, status),
         NEW c \in Condition
  PROVE  /\ Due(c)' <=> /\ c \in Shutdown
                        /\ c \in Conditions(status) \ Conditions(prev)
         /\ ~Over(c)'
<1>1. Shutdown \subseteq Condition
  BY ConditionClasses
<1>2. \A d \in Condition : EnterKind[c] = EnterKind[d] => c = d
  BY KindsDistinct
<1>3. Due(c)' <=> c \in Shutdown /\ c \in Conditions(status) \ Conditions(prev)
  BY <1>1, <1>2, Zenon DEF Due, CriticalEvents
<1>4. ~Over(c)'
  BY <1>1, KindsDistinct DEF Over, CriticalEvents
<1> QED BY <1>3, <1>4

\* emitCritical queues exactly the shutdown conditions not announced yet, and
\* the conditions that end silently end.
LEMMA ObserveKeepsView ==
  ASSUME TypeOK, View, pc \in {"list", "get"},
         NEW status \in Statuses, NEW text \in Texts,
         Observe(status, text)
  PROVE  View'
<1>1. /\ pc' = "critical" /\ pending = {} /\ op' = op /\ op # "none"
      /\ snap'.tokens = status /\ pending' = CriticalEvents(prev, status)
      /\ active' = active \ (Silent \ Conditions(status))
      /\ UNCHANGED <<prev, confirmed, started, up, comm, commBad,
                     noCommEmitted>>
  BY DEF Observe, View, PendingInv, ControlInv, commVars
<1>2. pending' \subseteq {"FSD", "LOWBATT"}
  BY <1>1 DEF CriticalEvents, Shutdown, EnterKind
<1>3. ConditionsInv'
  <2>1. Observed' = prev /\ Observed = prev
    BY <1>1 DEF Observed
  <2>2. \A f \in Fault : confirmed'[f] => f \in Observed'
    BY <1>1, <2>1 DEF View, ConditionsInv
  <2>3. ASSUME NEW c \in Condition
        PROVE  /\ c \in active <=> Announced(c, prev)
               /\ c \in active' <=>
                    c \in active /\ (c \in Silent => c \in Conditions(status))
               /\ Due(c)' <=> /\ c \in Shutdown
                              /\ c \in Conditions(status) \ Conditions(prev)
               /\ ~Over(c)'
    <3>1. c \in active <=> Announced(c, prev)
      BY <1>1, <2>1 DEF View, ConditionsInv, Due, Over, Target
    <3>2. c \in active' <=>
            c \in active /\ (c \in Silent => c \in Conditions(status))
      BY <1>1
    <3>3. /\ Due(c)' <=> /\ c \in Shutdown
                         /\ c \in Conditions(status) \ Conditions(prev)
          /\ ~Over(c)'
      BY <1>1, CriticalQueue
    <3> QED BY <3>1, <3>2, <3>3
  <2>4. ASSUME NEW c \in Condition
        PROVE  Target(c)' <=>
                 IF c \in Shutdown THEN c \in Conditions(status)
                 ELSE /\ Announced(c, prev)
                      /\ c \in Silent => c \in Conditions(status)
    BY <1>1 DEF Target, Announced
  <2>5. \A c \in Shutdown : Announced(c, prev) <=> c \in Conditions(prev)
    BY ConditionClasses DEF Announced
  <2> HIDE DEF Announced
  <2> QED BY <2>2, <2>3, <2>4, <2>5, ConditionClasses DEF ConditionsInv
<1>4. CommInv'
  BY <1>1, <1>2 DEF View, CommInv, CommState
<1>5. StartInv'
  BY <1>1, <1>2 DEF View, StartInv
<1>6. PendingInv'
  BY <1>1, <1>2 DEF PendingInv
<1>7. ControlInv'
  BY <1>1 DEF ControlInv
<1> QED BY <1>3, <1>4, <1>5, <1>6, <1>7 DEF View

\* But for LOWBATT a condition is its token.
LEMMA TokenConditions ==
  ASSUME NEW c \in Condition \ Shutdown, NEW s
  PROVE  c \in Conditions(s) <=> c \in s
BY DEF Conditions, Demands, Shutdown

\* What emitOtherEdges queues about conditions.
LEMMA OtherEdgesQueue ==
  ASSUME OtherEdges, NEW c \in Condition
  PROVE  /\ Due(c)' <=>
              \/ c \in (Toggle \cup {"OL", "OB"}) \cap (snap.tokens \ prev)
              \/ c \in Ripe
         /\ Over(c)' <=>
              \/ c \in Toggle \cap (prev \ snap.tokens)
              \/ c = "ALARM" /\ c \notin snap.tokens /\ confirmed[c]
<1>1. /\ Ripe \subseteq Fault /\ Fault \subseteq Condition
      /\ Toggle \cup {"OL", "OB"} \subseteq Condition /\ Toggle \subseteq Audible
      /\ Fault \cap Audible = {"ALARM"}
  BY DEF Ripe, Condition, Audible, Fault, Toggle
<1>2. Due(c)' <=> \/ c \in (Toggle \cup {"OL", "OB"}) \cap (snap.tokens \ prev)
                  \/ c \in Ripe
  BY <1>1, KindsDistinct DEF OtherEdges, Due, EdgeEvents, FaultEvents
<1>3. Over(c)' <=> \/ c \in Toggle \cap (prev \ snap.tokens)
                   \/ c = "ALARM" /\ c \notin snap.tokens /\ confirmed[c]
  BY <1>1, KindsDistinct DEF OtherEdges, Over, EdgeEvents, FaultEvents
<1> QED BY <1>2, <1>3

\* emitOtherEdges queues one event for every condition whose announced state
\* differs from the snapshot, and none for the others.
LEMMA OtherEdgesKeepView ==
  ASSUME TypeOK, View, pc \in {"critical", "alarm"}, pending = {},
         OtherEdges, snap'.tokens = snap.tokens
  PROVE  View'
<1> DEFINE cur == snap.tokens
<1>1. /\ pc' = "edges" /\ op' = op /\ started' = TRUE
      /\ UNCHANGED <<prev, active, up, comm, commBad, noCommEmitted, conn>>
  BY DEF OtherEdges, commVars, streamVars, connVars
<1>2. \A c \in Condition :
        Due(c)' <=> \/ c \in (Toggle \cup {"OL", "OB"}) \cap (cur \ prev)
                    \/ c \in Ripe
  BY OtherEdgesQueue
<1>3. \A c \in Condition :
        Over(c)' <=> \/ c \in Toggle \cap (prev \ cur)
                     \/ c = "ALARM" /\ c \notin cur /\ confirmed[c]
  BY OtherEdgesQueue
<1>4. \A f \in Fault :
        confirmed'[f] <=> f \in cur /\ (confirmed[f] \/ f \in Ripe)
  BY DEF OtherEdges
<1>5. /\ "COMMOK" \in pending' <=> commBad
      /\ "STARTUP" \in pending' <=> ~started
      /\ pending' \cap {"FSD", "LOWBATT", "COMMBAD", "NOCOMM"} = {}
  <2> DEFINE others == EdgeEvents(prev, cur) \cup FaultEvents
  <2>1. others \cap {"COMMOK", "STARTUP", "FSD", "LOWBATT", "COMMBAD",
                     "NOCOMM"} = {}
    <3>1. Ripe \subseteq Condition \ Shutdown
          /\ Toggle \cup {"OL", "OB"} \subseteq Condition \ Shutdown
          /\ Toggle \subseteq Audible
      BY ConditionClasses DEF Ripe, Condition, Shutdown, Fault, Toggle
    <3> QED BY <3>1, KindsDistinct DEF EdgeEvents, FaultEvents
  <2>2. pending' = (IF commBad THEN {"COMMOK"} ELSE {})
                     \cup (IF started THEN {} ELSE {"STARTUP"}) \cup others
    BY DEF OtherEdges
  <2> HIDE DEF others
  <2> QED BY <2>1, <2>2
<1>6. ConditionsInv'
  <2>1. Observed' = cur /\ Observed = prev
    BY <1>1 DEF Observed
  <2>2. \A f \in Fault : confirmed[f] => f \in prev
    BY <2>1 DEF View, ConditionsInv
  <2>3. \A c \in Condition :
          c \in active <=> IF c \in Shutdown THEN c \in Conditions(cur)
                           ELSE /\ Announced(c, prev)
                                /\ c \in Silent => c \in Conditions(cur)
    BY DEF View, ConditionsInv, Due, Over, Target
  <2>4. \A c \in Condition : Target(c)' <=>
          c \in Conditions(cur) /\ (c \in Fault => confirmed'[c])
    BY <1>1, <2>1 DEF Target, Announced
  <2>5. ASSUME NEW c \in Condition
        PROVE  /\ Due(c)'  => Target(c)' /\ ~Over(c)'
               /\ Over(c)' => ~Target(c)'
               /\ c \in active' <=> Over(c)' \/ (Target(c)' /\ ~Due(c)')
    <3>1. CASE c \in Shutdown
      <4>1. ~Due(c)' /\ ~Over(c)' /\ c \notin Fault
        BY <1>2, <1>3, <3>1, ConditionClasses DEF Ripe, Shutdown
      <4> QED BY <1>1, <2>3, <2>4, <3>1, <4>1
    <3>2. CASE c \in Toggle \cup {"OL", "OB"}
      <4>1. /\ c \notin Shutdown /\ c \notin Fault /\ c \notin Ripe
            /\ c \in Silent <=> c \notin Toggle
        BY <3>2, ConditionClasses DEF Ripe, Shutdown, Fault, Toggle
      <4>2. /\ c \in Conditions(cur) <=> c \in cur
            /\ Announced(c, prev) <=> c \in prev
        BY <4>1, TokenConditions DEF Announced
      <4>3. Target(c)' <=> c \in cur
        BY <2>4, <4>1, <4>2
      <4>4. Due(c)' <=> c \in cur /\ c \notin prev
        BY <1>2, <3>2, <4>1
      <4>5. Over(c)' <=> c \in Toggle /\ c \in prev /\ c \notin cur
        BY <1>3, <4>1 DEF Fault
      <4>6. c \in active' <=> c \in prev /\ (c \in Silent => c \in cur)
        BY <1>1, <2>3, <4>1, <4>2
      <4> QED BY <4>1, <4>3, <4>4, <4>5, <4>6
    <3>3. CASE c \in Fault
      <4>1. /\ c \notin Shutdown /\ c \notin Toggle /\ c \notin {"OL", "OB"}
            /\ c \in Silent <=> c # "ALARM"
        BY <3>3, ConditionClasses DEF Fault
      <4>2. /\ c \in Conditions(cur) <=> c \in cur
            /\ Announced(c, prev) <=> confirmed[c]
        BY <2>2, <3>3, <4>1, TokenConditions DEF Announced
      <4>3. Target(c)' <=> c \in cur /\ (confirmed[c] \/ c \in Ripe)
        BY <1>4, <2>4, <3>3, <4>2
      <4>4. Due(c)' <=> c \in Ripe
        BY <1>2, <4>1
      <4>5. Over(c)' <=> c = "ALARM" /\ c \notin cur /\ confirmed[c]
        BY <1>3, <4>1
      <4>6. c \in active' <=> confirmed[c] /\ (c # "ALARM" => c \in cur)
        BY <1>1, <2>3, <4>1, <4>2
      <4>7. c \in Ripe => c \in cur /\ ~confirmed[c]
        BY DEF Ripe
      <4> QED BY <4>3, <4>4, <4>5, <4>6, <4>7
    <3> QED BY <3>1, <3>2, <3>3 DEF Condition
  <2>6. \A f \in Fault : confirmed'[f] => f \in Observed'
    BY <1>4, <2>1
  <2> QED BY <2>5, <2>6 DEF ConditionsInv
<1>7. CommInv'
  <2>1. /\ comm = CommState /\ (noCommEmitted => commBad)
        /\ op \in {"pollStatus", "refreshVars"} => ~commBad
    BY DEF View, CommInv
  <2> QED BY <1>1, <1>5, <2>1 DEF CommInv, CommState
<1>8. StartInv'
  BY <1>1, <1>5 DEF View, StartInv
<1>9. PendingInv'
  <2>1. pending' \subseteq Kind
    <3>1. Ripe \subseteq Condition /\ Fault \cap Audible \subseteq Audible
          /\ {"COMMOK", "STARTUP"} \subseteq Kind
      BY DEF Ripe, Condition, Kind, Rank
    <3> QED BY <3>1, EventsDefined, KindsDefined DEF OtherEdges, FaultEvents
  <2> QED BY <1>1, <1>5, <2>1 DEF PendingInv
<1>10. ControlInv'
  BY <1>1 DEF View, ControlInv
<1> QED BY <1>6, <1>7, <1>8, <1>9, <1>10 DEF View

\* The place of an emission: what is pending there, and what precedes it.
LEMMA EmitPlace ==
  ASSUME TypeOK, View, Emit, ~canceled, NEW k, k = Earliest(pending)
  PROVE  /\ k \in pending /\ pending' = pending \ {k} /\ Hears(k)
         /\ \A j \in pending : Rank[k] <= Rank[j]
         /\ k \in {"FSD", "LOWBATT"} => pc = "critical"
         /\ k \in {"COMMBAD", "NOCOMM"} => pc \in {"bad", "escalate"}
         /\ k \notin {"FSD", "LOWBATT", "COMMBAD", "NOCOMM"} => pc = "edges"
         /\ UNCHANGED <<pc, op, conn, prev, snap, confirmed, started, commBad,
                        noCommEmitted>>
<1>1. pending # {} /\ pending \in SUBSET Kind
  BY DEF Emit, TypeOK
<1>2. k \in pending /\ \A j \in pending : Rank[k] <= Rank[j]
  BY <1>1, EarliestIsFirst
<1>3. /\ pending' = pending \ {k} /\ Hears(k)
      /\ UNCHANGED <<pc, op, conn, prev, snap, confirmed, started, commBad,
                     noCommEmitted>>
  BY DEF Emit, connVars, diffVars, commVars
<1>4. pending \subseteq
        CASE pc = "critical" -> {"FSD", "LOWBATT"}
          [] pc \in {"bad", "escalate"} -> {"COMMBAD", "NOCOMM"}
          [] pc = "edges" -> Kind \ {"FSD", "LOWBATT", "COMMBAD", "NOCOMM"}
          [] OTHER -> {}
  BY DEF View, PendingInv
<1>5. /\ k \in {"FSD", "LOWBATT"} => pc = "critical"
      /\ k \in {"COMMBAD", "NOCOMM"} => pc \in {"bad", "escalate"}
      /\ k \notin {"FSD", "LOWBATT", "COMMBAD", "NOCOMM"} => pc = "edges"
  BY <1>2, <1>4
<1> QED BY <1>2, <1>3, <1>5

\* Where token edges and faults are emitted, the outage is over and the
\* subscriber knows that the monitor has started.
LEMMA EdgesInOrder ==
  ASSUME TypeOK, View, Emit, ~canceled, NEW k, k = Earliest(pending)
  PROVE  /\ k = "STARTUP" => ~up /\ comm = "ok"
         /\ k = "COMMOK" => comm # "ok"
         /\ k = "COMMBAD" => comm = "ok"
         /\ k = "NOCOMM" => comm = "bad"
         /\ (pc = "edges" /\ k \notin {"COMMOK", "STARTUP"}) => up /\ comm = "ok"
<1>1. /\ k \in pending
      /\ \A j \in pending : Rank[k] <= Rank[j]
      /\ k \in {"COMMBAD", "NOCOMM"} => pc \in {"bad", "escalate"}
      /\ k \in {"COMMOK", "STARTUP"} => pc = "edges"
  BY EmitPlace
<1>2. pc = "edges" => {"COMMBAD", "NOCOMM"} \cap pending = {}
  BY DEF View, PendingInv
<1>3. "COMMBAD" \in pending => "NOCOMM" \notin pending
  BY DEF View, CommInv
<1>4. /\ Rank["STARTUP"] = 5 /\ Rank["COMMOK"] = 4
      /\ \A j \in Kind : /\ Rank[j] \in 0 .. 15
                         /\ Rank[j] <= 5 => j \in {"COMMBAD", "NOCOMM", "FSD",
                                                "LOWBATT", "COMMOK", "STARTUP"}
  BY DEF Kind, Rank
<1>5. k = "STARTUP" => "COMMOK" \notin pending
  BY <1>1, <1>4
<1>6. (pc = "edges" /\ k \notin {"COMMOK", "STARTUP"})
        => "COMMOK" \notin pending /\ "STARTUP" \notin pending
  <2>1. pc = "edges" => pending \subseteq Kind \ {"FSD", "LOWBATT", "COMMBAD",
                                                 "NOCOMM"}
    BY DEF View, PendingInv
  <2> QED BY <1>1, <1>4, <2>1
<1>7. /\ "COMMOK" \in pending => commBad
      /\ comm = IF "COMMBAD" \in pending THEN "ok"
                ELSE IF "NOCOMM" \in pending THEN "bad"
                ELSE IF pc = "edges" /\ "COMMOK" \notin pending THEN "ok"
                ELSE CommState
      /\ noCommEmitted => commBad
  BY DEF View, CommInv
<1>8. (up <=> started /\ "STARTUP" \notin pending) /\ (pc = "edges" => started)
  BY DEF View, StartInv
<1> QED BY <1>1, <1>2, <1>3, <1>5, <1>6, <1>7, <1>8 DEF CommState

\* What one emission does to the conditions: it is one of the events about
\* communication, or it announces one condition, or the end of one.
LEMMA EmitOne ==
  ASSUME TypeOK, View, Emit, ~canceled, NEW k, k = Earliest(pending)
  PROVE  \/ /\ k \in {"COMMBAD", "NOCOMM", "COMMOK", "STARTUP"}
            /\ active' = active
            /\ \A c \in Condition : (Due(c)' <=> Due(c)) /\ (Over(c)' <=> Over(c))
         \/ \E c \in Condition :
              /\ k = EnterKind[c] /\ Due(c)
              /\ active' = active \cup {c} /\ UNCHANGED <<up, comm>>
              /\ \A d \in Condition : /\ Due(d)' <=> Due(d) /\ d # c
                                      /\ Over(d)' <=> Over(d)
         \/ \E c \in Audible :
              /\ k = LeaveKind[c] /\ Over(c)
              /\ active' = active \ {c} /\ UNCHANGED <<up, comm>>
              /\ \A d \in Condition : /\ Due(d)' <=> Due(d)
                                      /\ Over(d)' <=> Over(d) /\ d # c
<1>1. k \in pending /\ pending' = pending \ {k} /\ Hears(k)
  BY EmitPlace
<1>2. Audible \subseteq Condition
  BY DEF Audible, Condition, Fault
<1>3. CASE k \in {"COMMBAD", "NOCOMM", "COMMOK", "STARTUP"}
  <2>1. active' = active
    BY <1>1, <1>2, <1>3, KindsDistinct DEF Hears
  <2>2. \A c \in Condition : (Due(c)' <=> Due(c)) /\ (Over(c)' <=> Over(c))
    BY <1>1, <1>3, KindsDistinct DEF Due, Over
  <2> QED BY <1>3, <2>1, <2>2
<1>4. ASSUME NEW c \in Condition, k = EnterKind[c],
             active' = active \cup {c}, UNCHANGED <<up, comm>>
      PROVE  /\ Due(c)
             /\ \A d \in Condition : /\ Due(d)' <=> Due(d) /\ d # c
                                     /\ Over(d)' <=> Over(d)
  BY <1>1, <1>4, KindsDistinct DEF Due, Over
<1>5. ASSUME NEW c \in Audible, k = LeaveKind[c],
             active' = active \ {c}, UNCHANGED <<up, comm>>
      PROVE  /\ Over(c)
             /\ \A d \in Condition : /\ Due(d)' <=> Due(d)
                                     /\ Over(d)' <=> Over(d) /\ d # c
  BY <1>1, <1>2, <1>5, KindsDistinct DEF Due, Over
<1> QED BY <1>1, <1>3, <1>4, <1>5 DEF Hears

LEMMA EmitKeepsView ==
  ASSUME TypeOK, View, Emit, ~canceled
  PROVE  View'
<1> DEFINE k == Earliest(pending)
<1>1. /\ k \in pending /\ pending' = pending \ {k} /\ Hears(k)
      /\ k \in {"FSD", "LOWBATT"} => pc = "critical"
      /\ k \in {"COMMBAD", "NOCOMM"} => pc \in {"bad", "escalate"}
      /\ k \notin {"FSD", "LOWBATT", "COMMBAD", "NOCOMM"} => pc = "edges"
      /\ UNCHANGED <<pc, op, conn, prev, snap, confirmed, started, commBad,
                     noCommEmitted>>
  BY EmitPlace
<1>2. ConditionsInv'
  <2>1. Observed' = Observed /\ \A c \in Condition : Target(c)' <=> Target(c)
    BY <1>1 DEF Target, Announced, Observed
  <2>2. /\ \A f \in Fault : confirmed[f] => f \in Observed
        /\ \A c \in Condition :
             /\ Due(c)  => Target(c) /\ ~Over(c)
             /\ Over(c) => ~Target(c)
             /\ c \in active <=> Over(c) \/ (Target(c) /\ ~Due(c))
    BY DEF View, ConditionsInv
  <2>3. \A c \in Condition :
             /\ Due(c)'  => Target(c) /\ ~Over(c)'
             /\ Over(c)' => ~Target(c)
             /\ c \in active' <=> Over(c)' \/ (Target(c) /\ ~Due(c)')
    <3> HIDE DEF k
    <3> QED BY <2>2, EmitOne, Zenon DEF k
  <2> QED BY <1>1, <2>1, <2>2, <2>3 DEF ConditionsInv
<1>3. /\ comm' = IF k = "COMMBAD" THEN "bad"
                 ELSE IF k = "NOCOMM" THEN "lost"
                 ELSE IF k = "COMMOK" THEN "ok" ELSE comm
      /\ up' = IF k = "STARTUP" THEN TRUE ELSE up
  <2>1. Audible \subseteq Condition
    BY DEF Audible, Condition, Fault
  <2> HIDE DEF k
  <2> QED BY <1>1, <2>1, KindsDistinct DEF Hears
<1>4. CommInv'
  <2>1. /\ "COMMBAD" \in pending => comm = "ok" /\ "NOCOMM" \notin pending
        /\ pc \in {"bad", "escalate"} => pending \subseteq {"COMMBAD", "NOCOMM"}
        /\ pc = "edges" => {"COMMBAD", "NOCOMM"} \cap pending = {}
        /\ pc = "critical" => pending \subseteq {"FSD", "LOWBATT"}
        /\ pc \notin {"critical", "bad", "escalate", "edges"} => pending = {}
    BY DEF View, CommInv, PendingInv
  <2>2. CASE k \in {"COMMBAD", "NOCOMM"}
    BY <1>1, <1>3, <2>1, <2>2 DEF View, CommInv, CommState
  <2>3. CASE k = "COMMOK"
    BY <1>1, <1>3, <2>1, <2>3 DEF View, CommInv, CommState
  <2>4. CASE k \notin {"COMMBAD", "NOCOMM", "COMMOK"}
    BY <1>1, <1>3, <2>1, <2>4 DEF View, CommInv, CommState
  <2> QED BY <2>2, <2>3, <2>4
<1>5. StartInv'
  BY <1>1, <1>3 DEF View, StartInv
<1>6. PendingInv'
  BY <1>1 DEF View, PendingInv
<1>7. ControlInv'
  BY <1>1 DEF View, ControlInv
<1> QED BY <1>2, <1>4, <1>5, <1>6, <1>7 DEF View

\* With everything emitted the view is the snapshot, which becomes m.prev.
LEMMA CommitKeepsView ==
  ASSUME TypeOK, View, Commit
  PROVE  View'
<1>1. /\ pc = "edges" /\ pending = {} /\ pending' = {}
      /\ pc' \in {"failed", "select", "loop"} /\ prev' = snap.tokens
      /\ UNCHANGED <<confirmed, started, up, comm, active, conn>>
  BY DEF Commit, streamVars, connVars
<1>2. ConditionsInv'
  <2>1. Observed' = Observed /\ \A c \in Condition : Target(c)' <=> Target(c)
    BY <1>1 DEF Target, Announced, Observed
  <2>2. \A c \in Condition : (Due(c)' <=> Due(c)) /\ (Over(c)' <=> Over(c))
    BY <1>1 DEF Due, Over
  <2> QED BY <1>1, <2>1, <2>2 DEF View, ConditionsInv
<1>3. ~commBad' /\ ~noCommEmitted' /\ comm' = "ok"
  <2>1. comm = "ok" /\ (noCommEmitted => commBad)
    BY <1>1 DEF View, CommInv
  <2>2. CASE op = "tryConnect"
    BY <1>1, <2>1, <2>2 DEF Commit
  <2>3. CASE op # "tryConnect"
    <3>1. ~commBad
      BY <1>1, <2>3 DEF View, ControlInv, CommInv, TypeOK
    <3> QED BY <1>1, <2>1, <2>3, <3>1 DEF Commit, commVars
  <2> QED BY <2>2, <2>3
<1>4. CommInv'
  BY <1>1, <1>3 DEF CommInv, CommState
<1>5. StartInv'
  BY <1>1 DEF View, StartInv
<1>6. PendingInv'
  BY <1>1 DEF PendingInv
<1>7. ControlInv'
  BY <1>1 DEF View, ControlInv, Commit
<1> QED BY <1>2, <1>4, <1>5, <1>6, <1>7 DEF View

LEMMA ViewStep ==
  ASSUME TypeOK, Inv, [Next]_vars
  PROVE  Inv'
<1> SUFFICES ASSUME ~canceled' PROVE View'
  BY DEF Inv
<1>1. CASE Cancel
  BY <1>1 DEF Cancel
<1>2. CASE UNCHANGED vars
  <2>1. View
    BY <1>2 DEF Inv, vars
  <2>2. ConditionsInv'
    BY <1>2, <2>1, ConditionsKept
       DEF View, vars, diffVars, workVars, streamVars
  <2>3. CommInv' /\ StartInv' /\ PendingInv' /\ ControlInv'
    BY <1>2, <2>1 DEF View, CommInv, CommState, StartInv, PendingInv,
       ControlInv, vars, commVars, diffVars, workVars, streamVars, connVars
  <2> QED BY <2>2, <2>3 DEF View
<1>3. CASE ~Cancel /\ ~(UNCHANGED vars)
  <2>1. canceled' = canceled
    BY <1>3 DEF Next, Loop, Timers, Replies, Failures, Handler, Stopped,
       CloseOnCancel, Tick, BeginWait, BeginConnect, Resume, Stop, PollTick,
       RefreshTick, RetryTimer, NoCommTimer, DialOk, GetStatus, ListStatus,
       ListLacksStatus, AlarmRead, CallFails, AlarmReadFails, CriticalDone,
       Edges, Emit, Commit, ConnErr, Marked, Observe, OtherEdges
  <2>2. ~canceled /\ View
    BY <2>1 DEF Inv
  <2>3. CASE Moves
    BY <2>2, <2>3, MovesKeepView
  <2>4. CASE NoCommTimer \/ ConnErr
    BY <2>2, <2>4, MarkKeepsView
  <2>5. ASSUME NEW status \in Statuses, NEW alarm \in BOOLEAN,
               GetStatus(status) \/ ListStatus(status, alarm)
        PROVE  View'
    <3>1. CASE GetStatus(status)
      BY <2>2, <3>1, GivenTexts, ObserveKeepsView DEF GetStatus
    <3>2. CASE ListStatus(status, alarm)
      BY <2>2, <3>2, GivenTexts, ObserveKeepsView DEF ListStatus
    <3> QED BY <2>5, <3>1, <3>2
  <2>6. CASE Edges
    BY <2>2, <2>6, OtherEdgesKeepView DEF Edges
  <2>7. ASSUME NEW alarm \in BOOLEAN, AlarmRead(alarm)
        PROVE  View'
    <3>1. snap'.tokens = snap.tokens
      BY <2>7 DEF AlarmRead, TypeOK, Snapshots
    <3>2. pending = {} /\ pc = "alarm"
      BY <2>2, <2>7 DEF AlarmRead, View, PendingInv
    <3> QED BY <2>2, <2>7, <3>1, <3>2, OtherEdgesKeepView DEF AlarmRead
  <2>8. CASE AlarmReadFails
    <3>1. pending = {} /\ pc = "alarm"
      BY <2>2, <2>8 DEF AlarmReadFails, View, PendingInv
    <3> QED BY <2>2, <2>8, <3>1, OtherEdgesKeepView DEF AlarmReadFails
  <2>9. CASE Emit
    BY <2>2, <2>9, EmitKeepsView
  <2>10. CASE Commit
    BY <2>2, <2>10, CommitKeepsView
  <2>11. ~Stop /\ ~CloseOnCancel
    BY <2>2 DEF Stop, CloseOnCancel
  <2> QED
    BY <1>3, <2>3, <2>4, <2>5, <2>6, <2>7, <2>8, <2>9, <2>10, <2>11
    DEF Next, Loop, Timers, Replies, Failures, Handler, Stopped, Moves
<1> QED BY <1>1, <1>2, <1>3

\* The view and the queued events always add up to the last observation.
THEOREM ViewInvariant == Spec => []Inv
<1>1. Init => Inv
  BY ViewInit DEF Inv
<1>2. TypeOK /\ Inv /\ [Next]_vars => Inv'
  BY ViewStep
<1> QED BY <1>1, <1>2, TypeCorrect, PTL DEF Spec

-----------------------------------------------------------------------------
(***************************************************************************)
(* What follows from the invariant.                                        *)
(***************************************************************************)

\* Between two snapshots the subscriber's view is the last observation: no
\* edge is lost or invented over any sequence of polls, failures, reconnects.
THEOREM SubscriberAlwaysInformed == Spec => []SubscriberInformed
<1>1. TypeOK /\ Inv => SubscriberInformed
  <2> SUFFICES ASSUME TypeOK, View, Settled
               PROVE  /\ active = {c \in Conditions(prev) :
                                     c \in Fault => confirmed[c]}
                      /\ comm = CommState
                      /\ up <=> started
    BY DEF Inv, SubscriberInformed, CommState
  <2>1. pending = {} /\ pc \notin {"critical", "alarm", "edges"}
    BY DEF View, PendingInv, Settled
  <2>2. comm = CommState /\ (up <=> started)
    BY <2>1 DEF View, CommInv, StartInv
  <2>3. \A c \in Condition : c \in active <=> Announced(c, prev)
    BY <2>1 DEF View, ConditionsInv, Due, Over, Target, Observed
  <2>4. active \subseteq Condition /\ Conditions(prev) \subseteq Condition
    BY DEF TypeOK, Conditions
  <2> QED BY <2>2, <2>3, <2>4 DEF Announced
<1> QED BY <1>1, TypeCorrect, ViewInvariant, PTL

\* FSD and LOWBATT have been dispatched before the alarm text is read and
\* before any other event of the same snapshot.
THEOREM ShutdownAlwaysAlertedFirst == Spec => []ShutdownAlertedFirst
<1>1. TypeOK /\ Inv => ShutdownAlertedFirst
  <2> SUFFICES ASSUME TypeOK, View, pc \in {"alarm", "edges"},
                      NEW c \in Shutdown, c \in Conditions(snap.tokens)
               PROVE  c \in active
    BY DEF Inv, ShutdownAlertedFirst
  <2>1. c \in Condition /\ c \notin Fault
    BY ConditionClasses
  <2>2. ~Due(c)
    <3>1. pending \cap {"FSD", "LOWBATT"} = {}
      BY DEF View, PendingInv
    <3> QED BY <2>1, <3>1, KindsDistinct DEF Due
  <2>3. Target(c)
    BY <2>1 DEF Target, Announced, Observed
  <2> QED BY <2>1, <2>2, <2>3 DEF View, ConditionsInv
<1> QED BY <1>1, TypeCorrect, ViewInvariant, PTL

\* EventStream speaks of the same conditions.
LEMMA SameVocabulary ==
  /\ Stream!Condition = Condition /\ Stream!Shutdown = Shutdown
  /\ Stream!Audible = Audible /\ Stream!Silent = Silent
BY DEF Stream!Condition, Stream!Shutdown, Stream!Audible, Stream!Silent,
       Stream!Toggle, Stream!Fault, Condition, Shutdown, Audible, Silent,
       Toggle, Fault

\* One emission is one step of the contract.
LEMMA EmitRefines ==
  ASSUME TypeOK, View, Emit, ~canceled
  PROVE  Stream!Next
<1> SUFFICES \/ Stream!HearCommBad \/ Stream!HearNoComm
             \/ Stream!HearCommOK \/ Stream!HearStartup
             \/ \E c \in Condition : Stream!HearEnter(c)
             \/ \E c \in Audible : Stream!HearLeave(c)
  BY SameVocabulary, Zenon DEF Emit, Stream!Next, Stream!Hear
<1> DEFINE k == Earliest(pending)
<1>1. Hears(k) /\ k \in pending
  BY EmitPlace
<1>2. /\ k = "STARTUP" => ~up /\ comm = "ok"
      /\ k = "COMMOK" => comm # "ok"
      /\ k = "COMMBAD" => comm = "ok"
      /\ k = "NOCOMM" => comm = "bad"
      /\ (pc = "edges" /\ k \notin {"COMMOK", "STARTUP"}) => up /\ comm = "ok"
  BY EdgesInOrder
<1>3. k \notin {"FSD", "LOWBATT", "COMMBAD", "NOCOMM"} => pc = "edges"
  BY EmitPlace
<1>4. CASE k \in {"COMMBAD", "NOCOMM", "COMMOK", "STARTUP"}
  <2>1. Audible \subseteq Condition
    BY DEF Audible, Condition, Fault
  <2>2. \/ k = "COMMBAD" /\ comm' = "bad" /\ UNCHANGED <<up, active>>
        \/ k = "NOCOMM" /\ comm' = "lost" /\ UNCHANGED <<up, active>>
        \/ k = "COMMOK" /\ comm' = "ok" /\ UNCHANGED <<up, active>>
        \/ k = "STARTUP" /\ up' = TRUE /\ UNCHANGED <<comm, active>>
    BY <1>1, <1>4, <2>1, KindsDistinct DEF Hears
  <2> QED BY <1>2, <2>2 DEF Stream!HearCommBad,
             Stream!HearNoComm, Stream!HearCommOK, Stream!HearStartup
<1>5. ASSUME NEW c \in Condition, k = EnterKind[c], Due(c),
             active' = active \cup {c}, UNCHANGED <<up, comm>>
      PROVE  Stream!HearEnter(c)
  <2>1. c \notin active
    BY <1>5 DEF View, ConditionsInv
  <2>2. c \in Shutdown \/ (up /\ comm = "ok")
    BY <1>2, <1>3, <1>5, KindsDistinct
  <2> QED BY <1>5, <2>1, <2>2, SameVocabulary DEF Stream!HearEnter
<1>6. ASSUME NEW c \in Audible, k = LeaveKind[c], Over(c),
             active' = active \ {c}, UNCHANGED <<up, comm>>
      PROVE  Stream!HearLeave(c)
  <2>1. c \in active
    <3>1. c \in Condition
      BY DEF Audible, Condition, Fault
    <3> QED BY <1>6, <3>1 DEF View, ConditionsInv
  <2>2. up /\ comm = "ok"
    BY <1>2, <1>3, <1>6, KindsDistinct
  <2> QED BY <1>6, <2>1, <2>2, SameVocabulary DEF Stream!HearLeave
<1> HIDE DEF k
<1> QED BY <1>4, <1>5, <1>6, EmitOne DEF k

LEMMA StepRefines ==
  ASSUME TypeOK, Inv, [Next]_vars
  PROVE  [Stream!Next]_Stream!vars
<1>1. CASE Emit
  <2>1. CASE canceled
    BY <1>1, <2>1 DEF Emit, streamVars, Stream!vars
  <2>2. CASE ~canceled
    BY <1>1, <2>2, EmitRefines DEF Inv
  <2> QED BY <2>1, <2>2
<1>2. ASSUME NEW status, NEW text, Observe(status, text)
      PROVE  Stream!Next
  <2>1. active' = active \ (active \cap (Silent \ Conditions(status)))
        /\ UNCHANGED <<up, comm, beat>>
    BY <1>2 DEF Observe
  <2>2. active \cap (Silent \ Conditions(status)) \in SUBSET (active \cap Silent)
    OBVIOUS
  <2> QED BY <2>1, <2>2, SameVocabulary DEF Stream!Next, Stream!Lapse
<1>3. CASE ~Emit /\ ~(\E status, text : Observe(status, text))
  <2>1. UNCHANGED streamVars
    BY <1>3 DEF Next, Loop, Timers, Replies, Failures, Handler, Stopped,
       Cancel, CloseOnCancel, Tick, BeginWait, BeginConnect, Resume, Stop,
       PollTick, RefreshTick, RetryTimer, NoCommTimer, DialOk, GetStatus,
       ListStatus, ListLacksStatus, AlarmRead, CallFails, AlarmReadFails,
       CriticalDone, Edges, Commit, ConnErr, Marked, OtherEdges, vars
  <2> QED BY <2>1 DEF streamVars, Stream!vars
<1> QED BY <1>1, <1>2, <1>3

\* The monitor implements the contract of its event stream.
THEOREM MonitorKeepsContract == Spec => Contract
<1>1. Init => Stream!Init
  BY DEF Init, Stream!Init
<1>2. TypeOK /\ Inv /\ [Next]_vars => [Stream!Next]_Stream!vars
  BY StepRefines
<1> QED BY <1>1, <1>2, TypeCorrect, ViewInvariant, PTL
        DEF Spec, Contract, Stream!Spec

-----------------------------------------------------------------------------
(***************************************************************************)
(* The connection.  OneConnection is inductive.                            *)
(***************************************************************************)

LEMMA ConnectionStep ==
  ASSUME OneConnection, [Next]_vars
  PROVE  OneConnection'
<1> USE DEF OneConnection, connVars
<1>1. CASE Cancel \/ CloseOnCancel \/ Tick
  BY <1>1 DEF Cancel, CloseOnCancel, Tick
<1>2. CASE Loop
  BY <1>2 DEF Loop, BeginWait, BeginConnect, Resume, Stop, PollTick, RefreshTick
<1>3. CASE Timers
  BY <1>3 DEF Timers, RetryTimer, NoCommTimer, MarkCommBad
<1>4. CASE DialOk \/ CallFails \/ CriticalDone \/ Marked
  BY <1>4 DEF DialOk, CallFails, CriticalDone, Marked
<1>5. ASSUME NEW status, NEW alarm,
             GetStatus(status) \/ ListStatus(status, alarm)
      PROVE  OneConnection'
  BY <1>5 DEF GetStatus, ListStatus, Observe
<1>6. ASSUME NEW alarm, ListLacksStatus(alarm) \/ AlarmRead(alarm)
      PROVE  OneConnection'
  BY <1>6 DEF ListLacksStatus, AlarmRead, OtherEdges
<1>7. CASE Edges \/ AlarmReadFails
  BY <1>7 DEF Edges, AlarmReadFails, OtherEdges
<1>8. CASE Emit \/ Commit
  BY <1>8 DEF Emit, Commit
<1>9. CASE ConnErr
  BY <1>9 DEF ConnErr, MarkCommBad
<1>10. CASE UNCHANGED vars
  BY <1>10 DEF vars
<1> QED BY <1>1, <1>2, <1>3, <1>4, <1>5, <1>6, <1>7, <1>8, <1>9, <1>10
        DEF Next, Replies, Failures, Handler, Stopped

\* At most one connection is open, none while the monitor dials or waits, and
\* none is left when Run has returned.
THEOREM AlwaysOneConnection == Spec => []OneConnection
<1>1. Init => OneConnection
  BY DEF Init, OneConnection
<1> QED BY <1>1, ConnectionStep, PTL DEF Spec

-----------------------------------------------------------------------------
(***************************************************************************)
(* The snapshot under construction.                                        *)
(***************************************************************************)

\* Nothing of an earlier snapshot is left when a poll begins, its text is
\* deleted from the copy it starts from, and m.prev is the tokens of m.last.
SnapInv ==
  /\ pc \in {"loop", "wait", "dial", "list", "select", "bad", "escalate",
             "stopped"} => snap = NoSnap
  /\ pc = "dial" => op = "tryConnect"
  /\ pc = "list" => op # "pollStatus"
  /\ pc = "get" /\ op = "pollStatus" => snap = NoSnap
  /\ pc = "alarm" => "ALARM" \in snap.tokens
  /\ pc \in {"critical", "alarm", "edges"} => snapAge # Never
  /\ last.tokens = prev
  /\ AlarmTextCurrent

LEMMA SnapStep ==
  ASSUME TypeOK, SnapInv, [Next]_vars
  PROVE  SnapInv'
<1> USE DEF SnapInv, AlarmTextCurrent, connVars, diffVars, workVars
<1>1. CASE Cancel \/ CloseOnCancel
  BY <1>1 DEF Cancel, CloseOnCancel
<1>2. CASE Tick
  BY <1>2, BoundsAssumption DEF Tick, Older, Never, TypeOK
<1>3. CASE Loop
  BY <1>3 DEF Loop, BeginWait, BeginConnect, Resume, Stop, PollTick,
              RefreshTick, NoSnap
<1>4. CASE Timers
  BY <1>4 DEF Timers, RetryTimer, NoCommTimer, MarkCommBad, NoSnap
<1>5. CASE DialOk \/ CallFails \/ CriticalDone \/ Marked
  BY <1>5 DEF DialOk, CallFails, CriticalDone, Marked
<1>6. ASSUME NEW status, NEW alarm,
             GetStatus(status) \/ ListStatus(status, alarm)
      PROVE  SnapInv'
  <2>1. CASE GetStatus(status)
    BY <2>1 DEF GetStatus, Observe, Deleted, Never
  <2>2. CASE ListStatus(status, alarm)
    BY <2>2 DEF ListStatus, Observe, Text, Never
  <2> QED BY <1>6, <2>1, <2>2
<1>7. ASSUME NEW alarm, ListLacksStatus(alarm) \/ AlarmRead(alarm)
      PROVE  SnapInv'
  <2>1. CASE ListLacksStatus(alarm)
    BY <2>1 DEF ListLacksStatus, Text, NoSnap
  <2>2. CASE AlarmRead(alarm)
    BY <2>2 DEF AlarmRead, OtherEdges, TypeOK, Snapshots
  <2> QED BY <1>7, <2>1, <2>2
<1>8. CASE Edges \/ AlarmReadFails
  BY <1>8 DEF Edges, AlarmReadFails, OtherEdges
<1>9. CASE Emit
  BY <1>9 DEF Emit
<1>10. CASE Commit
  BY <1>10 DEF Commit, NoSnap
<1>11. CASE ConnErr
  BY <1>11 DEF ConnErr, MarkCommBad, NoSnap
<1>12. CASE UNCHANGED vars
  BY <1>12 DEF vars
<1> QED BY <1>1, <1>2, <1>3, <1>4, <1>5, <1>6, <1>7, <1>8, <1>9, <1>10,
           <1>11, <1>12
        DEF Next, Replies, Failures, Handler, Stopped

LEMMA SnapAlways == Spec => []SnapInv
<1>1. Init => SnapInv
  BY DEF Init, SnapInv, AlarmTextCurrent, NoSnap
<1>2. TypeOK /\ SnapInv /\ [Next]_vars => SnapInv'
  BY SnapStep
<1> QED BY <1>1, <1>2, TypeCorrect, PTL DEF Spec

\* No snapshot, dispatched or kept, shows an alarm text read for an earlier
\* one, and a polled one shows a text only while ALARM is asserted.
THEOREM AlarmTextAlwaysCurrent == Spec => []AlarmTextCurrent
<1>1. SnapInv => AlarmTextCurrent
  BY DEF SnapInv
<1> QED BY <1>1, SnapAlways, PTL

-----------------------------------------------------------------------------
(***************************************************************************)
(* The debounce windows.  Outside a snapshot the code's stamp and the      *)
(* history agree: a fault of m.prev has been observed for as long as its   *)
(* stamp says, another has no stamp and is not confirmed.                  *)
(***************************************************************************)

Between == pc \notin {"critical", "alarm", "edges"}

WindowInv ==
  \A f \in Fault :
    /\ confirmed[f] => f \in Observed
    /\ Between =>
         IF f \in prev THEN firstSeen[f] = held[f] /\ held[f] # Never
                       ELSE firstSeen[f] = Never
    /\ pc \in {"critical", "alarm"} /\ f \in snap.tokens =>
         SeenFor(f) = held[f] /\ held[f] # Never
    /\ pc = "edges" =>
         IF f \in snap.tokens THEN firstSeen[f] = held[f] /\ held[f] # Never
                              ELSE firstSeen[f] = Never

\* Nothing the windows depend on has moved.
LEMMA WindowKept ==
  ASSUME WindowInv, UNCHANGED <<prev, firstSeen, confirmed, held>>,
         \/ UNCHANGED <<pc, snap, snapAge>>
         \/ {pc, pc'} \cap {"critical", "alarm", "edges"} = {}
         \/ pc = "critical" /\ pc' = "alarm" /\ UNCHANGED <<snap, snapAge>>
  PROVE  WindowInv'
BY DEF WindowInv, Between, Observed, SeenFor

\* Time passes for the stamp and for the history alike.
LEMMA WindowTick ==
  ASSUME TypeOK, SnapInv, WindowInv, Tick
  PROVE  WindowInv'
<1> SUFFICES ASSUME NEW f \in Fault
             PROVE  WindowInv!(f)'
  BY DEF WindowInv
<1>1. /\ UNCHANGED <<pc, prev, snap, confirmed>>
      /\ firstSeen'[f] = Older(firstSeen[f]) /\ held'[f] = Older(held[f])
      /\ snapAge' = Older(snapAge)
  BY DEF Tick
<1>2. \A a \in Age \cup {Never} : Older(a) = Never <=> a = Never
  BY BoundsAssumption DEF Older, Age, Never
<1>3. /\ firstSeen[f] \in Age \cup {Never} /\ held[f] \in Age \cup {Never}
  BY DEF TypeOK
<1>4. SeenFor(f)' = Older(SeenFor(f))
  BY <1>1, <1>2, <1>3 DEF SeenFor
<1> QED BY <1>1, <1>2, <1>3, <1>4 DEF WindowInv, Between, Observed

\* A snapshot starts the window of a fault that is new or comes after an
\* outage, and leaves the others running.
LEMMA WindowObserve ==
  ASSUME TypeOK, WindowInv, Between,
         NEW status, NEW text, Observe(status, text)
  PROVE  WindowInv'
<1> DEFINE resumed == op = "tryConnect" /\ commBad
<1> SUFFICES ASSUME NEW f \in Fault
             PROVE  WindowInv!(f)'
  BY DEF WindowInv
<1>1. /\ pc' = "critical" /\ snap'.tokens = status /\ snapAge' = 0
      /\ UNCHANGED <<prev, confirmed>>
      /\ firstSeen'[f] = IF resumed THEN Never ELSE firstSeen[f]
      /\ f \in status =>
           held'[f] = IF f \in prev /\ ~resumed THEN held[f] ELSE 0
  BY DEF Observe, TypeOK
<1>2. /\ confirmed[f] => f \in prev
      /\ IF f \in prev THEN firstSeen[f] = held[f] /\ held[f] # Never
                       ELSE firstSeen[f] = Never
  BY DEF WindowInv, Observed, Between
<1> HIDE DEF resumed
<1> QED BY <1>1, <1>2 DEF Observed, Between, SeenFor, Never

\* emitOtherEdges stamps what it sees and forgets what has gone.
LEMMA WindowEdges ==
  ASSUME TypeOK, WindowInv, pc \in {"critical", "alarm"}, OtherEdges,
         snap'.tokens = snap.tokens
  PROVE  WindowInv'
<1> SUFFICES ASSUME NEW f \in Fault
             PROVE  WindowInv!(f)'
  BY DEF WindowInv
<1>1. /\ pc' = "edges" /\ UNCHANGED held
      /\ firstSeen'[f] = IF f \in snap.tokens THEN SeenFor(f) ELSE Never
      /\ confirmed'[f] => f \in snap.tokens
  BY DEF OtherEdges
<1>2. f \in snap.tokens => SeenFor(f) = held[f] /\ held[f] # Never
  BY DEF WindowInv
<1> QED BY <1>1, <1>2 DEF Observed, Between

LEMMA WindowStep ==
  ASSUME TypeOK, SnapInv, WindowInv, [Next]_vars
  PROVE  WindowInv'
<1> USE DEF diffVars, workVars
<1>1. CASE Cancel \/ CloseOnCancel \/ Loop \/ Timers
  BY <1>1, WindowKept
  DEF Cancel, CloseOnCancel, Loop, BeginWait, BeginConnect, Resume, Stop,
      PollTick, RefreshTick, Timers, RetryTimer, NoCommTimer, MarkCommBad
<1>2. CASE Tick
  BY <1>2, WindowTick
<1>3. CASE DialOk \/ CallFails \/ CriticalDone \/ Marked \/ Emit
  BY <1>3, WindowKept DEF DialOk, CallFails, CriticalDone, Marked, Emit
<1>4. ASSUME NEW status, NEW alarm,
             GetStatus(status) \/ ListStatus(status, alarm)
      PROVE  WindowInv'
  BY <1>4, WindowObserve DEF GetStatus, ListStatus, Between
<1>5. ASSUME NEW alarm, ListLacksStatus(alarm)
      PROVE  WindowInv'
  BY <1>5, WindowKept DEF ListLacksStatus
<1>6. ASSUME NEW alarm, AlarmRead(alarm)
      PROVE  WindowInv'
  <2>1. snap'.tokens = snap.tokens
    BY <1>6 DEF AlarmRead, TypeOK, Snapshots
  <2> QED BY <1>6, <2>1, WindowEdges DEF AlarmRead
<1>7. CASE Edges \/ AlarmReadFails
  BY <1>7, WindowEdges DEF Edges, AlarmReadFails
<1>8. CASE Commit
  <2>1. /\ pc = "edges" /\ pc' \notin {"critical", "alarm", "edges"}
        /\ prev' = snap.tokens /\ UNCHANGED <<firstSeen, confirmed, held>>
    BY <1>8 DEF Commit
  <2> QED BY <2>1 DEF WindowInv, Observed, Between
<1>9. CASE ConnErr
  BY <1>9, WindowKept DEF ConnErr, MarkCommBad
<1>10. CASE UNCHANGED vars
  BY <1>10, WindowKept DEF vars
<1> QED BY <1>1, <1>2, <1>3, <1>4, <1>5, <1>6, <1>7, <1>8, <1>9, <1>10
        DEF Next, Replies, Failures, Handler, Stopped

LEMMA WindowAlways == Spec => []WindowInv
<1>1. Init => WindowInv
  BY DEF Init, WindowInv, Observed, Between
<1>2. TypeOK /\ SnapInv /\ WindowInv /\ [Next]_vars => WindowInv'
  BY WindowStep
<1> QED BY <1>1, <1>2, TypeCorrect, SnapAlways, PTL DEF Spec

\* A fault is confirmed exactly when it has been observed for its window.
THEOREM DebounceAlwaysExact == Spec => DebounceExact
<1>1. ASSUME TypeOK, WindowInv, Next, pc' = "edges", pc # "edges"
      PROVE  ConfirmsExactly
  <2>1. OtherEdges /\ pc \in {"critical", "alarm"} /\ snap'.tokens = snap.tokens
    BY <1>1
    DEF Next, Loop, Timers, Replies, Failures, Handler, Stopped, Cancel,
        CloseOnCancel, Tick, BeginWait, BeginConnect, Resume, Stop, PollTick,
        RefreshTick, RetryTimer, NoCommTimer, MarkCommBad, DialOk, CallFails,
        ListLacksStatus, ListStatus, GetStatus, Observe, CriticalDone, Edges,
        AlarmRead, AlarmReadFails, Emit, Commit, ConnErr, Marked, vars,
        TypeOK, Snapshots
  <2> SUFFICES ASSUME NEW f \in Fault
               PROVE  confirmed'[f] <=>
                        /\ f \in snap'.tokens
                        /\ confirmed[f] \/ held[f] - snapAge >= Debounce[f]
    BY DEF ConfirmsExactly
  <2>2. confirmed'[f] <=> f \in snap.tokens /\ (confirmed[f] \/ f \in Ripe)
    BY <2>1 DEF OtherEdges
  <2>3. f \in snap.tokens => SeenFor(f) = held[f]
    BY <1>1, <2>1 DEF WindowInv
  <2> QED BY <2>1, <2>2, <2>3 DEF Ripe
<1>2. TypeOK /\ WindowInv /\ [Next]_vars
        => [pc' = "edges" /\ pc # "edges" => ConfirmsExactly]_vars
  BY <1>1
<1> QED BY <1>2, TypeCorrect, WindowAlways, PTL DEF Spec, DebounceExact

-----------------------------------------------------------------------------
(***************************************************************************)
(* The payload.  What is queued is explained by the two snapshots an event *)
(* carries, and stays explained until it is sent.                          *)
(***************************************************************************)

PayloadInv ==
  pc \in {"critical", "edges"} =>
    \A c \in Condition :
      /\ Due(c)  => /\ c \in Conditions(snap.tokens)
                    /\ c \in Fault \/ c \notin Conditions(prev)
      /\ Over(c) => c \in Conditions(prev) \ Conditions(snap.tokens)

LEMMA PayloadKept ==
  ASSUME PayloadInv, pending' \subseteq pending, UNCHANGED <<pc, prev>>,
         snap'.tokens = snap.tokens
  PROVE  PayloadInv'
BY DEF PayloadInv, Due, Over

LEMMA PayloadEdges ==
  ASSUME WindowInv, pc \in {"critical", "alarm"}, OtherEdges,
         snap'.tokens = snap.tokens
  PROVE  PayloadInv'
<1> SUFFICES ASSUME NEW c \in Condition
             PROVE  /\ Due(c)' => /\ c \in Conditions(snap.tokens)
                                  /\ c \in Fault \/ c \notin Conditions(prev)
                    /\ Over(c)' => c \in Conditions(prev) \ Conditions(snap.tokens)
  BY DEF PayloadInv, OtherEdges
<1>1. \A f \in Fault : confirmed[f] => f \in prev
  BY DEF WindowInv, Observed
<1>2. CASE c \in Shutdown
  <2>1. c \notin Toggle \cup Fault \cup {"OL", "OB"}
    BY <1>2, ConditionClasses DEF Shutdown
  <2> QED BY <2>1, OtherEdgesQueue DEF Ripe, Fault
<1>3. CASE c \notin Shutdown
  BY <1>1, <1>3, TokenConditions, OtherEdgesQueue DEF Ripe, Fault
<1> QED BY <1>2, <1>3

LEMMA PayloadStep ==
  ASSUME TypeOK, WindowInv, PayloadInv, [Next]_vars
  PROVE  PayloadInv'
<1> USE DEF diffVars, workVars
<1>1. CASE Cancel \/ CloseOnCancel \/ Tick \/ Emit \/ UNCHANGED vars
  BY <1>1, PayloadKept DEF Cancel, CloseOnCancel, Tick, Emit, vars
<1>2. ASSUME NEW status, NEW text, Observe(status, text)
      PROVE  PayloadInv'
  BY <1>2, CriticalQueue DEF Observe, PayloadInv
<1>3. CASE Edges \/ AlarmReadFails
  BY <1>3, PayloadEdges DEF Edges, AlarmReadFails
<1>4. ASSUME NEW alarm, AlarmRead(alarm)
      PROVE  PayloadInv'
  <2>1. snap'.tokens = snap.tokens
    BY <1>4 DEF AlarmRead, TypeOK, Snapshots
  <2> QED BY <1>4, <2>1, PayloadEdges DEF AlarmRead
<1>5. CASE pc' \notin {"critical", "edges"}
  BY <1>5 DEF PayloadInv
<1>6. CASE Loop \/ Timers \/ DialOk \/ CallFails \/ CriticalDone \/ Commit
             \/ ConnErr \/ Marked \/ \E alarm : ListLacksStatus(alarm)
  <2>1. pc' \notin {"critical", "edges"}
    BY <1>6
    DEF Loop, BeginWait, BeginConnect, Resume, Stop, PollTick, RefreshTick,
        Timers, RetryTimer, NoCommTimer, MarkCommBad, DialOk, CallFails,
        CriticalDone, Commit, ConnErr, Marked, ListLacksStatus
  <2> QED BY <1>5, <2>1
<1> QED BY <1>1, <1>2, <1>3, <1>4, <1>6
        DEF Next, Replies, Failures, Handler, Stopped, GetStatus, ListStatus

LEMMA PayloadAlways == Spec => []PayloadInv
<1>1. Init => PayloadInv
  BY DEF Init, PayloadInv
<1>2. TypeOK /\ WindowInv /\ PayloadInv /\ [Next]_vars => PayloadInv'
  BY PayloadStep
<1> QED BY <1>1, <1>2, TypeCorrect, WindowAlways, PTL DEF Spec

\* An event and the snapshots it carries agree: what is announced holds now
\* and did not hold in Previous, unless it was debounced; what is announced as
\* over held in Previous and does not hold now.
THEOREM PayloadAlwaysAgrees == Spec => PayloadAgrees
<1>1. ASSUME TypeOK, SnapInv, PayloadInv, Next, pc \in {"critical", "edges"}
      PROVE  EventExplained
  <2>1. CASE Emit
    <3> DEFINE k == Earliest(pending)
    <3>1. /\ k \in pending
          /\ UNCHANGED snap /\ last.tokens = prev
          /\ active' = active \/ Hears(k)
      <4>1. pending \in SUBSET Kind /\ pending # {}
        BY <1>1, <2>1 DEF Emit, TypeOK
      <4> QED BY <1>1, <2>1, <4>1, EarliestIsFirst DEF Emit, streamVars, SnapInv
    <3> HIDE DEF k
    <3>2. ASSUME NEW c \in active' \ active
          PROVE  c \in Condition /\ Due(c)
      BY <3>1, <3>2, Zenon DEF Hears, Due
    <3>3. ASSUME NEW c \in active \ active'
          PROVE  c \in Audible /\ Over(c)
      BY <3>1, <3>3, Zenon DEF Hears, Over
    <3>4. Audible \subseteq Condition
      BY ConditionClasses
    <3> QED BY <1>1, <3>1, <3>2, <3>3, <3>4 DEF EventExplained, PayloadInv
  <2>2. CASE ~Emit
    <3>1. active' = active
      BY <1>1, <2>2
      DEF Next, Loop, Timers, Replies, Failures, Handler, Stopped, Cancel,
          CloseOnCancel, Tick, BeginWait, BeginConnect, Resume, Stop, PollTick,
          RefreshTick, RetryTimer, NoCommTimer, DialOk, CallFails,
          ListLacksStatus, ListStatus, GetStatus, CriticalDone, Edges,
          OtherEdges, AlarmRead, AlarmReadFails, Commit, ConnErr, Marked, vars,
          streamVars
    <3> QED BY <3>1 DEF EventExplained
  <2> QED BY <2>1, <2>2
<1>2. TypeOK /\ SnapInv /\ PayloadInv /\ [Next]_vars
        => [(pc \in {"critical", "edges"}) => EventExplained]_vars
  BY <1>1
<1> QED BY <1>2, TypeCorrect, SnapAlways, PayloadAlways, PTL
        DEF Spec, PayloadAgrees

-----------------------------------------------------------------------------
(***************************************************************************)
(* The pauses between the dials of an outage.  The code doubles a local    *)
(* and caps it; the history counts retries.  Both agree, and a dial that   *)
(* does not wait is the first one: a monitor that holds no connection, has *)
(* started and is not in an outage is one whose context is cancelled.      *)
(***************************************************************************)

\* The subsets of n numbers are counted by 2^n, and one number more doubles
\* them: one is without it, one with it.
LEMMA PowerDoubles ==
  ASSUME NEW n \in Nat
  PROVE  2^n \in Nat /\ 2^(n + 1) = 2 * 2^n
<1> DEFINE A == SUBSET (1 .. n)
           B == {s \cup {n + 1} : s \in A}
<1>1. \A m \in Nat : /\ IsFiniteSet(SUBSET (1 .. m))
                     /\ Cardinality(SUBSET (1 .. m)) = 2^m
  <2> TAKE m \in Nat
  <2>1. IsFiniteSet(1 .. m) /\ Cardinality(1 .. m) = m
    BY FS_Interval
  <2> QED BY <2>1, FS_SUBSET
<1>2. IsFiniteSet(A) /\ Cardinality(A) = 2^n
  BY <1>1
<1>3. IsFiniteSet(B) /\ Cardinality(B) = Cardinality(A)
  <2> DEFINE f == [s \in A |-> s \cup {n + 1}]
  <2>1. n + 1 \notin 1 .. n
    OBVIOUS
  <2>2. f \in Bijection(A, B)
    <3>1. \A s, t \in A : s \cup {n + 1} = t \cup {n + 1} => s = t
      BY <2>1
    <3>2. f \in [A -> B] /\ DOMAIN f = A
      OBVIOUS
    <3>3. \A s \in A : f[s] = s \cup {n + 1}
      OBVIOUS
    <3>4. \A t \in B : \E s \in A : f[s] = t
      BY <3>3
    <3> HIDE DEF A, B, f
    <3>5. \A s, t \in A : f[s] = f[t] => s = t
      BY <3>1, <3>3
    <3> QED BY <3>2, <3>4, <3>5 DEF Bijection, Injection, Surjection, IsInjective
  <2>3. ExistsBijection(A, B)
    BY <2>2 DEF ExistsBijection
  <2> HIDE DEF A, B
  <2> QED BY <1>2, <2>3, FS_Bijection
<1>4. SUBSET (1 .. n + 1) = A \cup B
  <2>1. 1 .. n + 1 = (1 .. n) \cup {n + 1}
    OBVIOUS
  <2>2. ASSUME NEW t \in SUBSET (1 .. n + 1) PROVE t \in A \cup B
    <3>1. CASE n + 1 \in t
      <4>1. t \ {n + 1} \in A /\ t = (t \ {n + 1}) \cup {n + 1}
        BY <2>1, <3>1
      <4> QED BY <4>1
    <3> QED BY <2>1, <3>1
  <2>3. A \cup B \subseteq SUBSET (1 .. n + 1)
    BY <2>1
  <2> QED BY <2>2, <2>3
<1>5. A \cap B = {}
  <2>1. n + 1 \notin 1 .. n
    OBVIOUS
  <2> QED BY <2>1
<1>6. Cardinality(A \cup B) = Cardinality(A) + Cardinality(B)
  <2>1. Cardinality({}) = 0
    BY FS_EmptySet
  <2> HIDE DEF A, B
  <2>2. Cardinality(A) \in Nat /\ Cardinality(B) \in Nat
    BY <1>2, <1>3, FS_CardinalityType
  <2> QED BY <1>2, <1>3, <1>5, <2>1, <2>2, FS_Union
<1>7. 2^(n + 1) = Cardinality(A \cup B)
  <2>1. n + 1 \in Nat
    OBVIOUS
  <2>2. Cardinality(SUBSET (1 .. n + 1)) = 2^(n + 1)
    BY ONLY <1>1, <2>1, Zenon
  <2> HIDE DEF A, B
  <2> QED BY <1>4, <2>2
<1>8. 2^n \in Nat
  <2> HIDE DEF A
  <2> QED BY <1>2, FS_CardinalityType
<1> HIDE DEF A, B
<1> QED BY <1>2, <1>3, <1>6, <1>7, <1>8

LEMMA PowerOfZero == 2^0 = 1
<1>1. IsFiniteSet({}) /\ Cardinality({}) = 0
  BY FS_EmptySet
<1>2. Cardinality(SUBSET {}) = 2^0
  BY <1>1, FS_SUBSET
<1>3. SUBSET {} = {{}}
  OBVIOUS
<1> QED BY <1>2, <1>3, FS_Singleton

\* Doubling the pause owed before a retry gives the pause owed before the next.
LEMMA PauseDoubles ==
  ASSUME NEW n \in Nat
  PROVE  /\ Pause(n) \in Nat
         /\ Doubled(Pause(n)) =
              Pause(IF Pause(n) = MaxBackoff THEN n ELSE n + 1)
<1> DEFINE p == 2^n
           q == 2^(n + 1)
<1>1. p \in Nat /\ q = 2 * p
  BY PowerDoubles
<1>2. ReconnectBackoff \in Nat /\ MaxBackoff \in Nat \ {0}
  BY DurationsAssumption
<1>3. Pause(n) = IF ReconnectBackoff * p <= MaxBackoff
                 THEN ReconnectBackoff * p ELSE MaxBackoff
  BY DEF Pause
<1>4. Pause(n + 1) = IF ReconnectBackoff * q <= MaxBackoff
                     THEN ReconnectBackoff * q ELSE MaxBackoff
  BY DEF Pause
<1> HIDE DEF p, q
<1> DEFINE r == ReconnectBackoff * p
<1>5. r \in Nat /\ ReconnectBackoff * q = r * 2
  BY <1>1, <1>2, Z3
<1>6. Pause(n) = (IF r <= MaxBackoff THEN r ELSE MaxBackoff)
      /\ Pause(n + 1) = (IF r * 2 <= MaxBackoff THEN r * 2 ELSE MaxBackoff)
  BY <1>3, <1>4, <1>5
<1> HIDE DEF r
<1> QED BY <1>2, <1>5, <1>6 DEF Doubled

Disconnected == {"loop", "wait", "dial", "failed", "bad", "escalate", "stopped"}

\* The invariant: the backoff is the pause owed before the next retry, a dead
\* end without connection is an outage, the start, or a cancelled run.
PaceInv ==
  /\ retries \in Nat /\ backoff = Pause(retries)
  /\ conn = "nil" => pc \in Disconnected
  /\ conn = "nil" /\ started => commBad \/ canceled

LEMMA PaceInit ==
  ASSUME Init
  PROVE  PaceInv
<1>1. Pause(0) = ReconnectBackoff
  BY PowerOfZero, DurationsAssumption DEF Pause
<1> QED BY <1>1 DEF Init, PaceInv, Disconnected

\* A step that leaves the pauses alone, and neither closes the connection
\* nor ends an outage.
LEMMA PaceKept ==
  ASSUME PaceInv, UNCHANGED <<backoff, retries, conn, started, commBad>>,
         canceled => canceled', conn = "nil" => pc' \in Disconnected
  PROVE  PaceInv'
BY DEF PaceInv, Pause

LEMMA PaceStep ==
  ASSUME PaceInv, [Next]_vars
  PROVE  PaceInv'
<1> USE DEF connVars, diffVars, commVars, workVars, pauseVars, streamVars
<1>1. CASE UNCHANGED vars \/ Cancel \/ Tick \/ BeginWait \/ BeginConnect
           \/ Marked
  <2>1. /\ UNCHANGED <<backoff, retries, conn, started, commBad>>
        /\ canceled => canceled'
        /\ pc' = pc \/ pc' \in Disconnected
    BY <1>1 DEF vars, Cancel, Tick, BeginWait, BeginConnect, Marked,
                Disconnected
  <2> QED BY <2>1, PaceKept DEF PaceInv
<1>2. CASE PollTick \/ RefreshTick \/ Resume \/ CriticalDone
           \/ (\E alarm \in BOOLEAN : ListLacksStatus(alarm))
  <2>1. /\ UNCHANGED <<backoff, retries, conn, started, commBad, canceled>>
        /\ conn # "nil"
    BY <1>2 DEF PollTick, RefreshTick, Resume, CriticalDone, ListLacksStatus,
                PaceInv, Disconnected
  <2> QED BY <2>1, PaceKept
<1>3. CASE \/ Edges \/ AlarmReadFails
           \/ \E alarm \in BOOLEAN : AlarmRead(alarm)
           \/ \E status \in Statuses :
                GetStatus(status) \/ \E alarm \in BOOLEAN : ListStatus(status, alarm)
  <2>1. /\ UNCHANGED <<backoff, retries, conn>>
        /\ conn # "nil"
    BY <1>3 DEF Edges, AlarmRead, AlarmReadFails, OtherEdges, GetStatus,
                ListStatus, Observe, PaceInv, Disconnected
  <2> QED BY <2>1 DEF PaceInv, Pause
<1>4. CASE CloseOnCancel \/ DialOk
  <2>1. UNCHANGED <<backoff, retries>> /\ conn' # "nil"
    BY <1>4 DEF CloseOnCancel, DialOk
  <2> QED BY <2>1 DEF PaceInv, Pause
<1>5. CASE Stop
  BY <1>5 DEF Stop, PaceInv, Pause, Disconnected
<1>6. CASE RetryTimer
  <2>1. /\ retries' = IF Pause(retries) = MaxBackoff THEN retries ELSE retries + 1
        /\ backoff' = Doubled(backoff)
        /\ pc' = "dial" /\ UNCHANGED <<conn, started, commBad, canceled>>
    BY <1>6 DEF RetryTimer
  <2>2. backoff' = Pause(retries') /\ retries' \in Nat
    BY <2>1, PauseDoubles DEF PaceInv
  <2>3. backoff' = Pause(retries)'
    BY <2>2 DEF Pause
  <2> QED BY <2>1, <2>2, <2>3 DEF PaceInv, Disconnected
<1>7. CASE NoCommTimer
  BY <1>7 DEF NoCommTimer, MarkCommBad, PaceInv, Pause, Disconnected
<1>8. CASE ConnErr
  BY <1>8 DEF ConnErr, MarkCommBad, PaceInv, Pause, Disconnected
<1>9. CASE CallFails
  BY <1>9 DEF CallFails, PaceInv, Pause, Disconnected
<1>10. CASE Emit
  BY <1>10 DEF Emit, PaceInv, Pause
<1>11. CASE Commit
  <2>1. conn # "nil" /\ conn' = conn
    BY <1>11 DEF Commit, PaceInv, Disconnected
  <2>2. \/ backoff' = ReconnectBackoff /\ retries' = 0
        \/ UNCHANGED <<backoff, retries>>
    BY <1>11 DEF Commit, GoodPoll
  <2>3. Pause(0) = ReconnectBackoff
    BY PowerOfZero, DurationsAssumption DEF Pause
  <2>4. retries' \in Nat /\ backoff' = Pause(retries')
    BY <2>2, <2>3 DEF PaceInv
  <2> QED BY <2>1, <2>4 DEF PaceInv, Pause
<1> QED
  BY <1>1, <1>2, <1>3, <1>4, <1>5, <1>6, <1>7, <1>8, <1>9, <1>10, <1>11
  DEF Next, Loop, Timers, Replies, Failures, Handler, Stopped

LEMMA PaceAlways == Spec => []PaceInv
BY PaceInit, PaceStep, PTL DEF Spec

\* But for the first dial, every dial follows a pause of ReconnectBackoff
\* doubled, up to MaxBackoff, with each retry since the last good poll: for
\* every backoff, and however often a server accepts a connection and fails.
THEOREM RedialsAlwaysPaced == Spec => RedialsPaced
<1>1. ASSUME TypeOK, Inv, PaceInv, Next, pc # "dial", pc' = "dial",
             up \/ comm # "ok"
      PROVE  waited >= Pause(retries)
  <2>1. RetryTimer \/ BeginConnect \/ (Tick \/ Cancel \/ CloseOnCancel \/ Emit)
    BY <1>1 DEF Next, Loop, Timers, Replies, Failures, Handler, Stopped, vars,
       BeginWait, Resume, Stop, PollTick, RefreshTick, NoCommTimer,
       MarkCommBad, DialOk, GetStatus, ListStatus, Observe, ListLacksStatus,
       AlarmRead, AlarmReadFails, OtherEdges, CallFails, CriticalDone, Edges,
       Commit, ConnErr, Marked
  <2>2. CASE RetryTimer
    BY <1>1, <2>2 DEF RetryTimer, PaceInv
  <2>3. ASSUME BeginConnect PROVE FALSE
    <3>1. /\ pc = "loop" /\ ~canceled /\ conn = "nil" /\ ~commBad
      BY <2>3 DEF BeginConnect
    <3>2. View /\ pending = {}
      BY <1>1, <3>1 DEF Inv, View, PendingInv
    <3>3. ~started
      BY <1>1, <3>1 DEF PaceInv
    <3>4. ~up /\ comm = "ok"
      BY <3>1, <3>2, <3>3 DEF View, CommInv, CommState, StartInv
    <3> QED BY <1>1, <3>4
  <2>4. ~(Tick \/ Cancel \/ CloseOnCancel \/ Emit)
    BY <1>1 DEF Tick, Cancel, CloseOnCancel, Emit
  <2> QED BY <2>1, <2>2, <2>3, <2>4
<1>2. ASSUME TypeOK, Inv, PaceInv, [Next]_vars
      PROVE  [pc # "dial" /\ pc' = "dial" /\ (up \/ comm # "ok")
                => waited >= Pause(retries)]_vars
  BY <1>1, <1>2
<1> QED
  BY <1>2, TypeCorrect, ViewInvariant, PaceAlways, PTL DEF Spec, RedialsPaced
=============================================================================
