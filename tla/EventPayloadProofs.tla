------------------------- MODULE EventPayloadProofs -------------------------
(***************************************************************************)
(* Theorems about the maps that events carry, for any values of ups.status *)
(* and any number of maps, and their proofs.                               *)
(***************************************************************************)
EXTENDS EventPayloadProperties, TLAPS

Contents == [status : Statuses \cup {Absent}, alarm : {Absent, "text"}]
Snapshots == [status : Statuses \cup {Absent}, vars : Maps \cup {NoMap}]

PayloadTypes ==
  /\ heap \in [Maps -> Contents] /\ held \subseteq Maps
  /\ pc \in {"connect", "idle", "critical", "alarm", "other"}
  /\ snap \in Snapshots /\ last \in Snapshots

\* The map of a snapshot has its status.
Shows(s) == s.vars \in Maps /\ heap[s.vars].status = s.status

\* The map that pollStatus is about to write the alarm into is known to nobody.
PayloadInv ==
  /\ PayloadTypes
  /\ pc \in {"critical", "alarm", "other"} => Shows(snap)
  /\ pc = "alarm" => snap.vars \notin held \cup {last.vars}
  /\ last = NoSnap \/ Shows(last)
  /\ pc = "idle" => last.vars \in Maps

LEMMA PayloadInvInitial ==
  ASSUME Init
  PROVE  PayloadInv
<1>1. PayloadTypes
  BY DEF PayloadTypes, Contents, Snapshots, Init, NoSnap, Blank
<1>2. QED
  BY <1>1 DEF PayloadInv, Init

\* A new map leaves alone what others refer to.
LEMMA BuildIsFresh ==
  ASSUME PayloadInv, NEW s \in Statuses \cup {Absent}, NEW i \in Free, NEW k \in Contents,
         Build(s, i, k)
  PROVE  /\ heap' \in [Maps -> Contents] /\ snap' \in Snapshots
         /\ snap'.vars = i /\ snap'.status = s /\ heap'[i] = k
         /\ i \in Maps /\ i \notin held \cup {last.vars, snap.vars}
         /\ \A m \in Maps : m # i => heap'[m] = heap[m]
  BY DEF PayloadInv, PayloadTypes, Build, Free, Snapshots

\* A snapshot with a new map keeps the invariant.
LEMMA BuildKeepsInv ==
  ASSUME PayloadInv, NEW s \in Statuses \cup {Absent}, NEW i \in Free, NEW k \in Contents,
         Build(s, i, k), k.status = s,
         pc' \in {"critical", "alarm", "other"}
  PROVE  PayloadInv'
<1>1. /\ heap' \in [Maps -> Contents] /\ snap' \in Snapshots
      /\ snap'.vars = i /\ snap'.status = s /\ heap'[i] = k
      /\ i \in Maps /\ i \notin held \cup {last.vars, snap.vars}
      /\ \A m \in Maps : m # i => heap'[m] = heap[m]
  BY BuildIsFresh
<1>2. UNCHANGED <<last, held>>
  BY DEF Build
<1>3. PayloadTypes'
  BY <1>1, <1>2 DEF PayloadInv, PayloadTypes
<1>4. Shows(snap)'
  BY <1>1 DEF Shows
<1>5. (last = NoSnap \/ Shows(last))'
  BY <1>1, <1>2 DEF PayloadInv, Shows
<1>6. QED
  BY <1>1, <1>2, <1>3, <1>4, <1>5 DEF PayloadInv

LEMMA PayloadInvInductive ==
  ASSUME PayloadInv, [Next]_vars
  PROVE  PayloadInv'
<1>1. CASE List
  <2>1. PICK s \in Statuses, a \in {Absent, "text"}, i \in Free :
          Build(s, i, [status |-> s, alarm |-> a])
    BY <1>1 DEF List
  <2>2. [status |-> s, alarm |-> a] \in Contents /\ pc' = "other"
    BY <1>1 DEF Contents, List
  <2>3. QED
    BY <2>1, <2>2, BuildKeepsInv
<1>2. CASE Poll
  <2>1. PICK s \in Statuses, i \in Free :
          Build(s, i, [heap[last.vars] EXCEPT !.status = s, !.alarm = Absent])
    BY <1>2 DEF Poll
  <2> DEFINE k == [heap[last.vars] EXCEPT !.status = s, !.alarm = Absent]
  <2>2. heap[last.vars] \in Contents /\ pc' = "critical"
    BY <1>2 DEF PayloadInv, PayloadTypes, Poll
  <2>3. k \in Contents /\ k.status = s
    BY <2>2 DEF Contents
  <2> HIDE DEF k
  <2>4. Build(s, i, k)
    BY <2>1 DEF k
  <2>5. QED
    BY <2>2, <2>3, <2>4, BuildKeepsInv
<1>3. CASE Clone
  <2>1. PICK i \in Free : Build(snap.status, i, heap[snap.vars])
    BY <1>3 DEF Clone
  <2>2. /\ Shows(snap) /\ heap[snap.vars] \in Contents /\ pc' = "alarm"
        /\ snap.status \in Statuses \cup {Absent}
    BY <1>3 DEF PayloadInv, PayloadTypes, Shows, Snapshots, Clone
  <2>3. QED
    BY <2>1, <2>2, BuildKeepsInv DEF Shows
<1>4. CASE Alarm
  <2>1. snap.vars \in Maps /\ snap.vars # last.vars /\ Shows(snap)
    BY <1>4 DEF Alarm, PayloadInv, Shows
  <2>2. /\ heap' \in [Maps -> Contents]
        /\ \A m \in Maps : heap'[m].status = heap[m].status
    BY <1>4, <2>1 DEF Alarm, PayloadInv, PayloadTypes, Contents
  <2>3. QED
    BY <1>4, <2>1, <2>2 DEF Alarm, PayloadInv, PayloadTypes, Shows
<1>5. CASE Commit
  BY <1>5 DEF Commit, PayloadInv, PayloadTypes, Shows, NoSnap, Snapshots
<1>6. CASE Dispatch \/ NoAlarm \/ CommBad \/ Release \/ UNCHANGED vars
  BY <1>6 DEF Dispatch, NoAlarm, CommBad, Release, vars, PayloadInv, PayloadTypes,
              Shows, Snapshots
<1>7. QED
  BY <1>1, <1>2, <1>3, <1>4, <1>5, <1>6 DEF Next

\* Whatever is kept, by a consumer or by the monitor, is in a map that a step
\* does not write.
LEMMA KeptIsFrozen ==
  ASSUME PayloadInv, [Next]_vars,
         NEW m \in held \cup ({last.vars} \ {NoMap})
  PROVE  heap'[m] = heap[m]
<1>1. m \in Maps
  BY DEF PayloadInv, PayloadTypes, Snapshots
<1>2. CASE List \/ Poll \/ Clone
  <2>1. PICK i \in Free : \A j \in Maps \ {i} : heap'[j] = heap[j]
    BY <1>2 DEF List, Poll, Clone, Build, PayloadInv, PayloadTypes
  <2>2. QED
    BY <1>1, <2>1 DEF Free
<1>3. CASE Alarm
  BY <1>1, <1>3 DEF Alarm, PayloadInv, PayloadTypes, Contents
<1>4. CASE heap' = heap
  BY <1>4
<1>5. QED
  BY <1>2, <1>3, <1>4 DEF Next, vars, Dispatch, NoAlarm, Commit, CommBad, Release

\* The map of every snapshot shows the status of one poll, and the one that an
\* alarm is written into is known to nobody else yet.
THEOREM PayloadInvHolds == Spec => []PayloadInv
BY PayloadInvInitial, PayloadInvInductive, PTL DEF Spec

\* An event shows one poll, its Status among its Vars, in the snapshot and in
\* the one before, and nobody writes a map that a consumer or m.last keeps,
\* however many are kept and for however long (monitor.go: pollStatus,
\* pollSnapshot, emit).
THEOREM PayloadIsFrozen == Spec => PayloadStays
<1>1. PayloadInv => PayloadAgrees
  BY DEF PayloadInv, PayloadAgrees, Shows
<1>2. PayloadInv /\ [Next]_vars =>
        [\A i \in held \cup ({last.vars} \ {NoMap}) : heap'[i] = heap[i]]_vars
  BY KeptIsFrozen
<1>3. Spec => []PayloadAgrees
  BY <1>1, PayloadInvHolds, PTL
<1>4. Spec => VarsFrozen
  BY <1>2, PayloadInvHolds, PTL DEF Spec, VarsFrozen
<1>5. QED
  BY <1>3, <1>4 DEF PayloadStays
=============================================================================
