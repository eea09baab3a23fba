---------------------------- MODULE EventPayload ----------------------------
(***************************************************************************)
(* The Vars maps of monitor/monitor.go.  A Snapshot is copied by value and *)
(* shares its map; an Event carries two of them, Snapshot and Previous,    *)
(* and a notifier may keep both after Dispatch has returned (a goroutine   *)
(* of an SSH target, a request body).  The monitor goes on with the same   *)
(* maps.  Which events a handler emits does not matter here: at each place *)
(* where it may emit it dispatches any number, and consumers keep any.     *)
(***************************************************************************)
EXTENDS Integers

CONSTANTS
  Statuses,  \* raw values of ups.status
  Alarming,  \* those with the token ALARM
  Maps       \* bound: maps alive at a time

VARIABLES
  heap,   \* the contents of every map: its ups.status and its ups.alarm
  pc,     \* the handler: "idle", or what it does next
  snap,   \* the snapshot it builds: its Status and the place of its Vars
  last,   \* m.last
  held    \* the maps that consumers keep

vars == <<heap, pc, snap, last, held>>

-----------------------------------------------------------------------------
NoMap == "nil"

ASSUME PayloadAssumption == Alarming \subseteq Statuses /\ NoMap \notin Maps

Absent == "absent"
Blank == [status |-> Absent, alarm |-> Absent]
NoSnap == [status |-> Absent, vars |-> NoMap]

Init ==
  /\ heap = [i \in Maps |-> Blank] /\ pc = "connect"
  /\ snap = NoSnap /\ last = NoSnap /\ held = {}

\* The collector gives a map back once nobody refers to it.
Free == Maps \ (held \cup {snap.vars, last.vars})

\* A new map with the given contents becomes that of the snapshot.
Build(status, i, contents) ==
  /\ heap' = [heap EXCEPT ![i] = contents]
  /\ snap' = [status |-> status, vars |-> i]
  /\ UNCHANGED <<last, held>>

\* ListVars made a map; it may lack ups.status, which is then read alone and
\* written into it, and may list ups.alarm.
List ==
  /\ pc \in {"connect", "idle"} /\ pc' = "other"
  /\ \E s \in Statuses, a \in {Absent, "text"}, i \in Free :
       Build(s, i, [status |-> s, alarm |-> a])

\* Faulty variants of pollStatus: it writes into the map of m.last; it leaves
\* the copied status as it is.
PollInPlace ==
  /\ pc = "idle" /\ pc' = "critical"
  /\ \E s \in Statuses : Build(s, last.vars, [status |-> s, alarm |-> Absent])
PollKeepsStatus ==
  /\ pc = "idle" /\ pc' = "critical"
  /\ \E s \in Statuses, i \in Free : Build(s, i, [heap[last.vars] EXCEPT !.alarm = Absent])

\* pollStatus copies the map of m.last, sets the status in the copy and
\* deletes the alarm from it.  m.last has a map since the first connection.
Poll ==
  /\ pc = "idle" /\ pc' = "critical"
  /\ \E s \in Statuses, i \in Free :
       Build(s, i, [heap[last.vars] EXCEPT !.status = s, !.alarm = Absent])

\* emit, from any place of a handler.
Dispatch ==
  /\ pc \in {"critical", "other"}
  /\ \E kept \in SUBSET ({snap.vars, last.vars} \ {NoMap}) : held' = held \cup kept
  /\ UNCHANGED <<heap, pc, snap, last>>

\* Faulty variant: the map that critical events carried is written again.
NoClone ==
  /\ pc = "critical" /\ snap.status \in Alarming /\ pc' = "alarm"
  /\ UNCHANGED <<heap, snap, last, held>>

\* maps.Clone before the alarm is read.
Clone ==
  /\ pc = "critical" /\ snap.status \in Alarming /\ pc' = "alarm"
  /\ \E i \in Free : Build(snap.status, i, heap[snap.vars])

NoAlarm ==
  /\ pc = "critical" /\ snap.status \notin Alarming /\ pc' = "other"
  /\ UNCHANGED <<heap, snap, last, held>>

\* GetVar of ups.alarm answered, or it did not.
Alarm ==
  /\ pc = "alarm" /\ pc' = "other"
  /\ \E a \in {"text", Absent} :
       heap' = IF a = Absent THEN heap ELSE [heap EXCEPT ![snap.vars].alarm = a]
  /\ UNCHANGED <<snap, last, held>>

Commit ==
  /\ pc = "other" /\ pc' = "idle"
  /\ last' = snap /\ snap' = NoSnap
  /\ UNCHANGED <<heap, held>>

\* markCommBad, perhaps before any connection: the snapshot and Previous are
\* both m.last, which the monitor keeps.
CommBad ==
  /\ pc \in {"connect", "idle"} /\ pc' = "connect"
  /\ \E kept \in SUBSET ({last.vars} \ {NoMap}) : held' = held \cup kept
  /\ UNCHANGED <<heap, snap, last>>

\* A consumer is done with a map.
Release ==
  /\ \E i \in held : held' = held \ {i}
  /\ UNCHANGED <<heap, pc, snap, last>>

Next ==
  List \/ Poll \/ Dispatch \/ Clone \/ NoAlarm \/ Alarm \/ Commit \/ CommBad \/ Release

Spec == Init /\ [][Next]_vars
=============================================================================
