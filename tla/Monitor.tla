------------------------------ MODULE Monitor ------------------------------
(***************************************************************************)
(* monitor/monitor.go: the loop that keeps one connection to upsd, polls   *)
(* ups.status, compares successive token sets and hands events to a sink.  *)
(*                                                                         *)
(* The monitor is one goroutine.  pc names the call it is blocked in, so   *)
(* that the passage of time (Tick), the cancellation of its context        *)
(* (Cancel) and the AfterFunc that closes its connection (CloseOnCancel)   *)
(* interleave with every handler.  A handler reads the server first, then  *)
(* dispatches the events of the snapshot one by one, then commits it.      *)
(*                                                                         *)
(* Timestamps are kept as ages: the time since the stamp was taken, Never  *)
(* for the zero time.  Ages stop growing at MaxAge, which no comparison    *)
(* of the code can tell from a larger one.                                 *)
(***************************************************************************)
EXTENDS UPSEvents

CONSTANTS
  Statuses,          \* the statuses the UPS can report, sets of tokens
  ReplBattDebounce,  \* the windows, pauses and thresholds of Config
  AlarmDebounce,
  NoCommThreshold,
  ReconnectBackoff,
  MaxBackoff,        \* the const of the same name in Run
  MaxBusy,           \* bound: a handler's time from its snapshot to its end
  MaxAge             \* bound: where ages stop growing

ASSUME StatusesAssumption == Statuses \subseteq (SUBSET Token) \ {{}}

ASSUME DurationsAssumption ==
  /\ ReplBattDebounce \in Nat /\ AlarmDebounce \in Nat
  /\ NoCommThreshold \in Nat
  /\ ReconnectBackoff \in Nat \ {0}
  /\ MaxBackoff \in Nat /\ ReconnectBackoff <= MaxBackoff

ASSUME BoundsAssumption ==
  /\ MaxBusy \in Nat /\ MaxAge \in Nat
  /\ ReplBattDebounce + MaxBusy <= MaxAge
  /\ AlarmDebounce + MaxBusy <= MaxAge
  /\ NoCommThreshold <= MaxAge
  /\ MaxBackoff <= MaxAge

VARIABLES
  pc,            \* where the goroutine of Run is
  op,            \* the handler it runs
  conn,          \* m.conn: "nil", "up", or "down" once its socket is closed
  sockets,       \* connections dialled and not closed
  canceled,      \* ctx.Err() # nil
  backoff,       \* local of Run
  waited,        \* time since waitReconnect armed its retry timer
  prev,          \* m.prev
  last,          \* m.last: its tokens, and where its ups.alarm text is from
  snap,          \* the snapshot the handler is building
  snapAge,       \* age of snap.Time
  pending,       \* events the handler has still to emit
  alarmErr,      \* pollStatus lost the connection after its status read
  started,
  commBad,
  commBadSince,  \* age
  noCommEmitted,
  firstSeen,     \* ages: m.rbFirstSeen and m.alarmFirstSeen
  confirmed      \* m.rbConfirmed and m.alarmConfirmed

\* History, which no action reads.
VARIABLES
  up, comm, active, beat,  \* what the subscriber has heard, as in EventStream
  held,    \* for how long a fault has been observed without a gap
  retries  \* the pauses taken since the last good poll

connVars  == <<conn, sockets>>
diffVars  == <<prev, last, started, firstSeen, confirmed>>
commVars  == <<commBad, commBadSince, noCommEmitted>>
streamVars == <<up, comm, active, beat>>
workVars  == <<snap, snapAge, pending, alarmErr>>
pauseVars == <<backoff, waited>>
vars == <<pc, op, connVars, canceled, diffVars, commVars, workVars,
          pauseVars, streamVars, held, retries>>

-----------------------------------------------------------------------------
Never == -1
Age   == 0 .. MaxAge

Older(age) == IF age = Never \/ age = MaxAge THEN age ELSE age + 1

Debounce == [RB |-> ReplBattDebounce, ALARM |-> AlarmDebounce]

\* The ups.alarm text of a snapshot is none, one read "now", for this very
\* snapshot, or one that an "earlier" snapshot left in a copied map.
NoSnap == [tokens |-> {}, alarm |-> "none"]

Text(alarm) == IF alarm THEN "now" ELSE "none"

Init ==
  /\ pc = "loop" /\ op = "none"
  /\ conn = "nil" /\ sockets = 0
  /\ canceled = FALSE
  /\ backoff = ReconnectBackoff /\ waited = Never
  /\ prev = {} /\ last = NoSnap
  /\ snap = NoSnap /\ snapAge = Never /\ pending = {} /\ alarmErr = FALSE
  /\ started = FALSE
  /\ commBad = FALSE /\ commBadSince = Never /\ noCommEmitted = FALSE
  /\ firstSeen = [f \in Fault |-> Never]
  /\ confirmed = [f \in Fault |-> FALSE]
  /\ up = FALSE /\ comm = "ok" /\ active = {} /\ beat = FALSE
  /\ held = [f \in Fault |-> Never]
  /\ retries = 0

-----------------------------------------------------------------------------
\* The environment: the context, the AfterFunc on it, and time.

Cancel ==
  /\ ~canceled
  /\ canceled' = TRUE
  /\ UNCHANGED <<pc, op, connVars, diffVars, commVars, workVars, pauseVars,
                 streamVars, held, retries>>

\* context.AfterFunc closes the connection in a goroutine of its own.
CloseOnCancel ==
  /\ canceled /\ conn = "up"
  /\ conn' = "down" /\ sockets' = sockets - 1
  /\ UNCHANGED <<pc, op, canceled, diffVars, commVars, workVars, pauseVars,
                 streamVars, held, retries>>

\* Time passes while the goroutine is blocked: in the network, in a timer,
\* in its select, or in a synchronous Dispatch.
Tick ==
  /\ pc \in {"wait", "dial", "list", "get", "critical", "alarm", "edges",
             "bad", "escalate", "select"}
  /\ snapAge < MaxBusy
  /\ snapAge' = Older(snapAge)
  /\ commBadSince' = Older(commBadSince)
  /\ waited' = Older(waited)
  /\ firstSeen' = [f \in Fault |-> Older(firstSeen[f])]
  /\ held' = [f \in Fault |-> Older(held[f])]
  /\ UNCHANGED <<pc, op, connVars, canceled, prev, last, started, confirmed,
                 commBad, noCommEmitted, snap, pending, alarmErr, backoff,
                 streamVars, retries>>

-----------------------------------------------------------------------------
\* Run's loop and waitReconnect.

\* Faulty variants: no deferred closeConn; no check of ctx at the loop's top.
StopLeaks ==
  /\ pc \in {"loop", "wait", "select"} /\ canceled
  /\ pc' = "stopped"
  /\ UNCHANGED <<op, connVars, canceled, diffVars, commVars, workVars,
                 pauseVars, streamVars, held, retries>>

StopUnchecked ==
  /\ pc \in {"wait", "select"} /\ canceled
  /\ pc' = "stopped"
  /\ conn' = "nil" /\ sockets' = IF conn = "up" THEN sockets - 1 ELSE sockets
  /\ UNCHANGED <<op, canceled, diffVars, commVars, workVars, pauseVars,
                 streamVars, held, retries>>

\* Every return of Run, with its deferred closeConn.
Stop ==
  /\ pc \in {"loop", "wait", "select"} /\ canceled
  /\ pc' = "stopped"
  /\ conn' = "nil" /\ sockets' = IF conn = "up" THEN sockets - 1 ELSE sockets
  /\ UNCHANGED <<op, canceled, diffVars, commVars, workVars, pauseVars,
                 streamVars, held, retries>>

BeginWait ==
  /\ pc = "loop" /\ ~canceled /\ conn = "nil" /\ commBad
  /\ pc' = "wait" /\ waited' = 0
  /\ UNCHANGED <<op, connVars, canceled, diffVars, commVars, workVars,
                 backoff, streamVars, held, retries>>

\* The pause owed before retry number n since the last good poll.
Pause(n) == IF ReconnectBackoff * 2^n <= MaxBackoff
            THEN ReconnectBackoff * 2^n ELSE MaxBackoff

\* Faulty variant: no cap.
DoubledUncapped(pause) == pause * 2

Doubled(pause) == IF pause * 2 > MaxBackoff THEN MaxBackoff ELSE pause * 2

RetryTimer ==
  /\ pc = "wait" /\ waited >= backoff
  /\ pc' = "dial" /\ op' = "tryConnect"
  /\ waited' = Never
  /\ backoff' = Doubled(backoff)
  /\ retries' = IF Pause(retries) = MaxBackoff THEN retries ELSE retries + 1
  /\ UNCHANGED <<connVars, canceled, diffVars, commVars, workVars,
                 streamVars, held>>

BeginConnect ==
  /\ pc = "loop" /\ ~canceled /\ conn = "nil" /\ ~commBad
  /\ pc' = "dial" /\ op' = "tryConnect"
  /\ UNCHANGED <<connVars, canceled, diffVars, commVars, workVars, pauseVars,
                 streamVars, held, retries>>

Resume ==
  /\ pc = "loop" /\ ~canceled /\ conn # "nil"
  /\ pc' = "select"
  /\ UNCHANGED <<op, connVars, canceled, diffVars, commVars, workVars,
                 pauseVars, streamVars, held, retries>>

PollTick ==
  /\ pc = "select"
  /\ pc' = "get" /\ op' = "pollStatus"
  /\ UNCHANGED <<connVars, canceled, diffVars, commVars, workVars, pauseVars,
                 streamVars, held, retries>>

RefreshTick ==
  /\ pc = "select"
  /\ pc' = "list" /\ op' = "refreshVars"
  /\ UNCHANGED <<connVars, canceled, diffVars, commVars, workVars, pauseVars,
                 streamVars, held, retries>>

-----------------------------------------------------------------------------
\* markCommBad: COMMBAD on the first failure of an outage, NOCOMM when the
\* outage is old enough.  The events are emitted from pc' = next.

\* Faulty variants: every failure restarts the outage; NOCOMM is repeated.
OutageAgeRestarted == 0

EscalatesAgain == NoCommThreshold > 0 /\ commBadSince >= NoCommThreshold

OutageAge == IF commBad THEN commBadSince ELSE 0

Escalates ==
  ~noCommEmitted /\ NoCommThreshold > 0 /\ OutageAge >= NoCommThreshold

MarkCommBad(next) ==
  /\ pc' = next
  /\ commBad' = TRUE /\ commBadSince' = OutageAge
  /\ noCommEmitted' = (noCommEmitted \/ Escalates)
  /\ pending' = (IF commBad THEN {} ELSE {"COMMBAD"})
                  \cup (IF Escalates THEN {"NOCOMM"} ELSE {})

\* waitReconnect's second timer, armed unless NOCOMM was sent or is off.
NoCommTimer ==
  /\ pc = "wait"
  /\ ~noCommEmitted /\ NoCommThreshold > 0
  /\ commBadSince >= NoCommThreshold
  /\ MarkCommBad("escalate")
  /\ UNCHANGED <<op, connVars, canceled, diffVars, snap, snapAge, alarmErr,
                 pauseVars, streamVars, held, retries>>

\* tryConnect or handleConnErr after a failed call.  A cancelled poll leaves
\* the connection to the deferred closeConn of Run.
ConnErr ==
  /\ pc = "failed"
  /\ IF op = "tryConnect" \/ ~canceled
     THEN /\ conn' = "nil"
          /\ sockets' = IF conn = "up" THEN sockets - 1 ELSE sockets
     ELSE UNCHANGED connVars
  /\ IF canceled
     THEN pc' = "loop" /\ UNCHANGED <<commVars, pending>>
     ELSE MarkCommBad("bad")
  /\ op' = "none" /\ alarmErr' = FALSE
  /\ snap' = NoSnap /\ snapAge' = Never
  /\ UNCHANGED <<canceled, diffVars, pauseVars, streamVars, held, retries>>

\* The end of markCommBad.
Marked ==
  /\ pc \in {"bad", "escalate"} /\ pending = {}
  /\ pc' = IF pc = "bad" THEN "loop" ELSE "wait"
  /\ UNCHANGED <<op, connVars, canceled, diffVars, commVars, workVars,
                 pauseVars, streamVars, held, retries>>

-----------------------------------------------------------------------------
\* The calls to the server.  A reply needs an open socket; any call may fail,
\* and a call on a closed connection can only fail.

DialOk ==
  /\ pc = "dial"
  /\ pc' = "list"
  /\ conn' = "up" /\ sockets' = sockets + 1
  /\ UNCHANGED <<op, canceled, diffVars, commVars, workVars, pauseVars,
                 streamVars, held, retries>>

\* The dialer, a read, or a reply without any status token.
CallFails ==
  /\ pc \in {"dial", "list", "get"}
  /\ pc' = "failed"
  /\ UNCHANGED <<op, connVars, canceled, diffVars, commVars, workVars,
                 pauseVars, streamVars, held, retries>>

\* LIST VAR omits ups.status: it is read with a GET, the rest is kept.
ListLacksStatus(alarm) ==
  /\ pc = "list" /\ conn = "up"
  /\ pc' = "get" /\ snap' = [NoSnap EXCEPT !.alarm = Text(alarm)]
  /\ UNCHANGED <<op, connVars, canceled, diffVars, commVars, snapAge, pending,
                 alarmErr, pauseVars, streamVars, held, retries>>

\* A status is known: the snapshot is stamped, the debounce windows restart
\* after an outage, and emitCritical queues its events.
Observe(status, text) ==
  LET resumed == op = "tryConnect" /\ commBad
  IN  /\ pc' = "critical"
      /\ snap' = [tokens |-> status, alarm |-> text] /\ snapAge' = 0
      /\ pending' = CriticalEvents(prev, status)
      /\ firstSeen' = IF resumed THEN [f \in Fault |-> Never] ELSE firstSeen
      /\ held' = [f \in Fault |->
                    IF f \notin status THEN Never
                    ELSE IF f \in prev /\ ~resumed THEN held[f] ELSE 0]
      /\ active' = active \ (Silent \ Conditions(status))
      /\ UNCHANGED <<op, connVars, canceled, prev, last, started, confirmed,
                     commVars, alarmErr, pauseVars, up, comm, beat, retries>>

\* One LIST reply is one state of the driver: the reason is there only with
\* the token.
ListStatus(status, alarm) ==
  /\ pc = "list" /\ conn = "up"
  /\ alarm => "ALARM" \in status
  /\ Observe(status, Text(alarm))

\* pollStatus starts from a copy of the map of m.last.
Copied == IF last.alarm = "none" THEN "none" ELSE "earlier"

\* Faulty variant: the text is deleted only once the alarm is over.
DeletedIfOver(status, text) == IF "ALARM" \in status THEN text ELSE "none"

\* It deletes the alarm text from the copy, whatever the status.
Deleted(status, text) == "none"

\* After a LIST without status the text of that same reply stays.
GetStatus(status) ==
  /\ pc = "get" /\ conn = "up"
  /\ Observe(status, IF op = "pollStatus" THEN Deleted(status, Copied)
                                         ELSE snap.alarm)

\* emitCritical is done: pollStatus reads ups.alarm when ALARM is asserted.
CriticalDone ==
  /\ pc = "critical" /\ pending = {}
  /\ op = "pollStatus" /\ "ALARM" \in snap.tokens
  /\ pc' = "alarm"
  /\ UNCHANGED <<op, connVars, canceled, diffVars, commVars, workVars,
                 pauseVars, streamVars, held, retries>>

\* Faulty variant: every observation restarts the window.
SeenForRestarted(f) == snapAge

\* The age m.rbFirstSeen or m.alarmFirstSeen has once this snapshot is seen.
SeenFor(f) == IF firstSeen[f] = Never THEN snapAge ELSE firstSeen[f]

\* Faulty variant: measured with the clock at the time of the emission.
RipeNow == {f \in Fault \cap snap.tokens :
              ~confirmed[f] /\ SeenFor(f) >= Debounce[f]}

\* Faults whose window has passed, measured between observations.
Ripe == {f \in Fault \cap snap.tokens :
           ~confirmed[f] /\ SeenFor(f) - snapAge >= Debounce[f]}

\* Faulty variant: NOTALARM for an alarm that was never announced.
FaultEventsBare ==
  {EnterKind[f] : f \in Ripe}
    \cup {LeaveKind[f] : f \in {g \in Fault \cap Audible :
                                  g \notin snap.tokens /\ g \in prev}}

FaultEvents ==
  {EnterKind[f] : f \in Ripe}
    \cup {LeaveKind[f] : f \in {g \in Fault \cap Audible :
                                  g \notin snap.tokens /\ confirmed[g]}}

\* emitOtherEdges, with everything but the emission of its events.
OtherEdges ==
  /\ pc' = "edges"
  /\ pending' = (IF commBad THEN {"COMMOK"} ELSE {})
                  \cup (IF started THEN {} ELSE {"STARTUP"})
                  \cup EdgeEvents(prev, snap.tokens) \cup FaultEvents
  /\ started' = TRUE
  /\ firstSeen' = [f \in Fault |->
                     IF f \in snap.tokens THEN SeenFor(f) ELSE Never]
  /\ confirmed' = [f \in Fault |->
                     f \in snap.tokens /\ (confirmed[f] \/ f \in Ripe)]
  /\ UNCHANGED <<op, connVars, canceled, prev, last, commVars, snapAge,
                 pauseVars, streamVars, held, retries>>

Edges ==
  /\ pc = "critical" /\ pending = {}
  /\ ~(op = "pollStatus" /\ "ALARM" \in snap.tokens)
  /\ OtherEdges
  /\ UNCHANGED <<snap, alarmErr>>

\* The reason is read, or the server has none (empty, or a protocol error)
\* and the map is left as it is.
AlarmRead(alarm) ==
  /\ pc = "alarm" /\ conn = "up"
  /\ snap' = IF alarm THEN [snap EXCEPT !.alarm = "now"] ELSE snap
  /\ OtherEdges
  /\ UNCHANGED alarmErr

\* Faulty variant: the failed read discards the snapshot.
AlarmReadDiscards ==
  /\ pc = "alarm"
  /\ pc' = "failed"
  /\ UNCHANGED <<op, connVars, canceled, diffVars, commVars, workVars,
                 pauseVars, streamVars, held, retries>>

\* The transport failed: the snapshot is still dispatched and committed.
AlarmReadFails ==
  /\ pc = "alarm"
  /\ alarmErr' = TRUE
  /\ OtherEdges
  /\ UNCHANGED snap

-----------------------------------------------------------------------------
\* emit: one synchronous Dispatch, dropped once the context is cancelled.

Hears(k) ==
  \/ k = "COMMBAD" /\ comm' = "bad" /\ UNCHANGED <<up, active>>
  \/ k = "NOCOMM" /\ comm' = "lost" /\ UNCHANGED <<up, active>>
  \/ k = "COMMOK" /\ comm' = "ok" /\ UNCHANGED <<up, active>>
  \/ k = "STARTUP" /\ up' = TRUE /\ UNCHANGED <<comm, active>>
  \/ \E c \in Condition : /\ k = EnterKind[c]
                          /\ active' = active \cup {c}
                          /\ UNCHANGED <<up, comm>>
  \/ \E c \in Audible : /\ k = LeaveKind[c]
                        /\ active' = active \ {c}
                        /\ UNCHANGED <<up, comm>>

Emit ==
  /\ pc \in {"critical", "edges", "bad", "escalate"} /\ pending # {}
  /\ pending' = pending \ {Earliest(pending)}
  /\ IF canceled THEN UNCHANGED streamVars
     ELSE Hears(Earliest(pending)) /\ beat' = ~beat
  /\ UNCHANGED <<pc, op, connVars, canceled, diffVars, commVars, snap, snapAge,
                 alarmErr, pauseVars, held, retries>>

\* Faulty variant: a connect that got a snapshot resets the backoff.
GoodPollOrConnect == ~alarmErr

GoodPoll == op # "tryConnect" /\ ~alarmErr

\* The snapshot becomes m.last and m.prev.  A connect ends the outage; a good
\* poll resets the backoff; a poll that lost its alarm read is an error.
Commit ==
  /\ pc = "edges" /\ pending = {}
  /\ prev' = snap.tokens /\ last' = snap
  /\ IF op = "tryConnect"
     THEN commBad' = FALSE /\ commBadSince' = Never /\ noCommEmitted' = FALSE
     ELSE UNCHANGED commVars
  /\ pc' = IF alarmErr THEN "failed"
           ELSE IF op = "tryConnect" THEN "select" ELSE "loop"
  /\ backoff' = IF GoodPoll THEN ReconnectBackoff ELSE backoff
  /\ retries' = IF op # "tryConnect" /\ ~alarmErr THEN 0 ELSE retries
  /\ op' = IF alarmErr THEN op ELSE "none"
  /\ snap' = NoSnap /\ snapAge' = Never
  /\ UNCHANGED <<connVars, canceled, started, firstSeen, confirmed, pending,
                 alarmErr, waited, streamVars, held>>

-----------------------------------------------------------------------------
Stopped == pc = "stopped" /\ UNCHANGED vars

Loop == BeginWait \/ BeginConnect \/ Resume \/ Stop \/ PollTick \/ RefreshTick
Timers == RetryTimer \/ NoCommTimer

Replies ==
  \/ DialOk
  \/ \E status \in Statuses :
       GetStatus(status) \/ \E alarm \in BOOLEAN : ListStatus(status, alarm)
  \/ \E alarm \in BOOLEAN : ListLacksStatus(alarm) \/ AlarmRead(alarm)

Failures == CallFails \/ AlarmReadFails
Handler  == CriticalDone \/ Edges \/ Emit \/ Commit \/ ConnErr \/ Marked

Next ==
  \/ Cancel \/ CloseOnCancel \/ Tick
  \/ Loop \/ Timers \/ Replies \/ Failures \/ Handler
  \/ Stopped

Spec == Init /\ [][Next]_vars

\* Every timer fires, every call returns and every Dispatch ends; nothing is
\* assumed about what a call returns, nor that the context is cancelled.
\* Time is strongly fair: a loop that runs for ever does not stop the clock.
Fairness ==
  /\ SF_vars(Tick)
  /\ WF_vars(Loop \/ Timers)
  /\ WF_vars(CloseOnCancel)
  /\ WF_vars(Replies \/ Failures)
  /\ WF_vars(Handler)

FairSpec == Spec /\ Fairness

\* A server that, tried again and again, in the end accepts a connection and
\* answers its LIST.
ServerBack ==
  /\ SF_vars(DialOk)
  /\ SF_vars(\E status \in Statuses, alarm \in BOOLEAN : ListStatus(status, alarm))
=============================================================================
