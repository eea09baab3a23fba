-------------------------- MODULE MonitorProperties --------------------------
(***************************************************************************)
(* What monitor/monitor.go must guarantee, stated over the state of        *)
(* Monitor and the history of what its subscriber has heard.               *)
(***************************************************************************)
EXTENDS Monitor

Stream == INSTANCE EventStream

PC == {"loop", "wait", "dial", "list", "get", "critical", "alarm", "edges",
       "failed", "bad", "escalate", "select", "stopped"}

Texts == {"none", "now", "earlier"}

Snapshots == [tokens : SUBSET Token, alarm : Texts]

\* The type of every variable.  Ages are Never or at most MaxAge, and the
\* snapshot of a handler is at most MaxBusy old.
TypeOK ==
  /\ pc \in PC
  /\ op \in {"none", "tryConnect", "pollStatus", "refreshVars"}
  /\ conn \in {"nil", "up", "down"} /\ sockets \in Int
  /\ canceled \in BOOLEAN
  /\ backoff \in Nat /\ waited \in Age \cup {Never}
  /\ prev \in SUBSET Token /\ last \in Snapshots
  /\ snap \in Snapshots /\ snapAge \in (0 .. MaxBusy) \cup {Never}
  /\ pending \in SUBSET Kind /\ alarmErr \in BOOLEAN
  /\ started \in BOOLEAN
  /\ commBad \in BOOLEAN /\ noCommEmitted \in BOOLEAN
  /\ commBadSince \in Age \cup {Never}
  /\ firstSeen \in [Fault -> Age \cup {Never}]
  /\ confirmed \in [Fault -> BOOLEAN]
  /\ up \in BOOLEAN /\ comm \in {"ok", "bad", "lost"}
  /\ active \in SUBSET Condition /\ beat \in BOOLEAN
  /\ held \in [Fault -> Age \cup {Never}]
  /\ retries \in Nat

-----------------------------------------------------------------------------
\* The stream of events a subscriber hears keeps the contract of EventStream:
\* outages are well bracketed, STARTUP comes once, a condition is announced
\* once until it ends, NOT events match, only FSD and LOWBATT overtake.
Contract == Stream!Spec

\* The monitor is between two snapshots and has emitted what it queued.
Settled == pc \in {"loop", "wait", "dial", "list", "get", "select"}

\* Between two snapshots the subscriber's view is the last observation: every
\* condition of prev, faults when their window has passed, nothing else, and
\* the right state of the outage.  Whatever sequence of lost connections,
\* failed alarm reads and reconnects led there, no edge was lost or invented.
SubscriberInformed ==
  Settled /\ ~canceled =>
    /\ active = {c \in Conditions(prev) : c \in Fault => confirmed[c]}
    /\ comm = IF noCommEmitted THEN "lost" ELSE IF commBad THEN "bad" ELSE "ok"
    /\ up <=> started

\* FSD and LOWBATT are out before the alarm text is read and before any other
\* event of the snapshot, so neither a slow read nor its failure can delay or
\* lose a shutdown (emitCritical).
ShutdownAlertedFirst ==
  pc \in {"alarm", "edges"} /\ ~canceled =>
    Shutdown \cap Conditions(snap.tokens) \subseteq active

\* A fault is confirmed when, and only when, every observation since it was
\* first seen on this connection had it for the whole debounce window; the
\* time spent dispatching the snapshot does not count (emitOtherEdges), and
\* an outage neither counts nor forgets a confirmed fault (tryConnect).
ConfirmsExactly ==
  \A f \in Fault :
    confirmed'[f] <=> /\ f \in snap'.tokens
                      /\ confirmed[f] \/ held[f] - snapAge >= Debounce[f]

DebounceExact == [][pc' = "edges" /\ pc # "edges" => ConfirmsExactly]_vars

\* An event's payload shows its reason: a condition that is announced holds
\* in the snapshot, and, unless it was debounced, not in Event.Previous; a
\* condition whose end is announced is gone from the snapshot.
EventExplained ==
  /\ \A c \in active' \ active :
       /\ c \in Conditions(snap.tokens)
       /\ c \in Fault \/ c \notin Conditions(last.tokens)
  /\ \A c \in active \ active' :
       c \in Conditions(last.tokens) \ Conditions(snap.tokens)

PayloadAgrees == [][(pc \in {"critical", "edges"}) => EventExplained]_vars

\* A snapshot shows no alarm text but its own.  pollStatus starts from a copy
\* of the map of m.last; whether ALARM is still asserted or over, and whether
\* the read of its text succeeds, finds none or loses the connection, neither
\* what is dispatched nor what is kept has a text that an earlier snapshot
\* read, and a poll shows a text only if ALARM is asserted.
AlarmTextCurrent ==
  /\ "earlier" \notin {snap.alarm, last.alarm}
  /\ op = "pollStatus" /\ snap.alarm = "now" => "ALARM" \in snap.tokens

-----------------------------------------------------------------------------
\* The monitor holds at most one connection, dials only when it holds none,
\* and leaves none behind when Run returns, wherever a call failed and
\* whoever closed the socket first.
OneConnection ==
  /\ sockets = IF conn = "up" THEN 1 ELSE 0
  /\ pc \in {"dial", "wait", "bad", "escalate", "stopped"} => conn = "nil"

\* But for the very first dial, every dial comes after a pause that doubles,
\* up to MaxBackoff, with every retry since the last good poll.  A server that
\* accepts connections and then fails every poll is not dialled at full rate.
RedialsPaced ==
  [][pc # "dial" /\ pc' = "dial" /\ (up \/ comm # "ok")
     => waited >= Pause(retries)]_vars

-----------------------------------------------------------------------------
\* Run returns once its context is cancelled, whatever it is doing.
StopsOnCancel == canceled ~> pc = "stopped"

\* An outage that does not end is escalated to NOCOMM.
OutageEscalated ==
  NoCommThreshold > 0 =>
    (commBad ~> (comm = "lost" \/ ~commBad \/ canceled))

\* A fault that every observation shows is confirmed in the end.
FaultConfirmed ==
  \A f \in Fault :
    f \in prev ~> (confirmed[f] \/ f \notin prev \/ commBad \/ canceled)

\* If a server that is tried again and again in the end answers, the outage
\* ends, however long it lasted: the pauses between retries stay bounded.
Reconnects == ServerBack => (commBad ~> (~commBad \/ canceled))

\* Every COMMOK that ends an outage of NoCommThreshold or more was preceded
\* by a NOCOMM: markCommBad "escalates to NOCOMM once the threshold has
\* elapsed".
EscalatedInTime ==
  NoCommThreshold > 0 /\ commBad /\ commBadSince - snapAge >= NoCommThreshold
    => noCommEmitted

LongOutageEscalated ==
  [][pc = "critical" /\ pc' = "edges" => EscalatedInTime]_vars
=============================================================================
