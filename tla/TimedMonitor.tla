---------------------------- MODULE TimedMonitor ----------------------------
(***************************************************************************)
(* Monitor with the limits of its calls and the ticker of ups.status: how  *)
(* long a shutdown condition waits at the UPS until its event is out.      *)
(* "Polling waits for delivery", so the wait includes the notifications of *)
(* whatever was observed before.                                           *)
(***************************************************************************)
EXTENDS Monitor

CONSTANTS
  StatusInterval,
  NutTimeout,     \* nut.timeout, of one exchange with the server
  TargetTimeout,  \* the longest timeout of a target
  WaitDelay       \* cmd.WaitDelay of a shell target

ASSUME LimitsAssumption ==
  /\ StatusInterval \in Nat \ {0} /\ NutTimeout \in Nat
  /\ TargetTimeout \in Nat /\ WaitDelay \in Nat

VARIABLES
  spent,  \* time in the present call or Dispatch, Never outside of one
  clock,  \* time since the last tick of statusTicker
  due,    \* a tick is in its channel, which holds one
  lag     \* time LOWBATT has held at the UPS with no event, else Never

timeVars == <<spent, clock, due, lag>>

Blocked == {"dial", "list", "get", "alarm"}

TimedInit == Init /\ spent = Never /\ clock = 0 /\ due = FALSE /\ lag = Never

-----------------------------------------------------------------------------
\* A Dispatch ends with its slowest Notify.  A shell target whose timeout has
\* killed its command waits that much longer for the output pipes.
LongestNotify == TargetTimeout + WaitDelay

\* The dialer: Dial, STARTTLS with its handshake, USERNAME and PASSWORD.
LongestDial == 4 * NutTimeout

\* Faulty variant: the read of ups.alarm has no deadline.
LimitUnset(p) ==
  IF p = "alarm" THEN MaxBusy ELSE IF p = "dial" THEN LongestDial
  ELSE IF p \in Blocked THEN NutTimeout ELSE LongestNotify

\* setDeadlines bounds an exchange (NutSession), each notifier bounds itself.
Limit(p) ==
  IF p = "dial" THEN LongestDial
  ELSE IF p \in Blocked THEN NutTimeout ELSE LongestNotify

Later(age) == IF age = Never THEN Never ELSE age + 1

\* Time passes in a call, in a Dispatch, in waitReconnect, and in a select
\* with no tick to take.
TimedTick ==
  /\ Tick
  /\ IF pc \in {"select", "wait"} THEN ~(pc = "select" /\ due)
     ELSE spent # Never /\ spent < Limit(pc)
  /\ spent' = Later(spent) /\ lag' = Later(lag)
  /\ clock' = (clock + 1) % StatusInterval
  /\ due' = (due \/ clock' = 0)

\* The UPS reaches a low battery on a working connection.
Appears ==
  /\ lag = Never /\ conn = "up" /\ ~alarmErr /\ ~canceled /\ pc # "failed"
  /\ "LOWBATT" \notin Conditions(prev) \cup Conditions(snap.tokens)
  /\ lag' = 0
  /\ UNCHANGED <<vars, spent, clock, due>>

\* A reply shows the UPS as it was at some moment of the call: without the
\* condition only if that appeared since.
Current(status) ==
  IF lag = Never THEN "LOWBATT" \in Conditions(status) => "LOWBATT" \in Conditions(prev)
  ELSE lag <= spent \/ "LOWBATT" \in Conditions(status)

Entering == spent' = IF pc' \in Blocked THEN 0 ELSE Never

Reply ==
  /\ \E status \in Statuses :
       /\ Current(status)
       /\ GetStatus(status) \/ \E alarm \in BOOLEAN : ListStatus(status, alarm)
  /\ Entering /\ UNCHANGED <<clock, due, lag>>

\* emit: the event is out, and its Dispatch takes its time.
TimedEmit ==
  /\ Emit
  /\ spent' = IF canceled THEN Never ELSE 0
  /\ lag' = IF Earliest(pending) = "LOWBATT" THEN Never ELSE lag
  /\ UNCHANGED <<clock, due>>

TimedPoll == PollTick /\ due /\ due' = FALSE /\ Entering /\ UNCHANGED <<clock, lag>>

Other ==
  /\ \/ BeginWait \/ BeginConnect \/ Resume \/ RefreshTick \/ Timers \/ DialOk
     \/ \E alarm \in BOOLEAN : ListLacksStatus(alarm) \/ AlarmRead(alarm)
     \/ CriticalDone \/ Edges \/ Commit \/ ConnErr \/ Marked
  /\ Entering /\ UNCHANGED <<clock, due, lag>>

\* Without a working connection the wait is the outage's, not this program's.
GivesUp ==
  /\ Failures \/ Cancel \/ Stop
  /\ Entering /\ lag' = Never /\ UNCHANGED <<clock, due>>

Aside ==
  CloseOnCancel /\ UNCHANGED timeVars

TimedNext ==
  \/ TimedTick \/ Appears \/ Reply \/ TimedEmit \/ TimedPoll \/ Other \/ GivesUp \/ Aside
  \/ Stopped /\ UNCHANGED timeVars

TimedSpec == TimedInit /\ [][TimedNext]_<<vars, timeVars>>
=============================================================================
