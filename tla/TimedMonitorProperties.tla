----------------------- MODULE TimedMonitorProperties -----------------------
(***************************************************************************)
(* How long a shutdown may wait.                                           *)
(***************************************************************************)
EXTENDS TimedMonitor, FiniteSets

\* The events that one snapshot may cause: its edges after those of p, the
\* end of an outage, the start of the program if nothing was seen before, and
\* the faults it has or ends.
Caused(p, s) ==
  CriticalEvents(p, s) \cup EdgeEvents(p, s) \cup {"COMMOK"}
    \cup {k \in {"STARTUP"} : p = {}}
    \cup {EnterKind[f] : f \in Fault \cap s}
    \cup {LeaveKind[f] : f \in Fault \cap Audible \cap (p \ s)}

CONSTANT MostEvents  \* the events one snapshot of Statuses may cause

ASSUME MostEventsAssumption ==
  /\ MostEvents \in Nat
  /\ \A p \in Statuses \cup {{}}, s \in Statuses : Cardinality(Caused(p, s)) <= MostEvents

\* The longest handler: its read, the read of ups.alarm, the deliveries.
LongestHandler == 2 * NutTimeout + MostEvents * LongestNotify

\* What may be going on, or the pause between two polls, whichever is longer.
LongestTurn == IF StatusInterval >= LongestHandler THEN StatusInterval ELSE LongestHandler

\* FSD is dispatched before LOWBATT if one status can show both.
Before == IF \E s \in Statuses : Shutdown \subseteq Conditions(s) THEN LongestNotify ELSE 0

\* While the connection works, LOWBATT is dispatched at most one handler or
\* one interval, whichever is longer, and one read after the UPS shows it (two
\* for a LIST without status), whatever was being notified when it appeared;
\* only FSD may be dispatched before it.
ShutdownDelayBounded == lag <= LongestTurn + 2 * NutTimeout + Before
=============================================================================
