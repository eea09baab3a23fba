----------------------------- MODULE UPSEvents -----------------------------
(***************************************************************************)
(* The vocabulary of monitor/monitor.go: the tokens of ups.status, the     *)
(* conditions a status asserts, and the event kinds that announce that a   *)
(* condition appeared or went away.  Everything here is constant level; a  *)
(* status is a set of tokens, as nut.ParseStatus builds it.                *)
(***************************************************************************)
EXTENDS Integers

\* Tokens whose appearance and disappearance are both announced at once.
Toggle == {"BYPASS", "OVER", "TRIM", "BOOST", "CAL", "OFF"}

\* Tokens that firmwares flap, announced after a debounce window only.
Fault == {"RB", "ALARM"}

Token == Toggle \cup Fault \cup {"OL", "OB", "LB", "FSD"}

\* Conditions that must shut a machine down.  FSD is the token; LOWBATT
\* needs LB and OB together, a bare LB on mains is a self-test artifact.
Shutdown == {"FSD", "LOWBATT"}

Condition == Toggle \cup Fault \cup Shutdown \cup {"OL", "OB"}

\* The tokens a condition needs.
Demands(c) == IF c = "LOWBATT" THEN {"LB", "OB"} ELSE {c}

\* The conditions a status asserts.
Conditions(status) == {c \in Condition : Demands(c) \subseteq status}

-----------------------------------------------------------------------------
\* The event that announces that a condition holds, and the one that
\* announces that it is over.  A condition with no leave event ends silently.

EnterKind ==
  [OL |-> "ONLINE", OB |-> "ONBATT", FSD |-> "FSD", LOWBATT |-> "LOWBATT",
   BYPASS |-> "BYPASS", OVER |-> "OVERLOAD", TRIM |-> "TRIM",
   BOOST |-> "BOOST", CAL |-> "CAL", OFF |-> "OFF",
   RB |-> "REPLBATT", ALARM |-> "ALARM"]

LeaveKind ==
  [BYPASS |-> "NOTBYPASS", OVER |-> "NOTOVERLOAD", TRIM |-> "NOTTRIM",
   BOOST |-> "NOTBOOST", CAL |-> "NOTCAL", OFF |-> "NOTOFF",
   ALARM |-> "NOTALARM"]

Audible == Toggle \cup {"ALARM"}
Silent  == Condition \ Audible

\* The place of every event kind in the order in which one handler
\* dispatches its events: communication loss, shutdown conditions, recovery,
\* startup, the token edges by sorted token, then the debounced faults.
Rank ==
  [COMMBAD |-> 0, NOCOMM |-> 1, FSD |-> 2, LOWBATT |-> 3, COMMOK |-> 4,
   STARTUP |-> 5, BOOST |-> 6, NOTBOOST |-> 6, BYPASS |-> 7, NOTBYPASS |-> 7,
   CAL |-> 8, NOTCAL |-> 8, ONBATT |-> 9, OFF |-> 10, NOTOFF |-> 10,
   ONLINE |-> 11, OVERLOAD |-> 12, NOTOVERLOAD |-> 12, TRIM |-> 13,
   NOTTRIM |-> 13, REPLBATT |-> 14, ALARM |-> 15, NOTALARM |-> 15]

Kind == DOMAIN Rank

\* The event of a set that is dispatched first.
Earliest(kinds) == CHOOSE k \in kinds : \A j \in kinds : Rank[k] <= Rank[j]

-----------------------------------------------------------------------------
\* Faulty variants, to see that the properties notice them: a shutdown
\* condition announced at every snapshot; LOWBATT decided by LB alone.
CriticalEventsRepeated(prev, cur) ==
  {EnterKind[c] : c \in Shutdown \cap Conditions(cur)}

CriticalEventsByToken(prev, cur) ==
  {EnterKind[c] : c \in {d \in Shutdown : /\ Demands(d) \subseteq cur
                                          /\ Demands(d) \cap prev = {}}}

\* The shutdown conditions that are new in cur.
CriticalEvents(prev, cur) ==
  {EnterKind[c] : c \in Shutdown \cap (Conditions(cur) \ Conditions(prev))}

\* Faulty variants: leave events for tokens still there; an event for an end
\* that tokenEdges leaves without a name.
EdgeEventsStillOn(prev, cur) ==
  {EnterKind[t] : t \in (Toggle \cup {"OL", "OB"}) \cap (cur \ prev)}
    \cup {LeaveKind[t] : t \in Toggle \cap prev}

EdgeEventsUnnamed(prev, cur) ==
  {EnterKind[t] : t \in (Toggle \cup {"OL", "OB"}) \cap (cur \ prev)}
    \cup {IF t \in Toggle THEN LeaveKind[t] ELSE "" :
            t \in (Toggle \cup {"OL", "OB"}) \cap (prev \ cur)}

\* The token edges that need no debounce, in both directions.
EdgeEvents(prev, cur) ==
  {EnterKind[t] : t \in (Toggle \cup {"OL", "OB"}) \cap (cur \ prev)}
    \cup {LeaveKind[t] : t \in Toggle \cap (prev \ cur)}
=============================================================================
