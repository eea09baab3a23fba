---------------------------- MODULE EventStream ----------------------------
(***************************************************************************)
(* What a subscriber of the event stream may rely on, whatever happens to  *)
(* the connection, the UPS and the timers behind it.  It is the contract   *)
(* that Monitor implements:                                                *)
(*                                                                         *)
(*   - COMMBAD, NOCOMM and COMMOK describe one outage after the other:     *)
(*     no COMMBAD inside an outage, at most one NOCOMM per outage and only *)
(*     after its COMMBAD, no COMMOK without an outage;                     *)
(*   - STARTUP comes once, and never during an outage;                     *)
(*   - a condition is announced once and not again before it has been seen *)
(*     to end; a NOT event ends a condition that was announced;            *)
(*   - only shutdown conditions overtake COMMOK and STARTUP.               *)
(***************************************************************************)
EXTENDS UPSEvents

VARIABLES
  up,      \* STARTUP has been heard
  comm,    \* "ok", "bad" after COMMBAD, "lost" after NOCOMM
  active,  \* the conditions announced and not known to be over
  beat     \* flips with every event, so that a repeated one is a step

vars == <<up, comm, active, beat>>

Init == up = FALSE /\ comm = "ok" /\ active = {} /\ beat = FALSE

HearCommBad == comm = "ok" /\ comm' = "bad" /\ UNCHANGED <<up, active>>

HearNoComm == comm = "bad" /\ comm' = "lost" /\ UNCHANGED <<up, active>>

HearCommOK == comm # "ok" /\ comm' = "ok" /\ UNCHANGED <<up, active>>

HearStartup ==
  /\ ~up /\ comm = "ok"
  /\ up' = TRUE
  /\ UNCHANGED <<comm, active>>

HearEnter(c) ==
  /\ c \notin active
  /\ c \in Shutdown \/ (up /\ comm = "ok")
  /\ active' = active \cup {c}
  /\ UNCHANGED <<up, comm>>

HearLeave(c) ==
  /\ c \in active
  /\ up /\ comm = "ok"
  /\ active' = active \ {c}
  /\ UNCHANGED <<up, comm>>

\* Conditions without a NOT event are over once a snapshot lacks them.
Lapse ==
  /\ \E over \in SUBSET (active \cap Silent) : active' = active \ over
  /\ UNCHANGED <<up, comm, beat>>

Hear ==
  /\ \/ HearCommBad \/ HearNoComm \/ HearCommOK \/ HearStartup
     \/ \E c \in Condition : HearEnter(c)
     \/ \E c \in Audible : HearLeave(c)
  /\ beat' = ~beat

Next == Hear \/ Lapse

Spec == Init /\ [][Next]_vars
=============================================================================
