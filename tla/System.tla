------------------------------- MODULE System -------------------------------
(***************************************************************************)
(* The program: the Monitor with the Dispatcher as its Sink.  emit hands   *)
(* an event over and the monitor's goroutine is inside Dispatch until      *)
(* every notifier has returned; time, the cancellation of the context and  *)
(* the AfterFunc on it go on meanwhile.  Each notification may fail, and   *)
(* nobody repeats it.                                                      *)
(***************************************************************************)
EXTENDS Monitor, Sequences

CONSTANTS N, Wants, MaxEvents  \* as in Dispatcher

ASSUME SinkAssumption ==
  /\ N \in Nat /\ MaxEvents \in Nat
  /\ Wants \in [1 .. N -> SUBSET Kind]

VARIABLES
  dispatch,  \* the pc of Dispatcher
  event, next, wg, workers,
  told,      \* history: the conditions each target was told of and may believe
  missed     \* history: the targets one of whose notifications failed

D == INSTANCE Dispatcher WITH pc <- dispatch, Kinds <- Kind

sinkVars == <<dispatch, event, next, wg, workers>>
believeVars == <<told, missed>>
sysVars == <<vars, sinkVars, believeVars>>

SysInit ==
  /\ Init /\ D!Init
  /\ told = [t \in D!Target |-> {}] /\ missed = {}

-----------------------------------------------------------------------------
\* The monitor calls Dispatch, or drops the event after a cancellation.
SysEmit ==
  /\ Emit
  /\ IF canceled THEN UNCHANGED sinkVars ELSE D!Dispatch(Earliest(pending))
  /\ dispatch = "idle" /\ UNCHANGED believeVars

\* Every other step of the monitor's goroutine, outside of Dispatch.  A
\* condition without an event for its end is over when the monitor sees it.
Goroutine ==
  \/ Loop \/ Timers \/ Replies \/ Failures
  \/ CriticalDone \/ Edges \/ Commit \/ ConnErr \/ Marked
Proceed ==
  /\ dispatch = "idle" /\ Goroutine
  /\ told' = [t \in D!Target |-> told[t] \ (active \ active')]
  /\ UNCHANGED <<sinkVars, missed>>

Outside == (Cancel \/ CloseOnCancel \/ Tick) /\ UNCHANGED <<sinkVars, believeVars>>

FanOut == (D!Skip \/ D!Start \/ D!Return) /\ UNCHANGED <<vars, believeVars>>

Begin(w) == D!Notify(w) /\ UNCHANGED <<vars, believeVars>>

\* What a target believes after an event.
Believes(old, kind) ==
  (old \cup {c \in Condition : EnterKind[c] = kind})
    \ {c \in Audible : LeaveKind[c] = kind}

Delivered(w) ==
  /\ D!Done(w)
  /\ told' = [told EXCEPT ![w.target] = Believes(@, event.kind)]
  /\ UNCHANGED <<vars, missed>>

Fails(w) ==
  /\ D!Done(w)
  /\ missed' = missed \cup {w.target}
  /\ UNCHANGED <<vars, told>>

Works(w) == Begin(w) \/ Delivered(w) \/ Fails(w)

\* The end of the program, or of the instance.
Rest ==
  /\ pc = "stopped" \/ event.n = MaxEvents
  /\ UNCHANGED sysVars

SysNext ==
  SysEmit \/ Proceed \/ Outside \/ FanOut \/ (\E w \in workers : Works(w)) \/ Rest

SysSpec == SysInit /\ [][SysNext]_sysVars

\* Timers fire, calls return, goroutines run, and every Notify returns.
SysFairSpec ==
  /\ SysSpec
  /\ WF_sysVars(SysEmit \/ Proceed) /\ WF_sysVars(FanOut)
  /\ SF_sysVars(Tick /\ UNCHANGED <<sinkVars, believeVars>>)
  /\ WF_sysVars(CloseOnCancel /\ UNCHANGED <<sinkVars, believeVars>>)
  /\ \A t \in D!Target : WF_sysVars(\E w \in workers : w.target = t /\ Works(w))
=============================================================================
