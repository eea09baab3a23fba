------------------------- MODULE SSHNotifyProperties -------------------------
(***************************************************************************)
(* What an SSH target must guarantee, whatever its server does.            *)
(***************************************************************************)
EXTENDS SSHNotify

\* A goroutine that is over leaves neither a client nor a socket open, at
\* whichever step it failed and whoever closed first.  The client is closed
\* once, although the AfterFunc and the goroutine both close it.
NothingLeft ==
  \A c \in Call :
    /\ job[c].closes <= 1
    /\ job[c].at \in {"send", "done"} =>
         job[c].socket \in {"none", "closed"} /\ job[c].client # "open"

\* Although a goroutine can outlive its Notify, no command is sent after
\* Notify has returned, so that the script of ONBATT does not start behind that
\* of LOWBATT ("events are delivered in order").  Only the deadline of the
\* socket sees to it.  Two gaps are left: the program is being stopped, or the
\* timeout ends at this very instant and of its two timers that of the context
\* has fired and that of the socket has not.
NoLateStart ==
  [][started' # started =>
       LET c == started'[Len(started')] IN
         quit \/ (caller = "select" /\ c = call) \/ job[c].time = "due"]_vars

\* Once its context is done Notify returns, even if its goroutine never does:
\* the select is there for a dial that ignores the context.
NotifyReturns ==
  caller = "select" /\ job[call].ctx # "live" ~> caller = "idle"

\* Once its context is done, which a return of Notify sees to, the goroutine
\* ends, also when its timeout is still far away: none is leaked.
GoroutineEnds ==
  GoroutinesRun => \A c \in Call : job[c].ctx # "live" ~> job[c].at = "done"
=============================================================================
