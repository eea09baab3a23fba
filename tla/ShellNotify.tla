---------------------------- MODULE ShellNotify ----------------------------
(***************************************************************************)
(* ShellTarget.Notify of notifier/shell.go: one command in a process group *)
(* of its own, its output read through a pipe into limitedOutput, killed   *)
(* with its group when the context is done.  os/exec does the waiting: a   *)
(* watcher goroutine calls Cancel, Wait reaps the command and then gives   *)
(* the pipe WaitDelay to reach its end.                                    *)
(***************************************************************************)
EXTENDS Integers

CONSTANTS
  MaxOutput,  \* maxResponseBytes, in units
  MaxForks    \* bound: descendants of the command

VARIABLES
  at,       \* Notify: "start", then in Run "wait", "handoff", "drain", "end"
  ctx,      \* "live", "expired" or "canceled"
  cmd,      \* the command: "none", "alive", "dead" or "reaped"
  exit,     \* its exit status
  kids,     \* its living descendants: in its group or not, with its pipe or not
  forks,    \* descendants so far
  watcher,  \* os/exec's goroutine: "none", "watching", "killed", "over"
  stopped,  \* the watcher's Cancel reached a process
  err,      \* the error Run is to return
  kept,     \* output retained
  short,    \* a Write reported fewer bytes than it was given
  eof,      \* history: the pipe was read to its end
  result

procVars == <<cmd, exit, kids, forks>>
waitVars == <<watcher, stopped, err, eof>>
outVars  == <<kept, short>>
vars == <<at, ctx, procVars, waitVars, outVars, result>>

Kid == [id : 1 .. MaxForks, group : BOOLEAN, pipe : BOOLEAN]

Init ==
  /\ at = "start" /\ ctx = "live" /\ result = "none"
  /\ cmd = "none" /\ exit = "none" /\ kids = {} /\ forks = 0
  /\ watcher = "none" /\ stopped = FALSE /\ err = "none" /\ eof = FALSE
  /\ kept = 0 /\ short = FALSE

-----------------------------------------------------------------------------
\* The processes.

\* A descendant may leave the group (setsid) or drop the pipe (redirection).
Fork ==
  /\ forks < MaxForks
  /\ \E group, pipe \in BOOLEAN :
       /\ \/ cmd = "alive"
          \/ \E k \in kids : (group => k.group) /\ (pipe => k.pipe)
       /\ kids' = kids \cup {[id |-> forks + 1, group |-> group, pipe |-> pipe]}
  /\ forks' = forks + 1
  /\ UNCHANGED <<at, ctx, cmd, exit, waitVars, outVars, result>>

CommandExits ==
  /\ cmd = "alive"
  /\ cmd' = "dead" /\ exit' \in {"zero", "nonzero"}
  /\ UNCHANGED <<at, ctx, kids, forks, waitVars, outVars, result>>

KidExits ==
  /\ \E k \in kids : kids' = kids \ {k}
  /\ UNCHANGED <<at, ctx, cmd, exit, forks, waitVars, outVars, result>>

PipeOpen == cmd = "alive" \/ \E k \in kids : k.pipe

\* Faulty variants of limitedOutput.Write: it reports what it kept; it keeps
\* everything.
ReportedKept(size) == IF size <= MaxOutput - kept THEN size ELSE MaxOutput - kept
KeptAll(size) == size

\* limitedOutput.Write keeps what there is room for and reports it all.
Reported(size) == size
Kept(size) == IF size <= MaxOutput - kept THEN size ELSE MaxOutput - kept

\* A process writes and os/exec copies, until the copy has failed.
Output(size) ==
  /\ at \in {"wait", "handoff", "drain"} /\ PipeOpen /\ ~short
  /\ kept' = kept + Kept(size)
  /\ short' = (Reported(size) < size)
  /\ UNCHANGED <<at, ctx, procVars, waitVars, result>>

\* cmd.Cancel: SIGKILL to the group.
KillGroup ==
  /\ cmd' = IF cmd = "alive" THEN "dead" ELSE cmd
  /\ exit' = IF cmd = "alive" THEN "killed" ELSE exit
  /\ kids' = {k \in kids : ~k.group}
  /\ UNCHANGED forks

\* The group exists while a member is alive or not reaped.
GroupExists == cmd \in {"alive", "dead"} \/ \E k \in kids : k.group

-----------------------------------------------------------------------------
\* Notify.

Finish(how) ==
  /\ at' = "returned" /\ result' = how
  /\ ctx' = IF ctx = "live" THEN "canceled" ELSE ctx

\* An empty command or a template that fails; or a command that cannot start.
Refuse ==
  /\ at = "start"
  /\ Finish("error")
  /\ UNCHANGED <<procVars, waitVars, outVars>>

StartOk ==
  /\ at = "start" /\ ctx = "live"
  /\ at' = "wait" /\ cmd' = "alive" /\ watcher' = "watching"
  /\ UNCHANGED <<ctx, exit, kids, forks, stopped, err, eof, outVars, result>>

\* The timeout, or the end of the program.
Done ==
  /\ ctx = "live"
  /\ ctx' \in {"expired", "canceled"}
  /\ UNCHANGED <<at, procVars, waitVars, outVars, result>>

\* Faulty variant: only the command itself is killed.
WatcherKillsOne ==
  /\ watcher = "watching" /\ ctx # "live"
  /\ watcher' = "killed" /\ stopped' = (cmd # "reaped")
  /\ cmd' = IF cmd = "alive" THEN "dead" ELSE cmd
  /\ exit' = IF cmd = "alive" THEN "killed" ELSE exit
  /\ UNCHANGED <<at, ctx, kids, forks, err, eof, outVars, result>>

\* The watcher saw the context first.  A group that is gone is no error.
WatcherKills ==
  /\ watcher = "watching" /\ ctx # "live"
  /\ watcher' = "killed" /\ stopped' = GroupExists
  /\ KillGroup
  /\ UNCHANGED <<at, ctx, err, eof, outVars, result>>

Reap ==
  /\ at = "wait" /\ cmd = "dead"
  /\ at' = "handoff" /\ cmd' = "reaped"
  /\ UNCHANGED <<ctx, exit, kids, forks, waitVars, outVars, result>>

\* Wait hears from the watcher, which may never have seen the context.  A
\* failure of the command comes before one of the watcher.
Handoff ==
  /\ at = "handoff"
  /\ at' = "drain" /\ watcher' = "over"
  /\ err' = IF exit # "zero" THEN "exit" ELSE IF stopped THEN "ctx" ELSE "none"
  /\ UNCHANGED <<ctx, procVars, stopped, eof, outVars, result>>

\* The copy ends: the last holder of the pipe is gone, or it has failed.
DrainEnds ==
  /\ at = "drain" /\ (~PipeOpen \/ short)
  /\ at' = "end" /\ eof' = ~PipeOpen
  /\ err' = IF err = "none" /\ short THEN "write" ELSE err
  /\ UNCHANGED <<ctx, procVars, watcher, stopped, outVars, result>>

\* Faulty variant: WaitDelay is left at zero.
DrainForever == FALSE /\ UNCHANGED vars

\* WaitDelay is over while a descendant holds the pipe: it is closed.
DrainTimesOut ==
  /\ at = "drain" /\ PipeOpen
  /\ at' = "end"
  /\ err' = IF err = "none" THEN "delay" ELSE err
  /\ UNCHANGED <<ctx, procVars, watcher, stopped, eof, outVars, result>>

\* Faulty variant: the group is killed for ErrWaitDelay only.
ReturnOnDelay ==
  /\ at = "end"
  /\ IF err = "delay" THEN KillGroup ELSE UNCHANGED procVars
  /\ Finish(IF err = "none" THEN "ok" ELSE "error")
  /\ UNCHANGED <<waitVars, outVars>>

\* Every failure kills what is left of the group.
Return ==
  /\ at = "end"
  /\ IF err # "none" THEN KillGroup ELSE UNCHANGED procVars
  /\ Finish(IF err = "none" THEN "ok" ELSE "error")
  /\ UNCHANGED <<waitVars, outVars>>

-----------------------------------------------------------------------------
Processes == Fork \/ CommandExits \/ KidExits \/ \E size \in 1 .. 2 : Output(size)
Run == Reap \/ Handoff \/ DrainEnds \/ DrainTimesOut

Next ==
  \/ Refuse \/ StartOk \/ Done \/ Processes \/ WatcherKills \/ Run \/ Return
  \/ at = "returned" /\ UNCHANGED vars

Spec == Init /\ [][Next]_vars

\* Goroutines run and timers fire; nothing is assumed of the processes.
Fairness == WF_vars(WatcherKills) /\ WF_vars(Run) /\ WF_vars(Return)
=============================================================================
