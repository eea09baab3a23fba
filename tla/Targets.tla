------------------------------ MODULE Targets ------------------------------
(***************************************************************************)
(* The Notifier of notifier/notifier.go as its four types implement it:    *)
(* the goroutine that Dispatch starts for a target calls the Notify of the *)
(* target's type, SSHTarget, ShellTarget, WebhookTarget or TelegramTarget. *)
(* Targets share nothing, so a behaviour is that of one target.            *)
(***************************************************************************)
EXTENDS Integers, Sequences

CONSTANTS
  MaxCalls,              \* as in SSHNotify
  MaxOutput, MaxForks,   \* as in ShellNotify
  MaxBody, MaxEvents     \* as in HTTPNotify

ASSUME BoundsAssumption ==
  /\ MaxCalls \in Nat /\ MaxOutput \in Nat /\ MaxForks \in Nat
  /\ MaxBody \in Nat /\ MaxEvents \in Nat

VARIABLES
  kind,    \* whose Notify it is: "ssh", "shell" or "http"
  result,  \* what the last Notify returned
  call, caller, quit, job, started,             \* SSHNotify
  at, ctx, cmd, exit, kids, forks, watcher,     \* ShellNotify
  stopped, err, kept, short, eof,
  target, phase, request, timer, conns, posted, \* HTTPNotify
  reply, read, ended, failed, events

SSH   == INSTANCE SSHNotifyProperties
Shell == INSTANCE ShellNotifyProperties
HTTP  == INSTANCE HTTPNotifyProperties
  WITH at <- phase, ctx <- request, eof <- ended, err <- failed

sshVars   == <<call, caller, quit, job, started>>
shellVars == <<at, ctx, cmd, exit, kids, forks, watcher, stopped, err, kept, short, eof>>
httpVars  == <<target, phase, request, timer, conns, posted, reply, read, ended,
               failed, events>>
vars == <<kind, result, sshVars, shellVars, httpVars>>

Kinds == {"ssh", "shell", "http"}

\* The type of a target is settled by the configuration.
Init ==
  /\ kind \in Kinds
  /\ SSH!Init /\ Shell!Init /\ HTTP!Init
  /\ kind # "http" => target = [type |-> "webhook", timed |-> TRUE]

SSHStep   == kind = "ssh"   /\ SSH!Next   /\ UNCHANGED <<kind, shellVars, httpVars>>
ShellStep == kind = "shell" /\ Shell!Next /\ UNCHANGED <<kind, sshVars, httpVars>>
HTTPStep  == kind = "http"  /\ HTTP!Next  /\ UNCHANGED <<kind, sshVars, shellVars>>

Next == SSHStep \/ ShellStep \/ HTTPStep

\* The fairness of the target's own module.
Fairness ==
  \/ kind = "ssh"   /\ SSH!Fairness
  \/ kind = "shell" /\ Shell!Fairness
  \/ kind = "http"  /\ HTTP!Fairness

Spec == Init /\ [][Next]_vars /\ Fairness

-----------------------------------------------------------------------------
\* What a target must guarantee, as its own module states it for its type.

\* Whatever fails and whoever comes first, a notification that is over leaves
\* nothing behind.  SSH: no client and no socket, each closed once.  Shell: after
\* a failure no process of the command's group, and never more output than the
\* limit.  Webhook, Telegram: no connection in use.
NothingLeft ==
  /\ kind = "ssh"   => SSH!NothingLeft
  /\ kind = "shell" => Shell!FailureLeavesNothing
  /\ kind = "http"  => HTTP!NoConnectionLeft

\* Success means that the target has the event.  Shell: the command exited with
\* zero in time and its output was read to its end.  Webhook, Telegram: the
\* configured endpoint itself, and nobody else, was sent it and accepted it.
VerdictHonest ==
  /\ kind = "shell" => Shell!VerdictExact
  /\ kind = "http"  => HTTP!SuccessIsAcceptance /\ HTTP!NotForwarded

\* SSH: no command is sent after its Notify has returned, so none starts
\* behind that of a later event ("events are delivered in order"), but for the
\* instant in which the timers of its timeout fire and the end of the program.
NoLateStart == SSH!NoLateStart

\* Every Notify returns.  SSH: once its context is done, though the goroutine
\* may never end; and the goroutine does end if it is not stuck in a library.
\* Shell: though a descendant may hold the pipe for ever.  Webhook, Telegram:
\* also without a timeout configured, whatever the server does.
NotifyReturns ==
  /\ kind = "ssh"   => SSH!NotifyReturns /\ SSH!GoroutineEnds
  /\ kind = "shell" => Shell!NotifyReturns
  /\ kind = "http"  => HTTP!NotifyReturns
=============================================================================
