------------------------ MODULE ShellNotifyProperties ------------------------
(***************************************************************************)
(* What a shell target must guarantee, whatever its command does.          *)
(***************************************************************************)
EXTENDS ShellNotify

\* A failed or timed out notification leaves no process of the command's
\* group, also when the command itself exited first and only a descendant is
\* left, which may have closed its output ("descendants cannot outlive a
\* timed-out command", "kill surviving descendants on every failure").  However chatty it is, no more than MaxOutput is retained.
FailureLeavesNothing ==
  /\ kept <= MaxOutput
  /\ at = "returned" /\ result = "error" =>
       cmd # "alive" /\ \A k \in kids : ~k.group

\* Success is reported for exactly the commands that exited with zero before
\* the timeout and whose output was read to its end; a chatty command whose
\* output is cut is one of them.
VerdictExact ==
  at = "returned" /\ cmd # "none" =>
    (result = "ok" <=> exit = "zero" /\ ~stopped /\ eof)

\* Once the context is done Notify returns, even if a descendant has left the
\* group and holds the pipe for ever.
NotifyReturns == ctx # "live" /\ at # "start" ~> at = "returned"
=============================================================================
