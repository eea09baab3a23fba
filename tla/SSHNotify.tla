----------------------------- MODULE SSHNotify -----------------------------
(***************************************************************************)
(* SSHTarget.Notify of notifier/ssh.go, called for one event after the     *)
(* other.  A call starts a goroutine that dials, opens a session and runs  *)
(* the command; the call itself waits for the goroutine's result or for    *)
(* its context, whichever comes first.  The goroutine may outlive it.      *)
(*                                                                         *)
(* The deadline of the context and that of the socket are one instant, but *)
(* two timers wait for it.  Each fires in its own time once the instant    *)
(* has come; it is over when both have.                                    *)
(***************************************************************************)
EXTENDS Integers, Sequences

CONSTANT MaxCalls  \* bound: calls of Notify

VARIABLES
  call,    \* the number of the latest call of Notify
  caller,  \* Dispatch's goroutine: between calls ("idle") or in the select
  quit,    \* the context of the program is cancelled
  result,  \* what the latest call returned
  job,     \* the state of every call and of its goroutine; closes is history
  started  \* history: the calls whose command was sent, in order

vars == <<call, caller, quit, result, job, started>>

Call == 1 .. MaxCalls

\* The two AfterFuncs: one closes the socket during the handshake, the other
\* the client.
Hook == {"socket", "client"}

\* A call that has not begun.  Its time says where the instant of its timeout
\* is; a socket whose deadline has passed is overdue.
NoJob == [ctx |-> "live", time |-> "before", at |-> "none", socket |-> "none",
          client |-> "none", closes |-> 0, armed |-> {}, firing |-> {},
          out |-> "none", ch |-> "none"]

Init ==
  /\ call = 0 /\ caller = "idle" /\ quit = FALSE /\ result = "none"
  /\ job = [c \in Call |-> NoJob]
  /\ started = <<>>

-----------------------------------------------------------------------------
\* The caller.

\* Empty fields, a template, a key or a known_hosts file that cannot be used:
\* an error before anything is started.
Refuse ==
  /\ caller = "idle" /\ ~quit
  /\ result' = "error"
  /\ UNCHANGED <<call, caller, quit, job, started>>

\* emit drops every event once the program's context is cancelled.
Notify ==
  /\ caller = "idle" /\ ~quit /\ call < MaxCalls
  /\ call' = call + 1 /\ caller' = "select" /\ result' = "none"
  /\ job' = [job EXCEPT ![call + 1].at = "connect"]
  /\ UNCHANGED <<quit, started>>

\* Faulty variant: only the goroutine's result is waited for.
ReturnOnResult ==
  /\ caller = "select" /\ job[call].ch # "none"
  /\ result' = job[call].ch
  /\ caller' = "idle"
  /\ job' = [job EXCEPT ![call].ctx = IF @ = "live" THEN "canceled" ELSE @]
  /\ UNCHANGED <<call, quit, started>>

\* The select, and the deferred cancel.
Return ==
  /\ caller = "select"
  /\ job[call].ctx # "live" \/ job[call].ch # "none"
  /\ result' = IF job[call].ctx # "live" THEN "error" ELSE job[call].ch
  /\ caller' = "idle"
  /\ job' = [job EXCEPT ![call].ctx = IF @ = "live" THEN "canceled" ELSE @]
  /\ UNCHANGED <<call, quit, started>>

-----------------------------------------------------------------------------
\* The contexts.

Quit ==
  /\ ~quit
  /\ quit' = TRUE
  /\ job' = [c \in Call |-> [job[c] EXCEPT !.ctx =
                               IF @ = "live" /\ c <= call THEN "canceled" ELSE @]]
  /\ UNCHANGED <<call, caller, result, started>>

\* A call that is over has neither a timer nor a socket.
Timed(c) == job[c].at \notin {"none", "done"} \/ (c = call /\ caller = "select")

\* The timeout of a call ends, after those of the earlier ones.
Due(c) ==
  /\ Timed(c) /\ job[c].time = "before"
  /\ \A d \in 1 .. (c - 1) : Timed(d) => job[d].time = "past"
  /\ job' = [job EXCEPT ![c].time = "due"]
  /\ UNCHANGED <<call, caller, quit, result, started>>

\* The timer of the context fires.
ExpireContext(c) ==
  /\ job[c].time = "due" /\ job[c].ctx = "live"
  /\ job' = [job EXCEPT ![c].ctx = "expired"]
  /\ UNCHANGED <<call, caller, quit, result, started>>

\* That of the socket's deadline fires.
ExpireSocket(c) ==
  /\ job[c].time = "due" /\ job[c].socket = "open"
  /\ job' = [job EXCEPT ![c].socket = "overdue"]
  /\ UNCHANGED <<call, caller, quit, result, started>>

\* No timer waits beyond its instant.
TimeGoesOn(c) ==
  /\ job[c].time = "due" /\ job[c].ctx # "live" /\ job[c].socket # "open"
  /\ job' = [job EXCEPT ![c].time = "past"]
  /\ UNCHANGED <<call, caller, quit, result, started>>

\* A context that is done starts its AfterFuncs, each in a goroutine.
Fire(c, hook) ==
  /\ job[c].ctx # "live" /\ hook \in job[c].armed
  /\ job' = [job EXCEPT ![c].armed = @ \ {hook}, ![c].firing = @ \cup {hook}]
  /\ UNCHANGED <<call, caller, quit, result, started>>

\* Faulty variant: without closeOnce.
ClosedAgain(j) == [j EXCEPT !.socket = "closed",
                            !.client = IF @ = "open" THEN "closed" ELSE @,
                            !.closes = IF j.client = "none" THEN 0 ELSE @ + 1]

\* Closing the client, at most once, closes its socket.
Closed(j) == [j EXCEPT !.socket = "closed",
                       !.client = IF @ = "open" THEN "closed" ELSE @,
                       !.closes = IF j.client = "open" THEN @ + 1 ELSE @]

\* The first AfterFunc knows the socket only, also when it runs late.
CloseInHook(c, hook) ==
  /\ hook \in job[c].firing
  /\ LET j == [job[c] EXCEPT !.firing = @ \ {hook}] IN
     job' = [job EXCEPT ![c] = IF hook = "client" THEN Closed(j)
                               ELSE [j EXCEPT !.socket = "closed"]]
  /\ UNCHANGED <<call, caller, quit, result, started>>

-----------------------------------------------------------------------------
\* The goroutine.

Moves(c, j) ==
  /\ job' = [job EXCEPT ![c] = j]
  /\ UNCHANGED <<call, caller, quit, result>>

\* Reads and writes work until the socket is closed or its deadline passes.
Works(c) == job[c].socket = "open"

\* DialContext, SetDeadline, perhaps to a time that is over, and the first
\* AfterFunc.
Connected(c) ==
  /\ job[c].at = "connect"
  /\ \E socket \in {"open", "overdue"} :
       /\ socket = "open"    => job[c].time # "past"
       /\ socket = "overdue" => job[c].time # "before"
       /\ Moves(c, [job[c] EXCEPT !.at = "handshake", !.socket = socket,
                                  !.armed = {"socket"}])
  /\ UNCHANGED started

\* The handshake, stop() and the second AfterFunc.
HandshakeOk(c) ==
  /\ job[c].at = "handshake" /\ Works(c)
  /\ Moves(c, [job[c] EXCEPT !.at = "session", !.client = "open",
                             !.armed = {"client"}])
  /\ UNCHANGED started

SessionOk(c) ==
  /\ job[c].at = "session" /\ Works(c)
  /\ Moves(c, [job[c] EXCEPT !.at = "exec"])
  /\ UNCHANGED started

\* Faulty variant: the deadline of the socket is left out.
StartUnbounded(c) ==
  /\ job[c].at = "exec" /\ job[c].socket \in {"open", "overdue"}
  /\ started' = Append(started, c)
  /\ Moves(c, [job[c] EXCEPT !.at = "running"])

\* The request to run the command is written.
Start(c) ==
  /\ job[c].at = "exec" /\ Works(c)
  /\ started' = Append(started, c)
  /\ Moves(c, [job[c] EXCEPT !.at = "running"])

\* The exit status arrived, perhaps just before the socket was closed.
CommandEnds(c, out) ==
  /\ job[c].at = "running"
  /\ Moves(c, [job[c] EXCEPT !.at = "cleanup", !.out = out])
  /\ UNCHANGED started

DialFails(c) ==
  /\ job[c].at = "connect"
  /\ Moves(c, [job[c] EXCEPT !.at = "send", !.out = "error"])
  /\ UNCHANGED started

\* Faulty variant: a failed handshake leaves the socket to the AfterFunc.
HandshakeFailsOpen(c) ==
  /\ job[c].at = "handshake"
  /\ Moves(c, [job[c] EXCEPT !.at = "send", !.out = "error", !.armed = {}])
  /\ UNCHANGED started

\* stop(), and the socket is closed.
HandshakeFails(c) ==
  /\ job[c].at = "handshake"
  /\ Moves(c, [Closed(job[c]) EXCEPT !.at = "send", !.out = "error",
                                     !.armed = {}])
  /\ UNCHANGED started

\* NewSession or the command's input and output.
SessionFails(c) ==
  /\ job[c].at \in {"session", "exec", "running"}
  /\ Moves(c, [job[c] EXCEPT !.at = "cleanup", !.out = "error"])
  /\ UNCHANGED started

\* stop() and closeClient, by whoever comes first.
Cleanup(c) ==
  /\ job[c].at = "cleanup"
  /\ Moves(c, [Closed(job[c]) EXCEPT !.at = "send", !.armed = {}])
  /\ UNCHANGED started

\* Faulty variant: the channel has no buffer.
SendUnbuffered(c) ==
  /\ job[c].at = "send" /\ c = call /\ caller = "select"
  /\ Moves(c, [job[c] EXCEPT !.at = "done", !.ch = job[c].out])
  /\ UNCHANGED started

\* The channel has room for the one result.
Send(c) ==
  /\ job[c].at = "send"
  /\ Moves(c, [job[c] EXCEPT !.at = "done", !.ch = job[c].out])
  /\ UNCHANGED started

-----------------------------------------------------------------------------
Hooks(c) == \E hook \in Hook : Fire(c, hook) \/ CloseInHook(c, hook)

Timers(c) == Due(c) \/ ExpireContext(c) \/ ExpireSocket(c) \/ TimeGoesOn(c)

Fails(c) == DialFails(c) \/ HandshakeFails(c) \/ SessionFails(c)

\* What blocks the goroutine has ended: DialContext heeds the context, the
\* rest the socket.
Broken(c) == IF job[c].at = "connect" THEN job[c].ctx # "live" ELSE ~Works(c)

Goroutine(c) ==
  \/ Connected(c) \/ HandshakeOk(c) \/ SessionOk(c) \/ Start(c)
  \/ \E out \in {"ok", "error"} : CommandEnds(c, out)
  \/ Fails(c) \/ Cleanup(c) \/ Send(c)

Over == /\ caller = "idle" /\ (call = MaxCalls \/ quit)
        /\ UNCHANGED vars

Next ==
  \/ Refuse \/ Notify \/ Return \/ Quit
  \/ \E c \in Call : Timers(c) \/ Hooks(c) \/ Goroutine(c)
  \/ Over

Spec == Init /\ [][Next]_vars

\* The caller runs.
Fairness == WF_vars(Return)

\* Goroutines run; a blocked call ends when it is broken.  Nothing is assumed
\* of the server, nor that the timeout ever passes.
GoroutinesRun ==
  \A c \in Call : /\ WF_vars(Hooks(c))
                  /\ WF_vars(Cleanup(c) \/ Send(c))
                  /\ WF_vars(Broken(c) /\ Fails(c))
=============================================================================
