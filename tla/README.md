# A formal model of ups-client

ups-client polls a NUT server (`upsd`) for `ups.status`, turns the difference
between successive readings into upsmon-style events, and hands each event to
shell, webhook, SSH and Telegram targets. Some of those targets power the
machine off. The model is about the two questions behind that: is every change
of the UPS told to the targets exactly once and in a safe order, whatever the
connection does; and does the program always come back to watching the UPS.

Line numbers below refer to the repository's sources.

## Inventory

| component | code | state | operations | hard part |
|---|---|---|---|---|
| Monitor | `monitor/monitor.go` | connection, previous tokens, last snapshot, outage, two debounce windows, backoff | `Run`, `waitReconnect`, `tryConnect`, `pollStatus`, `refreshVars`, `emitCritical`, `emitOtherEdges`, `markCommBad`, `handleConnErr`, `closeConn` | failures between the reads of one handler, outages inside debounce windows, timers racing, cancellation and `AfterFunc` in parallel, maps shared between snapshots and events |
| NUT session | `nut/client.go` | socket, reader, deadline, close-once | `Dial`, `StartTLSContext`, `Login`, `GetVar`, `ListVars`, `ListUPS`, `Close` | replies carry no request number; timeouts, short LISTs, concurrent `Close` |
| Dialer | `main.go:63-81` | none | dial, STARTTLS, login | an error at each step |
| Line codec | `nut/client.go:437-527` | none | `parseTokens`, `unquote`, `Quote`, `validateArguments` | quoting round trip, a server with a grammar of its own |
| Dispatcher | `notifier/notifier.go:31-62` | a WaitGroup per event | `Dispatch` | goroutines of successive events |
| SSH target | `notifier/ssh.go` | one goroutine per event | `Notify` | a select against the context, close-once, a goroutine that outlives its call |
| Shell target, bounded output | `notifier/shell.go`, `shell_unix.go`, `output.go` | a process group, a pipe | `Notify`, `Write` | timeouts, surviving descendants, a pipe held open |
| Webhook, Telegram | `notifier/webhook.go`, `telegram.go` | a lazily built HTTP client | `Notify` | redirects, cut or endless bodies, no timeout configured |
| Configuration | `config/config.go` | none after start | `Parse`, defaults, `validate`, `BuildNotifiers`, `MonitorRuntimeConfig` | zero against left out; settings that are read twice |
| Program | `main.go` | the context | wiring, `-list`, `-check`, signals | the end from inside a `Dispatch` |
| Templates, TLS files, flags, service files | various | none | formatting, I/O | none a model reaches |

How they interact: `Run` is one goroutine. It calls the dialer, then methods
of one connection, and it calls `Dispatcher.Dispatch` synchronously for every
event; `Dispatch` starts a goroutine per matching target and waits for all. The
only other actors on the monitor's state are the context (cancelled by a
signal) and the `AfterFunc` that closes the connection on cancellation. Time
passes inside every call. A target's `Notify` has helpers of its own: the SSH
goroutine with two `AfterFunc`s, os/exec's watcher, the timers of `net/http`.

What makes each component correct:

* **Monitor**: the events a subscriber has heard always describe the last
  observation; shutdown conditions come first; faults are confirmed after
  exactly their window; outages are bracketed by COMMBAD and COMMOK with at most
  one NOCOMM; at most one connection exists; redials are paced; `Run` ends
  on cancellation; what an event carries never changes after its dispatch.
* **NUT session and dialer**: a call returns the answer to its own request or an
  error, if the server sends nothing but answers; a connection whose exchange
  did not run to its end is never used again; no exchange takes longer than the
  timeout; nothing is sent in the clear, and nothing that came in the clear is
  believed, when TLS is configured; a failed dial leaves no socket.
* **Line codec**: what is written is read back as the same words by the other
  side, and a line that lost its end as none.
* **Dispatcher**: each event reaches each matching target once, no target sees
  an event before all have finished with the one before, `Dispatch` returns.
* **Targets**: `Notify` returns; success means that the event was taken; a
  failure leaves no connection, process or late command behind.
* **Configuration**: what runs is what was written, and what is accepted can
  run.
* **All together**: a target that never failed believes what the monitor last
  observed; LOWBATT is out within a bounded time.

## Modules

| module | what it is |
|---|---|
| `UPSEvents` | tokens, conditions, event kinds, the order of dispatch, the two pure diffs (`CriticalEvents`, `EdgeEvents`) |
| `EventStream` | abstract: what a subscriber may rely on |
| `Monitor`, `MonitorProperties`, `MCMonitor` | `monitor.go`, one action per call or handler step; `Contract` is refinement of `EventStream` |
| `MonitorProofs` | theorems about the event stream, the connection, the snapshot, the debounce windows, the payloads and the pauses between redials, and their proofs |
| `ConnContract` | abstract: what the monitor expects of `Conn` |
| `NutSession`, `NutSessionProperties` | the dialer of `main.go` and the exchanges of `client.go`, with their deadline, against a server that may send anything; refines `ConnContract` |
| `NutSessionProofs` | theorems about the session, and their proofs |
| `NutWire`, `NutWireProperties` | writing and reading the words of a line |
| `NutWireProofs` | theorems about texts of every length, and their proofs |
| `Broadcast` | abstract: "Targets run in parallel for each event; events are delivered in order" (`README.md:101`) |
| `Dispatcher`, `DispatcherProperties`, `MCDispatcher` | `Dispatch`; refines `Broadcast` |
| `DispatcherProofs` | theorems about `Dispatch`, and their proofs |
| `SSHNotify`, `ShellNotify`, `HTTPNotify` and their `Properties` | the `Notify` of each type of target |
| `Targets` | the interface `Notifier` as its types implement it: one target of one type |
| `TargetsProofs` | theorems about the three types, and their proofs |
| `EventPayload`, `EventPayloadProperties`, `EventPayloadProofs` | the `Vars` maps that snapshots and events share; theorems about them and their proofs |
| `Config`, `ConfigProperties`, `ConfigProofs` | from the operator's file to what runs; theorems about it and their proofs |
| `System`, `SystemProperties`, `MCSystem` | `Monitor` with `Dispatcher` as its sink |
| `TimedMonitor`, `TimedMonitorProperties`, `MCTimedMonitor` | `Monitor` with the limits of its calls and its ticker |
| `SystemProofs` | theorems about `System` and about `TimedMonitor`, and their proofs |

`System` and `TimedMonitor` extend `Monitor` and instantiate or constrain its
actions; `Targets` instantiates the three `Notify` modules. What `System` says of
a `Notify` is only that it begins, and ends with or without success; that it
does end is `Targets`' `NotifyReturns`. In the same way `Monitor` says of a call
only that it answers or fails, and `NutSession` shows that it does
(`CallsReturn`, `KeepsContract`, the latter for a server that sends nothing but
answers).

### Monitor

`pc` names the call in which `Run`'s goroutine is blocked: `loop` (the top of
the loop), `wait` (`waitReconnect`), `dial`, `list`, `get`, `alarm` (calls of
the dialer and the connection), `critical` and `edges` (inside `emitCritical`
and `emitOtherEdges`), `bad` and `escalate` (inside `markCommBad`, called on a
failure or from `waitReconnect`), `failed` (an error on its way up), `select`
(the loop's select), `stopped`. `op` is the handler, one of `tryConnect`,
`pollStatus`, `refreshVars`, which share their second half.

A handler is a chain of actions in the code's order: the read that yields a
status is `ListStatus` or `GetStatus`, which also take the snapshot (`Observe`) and
queue what `emitCritical` will send; `Emit` sends one event; `CriticalDone`,
`AlarmRead`, `AlarmReadFails` are `pollStatus`'s read of `ups.alarm`; `Edges`
is a handler without that read; `Commit` writes `m.last` and `m.prev` and
returns. `pending` holds the events not yet sent, and `Earliest` picks them in
the order of the code. A `Dispatch` is a step, during which time may pass and
the context may be cancelled; the rest of the events is then dropped by `emit`
while the state changes go on, as in the code.

Any call may fail at any time (`CallFails`, `AlarmReadFails`), for whatever
reason: a timeout, an error reply, an empty status. `ConnErr` is what follows
(`closeConn`, `markCommBad`), or what does not follow once the context is
cancelled.

Timestamps are ages, so that the state space is finite: `Tick` makes every age
one older, and `MaxAge` stands for everything older. `m.rbFirstSeen` and
`m.alarmFirstSeen` are `firstSeen`. The variables `up`, `comm` and `active`
(what the subscriber has heard), `held` (how long a fault has been observed
without a gap) and `retries` are history that no guard reads; so is `beat`, which flips with each event
heard, so that an event sent twice is a step of the contract and not a stutter.

What the model abstracts: the variables of a snapshot are reduced to the
text of `ups.alarm`, and that to where it comes from: `"now"` was read for this
snapshot, `"earlier"` came with the copy of `m.last.Vars` (`Copied`,
`monitor.go:345-352`), and `Deleted` is line 353. So a text that outlives its
snapshot can be told from one that was read again, also while `ALARM` stays
asserted and the read of `ups.alarm` fails. Messages and logs are left out; a nil sink is left out.
It assumes that one LIST reply is one state of the driver, in which `ups.alarm`
exists only with the token `ALARM`. A reply that was buffered before a concurrent `Close` is
covered as a reply before the `Close`.

### NutSession

`step` is the place in the dialer's script; `pc` and `call` are the exchange in
progress. The server answers with any line, sends rows or anything else inside a
LIST, answers late or never, and sends lines that answer nothing
(`ServerBabbles`) at any time: before the first request, ahead of an answer,
inside a list, between two calls. `strays` counts the latter.

What the code can promise depends on `strays`. The client takes the next line as
the answer to its request: `commandOK` (`client.go:207-217`), `GetVar` (308-326)
and the END of `list` (397) do not look at what is buffered behind a reply, as
line 293 does before the handshake, and the protocol gives them nothing to tell
such a line by. So `InStep`, and the half of `KeepsContract` that says that a
success is the answer to its own request, are stated for a server that has sent
nothing beyond its answers (`orderly` in `ConnContract`). An extra
`VAR` line before a GET would be taken for its answer: `ConnContract` lets
a disorderly server have that (`result = "foreign"`). An error, a timeout, a
list cut anywhere, a cancellation and any wrong answer must not lead there, and
that is what the properties are about. What does not depend on the server's
manners is stated for every server: secrecy (`NeverInTheClear`), the timeout
(`ExchangeBounded`, which is the first half of
`CallsReturn`), that nothing leaks, and that a broken connection
stays broken.

Every line in flight carries as history the request it was sent for, 0 for a
stray, and whether it was sent in the clear; the client sees its text only. A
line is one of a few texts, since the code compares whole lines or parsed
tokens; how they are parsed is `NutWire`.

`deadline` is what is left of the socket's deadline, which `writeLine` sets once
for a request (`Send`, `Armed`) and nothing renews: the rows of a LIST and the
handshake run on what is left. The dialer's own timeout is the first. `spent` is
history, the time that the exchange has really taken. Other ends of a call (a
reset, an end of file) may come at any time before.

`Login` has a branch for a UPS name (LOGIN), which `main.go` never takes:
`ClaimUPS` turns it on. `ListUPS`, which nothing but a test calls, is not in the
model: it goes through the same `list` as `ListVars`.

### NutWire

One exchange over one line: the operator's name and the server's value are any
texts over seven classes of characters, of which the line break stands for
everything `validateArguments` refuses. `Serve`, the server's reader, is external: it is
upsd's, with `=` and `#` as characters of its own, which is why `wireToken` quotes
them. Each reader is a step function, applied along the line by a recursive
function over its prefixes; `unquote` is part of the client's. In `Answer` the server quotes in any way it may.

### Dispatcher

One action per pass of the loop (`Skip`, `Start`), one per stage of a worker
goroutine (`Notify`, `Done`), and `Return` when the WaitGroup is zero.

### SSHNotify, ShellNotify, HTTPNotify, Targets

`SSHNotify` has one record per call of `Notify`: the context, the socket, the
client, where its goroutine is, which `AfterFunc`s are armed or have started,
the channel. Calls follow one another while earlier goroutines still run, which
is what `NoLateStart` is about. The deadline of the context and that of the
socket are one instant in the code, computed from one value, but two timers of the
runtime wait for it. `Due` is the instant (`time = "due"`), `ExpireContext` and `ExpireSocket` are
the timers, in either order and with any other steps in between, and
`TimeGoesOn` ends the instant once both have fired. A write looks at its own
timer only. So there is a gap in the code: between a context's timer and the
socket's, `Notify` has returned and the goroutine can still send its command.
`NoLateStart` names the gap instead of closing it: outside of this instant, and
of the end of the program, no command is sent after its `Notify` has returned.
In the model the instant has no length, and a second `Notify` may run to its end
in it; in the program that would take a dial and a handshake between two timers
that are due together. A call's instants come in the order of the calls.

`ShellNotify` has the command, its descendants (each in the group or
not, with the pipe or not), os/exec's watcher and its copying goroutine, and
`limitedOutput`. `Reap`, `Handoff`, `DrainEnds` and `DrainTimesOut` are
`exec.Cmd.Wait`, modelled from how it is configured (`Cancel`, `WaitDelay`). A
process group may be gone when the watcher kills it, which is no error
(`shell_unix.go:17-19`). Identifiers are not reused: a group identifier that
the system gives to others before the second kill is not modelled.

`HTTPNotify` is both HTTP targets, over successive events with the one client
that both keep. What differs is named: the limit of the body, what counts as
success. Connections are the pool's; a busy one that is not given back is a leak.
Retries inside `net/http` are left out: it replays no POST.

`Targets` is one target of one type, chosen at the start, so that one run checks
the three under one statement of what a `Notifier` owes.

### EventPayload

A heap of maps, since the question is who writes a map that somebody else still
reads. A place of a handler that may emit dispatches any number of events, and
consumers keep any of the maps for any time.

### Config

The operator edits a working file, then starts the program. Each setting is a
value around its limits; a text is empty, well-formed, or one that its check of
syntax refuses. An address is a host, brackets and a port, taken apart as
`net.ParseIP` and `net.SplitHostPort` do; `Swallows` notes the one text whose
meaning no program can guess, an IPv6 address and a number with no brackets.

### System

`SysEmit` is `Emit` and the call of `Dispatch` in one; the monitor's goroutine
goes on (`Proceed`) only when `dispatch` is idle again, while time, cancellation
and the `AfterFunc` (`Outside`) do not wait. A notification ends in `Delivered`
or `Fails`; nobody repeats it. `told` is history: what a target can conclude from
the events it was delivered, and for conditions whose end is not announced, from
nothing (they lapse when the monitor sees it, as in `EventStream`).

### TimedMonitor

`spent` is the time in the present call. `Limit` bounds it: by `nut.timeout` for an
exchange; by four of them for the dialer, which dials, starts TLS and logs in
with a name and a password (`LongestDial`); and for a `Dispatch` by
`LongestNotify`, a target's timeout and the `WaitDelay` of a shell target, which
waits that much longer for a pipe that a descendant holds (`shell.go:61`,
`ShellNotify`'s `DrainTimesOut`). `due` is the one place in
the ticker's channel. `Appears` is a moment at which the UPS reaches LOWBATT while a
connection works; `lag` counts from there. An answer shows the UPS at some
moment of its call (`Current`). When the connection fails the wait is that
of the outage, and `lag` is given up.

## Runs

| run | question | bounds and why they suffice |
|---|---|---|
| `MonitorPower` | are edges and shutdown conditions told once and in order, and does each event's payload show its reason? | 8 statuses: every order in which LB, OB and FSD can come and go, one toggle on either side; no windows, threshold 1 |
| `MonitorFaults` | are debounced faults exact, is the alarm text current, is a fault that stays confirmed in the end? | windows 2 and 1, so that one fault is confirmed in the other's window; handlers last up to 1, so that emission time matters; ages to 3 = window + handler |
| `MonitorOutage` | is the connection single, the redial paced, the outage escalated and over when the server is back, does `Run` end? | backoff 1, 2, 4: two doublings and the cap; threshold 2 falls between retries |
| `MonitorEscalation` | does every long outage get its NOCOMM? | violated, see below |
| `NutSession` | does the connection keep its contract, is it bounded in time, and does every call return? | 6 requests: four for the dialer, two of the monitor, so that a line of one call can meet the next; LISTs of 1 row, which is the limit, and one more; 1 stray line, at any place; a timeout of 1, so that each exchange sees the deadline before, at and after it is used up |
| `NutWire` | do requests and replies survive quoting on both sides? | name and value of 3 characters together: an escape, the character it protects and a neighbour; every split, both ways of quoting, one or two blanks, a row that lost one or two characters |
| `Dispatcher` | does fan-out keep order and end? | 4 targets, 3 kinds, 4 events |
| `Targets` | does each type of target keep what a `Notifier` owes? | SSH: 2 calls, the second beside the first's goroutine, each with its two timers. Shell: 2 descendants, one of which may start from the other; output up to and past the limit of 3. HTTP: 2 events, so that a pooled connection is used again; bodies up to the limit of 2 and past it |
| `EventPayload` | can a map change that somebody keeps? | 4 maps: those of the snapshot and of `m.last`, one kept, one free; a status with and one without an alarm |
| `Config` | is what runs what was written? | 2 edits: every pair of settings, each at, just below and just above its limits |
| `System` | what does each target believe and when; does a cancelled program end? | 2 targets with different filters, 7 events: an outage with its end, a shutdown and an alarm with its end fit |
| `TimedMonitor` | how long can LOWBATT wait? | an exchange lasts at most 1, a notification 2 (timeout 1, `WaitDelay` 1), the interval is 4; a handler has at most 5 events (`MostEvents`, which an ASSUME compares with the statuses), FSD and LOWBATT among them, the end of a fault and of an outage, and an edge; `MaxBusy` is larger than the longest handler (an ASSUME of `MCTimedMonitor`) |

`FaultStatuses` and `PowerStatuses` are apart because the two groups of tokens
do not interact in the code, except that a shutdown condition may come with an
alarm, which `FaultStatuses` has. The outage runs need one status only.

The bound of `ShutdownDelayBounded` is the larger of one interval and the longest
handler, two exchanges, and one notification if a status can show FSD with
LOWBATT: "Polling waits for delivery", so a handler that began before LOWBATT is
finished with all its notifications first, and FSD is dispatched before LOWBATT.
The longest handler is a LIST or GET, the read of `ups.alarm`, and a notification
for each of `MostEvents` events; `Caused` says which events a snapshot may
cause.

### Fairness

`Fairness` of the monitor says that timers fire, that calls return (every
exchange has a deadline, `nut.timeout` is at least 100 ms after `validate`:
`Usable`), that `Dispatch` returns (each target has a timeout; `DispatchReturns`,
`NotifyReturns`), and that
the goroutine runs. Nothing is said about what a call returns. The clock is
strongly fair: it is not enabled at the instants at which the goroutine is between two
calls, and a busy loop must not be able to stop it. `ServerBack`, the antecedent
of `Reconnects`, says that a server that is tried again and again in the
end accepts and answers; it is an assumption about the environment, and no
other property has it. `NutSession` assumes that time passes (`Tick`) and that a blocked
dial or read ends when its deadline has come or its socket is closed, which is
what the runtime does; that every call comes to one of the two is for the model
to show, and a request without `setDeadlines` does not. Nothing is
assumed of the server.

For the targets: of SSH only that the caller runs. `GoroutinesRun`, the
antecedent of the second half of SSH's promise (`GoroutineEnds`), adds that the
goroutine and its `AfterFunc`s do, and that a library call on a closed socket or
past its deadline ends, not that a deadline comes; `NotifyReturns` itself does without, which is what the
select in the code is for. Of Shell, that the watcher, `Wait` and `WaitDelay`'s
timer do their part, and nothing of processes. Of HTTP, that timers fire and that
an interrupted call returns, and nothing of servers. No fairness makes a context
end that has no reason to.

`SysFairSpec` assumes as `Monitor` and `Dispatcher` do: the monitor's goroutine,
the fan-out and each target run, the `AfterFunc` fires, and time goes on.

### Faulty variants

Definitions marked "Faulty variant" are not part of any specification. Each is
a plausible mistake in the definition that follows it, put in its place to see
that a property notices; `PROJECT.json` pairs them.

### A divergence

`markCommBad`'s comment (`monitor.go:501-502`) and the event table
(`README.md:484`) promise NOCOMM once an outage outlasts the threshold.
`tryConnect` ends an outage (`monitor.go:320-322`) without looking at its age,
and the NOCOMM timer exists only in `waitReconnect`. If the threshold passes during
a dial or a LIST that then succeeds, or if `select` takes the retry when both
timers are due, the outage ends with COMMOK and no NOCOMM. `MonitorEscalation`
shows it (`LongOutageEscalated`). An outage that goes on is escalated
(`OutageEscalated`).

## Proofs

`MonitorProofs` proves, for every set of statuses that are not empty and every
window, threshold and backoff allowed by the ASSUMEs of `Monitor`:

* `TypeCorrect`: `Spec => []TypeOK`.
* `ViewInvariant`: the inductive invariant `Inv`.
* `SubscriberAlwaysInformed`, `ShutdownAlwaysAlertedFirst`: the invariants of the same names.
* `MonitorKeepsContract`: `Monitor` implements `EventStream`.

The assumptions are what `New` establishes (a positive backoff of at most the
maximum) and that ages reach far enough for the comparisons made with them.

The argument. `SubscriberInformed` speaks only of the moments between two
snapshots, so it is not inductive. `Inv` says at every moment what the view
*will be* when the queue is empty. For a condition `c`, `Target(c)` is whether
it is to be active then; the queue holds `c`'s enter event only if the target
is active, its leave event only if it is not, never both; and `c` is active now
exactly if its end is still queued, or it is the target and its beginning is not
(`ConditionsInv`). `CommInv` and `StartInv` are the same for the outage and
STARTUP; `PendingInv` says which events may be queued where; `ControlInv` says
which handler is running where, which is needed because only a handler other than
`tryConnect` may assume that there is no outage. `Inv` is weakened by
`~canceled`, since events are dropped after that; the contract still holds
then, because nothing more is heard. `ObserveKeepsView` and
`OtherEdgesKeepView` show that the queue is computed to match,
`EmitKeepsView` that one emission moves one event from the queue to the view, and
`EdgesInOrder` that the order of dispatch puts COMMOK and STARTUP before the
other edges. The vocabulary lemmas (`KindsDistinct`, `EarliestIsFirst`) say
that an event kind names one transition and that the order has a least
element.

The same module goes on from `TypeCorrect`:

* `AlwaysOneConnection`: `OneConnection` is inductive as it stands.
* `AlarmTextAlwaysCurrent`: by `SnapInv`, which says where the snapshot under
  construction is empty, that `m.prev` is the tokens of `m.last`, and that no
  snapshot has the text of an earlier one: the copy that `pollStatus` starts from
  would, and does not because of line 353 alone.
* `DebounceAlwaysExact`: by `WindowInv`. Outside a handler, a fault of `m.prev`
  has been observed for as long as its stamp says, and another has no stamp and
  is not confirmed; inside, the same of the snapshot's tokens, before
  and after the stamps are updated. `DebounceExact` alone is not inductive: it
  forgets how a stamp and the observations are related between two handlers.
* `PayloadAlwaysAgrees`: by `PayloadInv`, which says of every queue, and not only
  of the event about to be sent, that the two snapshots explain it.
* `RedialsAlwaysPaced`: by `PaceInv`, which says that `backoff` is always the
  pause owed before the next retry, and where the monitor can be without a
  connection. The code doubles a local and caps it, `RedialsPaced` speaks of
  `2^n`; `PauseDoubles` relates them. The prover knows nothing of powers, so
  `PowerDoubles` counts subsets: a set with one element more has twice as many
  (`FS_SUBSET`, `FS_Bijection`).

`DispatcherProofs` proves, for any number of notifiers, any filters and any number
of events:

* `DispatcherTypes` and `NeverOverlaps`: `TypeOK` and `NoOverlap`.
* `DispatcherKeepsContract`: `Dispatcher` implements `Broadcast`.

The inductive invariant is that the WaitGroup counts the notifiers that are
running, each of which runs once and for the event in progress; so a count of
zero, for which `Return` waits, means that none is.

`NutSessionProofs` proves, for any number of requests, rows and strays, any
timeout, with or without TLS, credentials and a claimed UPS:

* `SessionTypes`, `NeverSentInTheClear`, `NoConnectionEverLeft`,
  `ExchangeAlwaysBounded`: the invariants `TypeOK`, `NeverInTheClear`,
  `NoConnectionLeft` and `ExchangeBounded` (the safety half of `CallsReturn`), for
  any server.
* `AlwaysInStep`: `InStep`, for as long as there was no stray.
* `SessionKeepsContract`: `NutSession` implements `ConnContract`.

`InStep` speaks of the moments between two calls. The inductive invariant
(`SessionInvariant`) adds what holds during one. Whatever the server sends:
`ControlInv` says which call can be in progress where; `ClearInv`, that once the
connection is secured no line of the clear is left to read; `TimeInv`, that the time
an exchange has taken and what is left of its deadline are together at most one
timeout.
Without strays, only lines of the present request
have been accepted, and `WireInv` says that the lines in flight are, in this order,
what is left of the answer to the present request: nothing yet, a single line, a
LIST that has begun (`Listing`), or one whose END is the last line (`Ended`). So a
call that succeeds has read the last line, and any other has closed the
connection.

`SystemProofs` proves, for any number of targets, any filters and any statuses,
with the assumptions of `Monitor` and `Dispatcher`:

* `RunsTheMonitor`: `SysSpec => Spec`; so the monitor's theorems are the
  program's (`SystemKeepsStream` is one).
* `EventsReachTargets`: `Dispatch` as the monitor calls it implements `Broadcast`.
* `TargetsAlwaysInformed`, `ShutdownAlwaysHandledFirst`: `TargetsInformed` and
  `ShutdownHandledFirst`, which the run `System` checks for two targets.
* `NotifiersAlwaysJoined`: no notifier runs while the monitor reads or after it
  has ended.

The argument puts the two components' invariants together. `TargetsInformed`
speaks of moments without a `Dispatch`; `SystemInvariant` says at every moment
that what a target believes *once it has handled what it is owed* (`Awaits`,
with the `Owing` of `Dispatcher`) is what the monitor's subscriber has heard, of
the conditions the target follows. An emission makes the event owed to those who
want it, and is about nothing that the others follow (`FollowsWhatItWants`); the fan-out
changes nothing that is owed (`FanOutOwes`); the end of a notification settles it
(`DoneSettles`). `SubscriberInformed` does the rest. `PlaceInv` says that FSD and
LOWBATT are dispatched from `critical` only, so that what a target is owed while the
other edges are dispatched is never a shutdown condition.

The second part of `SystemProofs` proves, for every interval, every timeout of an
exchange and of a target, every `WaitDelay`, any statuses and the number of events that they may
cause (`MostEvents`):

* `TimedRunsTheMonitor`: `TimedSpec => Spec`, so the monitor's theorems hold with
  the limits too.
* `TimedInvariant`, the inductive invariant, and `ShutdownDelayAlwaysBounded`, the
  bound.

`TimedInv` says of every place of the monitor how much of the bound can be used
up there. `HandlerInv` bounds the age of the snapshot by the notifications that
have been sent, plus the alarm read: `Cost` of the events that are no longer queued,
less what is `Left` of the present one. `EdgesCounted` is its core: FSD and
LOWBATT, then the other events of the same snapshot, are together at most
`MostEvents`. `LagInv` says where LOWBATT can be waiting, and that no
snapshot before had it. `TickerInv` is about the ticker's one place: if it is empty,
the last poll began after the last tick, and a condition that it missed has
appeared since. `DelayInv` adds them up: a handler in progress when the condition
appears is over within `LongestHandler`; otherwise the next tick is at most one
interval away; then a read that sees it, or a LIST without a status and a GET
that does. `MaxBusy`, at which the model stops time inside a handler, may be any
number; the bound does not depend on it.

`TargetsProofs` proves, for any number of calls, descendants, events and bytes:

* `TargetInvHolds`: the inductive invariant, one part for each type.
* `NothingIsLeft`, `VerdictIsHonest`, `NothingStartsLate`: the properties
  `NothingLeft`, `VerdictHonest`, `NoLateStart`.

`SSHInv` says of every call at once, as goroutines of several are alive, where its
goroutine may hold a socket and a client and how often it has closed the latter, and
why its context may be done, and that a timeout is past only when both its timers
have fired; so a command that is sent after its `Notify` has returned needs a
goroutine that got past the deadline of its socket, or the instant between the two. `ShellInv`
says what of the command, the watcher and the pipe is over at each stage of `Run`, and
what of that `err` knows; that `limitedOutput` reports all it was given is part of it,
since os/exec would stop copying otherwise. `HTTPInv` says that at most the
configured endpoint has the event and how the reading of the answer stands.

`EventPayloadProofs` proves `PayloadIsFrozen` for any values of `ups.status` and any
number of maps. `PayloadInv`: the map of a snapshot has its status, and the one that
`pollStatus` is about to write the alarm into is held by no consumer and is not that
of `m.last`.

`ConfigProofs` proves, for every file that any number of edits can make, with settings of
any size, `DurationsHold`, `AddressIsReached`, `TargetsAreDeliverable` and
`SubscriptionsHold`. `ConfigInv` says that what runs was built from the file as it is, and
that `validate` took that; the rest is about `Valid` and the functions that read the
file again (`Clamped`, `DialEndpoint`, `Match`).

`NutWireProofs` proves, for texts of every length, `RequestsReadBack`,
`AnswersReadBack` and `CutRowsRefused`, from `WireInv`, which says that what is on the
wire is what was quoted. What a reader makes of a text needs an induction along the
text, and a rule of induction over a predicate cannot be cited here; over a *set* it can
be proved, by the least element of what the set lacks (`SetInduction`,
`TextInduction`, from `WFMin` and `NatLessThanWellFounded`). With it,
`ReadingsExist` and `EscapesExist` show that the recursive functions of `NutWire`
are functions, `ReadInParts` that a reader may be stopped and resumed anywhere,
and `ReadEscapes` that inside quotes the escapes of a text are read as the text,
for any characters that a writer escapes, as long as the quote and the backslash
are among them. The rows follow piece by piece.

Model-checked only: liveness and fairness, which are out of the prover's reach, as is
ENABLED. These are `FaultConfirmed`, `StopsOnCancel`, `OutageEscalated`, `Reconnects`,
`CallsReturn`, `DispatchReturns`, `NotifyReturns` and `EndsOnCancel`. Every safety
property that a run checks is a theorem.

## Plan

Done: the monitor, the session, the dispatcher, the targets, the line codec, the
configuration, the payload, the composition, the delay bound; a theorem for each of
their safety properties.

Next:

1. `NutSession` behind the `Conn` of `System`, if the product of the two turns out
   to say more than `ConnContract` and `Monitor`'s arbitrary answers do.
2. The safety halves of the liveness properties: what a `Notify`, a `Dispatch` or an
   exchange has at most left to do, as a measure that every step of it decreases.

## Not modelled

* Templates (`TemplateData`, `Env`, rendering): text from an event; that a
  template may fail is an outcome of every `Notify`. `TelegramTarget.requestError`'s
  redaction of the token is wording, too.
* `shell_other.go`: without process groups the fallback kills one process.
* `-list` and `-check`, flags, the reading of TLS files, keys and `known_hosts`:
  straight-line code before or instead of the monitor. `-list` prints what
  `ListVars` returns, which is in `NutSession`; `ListUPS` is called by tests only.
* Deployment: service files and build rules.
