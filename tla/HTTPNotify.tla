----------------------------- MODULE HTTPNotify -----------------------------
(***************************************************************************)
(* Notify of WebhookTarget and TelegramTarget (notifier/webhook.go and     *)
(* telegram.go): one request through an http.Client that is made once and  *)
(* kept for later events, with its pooled connection.  net/http, the       *)
(* server and what stands between are the environment: the request may get *)
(* lost, the answer may never come, redirect, drip, break or not end.      *)
(***************************************************************************)
EXTENDS Integers

CONSTANTS
  MaxBody,   \* maxResponseBytes, in units
  MaxEvents  \* bound: successive events at the target

VARIABLES
  target,   \* its type, and whether a timeout is configured
  at,       \* "idle", then in Notify "do", "status", "body", "read", "end"
  ctx,      \* the context of the request: "live", "expired", "canceled"
  timer,    \* Timeout of the client: "off", "armed" or "fired"
  conns,    \* connections of the client: "idle" in the pool or "busy"
  posted,   \* history: servers that received the present request
  reply,    \* the answer: its status and, for Telegram, what it says
  read,     \* how much of its body was read
  eof,      \* the end of the body was seen
  err,      \* a read failed
  events,
  result

noteVars == <<reply, read, eof, err>>
vars == <<target, at, ctx, timer, conns, posted, noteVars, events, result>>

-----------------------------------------------------------------------------
NoReply == [status |-> 0, says |-> "nothing"]
Replies == [status : {200, 302, 500}, says : {"ok", "refused", "nothing"}]

Target == [type : {"webhook", "telegram"}, timed : BOOLEAN]
Webhook == target.type = "webhook"
Success(r) == r.status \in 200 .. 299

Init ==
  /\ target \in Target
  /\ at = "idle" /\ ctx = "live" /\ timer = "off" /\ conns = {}
  /\ posted = {} /\ reply = NoReply /\ read = 0 /\ eof = FALSE /\ err = FALSE
  /\ events = 0 /\ result = "none"

\* Faulty variant: no default for a target without a timeout.
ArmIfTimed == IF target.timed THEN "armed" ELSE "off"

\* httpClient: Timeout is the target's or 10 s; Do arms it.
Arm == "armed"

\* Notify is called: the data of the last request is gone.
Do ==
  /\ at = "idle" /\ events < MaxEvents /\ ctx = "live"
  /\ at' = "do" /\ events' = events + 1 /\ timer' = Arm
  /\ posted' = {} /\ reply' = NoReply /\ read' = 0 /\ eof' = FALSE /\ err' = FALSE
  /\ result' = "none"
  /\ UNCHANGED <<target, ctx, conns>>

\* An empty setting, a template that fails, a URL or a Host that is none.
Refuse ==
  /\ at = "idle" /\ events < MaxEvents /\ ctx = "live"
  /\ events' = events + 1 /\ result' = "error" /\ posted' = {}
  /\ UNCHANGED <<target, at, ctx, timer, conns, noteVars>>

-----------------------------------------------------------------------------
\* Time and the end of the program; the context has a limit if the target has.

Expire ==
  /\ at # "idle"
  /\ \/ target.timed /\ ctx = "live" /\ ctx' = "expired" /\ UNCHANGED timer
     \/ timer = "armed" /\ timer' = "fired" /\ UNCHANGED ctx
  /\ UNCHANGED <<target, at, conns, posted, noteVars, events, result>>

Cancel ==
  /\ ctx = "live"
  /\ ctx' = "canceled"
  /\ UNCHANGED <<target, at, timer, conns, posted, noteVars, events, result>>

-----------------------------------------------------------------------------
\* net/http.  A pooled connection is used again.

Posts ==
  /\ at = "do" /\ posted = {}
  /\ posted' = {"endpoint"} /\ conns' = {"busy"}
  /\ UNCHANGED <<target, at, ctx, timer, noteVars, events, result>>

\* Faulty variant: redirects are followed.
AnswersFollowed(r) ==
  /\ at = "do" /\ posted # {}
  /\ IF r.status = 302 /\ posted = {"endpoint"}
     THEN posted' = {"endpoint", "elsewhere"} /\ UNCHANGED <<at, reply>>
     ELSE at' = "status" /\ reply' = r /\ UNCHANGED posted
  /\ UNCHANGED <<target, ctx, timer, conns, read, eof, err, events, result>>

\* rejectRedirect: a redirect is an answer like any other.
Answers(r) ==
  /\ at = "do" /\ posted # {}
  /\ at' = "status" /\ reply' = r
  /\ UNCHANGED <<target, ctx, timer, conns, posted, read, eof, err, events, result>>

\* The transport failed, or the context or the timer ended the call: no
\* response, and its connection is closed.
NoResponse ==
  /\ at = "do" /\ at' = "end" /\ err' = TRUE
  /\ conns' = conns \ {"busy"}
  /\ UNCHANGED <<target, ctx, timer, posted, reply, read, eof, events, result>>

\* A body that is not over, with a limit of its own per type: the webhook
\* discards what it reads, Telegram needs one more unit to see an excess.
Room == IF Webhook THEN MaxBody ELSE MaxBody + 1
Arrives ==
  /\ at = "body" /\ read < Room
  /\ read' = read + 1
  /\ UNCHANGED <<target, at, ctx, timer, conns, posted, reply, eof, err, events, result>>

BodyEnds ==
  /\ at = "body" /\ read < Room
  /\ at' = "read" /\ eof' = TRUE
  /\ UNCHANGED <<target, ctx, timer, conns, posted, reply, read, err, events, result>>

BodyBreaks ==
  /\ at = "body" /\ read < Room
  /\ at' = "read" /\ err' = TRUE
  /\ UNCHANGED <<target, ctx, timer, conns, posted, reply, read, eof, events, result>>

\* io.LimitReader says that this is the end.
BodyCut ==
  /\ at = "body" /\ read = Room
  /\ at' = "read"
  /\ UNCHANGED <<target, ctx, timer, conns, posted, noteVars, events, result>>

-----------------------------------------------------------------------------
\* Notify goes on.

\* A webhook leaves the body of an error alone.
Status ==
  /\ at = "status"
  /\ at' = IF Webhook /\ ~Success(reply) THEN "read" ELSE "body"
  /\ UNCHANGED <<target, ctx, timer, conns, posted, noteVars, events, result>>

\* Faulty variant: any 2xx is good enough for Telegram.
AcceptedByStatus == Success(reply) /\ ~err

\* Telegram: the whole body, decoded, says so.
Accepted ==
  /\ Success(reply) /\ ~err
  /\ Webhook \/ (read <= MaxBody /\ reply.says = "ok")

\* Faulty variant: an error status returns before Body.Close is deferred.
CloseUnlessError == IF reply.status = 500 THEN conns ELSE IF eof THEN {"idle"} ELSE {}

\* Body.Close: the pool takes a connection back whose body was read.
Close == IF eof THEN {"idle"} ELSE {}

Return ==
  /\ at \in {"read", "end"}
  /\ at' = "idle" /\ timer' = "off"
  /\ ctx' = IF ctx = "expired" THEN "live" ELSE ctx
  /\ conns' = IF at = "read" THEN Close ELSE conns
  /\ result' = IF at = "read" /\ Accepted THEN "ok" ELSE "error"
  /\ UNCHANGED <<target, posted, noteVars, events>>

\* The server, or the pool, drops a connection that is not in use.
IdleCloses ==
  /\ "idle" \in conns /\ conns' = conns \ {"idle"}
  /\ UNCHANGED <<target, at, ctx, timer, posted, noteVars, events, result>>

-----------------------------------------------------------------------------
Interrupted == (ctx # "live" \/ timer = "fired") /\ (NoResponse \/ BodyBreaks)

Server == Posts \/ (\E r \in Replies : Answers(r)) \/ NoResponse \/ Arrives \/ BodyEnds \/ BodyBreaks

Next ==
  \/ Do \/ Refuse \/ Expire \/ Cancel \/ Server \/ BodyCut \/ Status \/ Return \/ IdleCloses
  \/ at = "idle" /\ UNCHANGED vars

Spec == Init /\ [][Next]_vars

\* Timers fire and an interrupted call returns; nothing is assumed of servers.
Fairness ==
  WF_vars(Expire) /\ WF_vars(Interrupted) /\ WF_vars(Status \/ BodyCut \/ Return)
=============================================================================
