----------------------------- MODULE NutSession -----------------------------
(***************************************************************************)
(* One connection to upsd from its dialling to its end: the dialer of      *)
(* main.go (Dial, STARTTLS, login), then the calls of the monitor, over    *)
(* the line protocol of nut/client.go.                                     *)
(*                                                                         *)
(* The protocol has no request numbers.  A reply belongs to the request    *)
(* before it only because the client reads every reply to its end or       *)
(* closes the connection, and because the server sends nothing but its     *)
(* replies: the client has no means to tell a line that nobody asked for.  *)
(* The server here may send such strays at any time, and they are counted. *)
(* Each line in flight carries, as history, the number of the request the  *)
(* server sent it for, and whether it was sent in the clear; the client    *)
(* looks at its text only.                                                 *)
(*                                                                         *)
(* Time is counted in ticks.  writeLine sets the deadline of the socket    *)
(* once for a request and everything that is read in answer to it.         *)
(***************************************************************************)
EXTENDS Integers, Sequences

CONSTANTS
  UseTLS,        \* nut.tls.enable
  Authenticate,  \* a username or a password is configured
  ClaimUPS,      \* Login is given a UPS name; the dialer of main.go gives none
  Timeout,       \* nut.timeout, in ticks
  MaxRequests,   \* bound: requests written on the connection
  MaxStrays,     \* bound: lines the server sends that answer no request
  MaxRows        \* the 1 MiB limit on a LIST reply, in rows

ASSUME SessionAssumption ==
  /\ UseTLS \in BOOLEAN /\ Authenticate \in BOOLEAN /\ ClaimUPS \in BOOLEAN
  /\ Timeout \in Nat \ {0}
  /\ MaxRequests \in Nat /\ MaxStrays \in Nat /\ MaxRows \in Nat

VARIABLES
  pc,       \* the caller: dialling, between calls, or where it is blocked
  step,     \* the next step of the dialer, "ready" once the monitor has it
  call,     \* the request in progress, or "none"
  conn,     \* "none", "open" or "closed"
  secured,  \* commands and replies go through TLS
  canceled, \* the context of the program
  sent,     \* requests written so far
  wire,     \* lines sent by the server and not read
  owed,     \* requests the server has still to answer
  strays,   \* history: lines the server has sent beyond its answers
  deadline, \* time left to the dial or the exchange, NoDeadline outside
  spent,    \* history: time the dial or the exchange has taken
  rows,     \* rows of the LIST being read, or sent by the server
  sources,  \* history: the requests whose lines the current call accepted
  result    \* history: the outcome of the last call

clientVars == <<pc, step, call, conn, secured, result>>
serverVars == <<wire, owed, strays>>
clockVars  == <<deadline, spent>>
vars == <<clientVars, serverVars, clockVars, canceled, sent, rows, sources>>

-----------------------------------------------------------------------------
Commands == {"STARTTLS", "USERNAME", "PASSWORD", "LOGIN"}
Lists    == {"LIST VAR"}
Queries  == {"GET STATUS", "GET ALARM"} \cup Lists
Requests == Commands \cup Queries

\* The text that answers a request: GetVar takes only the VAR line of its own
\* variable, commandOK only the exact line, list only its own BEGIN.
First(request) ==
  CASE request = "STARTTLS"   -> "OK STARTTLS"
    [] request = "GET STATUS" -> "VAR ups.status"
    [] request = "GET ALARM"  -> "VAR ups.alarm"
    [] request = "LIST VAR"   -> "BEGIN LIST VAR"
    [] OTHER                  -> "OK"
End(list)  == "END LIST VAR"
Rows(list) == {"VAR ups.status", "VAR ups.alarm"}

\* "?" is any other text.
Text ==
  {"OK", "OK STARTTLS", "VAR ups.status", "VAR ups.alarm", "ERR", "?"}
    \cup {First(list) : list \in Lists} \cup {End(list) : list \in Lists}

\* The dialer's script; Login without credentials sends nothing.
AfterTLS == IF Authenticate THEN "USERNAME" ELSE "ready"
AfterPassword == IF ClaimUPS THEN "LOGIN" ELSE "ready"
After == [STARTTLS |-> AfterTLS, USERNAME |-> "PASSWORD", PASSWORD |-> AfterPassword,
          LOGIN |-> "ready"]

NoDeadline == -1

\* Faulty variant: the socket is given no deadline.
Unarmed == NoDeadline

\* setDeadlines, and the timeout of the dialer.
Armed == Timeout

Init ==
  /\ pc = "dial" /\ step = IF UseTLS THEN "STARTTLS" ELSE AfterTLS
  /\ call = "none" /\ conn = "none" /\ secured = FALSE /\ canceled = FALSE
  /\ sent = 0 /\ wire = <<>> /\ owed = <<>> /\ strays = 0
  /\ deadline = Armed /\ spent = 0
  /\ rows = [read |-> 0, listed |-> -1]
  /\ sources = {} /\ result = "none"

-----------------------------------------------------------------------------
\* Time, for a call that is blocked in the network.  At its deadline it fails.
Tick ==
  /\ pc \in {"dial", "reply", "rows", "handshake"} /\ deadline # 0
  /\ deadline' = IF deadline = NoDeadline THEN NoDeadline ELSE deadline - 1
  /\ spent' = IF spent > Timeout THEN spent ELSE spent + 1
  /\ UNCHANGED <<clientVars, serverVars, canceled, sent, rows, sources>>

\* What is left of a deadline when a call is over bounds nothing: writeLine
\* replaces it before the next read.
Disarmed == deadline' = NoDeadline /\ spent' = 0

-----------------------------------------------------------------------------
\* Dial, and the end of the connection.

DialOk ==
  /\ pc = "dial"
  /\ pc' = "idle" /\ conn' = "open" /\ Disarmed
  /\ UNCHANGED <<step, call, secured, result, serverVars, canceled, sent,
                 rows, sources>>

DialFails ==
  /\ pc = "dial"
  /\ pc' = "gone" /\ Disarmed
  /\ UNCHANGED <<step, call, conn, secured, result, serverVars, canceled,
                 sent, rows, sources>>

Cancel ==
  /\ ~canceled
  /\ canceled' = TRUE
  /\ UNCHANGED <<clientVars, serverVars, clockVars, sent, rows, sources>>

\* The AfterFunc of the dialer, of StartTLSContext or of the monitor: Close
\* from another goroutine, at any point of a call.
CloseOnCancel ==
  /\ canceled /\ conn = "open"
  /\ conn' = "closed"
  /\ UNCHANGED <<pc, step, call, secured, result, serverVars, clockVars,
                 canceled, sent, rows, sources>>

\* The monitor gives the connection up.
CallerCloses ==
  /\ pc = "idle" /\ step = "ready"
  /\ pc' = "gone" /\ conn' = "closed"
  /\ UNCHANGED <<step, call, secured, result, serverVars, clockVars, canceled,
                 sent, rows, sources>>

-----------------------------------------------------------------------------
\* Calls.  An error in a dialer step closes the connection and ends the
\* session; an error in a call of the monitor is returned to it.

Succeed ==
  /\ pc' = "idle" /\ call' = "none"
  /\ step' = IF step = "ready" THEN step ELSE After[step]
  /\ result' = IF sources' \subseteq {sent} THEN "own" ELSE "foreign"
  /\ Disarmed
  /\ UNCHANGED conn

\* Faulty variant: the dialer does not close what it dialled.
FailKeeps(close) ==
  /\ pc' = IF step = "ready" THEN "idle" ELSE "gone"
  /\ call' = "none" /\ result' = "error"
  /\ conn' = IF close THEN "closed" ELSE conn
  /\ Disarmed
  /\ UNCHANGED <<step, secured>>

Fail(close) ==
  /\ pc' = IF step = "ready" THEN "idle" ELSE "gone"
  /\ call' = "none" /\ result' = "error"
  /\ conn' = IF close \/ step # "ready" THEN "closed" ELSE conn
  /\ Disarmed
  /\ UNCHANGED <<step, secured>>

\* writeLine: nothing is owed for a request that could not be written.
Send(request) ==
  /\ pc = "idle" /\ sent < MaxRequests
  /\ request \in IF step = "ready" THEN Queries ELSE {step}
  /\ request = "STARTTLS" => ~canceled
  /\ call' = request /\ result' = "none"
  /\ sent' = sent + 1 /\ sources' = {}
  /\ deadline' = Armed /\ spent' = 0
  /\ IF conn = "open"
     THEN pc' = "reply" /\ owed' = Append(owed, [of |-> sent + 1, what |-> request])
     ELSE pc' = "refused" /\ UNCHANGED owed
  /\ rows' = [rows EXCEPT !.read = 0]
  /\ UNCHANGED <<step, conn, secured, wire, strays, canceled>>

\* StartTLSContext finds its context cancelled, and the dialer closes.
TLSRefused ==
  /\ pc = "idle" /\ step = "STARTTLS" /\ canceled
  /\ pc' = "gone" /\ conn' = "closed"
  /\ UNCHANGED <<step, call, secured, result, serverVars, clockVars, canceled,
                 sent, rows, sources>>

\* Faulty variant: a timeout keeps the connection.
IOFailsOpen ==
  /\ pc \in {"refused", "reply", "rows", "handshake"}
  /\ Fail(FALSE)
  /\ UNCHANGED <<serverVars, canceled, sent, rows, sources>>

\* The deadline of the exchange, a lost connection, a line that is too long:
\* writeLine and readLine close the connection.
IOFails ==
  /\ pc \in {"refused", "reply", "rows", "handshake"}
  /\ Fail(TRUE)
  /\ UNCHANGED <<serverVars, canceled, sent, rows, sources>>

\* The next line, which may have been buffered before a concurrent Close.
Reads(text) ==
  /\ wire # <<>> /\ Head(wire).text = text
  /\ wire' = Tail(wire)
  /\ UNCHANGED <<owed, strays, canceled, sent>>

Accepts(text) == Reads(text) /\ sources' = sources \cup {Head(wire).of}

\* Faulty variant: a server without TLS is used in the clear.
ErrorReplyIgnored ==
  /\ pc = "reply" /\ Reads("ERR")
  /\ UNCHANGED <<rows, sources, secured>>
  /\ IF step = "ready" THEN Fail(FALSE) ELSE Succeed

\* ERR: the reply is complete, the connection stays.
ErrorReply ==
  /\ pc = "reply" /\ Reads("ERR")
  /\ Fail(FALSE)
  /\ UNCHANGED <<rows, sources>>

\* A reply that is not the one expected: the stream cannot be trusted.
WrongReply ==
  /\ pc = "reply"
  /\ \E text \in Text \ {"ERR", First(call)} : Reads(text)
  /\ Fail(TRUE)
  /\ UNCHANGED <<rows, sources>>

\* GetVar, USERNAME, PASSWORD and LOGIN have a reply of one line.
OneLineReply ==
  /\ pc = "reply" /\ call \notin Lists \cup {"STARTTLS"}
  /\ Accepts(First(call))
  /\ Succeed
  /\ UNCHANGED <<secured, rows>>

ListBegins ==
  /\ pc = "reply" /\ call \in Lists
  /\ Accepts(First(call))
  /\ pc' = "rows"
  /\ UNCHANGED <<step, call, conn, secured, result, clockVars, rows>>

\* Faulty variants: no limit; every row renews the deadline.
ListRowUnbounded ==
  /\ pc = "rows"
  /\ \E text \in Rows(call) : Accepts(text)
  /\ rows' = [rows EXCEPT !.read = @ + 1]
  /\ UNCHANGED <<clientVars, clockVars>>

ListRowRenews ==
  /\ pc = "rows" /\ rows.read < MaxRows
  /\ \E text \in Rows(call) : Accepts(text)
  /\ rows' = [rows EXCEPT !.read = @ + 1]
  /\ deadline' = Armed
  /\ UNCHANGED <<clientVars, spent>>

ListRow ==
  /\ pc = "rows" /\ rows.read < MaxRows
  /\ \E text \in Rows(call) : Accepts(text)
  /\ rows' = [rows EXCEPT !.read = @ + 1]
  /\ UNCHANGED <<clientVars, clockVars>>

ListEnds ==
  /\ pc = "rows"
  /\ Accepts(End(call))
  /\ Succeed
  /\ UNCHANGED <<secured, rows>>

\* Faulty variant: ERR ends a list and keeps the connection.
ListBrokenOpen ==
  /\ pc = "rows" /\ Reads("ERR")
  /\ Fail(FALSE)
  /\ UNCHANGED <<rows, sources>>

\* After BEGIN every failure closes, an ERR too: rows may remain unread.
ListBroken ==
  /\ pc = "rows"
  /\ \E text \in Text \ {End(call)} :
       Reads(text) /\ (text \in Rows(call) => rows.read = MaxRows)
  /\ Fail(TRUE)
  /\ UNCHANGED <<rows, sources>>

TLSAcknowledged ==
  /\ pc = "reply" /\ call = "STARTTLS"
  /\ Accepts(First(call))
  /\ pc' = "handshake"
  /\ UNCHANGED <<step, call, conn, secured, result, clockVars, rows>>

\* Faulty variant: no look at what is buffered, and the reader is kept.
HandshakeOverPlaintext ==
  /\ pc = "handshake" /\ conn = "open"
  /\ secured' = TRUE
  /\ UNCHANGED <<serverVars, canceled, sent, rows, sources>>
  /\ Succeed

\* Plaintext that follows the acknowledgment is an error: if it is buffered,
\* of StartTLSContext, if not, of the handshake that reads it.
HandshakeOk ==
  /\ pc = "handshake" /\ conn = "open" /\ wire = <<>>
  /\ secured' = TRUE
  /\ UNCHANGED <<serverVars, canceled, sent, rows, sources>>
  /\ Succeed

-----------------------------------------------------------------------------
\* The server: it answers requests in order, at its own pace, with any text,
\* and may send lines that answer no request.

Puts(text, of) ==
  wire' = Append(wire, [text |-> text, of |-> of, clear |-> ~secured])

Serves(request) ==
  /\ conn = "open" /\ owed # <<>> /\ Head(owed).what = request
  /\ UNCHANGED <<clientVars, clockVars, strays, canceled, sent, sources>>

\* A reply of one line, right or wrong.
ServerReplies ==
  \E request \in Requests, text \in Text :
    /\ Serves(request) /\ rows.listed = -1
    /\ request \in Lists => text # First(request)
    /\ Puts(text, Head(owed).of)
    /\ owed' = Tail(owed) /\ UNCHANGED rows

ServerBegins(list) ==
  /\ Serves(list) /\ rows.listed = -1
  /\ Puts(First(list), Head(owed).of)
  /\ rows' = [rows EXCEPT !.listed = 0] /\ UNCHANGED owed

\* A row, or something else in the middle of a list.
ServerLists(list) ==
  /\ Serves(list) /\ rows.listed \in 0 .. MaxRows
  /\ \E text \in Text \ {End(list)} : Puts(text, Head(owed).of)
  /\ rows' = [rows EXCEPT !.listed = @ + 1] /\ UNCHANGED owed

ServerEnds(list) ==
  /\ Serves(list) /\ rows.listed >= 0
  /\ Puts(End(list), Head(owed).of)
  /\ rows' = [rows EXCEPT !.listed = -1] /\ owed' = Tail(owed)

\* A line that is no part of an answer, before, between or after the answers.
ServerBabbles ==
  /\ conn = "open" /\ strays < MaxStrays
  /\ \E text \in Text : Puts(text, 0)
  /\ strays' = strays + 1
  /\ UNCHANGED <<clientVars, clockVars, owed, canceled, sent, rows, sources>>

-----------------------------------------------------------------------------
Dialling == DialOk \/ DialFails
Replies ==
  \/ ErrorReply \/ WrongReply \/ OneLineReply
  \/ ListBegins \/ ListRow \/ ListEnds \/ ListBroken
  \/ TLSAcknowledged \/ HandshakeOk
Server ==
  \/ ServerReplies \/ ServerBabbles
  \/ \E list \in Lists : ServerBegins(list) \/ ServerLists(list) \/ ServerEnds(list)

Next ==
  \/ Tick \/ Dialling \/ Cancel \/ CloseOnCancel \/ CallerCloses
  \/ \E request \in Requests : Send(request)
  \/ TLSRefused \/ IOFails \/ Replies \/ Server
  \/ pc = "gone" /\ UNCHANGED vars

Spec == Init /\ [][Next]_vars

\* Time passes, and a dial or a read ends at the deadline of its socket, and
\* at once on a closed one.  Nothing is assumed about the server.
FairSpec ==
  /\ Spec
  /\ WF_vars(Tick)
  /\ WF_vars(deadline = 0 /\ DialFails)
  /\ WF_vars((deadline = 0 \/ conn # "open") /\ IOFails)
=============================================================================
