------------------------- MODULE NutSessionProperties -------------------------
(***************************************************************************)
(* What a connection to upsd must guarantee.  KeepsContract and InStep are *)
(* about a server that sends nothing beyond its answers (strays = 0): the  *)
(* client reads the next line as the answer to its next request, whoever   *)
(* asked for it.  All the other properties hold whatever the server sends. *)
(***************************************************************************)
EXTENDS NutSession

Busy == pc \in {"refused", "reply", "rows", "handshake"}

Contract == INSTANCE ConnContract
  WITH busy   <- IF pc = "refused" THEN "refused" ELSE IF Busy THEN "live" ELSE "no",
       usable <- conn # "closed",
       orderly <- strays = 0

\* The type of every variable.
TypeOK ==
  /\ pc \in {"dial", "idle", "refused", "reply", "rows", "handshake", "gone"}
  /\ step \in Commands \cup {"ready"}
  /\ call \in Requests \cup {"none"}
  /\ conn \in {"none", "open", "closed"}
  /\ secured \in BOOLEAN /\ canceled \in BOOLEAN
  /\ sent \in 0 .. MaxRequests
  /\ wire \in Seq([text : Text, of : 0 .. MaxRequests, clear : BOOLEAN])
  /\ owed \in Seq([what : Requests, of : 1 .. MaxRequests])
  /\ strays \in 0 .. MaxStrays
  /\ deadline \in (0 .. Timeout) \cup {NoDeadline} /\ spent \in 0 .. Timeout + 1
  /\ rows \in [read : 0 .. MaxRows, listed : -1 .. MaxRows + 1]
  /\ sources \in SUBSET (0 .. MaxRequests)
  /\ result \in {"none", "own", "foreign", "error"}

\* No call that started on a broken connection succeeds, and, as long as the
\* server has sent nothing beyond its answers, right or wrong, early or late, a
\* call that succeeds returns the answer to its own request: no error, timeout,
\* cut list or cancellation makes the monitor take a late or left-over line,
\* of a list or of an earlier request, for a status.
KeepsContract == Contract!Spec

\* Between two calls on an open connection nothing is unread and nothing is
\* owed, as long as the server has sent nothing beyond its answers: an exchange
\* that did not run to its end has closed the connection.
InStep ==
  strays = 0 /\ pc = "idle" /\ conn = "open" =>
    wire = <<>> /\ owed = <<>> /\ rows.listed = -1

\* With TLS configured, no credential and no query is written before the
\* handshake, and no line that was sent in the clear is left to be taken for an
\* answer after it, whatever the server sends and when: a server that refuses
\* STARTTLS is given up, and what it adds to its acknowledgment is not read.
NeverInTheClear ==
  UseTLS /\ call \notin {"none", "STARTTLS"} =>
    secured /\ \A i \in DOMAIN wire : ~wire[i].clear

\* A dial that failed at any step leaves no connection open, and a session
\* that is over owns none.
NoConnectionLeft == pc = "gone" => conn # "open"

\* The timeout bounds the dial and each complete exchange of a request and its
\* answer, a list or a TLS handshake included (the comment on Dial): a server
\* that sends a row now and then cannot hold a call for longer.
ExchangeBounded == spent <= Timeout

\* Every dial and every call returns, and within the timeout: a silent server
\* costs one timeout, a talkative one no more, a closed connection not even that.
CallsReturn ==
  [](/\ ExchangeBounded
     /\ pc = "dial" \/ Busy => <>~(pc = "dial" \/ Busy))
=============================================================================
