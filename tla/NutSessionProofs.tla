-------------------------- MODULE NutSessionProofs --------------------------
(***************************************************************************)
(* Theorems about NutSession, with and without TLS, with any login and     *)
(* timeout, for any number of requests, rows and stray lines, and their    *)
(* proofs.                                                                 *)
(***************************************************************************)
EXTENDS NutSessionProperties, SequenceTheorems, TLAPS

Line == [text : Text, of : 0 .. MaxRequests, clear : BOOLEAN]
Owed == [what : Requests, of : 1 .. MaxRequests]
Count == [read : 0 .. MaxRows, listed : -1 .. MaxRows + 1]

\* What the place of the caller says of the connection, of the dialer and of
\* the lines accepted so far.
ControlInv ==
  /\ pc = "dial" => conn = "none"
  /\ pc \in {"idle", "refused", "reply", "rows", "handshake"} => conn # "none"
  /\ pc = "gone" => conn # "open"
  /\ pc = "refused" => conn = "closed"
  /\ Busy <=> call # "none"
  /\ call # "none" => call = step \/ (step = "ready" /\ call \in Queries)
  /\ UseTLS /\ step # "STARTTLS" => secured
  /\ pc = "rows" => call \in Lists
  /\ pc = "handshake" => call = "STARTTLS"
  /\ pc = "dial" => wire = <<>> /\ owed = <<>> /\ rows.listed = -1
  /\ Busy => sent \in 1 .. MaxRequests
  /\ pc \in {"refused", "reply"} => sources = {}
  /\ strays = 0 => (Busy => sources \subseteq {sent}) /\ result # "foreign"

\* The stream of a server that sends nothing but its answers.  The answer to
\* the request in progress is still to come, is a LIST that has begun and not
\* ended, or is complete; nothing else is on the stream.
Current == [of |-> sent, what |-> call]

Listing ==
  /\ call \in Lists /\ owed = <<Current>> /\ rows.listed >= 0
  /\ \A i \in DOMAIN wire : wire[i].of = sent /\ wire[i].text # End(call)

Ended ==
  /\ call \in Lists /\ owed = <<>> /\ rows.listed = -1 /\ wire # <<>>
  /\ \A i \in DOMAIN wire : wire[i].of = sent /\ (wire[i].text = End(call) <=> i = Len(wire))

ReplyInv ==
  \/ wire = <<>> /\ owed = <<Current>> /\ rows.listed = -1
  \/ Listing /\ wire # <<>> /\ wire[1].text = First(call)
  \/ Ended /\ wire[1].text = First(call)
  \/ /\ Len(wire) = 1 /\ wire[1].of = sent /\ owed = <<>> /\ rows.listed = -1
     /\ call \in Lists => wire[1].text # First(call)

RowsInv == Listing \/ Ended

StreamInv ==
  /\ pc = "reply" => ReplyInv
  /\ pc = "rows" => RowsInv
  /\ pc = "handshake" => owed = <<>> /\ rows.listed = -1
  /\ pc = "idle" /\ conn = "open" => wire = <<>> /\ owed = <<>> /\ rows.listed = -1

WireInv == strays = 0 => StreamInv

\* Whatever the server sends: what was sent in the clear is not read over TLS.
ClearInv == secured => \A i \in DOMAIN wire : ~wire[i].clear

\* The time an exchange has taken and the time left to it make the timeout.
TimeInv ==
  /\ spent <= Timeout
  /\ deadline # NoDeadline => spent + deadline <= Timeout
  /\ pc \in {"dial", "reply", "rows", "handshake"} => deadline # NoDeadline

LEMMA Vocabulary ==
  /\ \A request \in Requests : First(request) \in Text \ {"ERR", "?"}
  /\ \A list \in Lists :
       /\ list \in Queries /\ list \in Requests \ Commands
       /\ End(list) \in Text \ {"ERR"} /\ First(list) # End(list)
       /\ End(list) \notin Rows(list) /\ Rows(list) \subseteq Text
       /\ \A other \in Lists : First(list) # End(other)
  /\ Commands \subseteq Requests /\ Queries \subseteq Requests
  /\ {"ERR", "?"} \subseteq Text
  /\ "none" \notin Requests /\ "STARTTLS" \notin Queries /\ "ready" \notin Requests
BY DEF First, End, Rows, Text, Requests, Commands, Queries, Lists

LEMMA Scripts ==
  /\ AfterTLS \in {"USERNAME", "ready"}
  /\ \A request \in Commands : After[request] \in Commands \cup {"ready"}
  /\ \A request \in Commands : After[request] # "STARTTLS"
BY DEF AfterTLS, AfterPassword, After, Commands

-----------------------------------------------------------------------------
\* Types.

LEMMA ReadsTypes ==
  ASSUME TypeOK, NEW text, Reads(text)
  PROVE  /\ wire # <<>> /\ wire \in Seq(Line) /\ Head(wire) \in Line
         /\ Head(wire).text = text /\ wire[1] = Head(wire) /\ wire' = Tail(wire)
         /\ wire' \in Seq(Line) /\ Len(wire) \in Nat \ {0}
         /\ Len(wire') = Len(wire) - 1
         /\ \A i \in 1 .. Len(wire') : wire'[i] = wire[i + 1]
         /\ UNCHANGED <<owed, strays, canceled, sent>>
<1>1. wire # <<>> /\ wire \in Seq(Line) /\ wire' = Tail(wire) /\ Head(wire).text = text
  BY DEF TypeOK, Line, Reads
<1>2. Len(wire) \in Nat \ {0} /\ wire[1] = Head(wire)
  BY <1>1, EmptySeq
<1> QED BY <1>1, <1>2, HeadTailProperties DEF Reads

\* The last line was read.
LEMMA ReadsLast ==
  ASSUME TypeOK, NEW text, Reads(text)
  PROVE  /\ wire' = <<>> <=> Len(wire) = 1
         /\ 1 \in DOMAIN wire
<1>1. wire' \in Seq(Line) /\ Len(wire) \in Nat \ {0} /\ Len(wire') = Len(wire) - 1
      /\ wire \in Seq(Line)
  BY ReadsTypes
<1>2. wire' = <<>> <=> Len(wire') = 0
  BY <1>1, EmptySeq
<1> QED BY <1>1, <1>2

LEMMA PutsTypes ==
  ASSUME TypeOK, NEW text \in Text, NEW of \in 0 .. MaxRequests, Puts(text, of)
  PROVE  /\ wire' \in Seq(Line) /\ wire' # <<>> /\ Len(wire) \in Nat
         /\ Len(wire') = Len(wire) + 1
         /\ \A i \in 1 .. Len(wire) : wire'[i] = wire[i]
         /\ wire'[Len(wire) + 1] = [text |-> text, of |-> of, clear |-> ~secured]
<1>1. /\ wire \in Seq(Line) /\ Len(wire) \in Nat
      /\ [text |-> text, of |-> of, clear |-> ~secured] \in Line
  BY DEF TypeOK, Line
<1> QED BY <1>1, AppendProperties DEF Puts

LEMMA InitTypes ==
  ASSUME Init
  PROVE  TypeOK
<1>1. <<>> \in Seq([text : Text, of : 0 .. MaxRequests, clear : BOOLEAN])
      /\ <<>> \in Seq([what : Requests, of : 1 .. MaxRequests])
  BY EmptySeq
<1>2. rows \in [read : 0 .. MaxRows, listed : -1 .. MaxRows + 1]
  <2>1. 0 \in 0 .. MaxRows /\ -1 \in -1 .. MaxRows + 1
    BY SessionAssumption
  <2> QED BY <2>1 DEF Init
<1>3. step \in Commands \cup {"ready"}
  BY DEF Init, AfterTLS, Commands
<1>4. sent \in 0 .. MaxRequests
  BY SessionAssumption DEF Init
<1>5. deadline \in 0 .. Timeout /\ spent \in 0 .. Timeout + 1 /\ strays \in 0 .. MaxStrays
  BY SessionAssumption DEF Init, Armed
<1> QED BY <1>1, <1>2, <1>3, <1>4, <1>5 DEF Init, TypeOK

\* The two counters of rows, counted up or reset.
LEMMA RowsTypes ==
  ASSUME TypeOK
  PROVE  /\ rows \in Count
         /\ [rows EXCEPT !.read = 0] \in Count
         /\ rows.read < MaxRows => [rows EXCEPT !.read = @ + 1] \in Count
         /\ [rows EXCEPT !.listed = 0] \in Count
         /\ [rows EXCEPT !.listed = -1] \in Count
         /\ rows.listed \in 0 .. MaxRows => [rows EXCEPT !.listed = @ + 1] \in Count
<1>1. rows \in Count
  BY DEF TypeOK, Count
<1>2. rows.read \in 0 .. MaxRows /\ rows.listed \in -1 .. MaxRows + 1 /\ MaxRows \in Nat
  BY <1>1, SessionAssumption DEF Count
<1>3. /\ 0 \in 0 .. MaxRows /\ 0 \in -1 .. MaxRows + 1 /\ -1 \in -1 .. MaxRows + 1
      /\ rows.read < MaxRows => rows.read + 1 \in 0 .. MaxRows
      /\ rows.listed \in 0 .. MaxRows => rows.listed + 1 \in -1 .. MaxRows + 1
  BY <1>2
<1> QED BY <1>1, <1>3 DEF Count

LEMMA DisarmedTypes ==
  ASSUME Disarmed
  PROVE  deadline' \in (0 .. Timeout) \cup {NoDeadline} /\ spent' \in 0 .. Timeout + 1
BY SessionAssumption DEF Disarmed

LEMMA FailTypes ==
  ASSUME TypeOK, NEW close \in BOOLEAN, Fail(close),
         UNCHANGED <<canceled, sent, owed, strays>>,
         wire' \in Seq(Line), rows' = rows, sources' = sources
  PROVE  TypeOK'
BY DisarmedTypes DEF TypeOK, Fail, Line

LEMMA SucceedTypes ==
  ASSUME TypeOK, Succeed, UNCHANGED <<canceled, sent, owed, strays>>, wire' \in Seq(Line),
         rows' = rows, sources' \in SUBSET (0 .. MaxRequests), secured' \in BOOLEAN,
         call \in Requests
  PROVE  TypeOK'
<1>1. step' \in Commands \cup {"ready"}
  BY Scripts DEF TypeOK, Succeed
<1> QED BY <1>1, DisarmedTypes DEF TypeOK, Succeed, Line

LEMMA StepTypes ==
  ASSUME TypeOK, ControlInv, [Next]_vars
  PROVE  TypeOK'
<1> USE SessionAssumption
<1>1. CASE Dialling \/ Cancel \/ CloseOnCancel \/ CallerCloses \/ TLSRefused
  BY <1>1, DisarmedTypes DEF TypeOK, Dialling, DialOk, DialFails, Cancel, CloseOnCancel,
              CallerCloses, TLSRefused, clientVars, serverVars, clockVars
<1>2. ASSUME NEW request \in Requests, Send(request)
      PROVE  TypeOK'
  <2>1. sent + 1 \in 1 .. MaxRequests
    BY <1>2 DEF Send, TypeOK
  <2>2. owed' \in Seq(Owed)
    <3>1. [of |-> sent + 1, what |-> request] \in Owed /\ owed \in Seq(Owed)
      BY <2>1 DEF TypeOK, Owed
    <3>2. Append(owed, [of |-> sent + 1, what |-> request]) \in Seq(Owed)
      BY <3>1, AppendProperties
    <3>3. \/ owed' = owed
          \/ owed' = Append(owed, [of |-> sent + 1, what |-> request])
      BY <1>2 DEF Send
    <3> QED BY <3>1, <3>2, <3>3
  <2>3. rows' \in Count
    BY <1>2, RowsTypes DEF Send
  <2>4. deadline' \in 0 .. Timeout /\ spent' \in 0 .. Timeout + 1
    BY <1>2 DEF Send, Armed
  <2>5. /\ pc' \in {"reply", "refused"} /\ call' \in Requests /\ result' = "none"
        /\ sent' \in 0 .. MaxRequests /\ sources' \in SUBSET (0 .. MaxRequests)
        /\ UNCHANGED <<step, conn, secured, wire, strays, canceled>>
    BY <1>2, <2>1 DEF Send
  <2> QED BY <2>2, <2>3, <2>4, <2>5 DEF TypeOK, Owed, Count
<1>3. CASE IOFails
  BY <1>3, FailTypes DEF IOFails, serverVars, TypeOK, Line
<1>4. CASE ErrorReply \/ WrongReply \/ ListBroken
  <2>1. PICK text \in Text : Reads(text)
    BY <1>4, Vocabulary DEF ErrorReply, WrongReply, ListBroken
  <2>2. PICK close \in BOOLEAN : Fail(close)
    BY <1>4 DEF ErrorReply, WrongReply, ListBroken
  <2> QED BY <1>4, <2>1, <2>2, ReadsTypes, FailTypes DEF ErrorReply, WrongReply, ListBroken
<1>5. ASSUME NEW text, Accepts(text)
      PROVE  sources' \in SUBSET (0 .. MaxRequests) /\ wire' \in Seq(Line)
             /\ UNCHANGED <<owed, strays, canceled, sent>>
  BY <1>5, ReadsTypes DEF Accepts, TypeOK, Line
<1>6. CASE OneLineReply \/ ListEnds
  BY <1>5, <1>6, SucceedTypes, Vocabulary DEF OneLineReply, ListEnds, ControlInv, TypeOK, Busy
<1>7. CASE ListBegins \/ TLSAcknowledged
  BY <1>5, <1>7 DEF ListBegins, TLSAcknowledged, TypeOK, Line, clockVars
<1>8. CASE ListRow
  <2>1. rows' \in Count
    BY <1>8, RowsTypes DEF ListRow
  <2> QED BY <1>5, <1>8, <2>1 DEF ListRow, TypeOK, Line, Count, clientVars, clockVars
<1>9. CASE HandshakeOk
  BY <1>9, SucceedTypes DEF HandshakeOk, serverVars, ControlInv, TypeOK, Line, Requests, Commands
<1>10. CASE Server
  <2>1. ASSUME NEW request \in Requests, Serves(request)
        PROVE  Head(owed).of \in 0 .. MaxRequests /\ Tail(owed) \in Seq(Owed) /\ owed \in Seq(Owed)
    <3>1. owed \in Seq(Owed) /\ owed # <<>>
      BY <2>1 DEF Serves, TypeOK, Owed
    <3>2. Head(owed) \in Owed /\ Tail(owed) \in Seq(Owed)
      BY <3>1, HeadTailProperties
    <3> QED BY <3>1, <3>2 DEF Owed
  <2>2. CASE ServerReplies
    <3>1. PICK request \in Requests, text \in Text :
            /\ Serves(request) /\ Puts(text, Head(owed).of)
            /\ owed' = Tail(owed) /\ UNCHANGED rows
      BY <2>2 DEF ServerReplies
    <3> QED BY <2>1, <3>1, PutsTypes DEF Serves, TypeOK, Line, Owed, clientVars, clockVars
  <2>3. ASSUME NEW list \in Lists, ServerBegins(list) \/ ServerLists(list) \/ ServerEnds(list)
        PROVE  TypeOK'
    <3>1. list \in Requests /\ Serves(list)
      BY <2>3, Vocabulary DEF ServerBegins, ServerLists, ServerEnds
    <3>2. \E text \in Text : Puts(text, Head(owed).of)
      BY <2>3, Vocabulary DEF ServerBegins, ServerLists, ServerEnds
    <3>3. owed' \in Seq(Owed)
      BY <2>3, <2>1, <3>1 DEF ServerBegins, ServerLists, ServerEnds
    <3>4. rows' \in Count
      BY <2>3, RowsTypes DEF ServerBegins, ServerLists, ServerEnds
    <3> QED BY <2>1, <3>1, <3>2, <3>3, <3>4, PutsTypes
         DEF Serves, TypeOK, Line, Owed, Count, clientVars, clockVars
  <2>4. CASE ServerBabbles
    <3>1. 0 \in 0 .. MaxRequests
      OBVIOUS
    <3>2. \E text \in Text : Puts(text, 0)
      BY <2>4 DEF ServerBabbles
    <3>3. wire' \in Seq(Line)
      BY <3>1, <3>2, PutsTypes
    <3>4. strays' \in 0 .. MaxStrays
      BY <2>4 DEF ServerBabbles, TypeOK
    <3> QED BY <2>4, <3>3, <3>4 DEF ServerBabbles, TypeOK, Line, clientVars, clockVars
  <2> QED BY <1>10, <2>2, <2>3, <2>4 DEF Server
<1>11. CASE Tick
  <2>1. deadline' \in (0 .. Timeout) \cup {NoDeadline}
    BY <1>11 DEF Tick, TypeOK, NoDeadline
  <2>2. spent' \in 0 .. Timeout + 1
    BY <1>11 DEF Tick, TypeOK
  <2> QED BY <1>11, <2>1, <2>2 DEF Tick, TypeOK, clientVars, serverVars
<1>12. CASE UNCHANGED vars
  BY <1>12 DEF TypeOK, vars, clientVars, serverVars, clockVars
<1> QED BY <1>1, <1>2, <1>3, <1>4, <1>6, <1>7, <1>8, <1>9, <1>10, <1>11, <1>12
     DEF Next, Replies

-----------------------------------------------------------------------------
\* Where the caller is.

LEMMA InitControl ==
  ASSUME Init
  PROVE  ControlInv
BY DEF Init, ControlInv, Busy, AfterTLS

\* An error ends the call; in the dialer it ends the session and closes.
LEMMA FailControl ==
  ASSUME TypeOK, ControlInv, Busy, NEW close \in BOOLEAN, Fail(close), strays' = strays
  PROVE  ControlInv'
BY Vocabulary DEF TypeOK, ControlInv, Busy, Fail, Commands

LEMMA SucceedControl ==
  ASSUME TypeOK, ControlInv, Busy, pc # "refused", Succeed, sent' = sent,
         strays' = strays, strays = 0 => sources' \subseteq {sent},
         secured' = IF call = "STARTTLS" THEN TRUE ELSE secured
  PROVE  ControlInv'
<1>1. call \in Requests /\ sent \in 0 .. MaxRequests
  BY Vocabulary DEF ControlInv, TypeOK, Busy
<1>2. step # "ready" => step \in Commands /\ call = step
  BY Vocabulary DEF ControlInv, Busy, TypeOK
<1>3. step # "ready" => After[step] \in Commands \cup {"ready"} /\ After[step] # "STARTTLS"
  BY <1>2, Scripts
<1>4. UseTLS /\ step' # "STARTTLS" => secured'
  BY <1>1, <1>2, <1>3 DEF Succeed, ControlInv, Busy
<1> QED BY <1>1, <1>4 DEF Succeed, ControlInv, Busy

LEMMA StepControl ==
  ASSUME TypeOK, ControlInv, WireInv, [Next]_vars
  PROVE  ControlInv'
<1>1. CASE Dialling \/ Cancel \/ CloseOnCancel \/ CallerCloses \/ TLSRefused
  BY <1>1 DEF ControlInv, Busy, Dialling, DialOk, DialFails, Cancel, CloseOnCancel,
              CallerCloses, TLSRefused, clientVars, serverVars
<1>2. ASSUME NEW request \in Requests, Send(request)
      PROVE  ControlInv'
  <2>1. sent + 1 \in 1 .. MaxRequests
    BY <1>2, SessionAssumption DEF Send, TypeOK
  <2>2. (request \in Queries /\ step = "ready") \/ request = step
    BY <1>2 DEF Send
  <2>3. conn \in {"open", "closed"}
    BY <1>2 DEF Send, ControlInv, TypeOK
  <2> QED BY <1>2, <2>1, <2>2, <2>3, Vocabulary DEF Send, ControlInv, Busy
<1>3. CASE IOFails
  BY <1>3, FailControl DEF IOFails, Busy, serverVars
<1>4. CASE ErrorReply \/ WrongReply \/ ListBroken
  <2>1. Busy /\ strays' = strays /\ \E close \in BOOLEAN : Fail(close)
    BY <1>4 DEF ErrorReply, WrongReply, ListBroken, Busy, Reads
  <2> QED BY <2>1, FailControl
<1>5. ASSUME NEW text, Accepts(text), pc \in {"reply", "rows"}
      PROVE  sent' = sent /\ strays' = strays
             /\ (strays = 0 => sources' \subseteq {sent})
  <2>1. wire # <<>> /\ wire[1] = Head(wire) /\ sent' = sent /\ strays' = strays
    BY <1>5, ReadsTypes DEF Accepts
  <2>2. 1 \in DOMAIN wire
    BY <1>5, ReadsTypes DEF Accepts
  <2>3. strays = 0 => wire[1].of = sent
    BY <1>5, <2>1, <2>2 DEF WireInv, StreamInv, ReplyInv, RowsInv, Listing, Ended
  <2>4. strays = 0 => sources \subseteq {sent}
    BY <1>5 DEF ControlInv, Busy
  <2> QED BY <1>5, <2>1, <2>3, <2>4 DEF Accepts
<1>6. CASE OneLineReply \/ ListEnds
  <2>1. pc \in {"reply", "rows"} /\ call # "STARTTLS" /\ Succeed /\ UNCHANGED secured
        /\ \E text : Accepts(text)
    BY <1>6, Vocabulary DEF OneLineReply, ListEnds, ControlInv
  <2> QED BY <2>1, <1>5, SucceedControl DEF Busy
<1>7. CASE ListBegins \/ TLSAcknowledged
  <2>1. /\ pc = "reply" /\ \E text : Accepts(text)
        /\ UNCHANGED <<step, call, conn, secured, result>>
        /\ (pc' = "rows" /\ call \in Lists) \/ (pc' = "handshake" /\ call = "STARTTLS")
    BY <1>7 DEF ListBegins, TLSAcknowledged
  <2>2. sent' = sent /\ strays' = strays /\ (strays = 0 => sources' \subseteq {sent})
    BY <2>1, <1>5
  <2> QED BY <2>1, <2>2 DEF ControlInv, Busy
<1>8. CASE ListRow
  <2>1. /\ sent' = sent /\ strays' = strays /\ pc = "rows"
        /\ strays = 0 => sources' \subseteq {sent}
    BY <1>8, <1>5 DEF ListRow
  <2> QED BY <1>8, <2>1 DEF ListRow, ControlInv, Busy, clientVars
<1>9. CASE HandshakeOk
  <2>1. /\ Busy /\ pc # "refused" /\ call = "STARTTLS" /\ strays' = strays
        /\ strays = 0 => sources' \subseteq {sent}
    BY <1>9 DEF HandshakeOk, ControlInv, Busy, serverVars
  <2> QED BY <1>9, <2>1, SucceedControl DEF HandshakeOk
<1>10. CASE Server
  <2>1. UNCHANGED <<clientVars, canceled, sent, sources>> /\ conn = "open"
    BY <1>10 DEF Server, ServerReplies, ServerBegins, ServerLists, ServerEnds,
                 ServerBabbles, Serves
  <2>2. strays' = 0 => strays = 0
    BY <1>10 DEF Server, ServerReplies, ServerBegins, ServerLists, ServerEnds,
                 ServerBabbles, Serves, TypeOK
  <2> QED BY <2>1, <2>2 DEF ControlInv, Busy, clientVars
<1>11. CASE Tick
  BY <1>11 DEF Tick, ControlInv, Busy, clientVars, serverVars
<1>12. CASE UNCHANGED vars
  BY <1>12 DEF ControlInv, Busy, vars, clientVars, serverVars
<1> QED BY <1>1, <1>2, <1>3, <1>4, <1>6, <1>7, <1>8, <1>9, <1>10, <1>11, <1>12
     DEF Next, Replies

-----------------------------------------------------------------------------
\* What is on the stream.

LEMMA InitStream ==
  ASSUME Init
  PROVE  StreamInv
BY DEF Init, StreamInv

\* A line is read: what was in the middle of the stream is at its head.
LEMMA ListingRead ==
  ASSUME TypeOK, Listing, NEW text, Reads(text), UNCHANGED <<call, rows>>
  PROVE  Listing'
<1>1. \A i \in DOMAIN wire' : i + 1 \in DOMAIN wire /\ wire'[i] = wire[i + 1]
  BY ReadsTypes
<1> QED BY <1>1, ReadsTypes DEF Listing, Current

LEMMA EndedRead ==
  ASSUME TypeOK, Ended, NEW text, Reads(text), text # End(call), UNCHANGED <<call, rows>>
  PROVE  Ended'
<1>1. \A i \in DOMAIN wire' : i + 1 \in DOMAIN wire /\ wire'[i] = wire[i + 1]
                              /\ (i = Len(wire') <=> i + 1 = Len(wire))
  BY ReadsTypes
<1>2. 1 # Len(wire)
  BY ReadsTypes DEF Ended
<1>3. wire' # <<>>
  BY <1>2, ReadsLast
<1> QED BY <1>1, <1>3, ReadsTypes DEF Ended

LEMMA FailStream ==
  ASSUME Fail(TRUE)
  PROVE  StreamInv'
BY DEF Fail, StreamInv

\* A reply of one line was the only line.
LEMMA OnlyLine ==
  ASSUME TypeOK, ControlInv, ReplyInv, NEW text, Reads(text), call # "STARTTLS",
         call \in Lists => text # First(call)
  PROVE  wire' = <<>> /\ owed' = <<>> /\ rows.listed = -1
<1>1. wire # <<>> /\ wire[1].text = text /\ UNCHANGED owed
  BY ReadsTypes
<1>2. Len(wire) = 1 /\ owed = <<>> /\ rows.listed = -1
  BY <1>1 DEF ReplyInv, Listing, Ended
<1> QED BY <1>1, <1>2, ReadsTypes, EmptySeq

LEMMA StepStream ==
  ASSUME TypeOK, ControlInv, StreamInv, strays' = 0, [Next]_vars
  PROVE  StreamInv'
<1>1. CASE Dialling \/ Cancel \/ CloseOnCancel \/ CallerCloses \/ TLSRefused
  BY <1>1 DEF StreamInv, ReplyInv, RowsInv, Listing, Ended, Current, ControlInv,
              Dialling, DialOk, DialFails, Cancel, CloseOnCancel, CallerCloses,
              TLSRefused, clientVars, serverVars
<1>2. ASSUME NEW request \in Requests, Send(request)
      PROVE  StreamInv'
  <2>1. CASE conn = "open"
    <3>1. wire = <<>> /\ owed = <<>> /\ rows.listed = -1
      BY <1>2, <2>1 DEF Send, StreamInv
    <3>2. owed' = <<Current'>> /\ wire' = <<>> /\ rows'.listed = -1 /\ pc' = "reply"
      BY <1>2, <2>1, <3>1 DEF Send, Current, TypeOK
    <3> QED BY <3>2 DEF StreamInv, ReplyInv
  <2>2. CASE conn # "open"
    BY <1>2, <2>2 DEF Send, StreamInv
  <2> QED BY <2>1, <2>2
<1>3. CASE IOFails \/ WrongReply \/ ListBroken
  BY <1>3, FailStream DEF IOFails, WrongReply, ListBroken
<1>4. CASE ErrorReply
  <2>1. CASE step # "ready"
    BY <1>4, <2>1 DEF ErrorReply, Fail, StreamInv
  <2>2. CASE step = "ready"
    <3>1. call \in Requests /\ call # "STARTTLS" /\ call \in Queries
      BY <1>4, <2>2, Vocabulary DEF ErrorReply, ControlInv, Busy, TypeOK
    <3>2. wire' = <<>> /\ owed' = <<>> /\ rows'.listed = -1
      BY <1>4, <3>1, OnlyLine, Vocabulary DEF ErrorReply, StreamInv
    <3> QED BY <1>4, <2>2, <3>2 DEF ErrorReply, Fail, StreamInv
  <2> QED BY <2>1, <2>2
<1>5. CASE OneLineReply
  <2>1. wire' = <<>> /\ owed' = <<>> /\ rows'.listed = -1
    BY <1>5, OnlyLine DEF OneLineReply, Accepts, StreamInv
  <2> QED BY <1>5, <2>1 DEF OneLineReply, Succeed, StreamInv
<1>6. CASE ListBegins
  <2>1. /\ call \in Lists /\ Reads(First(call)) /\ pc' = "rows" /\ UNCHANGED <<call, rows>>
        /\ call # "STARTTLS" /\ First(call) # End(call)
    BY <1>6, Vocabulary DEF ListBegins, Accepts, Commands, Lists
  <2>2. Listing \/ Ended
    BY <1>6, <2>1, ReadsTypes DEF ListBegins, StreamInv, ReplyInv
  <2>3. RowsInv'
    BY <2>1, <2>2, ListingRead, EndedRead DEF RowsInv
  <2> QED BY <2>1, <2>3 DEF StreamInv
<1>7. CASE ListRow
  <2>1. PICK text \in Rows(call) : Reads(text)
    BY <1>7 DEF ListRow, Accepts
  <2>2. call \in Lists /\ text # End(call)
    BY <1>7, Vocabulary DEF ListRow, ControlInv
  <2>3. call' = call /\ rows'.listed = rows.listed /\ pc' = "rows"
    BY <1>7 DEF ListRow, clientVars, TypeOK
  <2>4. \A i \in DOMAIN wire' : i + 1 \in DOMAIN wire /\ wire'[i] = wire[i + 1]
                              /\ (i = Len(wire') <=> i + 1 = Len(wire))
    BY <2>1, ReadsTypes
  <2>5. CASE Listing
    <3>1. Listing'
      BY <2>1, <2>3, <2>4, <2>5, ReadsTypes DEF Listing, Current
    <3> QED BY <2>3, <3>1 DEF StreamInv, RowsInv
  <2>6. CASE Ended
    <3>1. 1 # Len(wire)
      BY <2>1, <2>2, <2>6, ReadsTypes DEF Ended
    <3>2. wire' # <<>>
      BY <2>1, <3>1, ReadsLast
    <3>3. Ended'
      BY <2>1, <2>3, <2>4, <2>6, <3>2, ReadsTypes DEF Ended
    <3> QED BY <2>3, <3>3 DEF StreamInv, RowsInv
  <2> QED BY <1>7, <2>5, <2>6 DEF ListRow, StreamInv, RowsInv
<1>8. CASE ListEnds
  <2>1. Reads(End(call)) /\ pc = "rows"
    BY <1>8 DEF ListEnds, Accepts
  <2>2. Ended /\ Len(wire) = 1
    BY <2>1, ReadsTypes, ReadsLast DEF StreamInv, RowsInv, Listing, Ended
  <2>3. wire' = <<>>
    BY <2>1, <2>2, ReadsLast
  <2> QED BY <1>8, <2>1, <2>2, <2>3, ReadsTypes
       DEF ListEnds, Succeed, StreamInv, Ended
<1>9. CASE TLSAcknowledged
  <2>1. Reads(First(call)) /\ pc = "reply" /\ call = "STARTTLS" /\ pc' = "handshake"
        /\ UNCHANGED rows
    BY <1>9 DEF TLSAcknowledged, Accepts
  <2>2. owed = <<>> /\ rows.listed = -1
    BY <2>1, ReadsTypes DEF StreamInv, ReplyInv, Listing, Ended, Lists
  <2> QED BY <2>1, <2>2, ReadsTypes DEF StreamInv
<1>10. CASE HandshakeOk
  BY <1>10 DEF HandshakeOk, Succeed, StreamInv, serverVars
<1>11. CASE Server
  <2>1. UNCHANGED <<pc, step, call, conn, sent>> /\ conn = "open"
    BY <1>11 DEF Server, ServerReplies, ServerBegins, ServerLists, ServerEnds,
                 ServerBabbles, Serves, clientVars
  \* What is owed is the answer to the request in progress.
  <2>2. ASSUME NEW request \in Requests, Serves(request)
        PROVE  /\ pc \in {"reply", "rows"} /\ owed = <<Current>> /\ call = request
               /\ Head(owed).of = sent /\ Tail(owed) = <<>>
               /\ sent \in 1 .. MaxRequests
               /\ rows.listed = -1 => pc = "reply" /\ wire = <<>>
               /\ rows.listed # -1 => Listing /\ (pc = "reply" => wire # <<>> /\ wire[1].text = First(call))
    <3>1. owed # <<>> /\ conn = "open" /\ Head(owed).what = request
      BY <2>2 DEF Serves
    <3>2. pc \in {"reply", "rows"}
      BY <3>1 DEF StreamInv, ControlInv, TypeOK
    <3>3. owed = <<Current>> /\ (rows.listed = -1 => pc = "reply" /\ wire = <<>>)
          /\ (rows.listed # -1 => Listing /\ (pc = "reply" => wire # <<>> /\ wire[1].text = First(call)))
      BY <3>1, <3>2 DEF StreamInv, ReplyInv, RowsInv, Listing, Ended
    <3>4. Head(owed) = Current /\ Tail(owed) = <<>>
      BY <3>3
    <3> QED BY <3>1, <3>2, <3>3, <3>4 DEF Current, ControlInv, Busy
  <2>3. CASE ServerReplies
    <3>1. PICK request \in Requests, text \in Text :
            /\ Serves(request) /\ rows.listed = -1 /\ Puts(text, Head(owed).of)
            /\ request \in Lists => text # First(request)
            /\ owed' = Tail(owed) /\ UNCHANGED rows
      BY <2>3 DEF ServerReplies
    <3>2. wire = <<>> /\ Head(owed).of = sent /\ Tail(owed) = <<>> /\ pc = "reply" /\ call = request
      BY <2>2, <3>1
    <3>3. /\ wire' = <<[text |-> text, of |-> sent, clear |-> ~secured]>>
          /\ owed' = <<>>
      BY <3>1, <3>2 DEF Puts
    <3> QED BY <2>1, <3>1, <3>2, <3>3 DEF StreamInv, ReplyInv
  <2>4. ASSUME NEW list \in Lists, ServerBegins(list)
        PROVE  StreamInv'
    <3>1. Serves(list) /\ rows.listed = -1 /\ Puts(First(list), Head(owed).of) /\ owed' = owed
          /\ list \in Requests /\ First(list) # End(list)
      BY <2>4, Vocabulary DEF ServerBegins
    <3>2. wire = <<>> /\ Head(owed).of = sent /\ owed = <<Current>> /\ pc = "reply" /\ call = list
      BY <2>2, <3>1
    <3>3. wire' = <<[text |-> First(list), of |-> sent, clear |-> ~secured]>>
      BY <3>1, <3>2 DEF Puts
    <3>4. rows'.listed = 0
      BY <2>4 DEF ServerBegins, TypeOK
    <3>5. Listing'
      BY <2>1, <3>1, <3>2, <3>3, <3>4 DEF Listing, Current
    <3> QED BY <2>1, <3>2, <3>3, <3>5 DEF StreamInv, ReplyInv
  <2>5. ASSUME NEW list \in Lists, ServerLists(list) \/ ServerEnds(list)
        PROVE  StreamInv'
    <3>1. Serves(list) /\ rows.listed # -1 /\ list \in Requests /\ rows.listed \in -1 .. MaxRows + 1
      BY <2>5, Vocabulary DEF ServerLists, ServerEnds, TypeOK
    <3>2. PICK text \in Text :
            /\ Puts(text, sent)
            /\ \/ ServerLists(list) /\ text # End(list)
               \/ ServerEnds(list) /\ text = End(list)
      BY <2>2, <2>5, <3>1, Vocabulary DEF ServerLists, ServerEnds
    <3>3. /\ wire' # <<>> /\ Len(wire) \in Nat /\ Len(wire') = Len(wire) + 1
          /\ wire' \in Seq(Line) /\ wire \in Seq(Line)
          /\ \A i \in 1 .. Len(wire) : wire'[i] = wire[i]
          /\ wire'[Len(wire) + 1] = [text |-> text, of |-> sent, clear |-> ~secured]
      BY <2>2, <3>1, <3>2, PutsTypes DEF TypeOK, Line
    <3>4. Listing /\ call = list /\ pc \in {"reply", "rows"}
          /\ (pc = "reply" => wire # <<>> /\ wire[1].text = First(call))
      BY <2>2, <3>1
    <3>5. pc = "reply" => wire'[1].text = First(call)
      BY <3>3, <3>4, EmptySeq
    <3>6. CASE ServerLists(list) /\ text # End(list)
      <4>1. owed' = owed /\ rows'.listed >= 0
        BY <3>6, <3>1 DEF ServerLists, TypeOK
      <4>2. Listing'
        BY <2>1, <3>3, <3>4, <3>6, <4>1 DEF Listing, Current
      <4> QED BY <2>1, <3>3, <3>4, <3>5, <4>2 DEF StreamInv, ReplyInv, RowsInv
    <3>7. CASE ServerEnds(list) /\ text = End(list)
      <4>1. owed' = <<>> /\ rows'.listed = -1
        BY <2>2, <3>1, <3>7 DEF ServerEnds, TypeOK
      <4>2. Ended'
        BY <2>1, <3>3, <3>4, <3>7, <4>1 DEF Listing, Ended
      <4> QED BY <2>1, <3>3, <3>4, <3>5, <4>2 DEF StreamInv, ReplyInv, RowsInv
    <3> QED BY <3>2, <3>6, <3>7
  <2>6. CASE ServerBabbles
    BY <2>6 DEF ServerBabbles, TypeOK
  <2> QED BY <1>11, <2>3, <2>4, <2>5, <2>6 DEF Server
<1>12. CASE Tick
  BY <1>12 DEF Tick, StreamInv, ReplyInv, RowsInv, Listing, Ended, Current,
               clientVars, serverVars
<1>13. CASE UNCHANGED vars
  BY <1>13 DEF StreamInv, ReplyInv, RowsInv, Listing, Ended, Current, vars,
               clientVars, serverVars
<1> QED BY <1>1, <1>2, <1>3, <1>4, <1>5, <1>6, <1>7, <1>8, <1>9, <1>10, <1>11, <1>12, <1>13
     DEF Next, Replies

\* Strays are never forgotten.
LEMMA StepWire ==
  ASSUME TypeOK, ControlInv, WireInv, [Next]_vars
  PROVE  WireInv'
<1> SUFFICES ASSUME strays' = 0
             PROVE  StreamInv'
  BY DEF WireInv
<1>1. strays = 0
  <2>1. CASE Server
    BY <2>1 DEF Server, ServerReplies, ServerBegins, ServerLists, ServerEnds, ServerBabbles,
                Serves, TypeOK
  <2>2. CASE Replies
    BY <2>2 DEF Replies, ErrorReply, WrongReply, OneLineReply, ListBegins, ListRow, ListEnds,
                ListBroken, TLSAcknowledged, HandshakeOk, Accepts, Reads, serverVars
  <2>3. CASE ~Server /\ ~Replies
    BY <2>3 DEF Next, Tick, Dialling, DialOk, DialFails, Cancel, CloseOnCancel, CallerCloses,
                Send, TLSRefused, IOFails, vars, serverVars
  <2> QED BY <2>1, <2>2, <2>3
<1> QED BY <1>1, StepStream DEF WireInv

-----------------------------------------------------------------------------
\* What was sent in the clear.

LEMMA StepClear ==
  ASSUME TypeOK, ClearInv, [Next]_vars
  PROVE  ClearInv'
<1>1. ASSUME NEW text, Reads(text), UNCHANGED secured
      PROVE  ClearInv'
  <2>1. \A i \in DOMAIN wire' : i + 1 \in DOMAIN wire /\ wire'[i] = wire[i + 1]
    BY <1>1, ReadsTypes
  <2> QED BY <1>1, <2>1 DEF ClearInv
<1>2. ASSUME NEW text \in Text, NEW of \in 0 .. MaxRequests, Puts(text, of),
             UNCHANGED secured
      PROVE  ClearInv'
  <2>1. /\ wire \in Seq(Line) /\ wire' \in Seq(Line)
        /\ \A i \in 1 .. Len(wire) : wire'[i] = wire[i]
        /\ wire'[Len(wire) + 1] = [text |-> text, of |-> of, clear |-> ~secured]
        /\ Len(wire) \in Nat /\ Len(wire') = Len(wire) + 1
    BY <1>2, PutsTypes DEF TypeOK, Line
  <2>2. ASSUME secured', NEW i \in DOMAIN wire'
        PROVE  wire'[i].clear = FALSE
    <3>1. secured = TRUE
      BY <1>2, <2>2 DEF TypeOK
    <3>2. i \in 1 .. Len(wire) \/ i = Len(wire) + 1
      BY <2>1, <2>2
    <3>3. CASE i \in 1 .. Len(wire)
      <4>1. wire'[i] = wire[i] /\ i \in DOMAIN wire /\ wire[i] \in Line
        BY <2>1, <3>3
      <4>2. wire[i].clear \in BOOLEAN /\ ~wire[i].clear
        BY <3>1, <4>1 DEF ClearInv, Line
      <4> QED BY <4>1, <4>2
    <3>4. CASE i = Len(wire) + 1
      <4>1. wire'[i].clear = ~secured
        BY <2>1, <3>4
      <4> QED BY <3>1, <4>1
    <3> QED BY <3>2, <3>3, <3>4
  <2> QED BY <2>2 DEF ClearInv
<1>3. CASE ErrorReply \/ WrongReply \/ OneLineReply \/ ListBegins \/ ListRow
           \/ ListEnds \/ ListBroken \/ TLSAcknowledged
  BY <1>1, <1>3 DEF ErrorReply, WrongReply, OneLineReply, ListBegins, ListRow, ListEnds,
                    ListBroken, TLSAcknowledged, Accepts, Fail, clientVars
<1>4. CASE Server
  <2>1. UNCHANGED secured /\ 0 \in 0 .. MaxRequests
    BY <1>4, SessionAssumption
       DEF Server, ServerReplies, ServerBegins, ServerLists, ServerEnds, ServerBabbles,
           Serves, clientVars
  <2>2. owed # <<>> => Head(owed).of \in 0 .. MaxRequests
    <3>1. owed # <<>> => Head(owed) \in Owed
      BY HeadTailProperties DEF TypeOK, Owed
    <3> QED BY <3>1 DEF Owed
  <2>3. \E text \in Text, of \in 0 .. MaxRequests : Puts(text, of)
    BY <1>4, <2>1, <2>2, Vocabulary
       DEF Server, ServerReplies, ServerBegins, ServerLists, ServerEnds, ServerBabbles, Serves
  <2> QED BY <2>1, <2>3, <1>2
<1>5. CASE HandshakeOk
  BY <1>5 DEF HandshakeOk, ClearInv, serverVars
<1>6. CASE \/ Tick \/ Dialling \/ Cancel \/ CloseOnCancel \/ CallerCloses \/ TLSRefused
           \/ IOFails \/ (\E request \in Requests : Send(request)) \/ UNCHANGED vars
  BY <1>6 DEF ClearInv, Tick, Dialling, DialOk, DialFails, Cancel, CloseOnCancel,
              CallerCloses, TLSRefused, IOFails, Fail, Send, vars, clientVars, serverVars
<1> QED BY <1>3, <1>4, <1>5, <1>6 DEF Next, Replies

-----------------------------------------------------------------------------
\* The deadline.

LEMMA StepTime ==
  ASSUME TypeOK, TimeInv, [Next]_vars
  PROVE  TimeInv'
<1> USE SessionAssumption
<1>1. CASE Tick
  BY <1>1 DEF Tick, TimeInv, TypeOK, NoDeadline, clientVars
<1>2. ASSUME NEW request \in Requests, Send(request)
      PROVE  TimeInv'
  BY <1>2 DEF Send, TimeInv, Armed, NoDeadline
<1>3. CASE \/ Dialling \/ IOFails \/ ErrorReply \/ WrongReply \/ OneLineReply
           \/ ListEnds \/ ListBroken \/ HandshakeOk
  BY <1>3 DEF Dialling, DialOk, DialFails, IOFails, ErrorReply, WrongReply, OneLineReply,
              ListEnds, ListBroken, HandshakeOk, Fail, Succeed, Disarmed, TimeInv
<1>4. CASE \/ Cancel \/ CloseOnCancel \/ CallerCloses \/ TLSRefused \/ ListBegins
           \/ ListRow \/ TLSAcknowledged \/ Server \/ UNCHANGED vars
  BY <1>4 DEF Cancel, CloseOnCancel, CallerCloses, TLSRefused, ListBegins, ListRow,
              TLSAcknowledged, Server, ServerReplies, ServerBegins, ServerLists, ServerEnds,
              ServerBabbles, Serves, TimeInv, vars, clientVars, clockVars
<1> QED BY <1>1, <1>2, <1>3, <1>4 DEF Next, Replies

-----------------------------------------------------------------------------
Inv == TypeOK /\ ControlInv /\ WireInv /\ ClearInv /\ TimeInv

\* The inductive invariant: until the server sends a stray line the stream holds
\* the rest of the answer to the request in progress and nothing else, and the
\* caller is where it reads it; nothing sent in the clear is read over TLS; the
\* deadline is the timeout less the time spent.
THEOREM SessionInvariant == Spec => []Inv
<1>1. Init => Inv
  <2>1. Init => WireInv
    BY InitStream DEF WireInv
  <2>2. Init => ClearInv /\ TimeInv
    BY SessionAssumption DEF Init, ClearInv, TimeInv, Armed, NoDeadline
  <2> QED BY <2>1, <2>2, InitTypes, InitControl DEF Inv
<1>2. Inv /\ [Next]_vars => Inv'
  BY StepTypes, StepControl, StepWire, StepClear, StepTime DEF Inv
<1> QED BY <1>1, <1>2, PTL DEF Spec

\* Every variable keeps its type; no LIST is read beyond its limit.
THEOREM SessionTypes == Spec => []TypeOK
<1>1. Inv => TypeOK
  BY DEF Inv
<1> QED BY <1>1, SessionInvariant, PTL

\* Between two calls on an open connection nothing is unread or owed, as long
\* as the server has sent nothing beyond its answers.
THEOREM AlwaysInStep == Spec => []InStep
<1>1. Inv => InStep
  BY DEF Inv, WireInv, StreamInv, InStep
<1> QED BY <1>1, SessionInvariant, PTL

\* With TLS configured no credential and no query is sent before the handshake,
\* and nothing that was sent in the clear can be read as an answer after it.
THEOREM NeverSentInTheClear == Spec => []NeverInTheClear
<1>1. Inv => NeverInTheClear
  BY Vocabulary DEF Inv, ControlInv, ClearInv, NeverInTheClear
<1> QED BY <1>1, SessionInvariant, PTL

\* A session that is over, or a dial that failed, leaves no open connection.
THEOREM NoConnectionEverLeft == Spec => []NoConnectionLeft
<1>1. Inv => NoConnectionLeft
  BY DEF Inv, ControlInv, NoConnectionLeft
<1> QED BY <1>1, SessionInvariant, PTL

\* No dial and no exchange takes longer than the timeout.
THEOREM ExchangeAlwaysBounded == Spec => []ExchangeBounded
<1>1. Inv => ExchangeBounded
  BY DEF Inv, TimeInv, ExchangeBounded
<1> QED BY <1>1, SessionInvariant, PTL

-----------------------------------------------------------------------------
\* The contract.  Without strays a call that succeeds has read lines of its own
\* request only.

busy == IF pc = "refused" THEN "refused" ELSE IF Busy THEN "live" ELSE "no"
usable == conn # "closed"
orderly == strays = 0

LEMMA FailIsFail ==
  ASSUME Inv, Busy, NEW close \in BOOLEAN, Fail(close), strays' = strays
  PROVE  Contract!Fail
<1>1. busy' = "no" /\ busy # "no" /\ result' = "error"
  BY DEF Fail, Busy, busy
<1>2. usable' \in {usable, FALSE}
  BY DEF Fail, usable
<1> QED BY <1>1, <1>2 DEF Contract!Fail, busy, usable

LEMMA SucceedIsSucceed ==
  ASSUME Inv, Inv', Busy, pc # "refused", Succeed, strays' = strays
  PROVE  Contract!Succeed
<1>1. /\ busy = "live" /\ busy' = "no" /\ UNCHANGED usable
      /\ result' \in IF strays = 0 THEN {"own"} ELSE {"own", "foreign"}
  BY DEF Succeed, Busy, busy, usable, Inv, ControlInv
<1> QED BY <1>1 DEF Contract!Succeed, busy, usable

LEMMA StepKeepsContract ==
  ASSUME Inv, Inv', [Next]_vars
  PROVE  [Contract!Next]_(Contract!vars)
<1>1. CASE \/ Tick \/ Dialling \/ Cancel \/ Server \/ ListRow \/ ListBegins
           \/ TLSAcknowledged \/ UNCHANGED vars
  <2>1. UNCHANGED <<busy, usable, result>>
    BY <1>1 DEF Inv, ControlInv, Tick, Dialling, DialOk, DialFails, Cancel, Server, ServerReplies,
                ServerBegins, ServerLists, ServerEnds, ServerBabbles, Serves, ListRow,
                ListBegins, TLSAcknowledged, vars, clientVars, busy, usable, Busy
  <2>2. strays' = strays \/ (strays' = 0) = FALSE
    BY <1>1 DEF Inv, TypeOK, Tick, Dialling, DialOk, DialFails, Cancel, Server, ServerReplies,
                ServerBegins, ServerLists, ServerEnds, ServerBabbles, Serves, ListRow,
                ListBegins, TLSAcknowledged, Accepts, Reads, vars, serverVars
  <2> QED BY <2>1, <2>2
          DEF Contract!Next, Contract!Stray, Contract!vars, busy, usable
<1>2. CASE CloseOnCancel \/ CallerCloses \/ TLSRefused
  <2>1. usable' = FALSE /\ UNCHANGED <<busy, strays, result>>
    BY <1>2 DEF CloseOnCancel, CallerCloses, TLSRefused, busy, usable, Busy, serverVars
  <2> QED BY <2>1 DEF Contract!Next, Contract!Break, busy, usable
<1>3. ASSUME NEW request \in Requests, Send(request)
      PROVE  Contract!Next
  <2>1. busy = "no" /\ result' = "none" /\ UNCHANGED <<usable, strays>>
        /\ busy' = IF usable THEN "live" ELSE "refused"
    BY <1>3 DEF Send, Inv, ControlInv, TypeOK, busy, usable, Busy
  <2> QED BY <2>1 DEF Contract!Next, Contract!Call, busy, usable
<1>4. CASE IOFails \/ ErrorReply \/ WrongReply \/ ListBroken
  <2>1. Busy /\ strays' = strays /\ \E close \in BOOLEAN : Fail(close)
    BY <1>4 DEF IOFails, ErrorReply, WrongReply, ListBroken, Busy, Reads, serverVars
  <2> QED BY <2>1, FailIsFail DEF Contract!Next
<1>5. CASE OneLineReply \/ ListEnds \/ HandshakeOk
  <2>1. Busy /\ pc # "refused" /\ Succeed /\ strays' = strays
    BY <1>5 DEF OneLineReply, ListEnds, HandshakeOk, Accepts, Reads, Busy, serverVars
  <2> QED BY <2>1, SucceedIsSucceed DEF Contract!Next
<1> QED BY <1>1, <1>2, <1>3, <1>4, <1>5 DEF Next, Replies

\* The session implements ConnContract: calls one at a time, none successful on
\* a connection that broke, each answered with its own reply or an error until
\* the server sends a line that answers nothing.
THEOREM SessionKeepsContract == Spec => KeepsContract
<1>1. Init => Contract!Init
  BY DEF Init, Contract!Init, Busy
<1>2. Inv /\ Inv' /\ [Next]_vars => [Contract!Next]_(Contract!vars)
  BY StepKeepsContract
<1> QED BY <1>1, <1>2, SessionInvariant, PTL DEF Spec, KeepsContract, Contract!Spec
=============================================================================
