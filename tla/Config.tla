------------------------------- MODULE Config -------------------------------
(***************************************************************************)
(* config/config.go, from the operator's file to what runs: defaults,      *)
(* decoding, validation, then monitor.New, nut.Dial and the targets, which *)
(* look at the same settings again.                                        *)
(*                                                                         *)
(* The file starts with one working target and nothing else; the operator  *)
(* edits it and starts the program.  Durations are in milliseconds.        *)
(***************************************************************************)
EXTENDS UPSEvents

CONSTANT MaxEdits  \* bound: edits made to the file

ASSUME EditsAssumption == MaxEdits \in Nat

VARIABLES
  file,    \* what the operator wrote
  edits,   \* how often
  stage,   \* "edit", "refused" or "running"
  config   \* what the program uses

vars == <<file, edits, stage, config>>

-----------------------------------------------------------------------------
\* Durations.

Default ==
  [timeout |-> 5000, status_interval |-> 2000, snapshot_interval |-> 30000,
   nocomm_threshold |-> 60000, replbatt_debounce |-> 600000,
   alarm_debounce |-> 60000, reconnect_backoff |-> 1000]
Least ==
  [timeout |-> 100, status_interval |-> 500, snapshot_interval |-> 1000,
   nocomm_threshold |-> 0, replbatt_debounce |-> 0, alarm_debounce |-> 0,
   reconnect_backoff |-> 100]
Most ==
  [timeout |-> 60000, status_interval |-> 300000, snapshot_interval |-> 1800000,
   nocomm_threshold |-> 3600000, replbatt_debounce |-> 86400000,
   alarm_debounce |-> 3600000, reconnect_backoff |-> 60000]
Duration == DOMAIN Default

\* Faulty variants: the defaults are applied after the file is decoded; no
\* lower limit.
DefaultsLast(d, written) == IF written \in {{}, {0}} THEN Default[d] ELSE CHOOSE v \in written : TRUE
OnlyMost(d, v) == v <= Most[d]

\* The file is decoded over the defaults; a null leaves them as they are.
Decoded(d, written) == IF written = {} THEN Default[d] ELSE CHOOSE v \in written : TRUE
InRange(d, v) == Least[d] <= v /\ v <= Most[d]

\* What monitor.New makes of it.
Clamped(d, v) ==
  IF d \in {"status_interval", "snapshot_interval", "reconnect_backoff"} /\ v <= 0
  THEN Default[d]
  ELSE IF d = "reconnect_backoff" /\ v > 30000 THEN 30000 ELSE v

-----------------------------------------------------------------------------
\* nut.address: a host, perhaps in brackets, and perhaps a port.

Address == [host : {"empty", "name", "ip4", "ip6", "bad"}, brackets : BOOLEAN,
            port : {"none", "empty", "number", "service", "bad"}]

\* An IPv6 address without brackets swallows a number after it.
Swallows(a) == a.host = "ip6" /\ ~a.brackets /\ a.port = "number"
IsIP(a) == (a.host \in {"ip4", "ip6"} /\ a.port = "none") \/ Swallows(a)
HasColon(a) == a.port # "none" \/ a.host = "ip6"
Whole(a) == IF Swallows(a) THEN "ip6:number" ELSE a.host

\* net.SplitHostPort: the pair, or none.
Split(a) == IF a.host = "ip6" /\ ~a.brackets THEN {} ELSE {<<a.host, a.port>>}

\* Faulty variant: nut.Dial does not know bare addresses of IPv6.
DialSplit(a) == IF HasColon(a) THEN Split(a) ELSE {<<a.host, "3493">>}

\* validate and nut.Dial each append the default port before they split.
ValidateEndpoint(a) == IF IsIP(a) \/ ~HasColon(a) THEN {<<Whole(a), "3493">>} ELSE Split(a)
DialEndpoint(a) == IF IsIP(a) \/ ~HasColon(a) THEN {<<Whole(a), "3493">>} ELSE Split(a)

validHost(host) == host \notin {"empty", "bad"}
validPort(port) == port \in {"3493", "number", "service"}

ValidAddress(a) == \E e \in ValidateEndpoint(a) : validHost(e[1]) /\ validPort(e[2])

-----------------------------------------------------------------------------
\* Targets.

Text == {"", "ok", "bad"}
Fields ==
  [shell |-> {"command", "args"}, webhook |-> {"url", "method", "body"},
   ssh |-> {"host", "user", "command", "password", "private_key_file"},
   telegram |-> {"bot_token", "chat_id", "message", "api_base", "parse_mode"}]

\* An entry of events: the kind it names, or "unknown", and how it is spelt.
Entry == [kind : {"FSD", "LOWBATT", "unknown"}, upper : BOOLEAN, blanks : BOOLEAN]
ToUpper(e) == [e EXCEPT !.upper = TRUE]
TrimSpace(e) == [e EXCEPT !.blanks = FALSE]
Plain(kind) == [kind |-> kind, upper |-> TRUE, blanks |-> FALSE]

\* Faulty variant: the filter does not trim what validate has trimmed.
MatchUntrimmed(events, kind) == events = {} \/ \E e \in events : ToUpper(e) = Plain(kind)

\* Filter.Match.
Match(events, kind) == events = {} \/ \E e \in events : ToUpper(TrimSpace(e)) = Plain(kind)

Known(e) == \E kind \in Kind : ToUpper(TrimSpace(e)) = Plain(kind)

\* Faulty variant: the host of an SSH target is not required.
CredentialsOnly(t) ==
  /\ t.kind = "ssh" => {t.text.user, t.text.command} \cap {""} = {}
  /\ t.kind = "ssh" => {t.text.password, t.text.private_key_file} # {""}

\* The fields validate requires of a target.
Complete(t) ==
  CASE t.kind = "shell" -> t.text.command # ""
    [] t.kind = "webhook" -> t.text.url # ""
    [] t.kind = "ssh" -> /\ {t.text.host, t.text.user, t.text.command} \cap {""} = {}
                         /\ {t.text.password, t.text.private_key_file} # {""}
    [] t.kind = "telegram" -> {t.text.bot_token, t.text.chat_id} \cap {""} = {}

\* A text is "bad" if a check of its syntax refuses it.  User names, passwords
\* and files have none.
Checked(t) == Fields[t.kind] \ {"user", "password", "private_key_file", "chat_id"}
ValidTarget(t) ==
  /\ Complete(t) /\ \A f \in Checked(t) : t.text[f] # "bad"
  /\ t.timeout >= 0 /\ \A e \in t.events : Known(e)

\* The first thing Notify does: it looks for what it needs to be set.
Deliverable(t) ==
  CASE t.kind = "shell" -> t.text.command # ""
    [] t.kind = "webhook" -> t.text.url # ""
    [] t.kind = "ssh" -> /\ t.text.host # "" /\ t.text.user # "" /\ t.text.command # ""
                         /\ (t.text.private_key_file # "" \/ t.text.password # "")
    [] t.kind = "telegram" -> t.text.bot_token # "" /\ t.text.chat_id # ""

-----------------------------------------------------------------------------
\* The operator.

Working(kind) ==
  [kind |-> kind, text |-> [f \in Fields[kind] |-> "ok"], timeout |-> 0, events |-> {}]

Init ==
  /\ \E kind \in DOMAIN Fields :
       file = [durations |-> [d \in Duration |-> {}],
               address |-> [host |-> "name", brackets |-> FALSE, port |-> "none"],
               ups |-> "ok", username |-> "", password |-> "",
               target |-> Working(kind), extra |-> FALSE]
  /\ edits = 0 /\ stage = "edit" /\ config = {}

EditTarget(t) ==
  \/ \E f \in DOMAIN t.text, v \in Text : file' = [file EXCEPT !.target.text[f] = v]
  \/ \E v \in {-1, 5000} : file' = [file EXCEPT !.target.timeout = v]
  \/ \E e \in Entry : file' = [file EXCEPT !.target.events = @ \cup {e}]

Edit ==
  /\ stage = "edit" /\ edits < MaxEdits
  /\ edits' = edits + 1 /\ UNCHANGED <<stage, config>>
  /\ \/ \E d \in Duration :
          \E v \in {-1, 0, Least[d] - 1, Least[d], Most[d], Most[d] + 1} :
            file' = [file EXCEPT !.durations[d] = {v}]
     \/ \E a \in Address : file' = [file EXCEPT !.address = a]
     \/ \E f \in {"ups", "username", "password"}, v \in Text : file' = [file EXCEPT ![f] = v]
     \/ EditTarget(file.target)
     \/ file' = [file EXCEPT !.extra = TRUE]  \* an unknown key, a second document

\* validate.
Valid(f) ==
  /\ ~f.extra
  /\ ValidAddress(f.address)
  /\ f.ups # "" /\ "bad" \notin {f.ups, f.username, f.password}
  /\ (f.password # "" => f.username # "")
  /\ \A d \in Duration : InRange(d, Decoded(d, f.durations[d]))
  /\ ValidTarget(f.target)

\* BuildNotifiers, MonitorRuntimeConfig, New and the dialer.
Start ==
  /\ stage = "edit" /\ Valid(file)
  /\ stage' = "running"
  /\ config' = {[durations |-> [d \in Duration |-> Clamped(d, Decoded(d, file.durations[d]))],
                 endpoint |-> DialEndpoint(file.address), target |-> file.target]}
  /\ UNCHANGED <<file, edits>>

Refuse ==
  /\ stage = "edit" /\ ~Valid(file)
  /\ stage' = "refused"
  /\ UNCHANGED <<file, edits, config>>

Next == Edit \/ Start \/ Refuse \/ (stage \in {"running", "refused"} /\ UNCHANGED vars)

Spec == Init /\ [][Next]_vars
=============================================================================
