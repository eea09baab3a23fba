---------------------------- MODULE ConfigProofs ----------------------------
(***************************************************************************)
(* Theorems about every file an operator can write with any number of      *)
(* edits, and their proofs.                                                *)
(***************************************************************************)
EXTENDS ConfigProperties, TLAPS

Written == {{}} \cup {{v} : v \in Int}

TargetsOf(kind) ==
  [kind : {kind}, text : [Fields[kind] -> Text], timeout : Int,
   events : SUBSET Entry]

Files ==
  [durations : [Duration -> Written], address : Address,
   ups : Text, username : Text, password : Text,
   target : UNION {TargetsOf(kind) : kind \in DOMAIN Fields}, extra : BOOLEAN]

\* What Start makes of a file.
Built(f) ==
  [durations |-> [d \in Duration |-> Clamped(d, Decoded(d, f.durations[d]))],
   endpoint |-> DialEndpoint(f.address), target |-> f.target]

\* The program runs with what a valid file says, and no edit reaches it.
ConfigInv ==
  /\ file \in Files
  /\ config = {} \/ (stage = "running" /\ Valid(file) /\ config = {Built(file)})

-----------------------------------------------------------------------------
LEMMA FileInitial ==
  ASSUME Init
  PROVE  file \in Files
<1>1. PICK kind \in DOMAIN Fields :
        file = [durations |-> [d \in Duration |-> {}],
                address |-> [host |-> "name", brackets |-> FALSE, port |-> "none"],
                ups |-> "ok", username |-> "", password |-> "",
                target |-> Working(kind), extra |-> FALSE]
  BY DEF Init
<1>2. Working(kind) \in TargetsOf(kind)
  BY DEF Working, TargetsOf, Text
<1>3. Working(kind) \in UNION {TargetsOf(k) : k \in DOMAIN Fields}
  BY <1>2
<1>4. [d \in Duration |-> {}] \in [Duration -> Written]
  BY DEF Written
<1>5. [host |-> "name", brackets |-> FALSE, port |-> "none"] \in Address
  BY DEF Address
<1>6. QED
  BY <1>1, <1>3, <1>4, <1>5 DEF Files, Text

LEMMA TargetEdited ==
  ASSUME file \in Files, EditTarget(file.target)
  PROVE  file' \in Files
<1>1. PICK kind \in DOMAIN Fields : file.target \in TargetsOf(kind)
  BY DEF Files
<1>2. SUFFICES ASSUME NEW t \in TargetsOf(kind), file' = [file EXCEPT !.target = t]
               PROVE  file' \in Files
  <2>1. CASE \E f \in DOMAIN file.target.text, v \in Text : file' = [file EXCEPT !.target.text[f] = v]
    <3>1. PICK f \in DOMAIN file.target.text, v \in Text : file' = [file EXCEPT !.target.text[f] = v]
      BY <2>1
    <3> DEFINE x == [file.target.text EXCEPT ![f] = v]
               t == [file.target EXCEPT !.text = x]
    <3>2. x \in [Fields[kind] -> Text]
      BY <1>1, <3>1 DEF TargetsOf
    <3> HIDE DEF x
    <3>3. t \in TargetsOf(kind)
      BY <1>1, <3>2 DEF TargetsOf
    <3> HIDE DEF t
    <3>4. file' = [file EXCEPT !.target = t]
      BY <3>1 DEF t, x, Files
    <3>5. QED
      BY <3>3, <3>4, <1>2
  <2>2. CASE \E v \in {-1, 5000} : file' = [file EXCEPT !.target.timeout = v]
    <3>1. PICK v \in {-1, 5000} : file' = [file EXCEPT !.target.timeout = v]
      BY <2>2
    <3> DEFINE t == [file.target EXCEPT !.timeout = v]
    <3>2. t \in TargetsOf(kind)
      BY <1>1 DEF TargetsOf
    <3> HIDE DEF t
    <3>3. file' = [file EXCEPT !.target = t]
      BY <3>1 DEF t, Files
    <3>4. QED
      BY <3>2, <3>3, <1>2
  <2>3. CASE \E e \in Entry : file' = [file EXCEPT !.target.events = @ \cup {e}]
    <3>1. PICK e \in Entry : file' = [file EXCEPT !.target.events = @ \cup {e}]
      BY <2>3
    <3> DEFINE s == file.target.events \cup {e}
               t == [file.target EXCEPT !.events = s]
    <3>2. s \in SUBSET Entry
      BY <1>1 DEF TargetsOf
    <3> HIDE DEF s
    <3>3. t \in TargetsOf(kind)
      BY <1>1, <3>2 DEF TargetsOf
    <3> HIDE DEF t
    <3>4. file' = [file EXCEPT !.target = t]
      BY <3>1 DEF t, s, Files
    <3>5. QED
      BY <3>3, <3>4, <1>2
  <2>4. QED
    BY <2>1, <2>2, <2>3 DEF EditTarget
<1>3. QED
  BY <1>2 DEF Files

\* A key of the file that is not part of a target.
LEMMA EditKeepsFile ==
  ASSUME file \in Files, Edit
  PROVE  file' \in Files
<1>1. CASE \E d \in Duration :
             \E v \in {-1, 0, Least[d] - 1, Least[d], Most[d], Most[d] + 1} :
               file' = [file EXCEPT !.durations[d] = {v}]
  <2>0. PICK d \in Duration :
          \E v \in {-1, 0, Least[d] - 1, Least[d], Most[d], Most[d] + 1} :
            file' = [file EXCEPT !.durations[d] = {v}]
    BY <1>1
  <2>1. PICK v \in {-1, 0, Least[d] - 1, Least[d], Most[d], Most[d] + 1} :
          file' = [file EXCEPT !.durations[d] = {v}]
    BY <2>0
  <2>2. v \in Int
    BY <2>1 DEF Duration, Default, Least, Most
  <2> DEFINE D == [file.durations EXCEPT ![d] = {v}]
  <2>3. D \in [Duration -> Written]
    BY <2>2 DEF Files, Written
  <2>4. file' = [file EXCEPT !.durations = D]
    BY <2>1
  <2> HIDE DEF D
  <2>5. QED
    BY <2>3, <2>4 DEF Files
<1>2. CASE \E a \in Address : file' = [file EXCEPT !.address = a]
  BY <1>2 DEF Files
<1>3. CASE \E f \in {"ups", "username", "password"}, v \in Text :
             file' = [file EXCEPT ![f] = v]
  BY <1>3 DEF Files
<1>4. CASE file' = [file EXCEPT !.extra = TRUE]
  BY <1>4 DEF Files
<1>5. QED
  BY <1>1, <1>2, <1>3, <1>4, TargetEdited DEF Edit

\* What runs is made of the last, valid, state of the file (config.go:Load,
\* validate, main.go).
THEOREM ConfigInvHolds == Spec => []ConfigInv
<1>1. Init => ConfigInv
  BY FileInitial DEF ConfigInv, Init
<1>2. ConfigInv /\ [Next]_vars => ConfigInv'
  <2> SUFFICES ASSUME ConfigInv, [Next]_vars
               PROVE  ConfigInv'
    OBVIOUS
  <2>1. CASE Edit
    <3>1. config = {} /\ config' = config
      BY <2>1 DEF Edit, ConfigInv
    <3>2. QED
      BY <2>1, <3>1, EditKeepsFile DEF ConfigInv
  <2>2. CASE Start
    <3>1. /\ file' = file /\ stage' = "running" /\ Valid(file)
          /\ config' = {Built(file)}
      BY <2>2 DEF Start, Built
    <3>2. QED
      BY <3>1 DEF ConfigInv
  <2>3. CASE Refuse
    BY <2>3 DEF Refuse, ConfigInv
  <2>4. CASE UNCHANGED vars
    BY <2>4 DEF vars, ConfigInv
  <2>5. QED
    BY <2>1, <2>2, <2>3, <2>4 DEF Next
<1>3. QED
  BY <1>1, <1>2, PTL DEF Spec

-----------------------------------------------------------------------------
\* A valid file and what is made of it.

LEMMA RunsWhatIsValid ==
  ASSUME ConfigInv, NEW c \in config
  PROVE  /\ file \in Files /\ Valid(file)
         /\ \A d \in Duration : c.durations[d] = Clamped(d, Decoded(d, file.durations[d]))
         /\ c.endpoint = DialEndpoint(file.address)
         /\ c.target = file.target
  BY DEF ConfigInv, Built

\* The value a duration is decoded to.
LEMMA DecodedValue ==
  ASSUME file \in Files, NEW d \in Duration
  PROVE  /\ Decoded(d, file.durations[d]) \in Int
         /\ IF file.durations[d] = {} THEN Decoded(d, file.durations[d]) = Default[d]
            ELSE file.durations[d] = {Decoded(d, file.durations[d])}
<1>1. file.durations[d] \in Written
  BY DEF Files
<1>2. CASE file.durations[d] = {}
  BY <1>2 DEF Decoded, Duration, Default
<1>3. CASE file.durations[d] # {}
  <2>1. PICK v \in Int : file.durations[d] = {v}
    BY <1>1, <1>3 DEF Written
  <2>2. (CHOOSE x \in {v} : TRUE) = v
    OBVIOUS
  <2>3. QED
    BY <1>3, <2>1, <2>2 DEF Decoded
<1>4. QED
  BY <1>2, <1>3

\* A duration within its limits is used as it is, but for the backoff's cap.
LEMMA ClampedValue ==
  ASSUME NEW d \in Duration, NEW v \in Int, InRange(d, v)
  PROVE  /\ Clamped(d, v) \in Int /\ Clamped(d, v) >= 0
         /\ Clamped(d, v) = v \/ (d = "reconnect_backoff" /\ Clamped(d, v) = 30000)
         /\ d \in {"timeout", "status_interval", "snapshot_interval"} => Clamped(d, v) > 0
         /\ d = "reconnect_backoff" => 100 <= Clamped(d, v) /\ Clamped(d, v) <= 30000
<1>1. d \in {"timeout", "status_interval", "snapshot_interval",
            "nocomm_threshold", "replbatt_debounce", "alarm_debounce", "reconnect_backoff"}
  BY DEF Duration, Default
<1>2. CASE d = "timeout"
  BY <1>2 DEF Clamped, InRange, Least, Most, Default
<1>3. CASE d = "status_interval"
  BY <1>3 DEF Clamped, InRange, Least, Most, Default
<1>4. CASE d = "snapshot_interval"
  BY <1>4 DEF Clamped, InRange, Least, Most, Default
<1>5. CASE d = "nocomm_threshold"
  BY <1>5 DEF Clamped, InRange, Least, Most, Default
<1>6. CASE d = "replbatt_debounce"
  BY <1>6 DEF Clamped, InRange, Least, Most, Default
<1>7. CASE d = "alarm_debounce"
  BY <1>7 DEF Clamped, InRange, Least, Most, Default
<1>8. CASE d = "reconnect_backoff"
  BY <1>8 DEF Clamped, InRange, Least, Most, Default
<1>9. QED
  BY <1>1, <1>2, <1>3, <1>4, <1>5, <1>6, <1>7, <1>8

\* Every accepted duration is what the operator wrote, or the default if he
\* wrote none, and none makes a ticker panic, a deadline or a backoff vanish,
\* or a window negative (config.go:validate, monitor.go:New).
THEOREM DurationsHold == Spec => []DurationsAsWritten
<1>1. ASSUME ConfigInv, NEW c \in config, NEW d \in Duration
      PROVE  /\ file \in Files
             /\ InRange(d, Decoded(d, file.durations[d]))
             /\ c.durations[d] = Clamped(d, Decoded(d, file.durations[d]))
  BY <1>1, RunsWhatIsValid DEF Valid
<1>2. ConfigInv => AsWritten
  <2> SUFFICES ASSUME ConfigInv, NEW c \in config, NEW d \in Duration
               PROVE  IF file.durations[d] = {} THEN c.durations[d] = Default[d]
                      ELSE \/ file.durations[d] = {c.durations[d]}
                           \/ d = "reconnect_backoff" /\ c.durations[d] = 30000
    BY DEF AsWritten
  <2>1. CASE file.durations[d] = {}
    <3>1. Clamped(d, Default[d]) = Default[d]
      BY DEF Clamped, Default, Duration
    <3>2. QED
      BY <1>1, <2>1, <3>1, DecodedValue
  <2>2. CASE file.durations[d] # {}
    BY <1>1, <2>2, DecodedValue, ClampedValue
  <2>3. QED
    BY <2>1, <2>2
<1>3. ConfigInv => Usable
  <2> SUFFICES ASSUME ConfigInv, NEW c \in config
               PROVE  /\ \A d \in Duration : c.durations[d] >= 0
                      /\ \A d \in {"timeout", "status_interval", "snapshot_interval"} :
                           c.durations[d] > 0
                      /\ 100 <= c.durations.reconnect_backoff /\ c.durations.reconnect_backoff <= 30000
    BY DEF Usable
  <2>1. ASSUME NEW d \in Duration
        PROVE  /\ c.durations[d] \in Int /\ c.durations[d] >= 0
               /\ d \in {"timeout", "status_interval", "snapshot_interval"} =>
                    c.durations[d] > 0
               /\ d = "reconnect_backoff" => 100 <= c.durations[d] /\ c.durations[d] <= 30000
    BY <1>1, DecodedValue, ClampedValue
  <2>2. {"timeout", "status_interval", "snapshot_interval", "reconnect_backoff"}
          \subseteq Duration
    BY DEF Duration, Default
  <2>3. 100 <= c.durations.reconnect_backoff /\ c.durations.reconnect_backoff <= 30000
    BY <2>1, <2>2
  <2>4. QED
    BY <2>1, <2>2, <2>3
<1>4. QED
  BY <1>2, <1>3, ConfigInvHolds, PTL DEF DurationsAsWritten

\* nut.Dial, which takes nut.address apart on its own, finds in every accepted
\* one the host and the port that the operator meant (config.go:validate,
\* nut/client.go:Dial).
THEOREM AddressIsReached == Spec => []AddressReached
<1>1. ConfigInv => AddressReached
  <2> SUFFICES ASSUME ConfigInv, NEW c \in config, ~Swallows(file.address)
               PROVE  c.endpoint = {<<file.address.host,
                        IF file.address.port = "none" THEN "3493"
                        ELSE file.address.port>>}
    BY DEF AddressReached
  <2> DEFINE a == file.address
  <2>1. a \in Address /\ ValidAddress(a) /\ c.endpoint = DialEndpoint(a)
    BY RunsWhatIsValid DEF Files, Valid
  <2> HIDE DEF a
  <2>2. QED
    BY <2>1 DEF a, Address, ValidAddress, ValidateEndpoint, DialEndpoint, IsIP, HasColon,
                Whole, Swallows, Split, validHost, validPort
<1>2. QED
  BY <1>1, ConfigInvHolds, PTL

\* Whatever Notify requires of its settings, validate has required of them
\* before (config.go:validate, the Notify of every type).
THEOREM TargetsAreDeliverable == Spec => []TargetsDeliverable
<1>1. ConfigInv => TargetsDeliverable
  <2> SUFFICES ASSUME ConfigInv, NEW c \in config
               PROVE  Deliverable(c.target)
    BY DEF TargetsDeliverable
  <2>1. c.target = file.target /\ Complete(file.target) /\ file \in Files
    BY RunsWhatIsValid DEF Valid, ValidTarget
  <2>2. file.target.kind \in {"shell", "webhook", "ssh", "telegram"}
    BY <2>1 DEF Files, TargetsOf, Fields
  <2>3. QED
    BY <2>1, <2>2 DEF Complete, Deliverable
<1>2. QED
  BY <1>1, ConfigInvHolds, PTL

\* Filter.Match selects the kinds that the operator listed, in any spelling
\* that validate took, and no other (config.go:validate, notifier.go:Match).
THEOREM SubscriptionsHold == Spec => []SubscriptionAsWritten
<1>1. ConfigInv => SubscriptionAsWritten
  <2> SUFFICES ASSUME ConfigInv, NEW c \in config, NEW kind \in Kind
               PROVE  Match(c.target.events, kind) <=>
                        \/ file.target.events = {}
                        \/ \E e \in file.target.events : e.kind = kind
    BY DEF SubscriptionAsWritten
  <2>1. c.target = file.target /\ file.target.events \subseteq Entry
    BY RunsWhatIsValid DEF Files, TargetsOf
  <2>2. ASSUME NEW e \in Entry
        PROVE  ToUpper(TrimSpace(e)) = Plain(kind) <=> e.kind = kind
    <3> DEFINE Any == [kind : {e.kind, kind}, upper : BOOLEAN, blanks : BOOLEAN]
               t == ToUpper(TrimSpace(e))
               p == Plain(kind)
    <3>1. t \in Any /\ t.kind = e.kind /\ t.upper = TRUE /\ t.blanks = FALSE
      BY DEF Entry, ToUpper, TrimSpace
    <3>2. p \in Any /\ p.kind = kind /\ p.upper = TRUE /\ p.blanks = FALSE
      BY DEF Plain
    <3> HIDE DEF t, p
    <3>3. t = p <=> t.kind = p.kind
      BY <3>1, <3>2
    <3>4. QED
      BY <3>1, <3>2, <3>3 DEF t, p
  <2>3. QED
    BY <2>1, <2>2 DEF Match
<1>2. QED
  BY <1>1, ConfigInvHolds, PTL
=============================================================================
