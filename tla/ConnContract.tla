---------------------------- MODULE ConnContract ----------------------------
(***************************************************************************)
(* What the monitor relies on when it uses a connection (the interface     *)
(* Conn of monitor/monitor.go): calls come one at a time, a call returns   *)
(* the answer to its own request or an error, and a connection that broke  *)
(* refuses every later call.  The promise of the answer is conditional: it *)
(* is kept as long as the server at the other end is orderly, that is      *)
(* sends nothing but the answers to the requests it is sent.               *)
(***************************************************************************)
VARIABLES
  busy,    \* "no", or the call in progress: "live", or "refused" at the start
  usable,  \* the connection has not broken
  orderly, \* the server has sent nothing but answers
  result   \* of the last call: "none", "own", "foreign" or "error"

vars == <<busy, usable, orderly, result>>

Init == busy = "no" /\ usable = TRUE /\ orderly = TRUE /\ result = "none"

Call ==
  /\ busy = "no"
  /\ busy' = IF usable THEN "live" ELSE "refused"
  /\ result' = "none"
  /\ UNCHANGED <<usable, orderly>>

\* Only a call that found the connection intact can succeed.  It may do so
\* after a concurrent Close, from what had already arrived.
Succeed ==
  /\ busy = "live"
  /\ busy' = "no"
  /\ result' \in IF orderly THEN {"own"} ELSE {"own", "foreign"}
  /\ UNCHANGED <<usable, orderly>>

Fail ==
  /\ busy # "no"
  /\ busy' = "no" /\ result' = "error"
  /\ usable' \in {usable, FALSE}
  /\ UNCHANGED orderly

Break == usable' = FALSE /\ UNCHANGED <<busy, orderly, result>>

\* The server sends a line that nobody asked for.
Stray == orderly' = FALSE /\ UNCHANGED <<busy, usable, result>>

Next == Call \/ Succeed \/ Fail \/ Break \/ Stray

Spec == Init /\ [][Next]_vars
=============================================================================
