-------------------------- MODULE ConfigProperties --------------------------
(***************************************************************************)
(* What the operator wrote, the checks of validate and the later readers   *)
(* of the same settings must agree on.                                     *)
(***************************************************************************)
EXTENDS Config

\* "Omitted durations use their defaults.  Explicit 0s disables NOCOMM or
\* debounce": what runs is what was written, a written zero included.  A backoff
\* is capped at 30 s.
AsWritten ==
  \A c \in config, d \in Duration :
    IF file.durations[d] = {} THEN c.durations[d] = Default[d]
    ELSE \/ file.durations[d] = {c.durations[d]}
         \/ d = "reconnect_backoff" /\ c.durations[d] = 30000

\* No accepted file makes a ticker panic, a connection without a deadline or a
\* negative window, or leaves no room for the backoff to be one.
Usable ==
  \A c \in config :
    /\ \A d \in Duration : c.durations[d] >= 0
    /\ \A d \in {"timeout", "status_interval", "snapshot_interval"} : c.durations[d] > 0
    /\ 100 <= c.durations.reconnect_backoff /\ c.durations.reconnect_backoff <= 30000

\* Every duration an accepted file runs with is both: what the operator wrote
\* or the default, and one the program can work with.
DurationsAsWritten == AsWritten /\ Usable

\* nut.Dial finds in an accepted address the host and port the operator
\* meant, 3493 if none, though it takes the text apart on its own.  An IPv6
\* address with a port needs its brackets.
AddressReached ==
  \A c \in config : ~Swallows(file.address) =>
    c.endpoint = {<<file.address.host,
                    IF file.address.port = "none" THEN "3493" ELSE file.address.port>>}

\* A target of an accepted file never fails on what its Notify finds unset.
TargetsDeliverable == \A c \in config : Deliverable(c.target)

\* A target receives every kind it lists, in whatever spelling validate took,
\* and no other; it receives every kind if it lists none.
SubscriptionAsWritten ==
  \A c \in config, kind \in Kind :
    Match(c.target.events, kind) <=>
      file.target.events = {} \/ \E e \in file.target.events : e.kind = kind
=============================================================================
