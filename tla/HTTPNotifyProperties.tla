------------------------ MODULE HTTPNotifyProperties ------------------------
(***************************************************************************)
(* What a webhook or a Telegram target must guarantee, whatever answers.   *)
(***************************************************************************)
EXTENDS HTTPNotify

\* Success is reported only if the endpoint itself received the event and
\* said so: with a 2xx status and, for Telegram, an "ok" in a complete answer
\* within the limit.  A redirect is no success.
SuccessIsAcceptance ==
  result = "ok" =>
    /\ posted = {"endpoint"} /\ reply.status = 200
    /\ target.type = "telegram" => reply.says = "ok" /\ eof

\* An event, and the credentials in its URL or headers, goes to the
\* configured endpoint and nowhere else.
NotForwarded == posted \subseteq {"endpoint"}

\* Between two events no connection is in use: failures, error statuses and
\* bodies that were cut at the limit give theirs back or close it.
NoConnectionLeft == at = "idle" => "busy" \notin conns

\* Notify returns, although the server never answers or sends for ever, also
\* when the target has no timeout configured ("Notifier timeouts default to
\* 10s").
NotifyReturns == at # "idle" ~> at = "idle"
=============================================================================
