----------------------- MODULE EventPayloadProperties -----------------------
(***************************************************************************)
(* What a consumer of an Event may rely on.                                *)
(***************************************************************************)
EXTENDS EventPayload

\* Nobody writes a map that a consumer keeps, nor one that m.last refers to:
\* a notifier that renders an event late renders what was dispatched, and no
\* concurrent map access can happen.
VarsFrozen ==
  [][\A i \in held \cup ({last.vars} \ {NoMap}) : heap'[i] = heap[i]]_vars

\* Whenever an event is dispatched, the ups.status among its variables is its
\* Status, for the snapshot and for the one before; one event never mixes
\* two polls.
PayloadAgrees ==
  /\ pc \in {"critical", "other"} => heap[snap.vars].status = snap.status
  /\ last # NoSnap => heap[last.vars].status = last.status

\* An event shows one poll, and shows it for as long as anybody keeps it.
PayloadStays == []PayloadAgrees /\ VarsFrozen
=============================================================================
