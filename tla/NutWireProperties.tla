-------------------------- MODULE NutWireProperties --------------------------
(***************************************************************************)
(* What the writer and the readers of words owe each other.                *)
(***************************************************************************)
EXTENDS NutWire

\* The server reads the request as exactly one command of two words, the
\* second the operator's name: blanks, quotes, backslashes, the = and # of its
\* own grammar and an empty name do not shift the frame, and whatever the name
\* holds, no line break is in the stream but the one that ends the request.
RequestReadsBack ==
  /\ stage = "sent" => ServerWords(stream) = << <<"L">>, ups, <<>> >>
  /\ \A i \in DOMAIN stream : stream[i] = "N" <=> i = Len(stream)

\* However the server chooses to quote and escape, the client accepts its
\* reply and reads exactly the value it holds.
AnswerReadsBack ==
  stage = "over" /\ stream # <<>> /\ ups # <<>> /\ ~cut => result = {value}

\* A row that lost its end is refused, never read as a shorter value.
CutRowRefused == stage = "over" /\ cut => result = {}
=============================================================================
