------------------------------- MODULE NutWire -------------------------------
(***************************************************************************)
(* The words of the line protocol in nut/client.go: Quote and wireToken    *)
(* write them, parseTokens and unquote read them, and the server has a     *)
(* reader of its own with more special characters.  One exchange, LIST VAR *)
(* for a UPS name and one row with a value, each any text.                 *)
(*                                                                         *)
(* A character is "a" (any plain one), a keyword letter, the blank " "     *)
(* (also \t \v \f), the quote "Q", the backslash "B", "#", "=" or the line *)
(* break "N" (also \r and NUL).                                            *)
(***************************************************************************)
EXTENDS Integers, Sequences, SequencesExt

CONSTANT MaxText  \* bound: characters of the name and the value together

ASSUME WireAssumption == MaxText \in Nat

VARIABLES
  ups, value,  \* the name the operator wrote, the value the server holds
  stage,       \* "compose", "sent", "answered" or "over"
  stream,      \* what the client wrote
  begin, row,  \* the BEGIN line and the row of the reply
  cut,         \* the server lost the end of the row
  result       \* the values the client read, {} after an error

vars == <<ups, value, stage, stream, begin, row, cut, result>>

Char == {"a", " ", "Q", "B", "#", "=", "N"}

-----------------------------------------------------------------------------
\* Writing.

Escaped(c, special) == IF c \in special THEN <<"B", c>> ELSE <<c>>
Escapes(s, special) ==
  LET text[n \in 0 .. Len(s)] ==
        IF n = 0 THEN <<>> ELSE text[n - 1] \o Escaped(s[n], special)
  IN  text
Escape(s, special) == Escapes(s, special)[Len(s)]
Quoted(s, special) == <<"Q">> \o Escape(s, special) \o <<"Q">>

\* Faulty variants: # is not escaped; an argument is not looked at.
QuoteNoHash(s) == Quoted(s, {"B", "Q"})
AnyArgument(s) == TRUE

Quote(s) == Quoted(s, {"B", "Q", "#"})
Special == {" ", "Q", "B", "#", "="}
wireToken(s) == IF s = <<>> \/ ToSet(s) \cap Special # {} THEN Quote(s) ELSE s
validateArguments(s) == "N" \notin ToSet(s)

-----------------------------------------------------------------------------
\* Reading: one pass with the words so far, the word in progress and what
\* the next character may be.  unquote is folded in.

Reader(mode, word, words) == [mode |-> mode, word |-> word, words |-> words]
Start == Reader("blank", <<>>, <<>>)
Add(r, c, mode) == Reader(mode, Append(r.word, c), r.words)
Word(r, mode) == Reader(mode, <<>>, Append(r.words, r.word))
To(r, mode) == Reader(mode, r.word, r.words)

\* Faulty variants: the end of the line ends a quoted word; a backslash in
\* quotes is an ordinary character.
TokensUnended(r) == {IF r.mode \in {"bare", "quoted"} THEN Word(r, "blank").words ELSE r.words}
QuotedPlain(r, c) == IF c = "Q" THEN Word(r, "closed") ELSE Add(r, c, "quoted")

InBlank(r, c) ==
  CASE c = " " -> r [] c = "Q" -> To(r, "quoted") [] c = "B" -> To(r, "error")
    [] OTHER -> Add(r, c, "bare")
InBare(r, c) ==
  CASE c = " " -> Word(r, "blank") [] c \in {"Q", "B"} -> To(r, "error")
    [] OTHER -> Add(r, c, "bare")
InQuoted(r, c) ==
  CASE c = "Q" -> Word(r, "closed") [] c = "B" -> To(r, "escaped")
    [] OTHER -> Add(r, c, "quoted")
AfterQuote(r, c) == IF c = " " THEN To(r, "blank") ELSE To(r, "error")

Read(r, c) ==
  CASE r.mode = "blank" -> InBlank(r, c)
    [] r.mode = "bare" -> InBare(r, c)
    [] r.mode = "quoted" -> InQuoted(r, c)
    [] r.mode = "escaped" -> Add(r, c, "quoted")
    [] r.mode = "closed" -> AfterQuote(r, c)
    [] r.mode = "error" -> r

\* The server ends a line at "N", a word at a blank, and the words at an
\* unescaped #, in quotes too; = outside of quotes is a word of its own.
EndWord(r) == IF r.mode \in {"bare", "quoted"} THEN Word(r, "blank") ELSE r
EndWords(r, c) == IF c = "N" THEN Word(EndWord(r), "blank") ELSE To(EndWord(r), "comment")

ServeUnquoted(r, c) ==
  CASE c \in {"N", "#"} -> EndWords(r, c) [] c = "Q" -> To(EndWord(r), "quoted")
    [] c = "=" -> Word(Add(EndWord(r), c, "bare"), "blank")
    [] c = "B" -> To(r, "literal") [] c = " " -> To(EndWord(r), "blank")
    [] OTHER -> Add(r, c, "bare")
Serve(r, c) ==
  CASE r.mode \in {"blank", "bare", "closed"} -> ServeUnquoted(r, c)
    [] r.mode = "quoted" -> IF c \in {"N", "#"} THEN EndWords(r, c) ELSE InQuoted(r, c)
    [] r.mode = "escaped" -> Add(r, c, "quoted")
    [] r.mode = "literal" -> Add(r, c, "bare")
    [] r.mode = "comment" -> IF c = "N" THEN Word(r, "blank") ELSE r

\* A reader goes over a text from left to right.
Step(who, r, c) == IF who = "client" THEN Read(r, c) ELSE Serve(r, c)
Readings(who, r, text) ==
  LET after[n \in 0 .. Len(text)] ==
        IF n = 0 THEN r ELSE Step(who, after[n - 1], text[n])
  IN  after
ReadAll(who, r, text) == Readings(who, r, text)[Len(text)]

\* What the end of the line makes of it: the one reading, or none.
Tokens(r) ==
  CASE r.mode = "bare" -> {Word(r, "blank").words}
    [] r.mode \in {"blank", "closed"} -> {r.words}
    [] OTHER -> {}
parseTokens(line) == Tokens(ReadAll("client", Start, line))

sameTokens(a, b) == parseTokens(a) \cap parseTokens(b) # {}

\* parseVarLine and the check of ListVars; the keyword VAR is "V", the
\* variable's name "v".
IsRow(f) == Len(f) = 4 /\ f[1] = <<"V">> /\ f[2] # <<>> /\ f[3] # <<>>
RowValue(line) == {f[4] : f \in {g \in parseTokens(line) : IsRow(g) /\ g[2] = ups}}

\* The words, with an empty one for each end of line.
ServerWords(s) == ReadAll("server", Start, s).words

-----------------------------------------------------------------------------
Init ==
  /\ ups = <<>> /\ value = <<>> /\ stage = "compose" /\ stream = <<>>
  /\ begin = <<>> /\ row = <<>> /\ cut = FALSE /\ result = {}

Compose ==
  /\ stage = "compose" /\ Len(ups) + Len(value) < MaxText
  /\ \E c \in Char : \/ value = <<>> /\ ups' = Append(ups, c) /\ UNCHANGED value
                     \/ c # "N" /\ value' = Append(value, c) /\ UNCHANGED ups
  /\ UNCHANGED <<stage, stream, begin, row, cut, result>>

\* LIST VAR is one letter, "L".
Request == <<"L", " ">> \o wireToken(ups)

SendList ==
  /\ stage = "compose" /\ validateArguments(ups)
  /\ stage' = "sent" /\ stream' = Append(Request, "N")
  /\ UNCHANGED <<ups, value, begin, row, cut, result>>

\* writeLine refuses the argument before anything is written.
Refuse ==
  /\ stage = "compose" /\ ~validateArguments(ups)
  /\ stage' = "over"
  /\ UNCHANGED <<ups, value, stream, begin, row, cut, result>>

\* The server quotes the value, and the name when it must or likes to, and
\* escapes what it must and perhaps more.  Its line may lose its end.
Answer ==
  /\ stage = "sent" /\ stage' = "answered"
  /\ \E special \in {{"Q", "B"}, {"Q", "B", "#", "=", "a"}}, bare \in BOOLEAN, blanks \in 1 .. 2 :
       LET name == IF bare /\ ups # <<>> /\ ToSet(ups) \cap {" ", "Q", "B"} = {}
                     THEN ups ELSE Quoted(ups, special)
           gap == [i \in 1 .. blanks |-> " "]
           line == <<"V">> \o gap \o name \o gap \o <<"v">> \o gap \o Quoted(value, special)
       IN /\ begin' = <<"L">> \o gap \o name
          /\ \E n \in {Len(line), Len(line) - 1, Len(line) - 2} :
               row' = SubSeq(line, 1, n) /\ cut' = (n < Len(line))
  /\ UNCHANGED <<ups, value, stream, result>>

\* list takes the reply if BEGIN has the words of the request.
ReadReply ==
  /\ stage = "answered"
  /\ stage' = "over"
  /\ result' = IF sameTokens(begin, Request) THEN RowValue(row) ELSE {}
  /\ UNCHANGED <<ups, value, stream, begin, row, cut>>

Next ==
  \/ Compose \/ SendList \/ Refuse \/ Answer \/ ReadReply
  \/ stage = "over" /\ UNCHANGED vars

Spec == Init /\ [][Next]_vars
=============================================================================
