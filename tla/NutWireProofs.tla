---------------------------- MODULE NutWireProofs ----------------------------
(***************************************************************************)
(* The round trips of NutWire for texts of every length.  What a text says *)
(* to a reader is shown by induction along the text: a reader that stands  *)
(* inside quotes gains the text from its escapes, and nothing else.        *)
(***************************************************************************)
EXTENDS NutWireProperties, SequenceTheorems, WellFoundedInduction, TLAPS

-----------------------------------------------------------------------------
(***************************************************************************)
(* Induction, over sets of numbers and of texts.                           *)
(***************************************************************************)

Below == {p \in Nat \X Nat : p[1] < p[2]}

\* A tuple is built by appending.
LEMMA Tuples ==
  ASSUME NEW a, NEW b, NEW c, NEW d
  PROVE  /\ <<a, b>> = Append(<<a>>, b)
         /\ <<a, b, c>> = Append(Append(<<a>>, b), c)
         /\ <<a, b, c, d>> = Append(<<a, b, c>>, d)
<1> DEFINE C == {a, b, c, d}
<1>1. a \in C /\ b \in C /\ c \in C /\ d \in C
  OBVIOUS
<1> HIDE DEF C
<1> QED BY <1>1

LEMMA Pairs ==
  ASSUME NEW C, NEW a \in C, NEW b \in C
  PROVE  <<a>> \in Seq(C) /\ <<a, b>> \in Seq(C)
OBVIOUS

\* A set that has 0 and the successor of each of its numbers has them all.
LEMMA SetInduction ==
  ASSUME NEW S, 0 \in S, \A n \in Nat : n \in S => n + 1 \in S
  PROVE  Nat \subseteq S
<1> DEFINE T == Nat \ S
<1>1. IsWellFoundedOn(Below, Nat)
  <2>1. Below = OpToRel(<, Nat)
    BY DEF Below, OpToRel
  <2> QED BY <2>1, NatLessThanWellFounded
<1>2. SUFFICES ASSUME T # {} PROVE FALSE
  OBVIOUS
<1>3. PICK x \in T : \A y \in T : ~ (<<y, x>> \in Below)
  BY <1>1, <1>2, WFMin
<1>4. x # 0 /\ x \in Nat
  OBVIOUS
<1>5. x - 1 \in Nat /\ x - 1 \notin T
  <2>1. x - 1 \in Nat /\ x - 1 < x
    BY <1>4
  <2>2. <<x - 1, x>> \in Below
    BY <1>4, <2>1 DEF Below
  <2> HIDE DEF T
  <2> QED BY <1>3, <2>1, <2>2
<1>6. x - 1 \in S
  BY <1>5
<1>7. (x - 1) + 1 \in S
  BY <1>5, <1>6
<1> QED BY <1>4, <1>7

\* A set that has the empty text and, with a text, every text that is one
\* character longer, has them all.
LEMMA TextInduction ==
  ASSUME NEW C, NEW S, <<>> \in S,
         \A s \in Seq(C), c \in C : s \in S => Append(s, c) \in S
  PROVE  Seq(C) \subseteq S
<1> DEFINE T == {n \in Nat : \A s \in Seq(C) : Len(s) = n => s \in S}
<1>1. 0 \in T
  BY EmptySeq
<1>2. ASSUME NEW n \in Nat, n \in T PROVE n + 1 \in T
  <2>1. ASSUME NEW s \in Seq(C), Len(s) = n + 1 PROVE s \in S
    <3>1. s # <<>>
      BY <2>1, EmptySeq
    <3>2. PICK t \in Seq(C), c \in C : s = Append(t, c)
      BY <3>1, SequenceEmptyOrAppend
    <3>3. Len(s) = Len(t) + 1 /\ Len(t) \in Nat
      BY <3>2, AppendProperties, LenProperties
    <3>4. t \in S
      BY <1>2, <2>1, <3>3
    <3> QED BY <3>2, <3>4
  <2> QED BY <2>1
<1>3. Nat \subseteq T
  <2> HIDE DEF T
  <2> QED BY <1>1, <1>2, SetInduction
<1> QED BY <1>3, LenProperties

-----------------------------------------------------------------------------
(***************************************************************************)
(* The two recursive functions.                                            *)
(***************************************************************************)

ReadingsOf(f, who, r, text) ==
  f = [n \in 0 .. Len(text) |->
         IF n = 0 THEN r ELSE Step(who, f[n - 1], text[n])]

\* The readings of a text exist: each is the last one, taken a step further.
LEMMA ReadingsExist ==
  ASSUME NEW who, NEW r, NEW text, Len(text) \in Nat
  PROVE  ReadingsOf(Readings(who, r, text), who, r, text)
<1> DEFINE Upto(f, m) == f = [n \in 0 .. m |->
                IF n = 0 THEN r ELSE Step(who, f[n - 1], text[n])]
           S == {m \in Nat : \E f : Upto(f, m)}
<1>1. 0 \in S
  <2> DEFINE f == [n \in 0 .. 0 |-> r]
  <2>1. Upto(f, 0)
    OBVIOUS
  <2> QED BY <2>1
<1>2. ASSUME NEW m \in Nat, m \in S PROVE m + 1 \in S
  <2>1. PICK f : Upto(f, m)
    BY <1>2
  <2> DEFINE g == [n \in 0 .. m + 1 |->
                     IF n = m + 1 THEN Step(who, f[m], text[m + 1]) ELSE f[n]]
  <2>2. ASSUME NEW n \in 0 .. m + 1
        PROVE  g[n] = IF n = 0 THEN r ELSE Step(who, g[n - 1], text[n])
    <3>1. CASE n = m + 1
      <4>1. n - 1 = m /\ n # 0 /\ g[n - 1] = f[m]
        BY <3>1
      <4> QED BY <3>1, <4>1
    <3>2. CASE n # m + 1
      <4>1. n \in 0 .. m /\ g[n] = f[n]
        BY <3>2
      <4>2. n # 0 => g[n - 1] = f[n - 1]
        BY <4>1
      <4> QED BY <2>1, <4>1, <4>2
    <3> QED BY <3>1, <3>2
  <2>3. Upto(g, m + 1)
    BY <2>2
  <2> HIDE DEF g, Upto
  <2> QED BY <2>3
<1>3. Len(text) \in S
  <2> HIDE DEF S
  <2> QED BY <1>1, <1>2, SetInduction
<1>4. \E f : ReadingsOf(f, who, r, text)
  BY <1>3 DEF ReadingsOf
<1> QED BY <1>4 DEF Readings, ReadingsOf

\* A reader that has read nothing is where it was.
LEMMA ReadNothing ==
  ASSUME NEW who, NEW r
  PROVE  ReadAll(who, r, <<>>) = r
<1>1. Len(<<>>) = 0
  OBVIOUS
<1>2. ReadingsOf(Readings(who, r, <<>>), who, r, <<>>)
  BY <1>1, ReadingsExist
<1> QED BY <1>1, <1>2 DEF ReadingsOf, ReadAll

\* One character more is one step more.
LEMMA ReadOneMore ==
  ASSUME NEW C, NEW who, NEW r, NEW text \in Seq(C), NEW c \in C
  PROVE  ReadAll(who, r, Append(text, c)) = Step(who, ReadAll(who, r, text), c)
<1> DEFINE m == Len(text)
           long == Append(text, c)
           f == Readings(who, r, text)
           g == Readings(who, r, long)
<1>1. /\ m \in Nat /\ Len(long) = m + 1 /\ long[m + 1] = c
      /\ \A n \in 1 .. m : long[n] = text[n]
  BY LenProperties, AppendProperties
<1>2. ReadingsOf(f, who, r, text) /\ ReadingsOf(g, who, r, long)
  BY <1>1, ReadingsExist
<1> HIDE DEF f, g, long
<1>3. /\ \A n \in 0 .. m : f[n] = IF n = 0 THEN r ELSE Step(who, f[n - 1], text[n])
      /\ \A n \in 0 .. m + 1 : g[n] = IF n = 0 THEN r ELSE Step(who, g[n - 1], long[n])
  BY <1>1, <1>2 DEF ReadingsOf
<1> DEFINE S == {n \in Nat : n <= m => f[n] = g[n]}
<1>4. 0 \in S
  BY <1>1, <1>3
<1>5. ASSUME NEW n \in Nat, n \in S PROVE n + 1 \in S
  <2>1. SUFFICES ASSUME n + 1 <= m PROVE f[n + 1] = g[n + 1]
    OBVIOUS
  <2>2. n + 1 \in 1 .. m /\ (n + 1) - 1 = n /\ n + 1 # 0 /\ f[n] = g[n]
    BY <1>1, <1>5, <2>1
  <2>3. f[n + 1] = Step(who, f[n], text[n + 1])
    BY <1>1, <1>3, <2>2
  <2>4. g[n + 1] = Step(who, g[n], long[n + 1])
    BY <1>1, <1>3, <2>2
  <2> QED BY <1>1, <2>2, <2>3, <2>4
<1>6. f[m] = g[m]
  <2>1. m \in S
    <3> HIDE DEF S
    <3> QED BY <1>1, <1>4, <1>5, SetInduction
  <2> QED BY <1>1, <2>1
<1>7. g[m + 1] = Step(who, g[m], c)
  <2>1. m + 1 \in 0 .. m + 1 /\ (m + 1) - 1 = m /\ m + 1 # 0
    BY <1>1
  <2> QED BY <1>1, <1>3, <2>1
<1>8. ReadAll(who, r, text) = f[m] /\ ReadAll(who, r, long) = g[m + 1]
  BY <1>1 DEF ReadAll, f, g
<1> QED BY <1>6, <1>7, <1>8 DEF long

\* A text in two parts is read one part after the other.
LEMMA ReadInParts ==
  ASSUME NEW C, NEW who, NEW r, NEW x \in Seq(C), NEW y \in Seq(C)
  PROVE  ReadAll(who, r, x \o y) = ReadAll(who, ReadAll(who, r, x), y)
<1> DEFINE S == {z \in Seq(C) :
                   ReadAll(who, r, x \o z) = ReadAll(who, ReadAll(who, r, x), z)}
<1>1. <<>> \in S
  BY EmptySeq, ConcatEmptySeq, ReadNothing
<1>2. ASSUME NEW z \in Seq(C), NEW c \in C, z \in S
      PROVE  Append(z, c) \in S
  <2>1. x \o z \in Seq(C) /\ Append(z, c) \in Seq(C)
    BY ConcatProperties, AppendProperties
  <2>2. x \o Append(z, c) = Append(x \o z, c)
    <3>1. <<c>> \in Seq(C)
      OBVIOUS
    <3>2. Append(z, c) = z \o <<c>> /\ Append(x \o z, c) = (x \o z) \o <<c>>
      BY <2>1, AppendIsConcat
    <3> QED BY <3>1, <3>2, ConcatAssociative
  <2>3. ReadAll(who, r, x \o Append(z, c)) = Step(who, ReadAll(who, r, x \o z), c)
    <3> DEFINE xz == x \o z
    <3>1. xz \in Seq(C)
      BY <2>1
    <3> HIDE DEF xz
    <3>2. ReadAll(who, r, Append(xz, c)) = Step(who, ReadAll(who, r, xz), c)
      BY <3>1, ReadOneMore
    <3> QED BY <2>2, <3>2 DEF xz
  <2>4. ReadAll(who, ReadAll(who, r, x), Append(z, c))
          = Step(who, ReadAll(who, ReadAll(who, r, x), z), c)
    BY ReadOneMore
  <2> QED BY <1>2, <2>1, <2>3, <2>4
<1>3. Seq(C) \subseteq S
  <2> HIDE DEF S
  <2> QED BY <1>1, <1>2, TextInduction
<1> QED BY <1>3

\* One character is one step.
LEMMA ReadOne ==
  ASSUME NEW who, NEW r, NEW c
  PROVE  ReadAll(who, r, <<c>>) = Step(who, r, c)
<1> DEFINE C == {c}
           e == <<>>
<1>1. e \in Seq(C) /\ c \in C /\ <<c>> = Append(e, c)
  OBVIOUS
<1>2. ReadAll(who, r, Append(e, c)) = Step(who, ReadAll(who, r, e), c)
  <2> HIDE DEF C, e
  <2> QED BY <1>1, ReadOneMore
<1> QED BY <1>1, <1>2, ReadNothing

EscapesOf(f, s, special) ==
  f = [n \in 0 .. Len(s) |->
         IF n = 0 THEN <<>> ELSE f[n - 1] \o Escaped(s[n], special)]

\* The escapes of the prefixes of a text exist.
LEMMA EscapesExist ==
  ASSUME NEW s, NEW special, Len(s) \in Nat
  PROVE  EscapesOf(Escapes(s, special), s, special)
<1> DEFINE Upto(f, m) == f = [n \in 0 .. m |->
                IF n = 0 THEN <<>> ELSE f[n - 1] \o Escaped(s[n], special)]
           S == {m \in Nat : \E f : Upto(f, m)}
<1>1. 0 \in S
  <2> DEFINE f == [n \in 0 .. 0 |-> <<>>]
  <2>1. Upto(f, 0)
    OBVIOUS
  <2> QED BY <2>1
<1>2. ASSUME NEW m \in Nat, m \in S PROVE m + 1 \in S
  <2>1. PICK f : Upto(f, m)
    BY <1>2
  <2> DEFINE g == [n \in 0 .. m + 1 |->
                     IF n = m + 1 THEN f[m] \o Escaped(s[m + 1], special)
                     ELSE f[n]]
  <2>2. ASSUME NEW n \in 0 .. m + 1
        PROVE  g[n] = IF n = 0 THEN <<>> ELSE g[n - 1] \o Escaped(s[n], special)
    <3>1. CASE n = m + 1
      <4>1. n - 1 = m /\ n # 0 /\ g[n - 1] = f[m]
        BY <3>1
      <4> QED BY <3>1, <4>1
    <3>2. CASE n # m + 1
      <4>1. n \in 0 .. m /\ g[n] = f[n]
        BY <3>2
      <4>2. n # 0 => g[n - 1] = f[n - 1]
        BY <4>1
      <4> QED BY <2>1, <4>1, <4>2
    <3> QED BY <3>1, <3>2
  <2>3. Upto(g, m + 1)
    BY <2>2
  <2> HIDE DEF g, Upto
  <2> QED BY <2>3
<1>3. Len(s) \in S
  <2> HIDE DEF S
  <2> QED BY <1>1, <1>2, SetInduction
<1>4. \E f : EscapesOf(f, s, special)
  BY <1>3 DEF EscapesOf
<1> QED BY <1>4 DEF Escapes, EscapesOf

LEMMA EscapeNothing ==
  ASSUME NEW special
  PROVE  Escape(<<>>, special) = <<>>
<1>1. Len(<<>>) = 0
  OBVIOUS
<1>2. EscapesOf(Escapes(<<>>, special), <<>>, special)
  BY <1>1, EscapesExist
<1> QED BY <1>1, <1>2 DEF EscapesOf, Escape

\* One character more adds its escape.
LEMMA EscapeOneMore ==
  ASSUME NEW C, NEW special, NEW s \in Seq(C), NEW c \in C
  PROVE  Escape(Append(s, c), special) = Escape(s, special) \o Escaped(c, special)
<1> DEFINE m == Len(s)
           long == Append(s, c)
           f == Escapes(s, special)
           g == Escapes(long, special)
<1>1. /\ m \in Nat /\ Len(long) = m + 1 /\ long[m + 1] = c
      /\ \A n \in 1 .. m : long[n] = s[n]
  BY LenProperties, AppendProperties
<1>2. EscapesOf(f, s, special) /\ EscapesOf(g, long, special)
  BY <1>1, EscapesExist
<1> HIDE DEF f, g, long
<1>3. /\ \A n \in 0 .. m :
           f[n] = IF n = 0 THEN <<>> ELSE f[n - 1] \o Escaped(s[n], special)
      /\ \A n \in 0 .. m + 1 :
           g[n] = IF n = 0 THEN <<>> ELSE g[n - 1] \o Escaped(long[n], special)
  BY <1>1, <1>2 DEF EscapesOf
<1> DEFINE S == {n \in Nat : n <= m => f[n] = g[n]}
<1>4. 0 \in S
  BY <1>1, <1>3
<1>5. ASSUME NEW n \in Nat, n \in S PROVE n + 1 \in S
  <2>1. SUFFICES ASSUME n + 1 <= m PROVE f[n + 1] = g[n + 1]
    OBVIOUS
  <2>2. n + 1 \in 1 .. m /\ (n + 1) - 1 = n /\ n + 1 # 0 /\ f[n] = g[n]
    BY <1>1, <1>5, <2>1
  <2>3. n + 1 \in 0 .. m /\ n + 1 \in 0 .. m + 1
    BY <1>1, <2>2
  <2>4. f[n + 1] = f[n] \o Escaped(s[n + 1], special)
    BY <1>3, <2>2, <2>3, Zenon
  <2>5. g[n + 1] = g[n] \o Escaped(long[n + 1], special)
    BY <1>3, <2>2, <2>3, Zenon
  <2> QED BY <1>1, <2>2, <2>4, <2>5
<1>6. f[m] = g[m]
  <2>1. m \in S
    <3> HIDE DEF S
    <3> QED BY <1>1, <1>4, <1>5, SetInduction
  <2> QED BY <1>1, <2>1
<1>7. g[m + 1] = g[m] \o Escaped(c, special)
  <2>1. m + 1 \in 0 .. m + 1 /\ (m + 1) - 1 = m /\ m + 1 # 0
    BY <1>1
  <2> QED BY <1>1, <1>3, <2>1
<1>8. Escape(s, special) = f[m] /\ Escape(long, special) = g[m + 1]
  BY <1>1 DEF Escape, f, g
<1> QED BY <1>6, <1>7, <1>8 DEF long

\* Escaping adds no character but the backslash.
LEMMA EscapeType ==
  ASSUME NEW C, "B" \in C, NEW special, NEW s \in Seq(C)
  PROVE  Escape(s, special) \in Seq(C)
<1> DEFINE S == {t \in Seq(C) : Escape(t, special) \in Seq(C)}
<1>1. <<>> \in S
  BY EmptySeq, EscapeNothing
<1>2. ASSUME NEW t \in Seq(C), NEW c \in C, t \in S
      PROVE  Append(t, c) \in S
  <2>1. Escaped(c, special) \in Seq(C)
    BY DEF Escaped
  <2>2. Escape(t, special) \o Escaped(c, special) \in Seq(C)
    BY <1>2, <2>1, ConcatProperties
  <2> QED BY <2>2, EscapeOneMore, AppendProperties
<1>3. Seq(C) \subseteq S
  <2> HIDE DEF S
  <2> QED BY <1>1, <1>2, TextInduction
<1> QED BY <1>3

-----------------------------------------------------------------------------
(***************************************************************************)
(* What a reader makes of a quoted and of a bare word.                     *)
(***************************************************************************)

\* The characters of lines: those of texts and the letters of keywords.
Letter == Char \cup {"L", "V", "v"}

\* The characters that a quoted, or a bare, word may have for a reader.
Quotable(who) == IF who = "client" THEN Letter ELSE Letter \ {"N"}
Bare(who) == Letter \ (IF who = "client" THEN {" ", "Q", "B"}
                       ELSE {" ", "Q", "B", "#", "=", "N"})

\* The characters that must be escaped in quotes.
Escaping(who, special) ==
  {"Q", "B"} \subseteq special /\ (who = "server" => "#" \in special)

\* A reader inside quotes takes a character from its escape.
LEMMA ReadEscaped ==
  ASSUME NEW who \in {"client", "server"}, NEW special, Escaping(who, special),
         NEW c \in Quotable(who), NEW u, NEW ws
  PROVE  ReadAll(who, Reader("quoted", u, ws), Escaped(c, special))
           = Reader("quoted", Append(u, c), ws)
<1> DEFINE r == Reader("quoted", u, ws)
           e == Reader("escaped", u, ws)
<1>1. /\ r.mode = "quoted" /\ r.word = u /\ r.words = ws
      /\ e.mode = "escaped" /\ e.word = u /\ e.words = ws
  BY DEF Reader
<1>2. Add(r, c, "quoted") = Reader("quoted", Append(u, c), ws)
      /\ Add(e, c, "quoted") = Reader("quoted", Append(u, c), ws)
      /\ To(r, "escaped") = e
  BY <1>1 DEF Add, To
<1>3. who = "server" => c # "N"
  BY DEF Quotable
<1> HIDE DEF r, e
<1>4. CASE c \in special
  <2>1. Step(who, r, "B") = e
    BY <1>1, <1>2 DEF Step, Read, Serve, InQuoted
  <2>2. Step(who, e, c) = Reader("quoted", Append(u, c), ws)
    BY <1>1, <1>2 DEF Step, Read, Serve
  <2>3. ReadAll(who, r, <<"B">> \o <<c>>) = ReadAll(who, ReadAll(who, r, <<"B">>), <<c>>)
    <3> DEFINE C == {"B", c}
               x == <<"B">>
               y == <<c>>
    <3>1. x \in Seq(C) /\ y \in Seq(C)
      OBVIOUS
    <3> HIDE DEF C, x, y
    <3>2. ReadAll(who, r, x \o y) = ReadAll(who, ReadAll(who, r, x), y)
      BY <3>1, ReadInParts
    <3> QED BY <3>2 DEF x, y
  <2>4. Escaped(c, special) = <<"B">> \o <<c>>
    BY <1>4 DEF Escaped
  <2> QED BY <2>1, <2>2, <2>3, <2>4, ReadOne DEF r
<1>5. CASE c \notin special
  <2>1. c \notin {"Q", "B"} /\ (who = "server" => c \notin {"#", "N"})
    BY <1>3, <1>5 DEF Escaping
  <2>2. Step(who, r, c) = Reader("quoted", Append(u, c), ws)
    BY <1>1, <1>2, <2>1 DEF Step, Read, Serve, InQuoted
  <2>3. Escaped(c, special) = <<c>>
    BY <1>5 DEF Escaped
  <2> QED BY <2>2, <2>3, ReadOne DEF r
<1> QED BY <1>4, <1>5

\* Inside quotes, the escapes of a text are read as the text.
LEMMA ReadEscapes ==
  ASSUME NEW who \in {"client", "server"}, NEW special, Escaping(who, special),
         NEW s \in Seq(Quotable(who)), NEW ws
  PROVE  /\ Escape(s, special) \in Seq(Letter)
         /\ ReadAll(who, Reader("quoted", <<>>, ws), Escape(s, special))
              = Reader("quoted", s, ws)
<1> DEFINE C == Quotable(who)
           r == Reader("quoted", <<>>, ws)
           S == {t \in Seq(C) :
                   ReadAll(who, r, Escape(t, special)) = Reader("quoted", t, ws)}
<1>1. C \subseteq Letter /\ "B" \in C
  BY DEF Quotable, Letter, Char
<1> HIDE DEF C
<1>2. <<>> \in S
  BY EmptySeq, EscapeNothing, ReadNothing
<1>3. ASSUME NEW t \in Seq(C), NEW c \in C, t \in S
      PROVE  Append(t, c) \in S
  <2> DEFINE x == Escape(t, special)
             y == Escaped(c, special)
  <2>1. x \in Seq(C) /\ y \in Seq(C)
    BY <1>1, EscapeType DEF Escaped
  <2>2. Escape(Append(t, c), special) = x \o y
    BY EscapeOneMore
  <2>3. ReadAll(who, r, x) = Reader("quoted", t, ws)
    BY <1>3
  <2>4. ReadAll(who, Reader("quoted", t, ws), y) = Reader("quoted", Append(t, c), ws)
    BY ReadEscaped DEF C
  <2> HIDE DEF x, y, r
  <2>5. ReadAll(who, r, x \o y) = ReadAll(who, ReadAll(who, r, x), y)
    BY <2>1, ReadInParts
  <2>6. Append(t, c) \in Seq(C)
    BY AppendProperties
  <2> QED BY <2>2, <2>3, <2>4, <2>5, <2>6
<1>4. Seq(C) \subseteq S
  <2> HIDE DEF S
  <2> QED BY <1>2, <1>3, TextInduction
<1>5. s \in S
  BY <1>4 DEF C
<1>6. Escape(s, special) \in Seq(C)
  BY <1>1, EscapeType DEF C
<1>7. Escape(s, special) \in Seq(Letter)
  <2> HIDE DEF S
  <2> QED BY <1>1, <1>6, SeqMonotonic
<1> QED BY <1>5, <1>7

\* A quoted text is one word.
LEMMA ReadQuoted ==
  ASSUME NEW who \in {"client", "server"}, NEW special, Escaping(who, special),
         NEW s \in Seq(Quotable(who)), NEW ws
  PROVE  /\ Quoted(s, special) \in Seq(Letter)
         /\ ReadAll(who, Reader("blank", <<>>, ws), <<"Q">> \o Escape(s, special))
              = Reader("quoted", s, ws)
         /\ ReadAll(who, Reader("blank", <<>>, ws), Quoted(s, special))
              = Reader("closed", <<>>, Append(ws, s))
<1> DEFINE q == <<"Q">>
           x == Escape(s, special)
           r == Reader("blank", <<>>, ws)
           i == Reader("quoted", <<>>, ws)
           o == Reader("quoted", s, ws)
<1>1. q \in Seq(Letter)
  BY DEF Letter, Char
<1>2. x \in Seq(Letter) /\ ReadAll(who, i, x) = o
  BY ReadEscapes
<1>3. Step(who, r, "Q") = i
  BY DEF Step, Read, Serve, InBlank, ServeUnquoted, EndWord, To, Reader
<1>4. Step(who, o, "Q") = Reader("closed", <<>>, Append(ws, s))
  BY DEF Step, Read, Serve, InQuoted, Word, Reader
<1>5. ReadAll(who, r, q) = i /\ ReadAll(who, o, q) = Reader("closed", <<>>, Append(ws, s))
  BY <1>3, <1>4, ReadOne
<1>6. Quoted(s, special) = (q \o x) \o q
  BY DEF Quoted
<1> HIDE DEF q, x, r, i, o
<1>7. q \o x \in Seq(Letter)
  BY <1>1, <1>2, ConcatProperties
<1>8. ReadAll(who, r, q \o x) = o
  BY <1>1, <1>2, <1>5, ReadInParts
<1> DEFINE qx == q \o x
<1>9. qx \in Seq(Letter) /\ ReadAll(who, r, qx) = o /\ Quoted(s, special) = qx \o q
  BY <1>6, <1>7, <1>8
<1> HIDE DEF qx
<1>10. ReadAll(who, r, qx \o q) = ReadAll(who, ReadAll(who, r, qx), q)
  BY <1>1, <1>9, ReadInParts
<1>11. qx \o q \in Seq(Letter)
  BY <1>1, <1>9, ConcatProperties
<1> QED BY <1>5, <1>8, <1>9, <1>10, <1>11 DEF q, x, r, o

\* A bare text that is not empty is one word.
LEMMA ReadBare ==
  ASSUME NEW who \in {"client", "server"}, NEW s \in Seq(Bare(who)), s # <<>>, NEW ws
  PROVE  ReadAll(who, Reader("blank", <<>>, ws), s) = Reader("bare", s, ws)
<1> DEFINE C == Bare(who)
           r == Reader("blank", <<>>, ws)
           S == {t \in Seq(C) :
                   t = <<>> \/ ReadAll(who, r, t) = Reader("bare", t, ws)}
<1>1. <<>> \in S
  BY EmptySeq
<1>2. ASSUME NEW t \in Seq(C), NEW c \in C, t \in S
      PROVE  Append(t, c) \in S
  <2>1. ReadAll(who, r, Append(t, c)) = Step(who, ReadAll(who, r, t), c)
    <3> HIDE DEF C, r
    <3> QED BY ReadOneMore
  <2>2. /\ c \notin {" ", "Q", "B"}
        /\ who = "server" => c \notin {"#", "=", "N"}
    BY DEF Bare
  <2>3. Step(who, r, c) = Reader("bare", Append(<<>>, c), ws)
    BY <2>2 DEF Step, Read, Serve, ServeUnquoted, InBlank, Add, Reader
  <2>4. Step(who, Reader("bare", t, ws), c) = Reader("bare", Append(t, c), ws)
    BY <2>2 DEF Step, Read, Serve, ServeUnquoted, InBare, Add, Reader
  <2>5. t = <<>> => ReadAll(who, r, t) = r
    BY ReadNothing
  <2>6. Append(t, c) \in Seq(C)
    BY AppendProperties
  <2> HIDE DEF r, C
  <2> QED BY <1>2, <2>1, <2>3, <2>4, <2>5, <2>6
<1>3. Seq(C) \subseteq S
  <2> HIDE DEF S, C
  <2> QED BY <1>1, <1>2, TextInduction
<1> QED BY <1>3

-----------------------------------------------------------------------------
(***************************************************************************)
(* Whole lines.                                                            *)
(***************************************************************************)

\* Where a reader stands that has read s as the word after ws.
WordRead(s, ws) == {Reader("closed", <<>>, Append(ws, s)), Reader("bare", s, ws)}

LEMMA Narrow ==
  ASSUME NEW C, NEW D, NEW s \in Seq(C), ToSet(s) \subseteq D
  PROVE  s \in Seq(D)
<1>1. Len(s) \in Nat /\ DOMAIN s = 1 .. Len(s)
  BY LenProperties
<1>2. \A i \in 1 .. Len(s) : s[i] \in D
  BY <1>1 DEF ToSet
<1> QED BY <1>1, <1>2

\* The word the client writes is one word for both readers.
LEMMA TokenRead ==
  ASSUME NEW who \in {"client", "server"}, NEW s \in Seq(Char \ {"N"}), NEW ws
  PROVE  /\ wireToken(s) \in Seq(Letter \ {"N"})
         /\ ReadAll(who, Reader("blank", <<>>, ws), wireToken(s)) \in WordRead(s, ws)
<1>1. s \in Seq(Quotable(who)) /\ s \in Seq(Letter \ {"N"})
  <2>1. Char \ {"N"} \subseteq Quotable(who) /\ Char \ {"N"} \subseteq Letter \ {"N"}
    BY DEF Quotable, Letter
  <2> QED BY <2>1, SeqMonotonic
<1>2. CASE s = <<>> \/ ToSet(s) \cap Special # {}
  <2> DEFINE special == {"B", "Q", "#"}
             C == Letter \ {"N"}
  <2>1. wireToken(s) = Quoted(s, special) /\ Escaping(who, special)
    BY <1>2 DEF wireToken, Quote, Escaping
  <2>2. Quoted(s, special) \in Seq(C)
    <3>1. "B" \in C /\ "Q" \in C
      BY DEF Letter, Char
    <3> HIDE DEF C, special
    <3>2. Escape(s, special) \in Seq(C) /\ <<"Q">> \in Seq(C)
      BY <1>1, <3>1, EscapeType DEF C
    <3> QED BY <3>2, ConcatProperties DEF Quoted
  <2> HIDE DEF special
  <2> QED BY <1>1, <2>1, <2>2, ReadQuoted DEF WordRead
<1>3. CASE s # <<>> /\ ToSet(s) \cap Special = {}
  <2>1. wireToken(s) = s
    BY <1>3 DEF wireToken
  <2>2. ToSet(s) \subseteq Char \ {"N"}
    BY LenProperties DEF ToSet
  <2>3. ToSet(s) \subseteq Bare(who)
    BY <1>3, <2>2 DEF Bare, Special, Letter
  <2>4. s \in Seq(Bare(who))
    BY <2>3, Narrow
  <2> QED BY <1>1, <1>3, <2>1, <2>4, ReadBare DEF WordRead
<1> QED BY <1>2, <1>3

\* The request is what it is for a name without a line break.
RequestFor(s) == <<"L", " ">> \o wireToken(s)

LEMMA RequestWords ==
  ASSUME NEW who \in {"client", "server"}, NEW s \in Seq(Char \ {"N"})
  PROVE  /\ RequestFor(s) \in Seq(Letter \ {"N"})
         /\ ReadAll(who, Start, RequestFor(s)) \in WordRead(s, << <<"L">> >>)
<1> DEFINE C == Letter \ {"N"}
           ws == << <<"L">> >>
           x == <<"L", " ">>
           y == wireToken(s)
           a == Reader("bare", <<"L">>, <<>>)
           b == Reader("blank", <<>>, ws)
<1>1. x \in Seq(C)
  <2>1. "L" \in C /\ " " \in C
    BY DEF Letter, Char
  <2> HIDE DEF C
  <2> QED BY <2>1, Pairs
<1>2. y \in Seq(C) /\ ReadAll(who, b, y) \in WordRead(s, ws)
  BY TokenRead
<1>3. ReadAll(who, Start, x) = b
  <2>1. Step(who, Start, "L") = a
    BY DEF Step, Read, Serve, InBlank, ServeUnquoted, Add, Start, Reader
  <2>2. Step(who, a, " ") = b
    BY DEF Step, Read, Serve, InBare, ServeUnquoted, Word, To, EndWord, Reader
  <2>3. x = Append(<<"L">>, " ") /\ <<"L">> \in Seq(C) /\ " " \in C
    <3>1. "L" \in C /\ " " \in C
      BY DEF Letter, Char
    <3>2. <<"L", " ">> = Append(<<"L">>, " ")
      BY Tuples
    <3> HIDE DEF C
    <3> QED BY <3>1, <3>2, Pairs
  <2> HIDE DEF C, a, b
  <2>4. ReadAll(who, Start, <<"L">>) = a
    BY <2>1, ReadOne
  <2> DEFINE l == <<"L">>
             c == " "
  <2>5. ReadAll(who, Start, Append(l, c)) = Step(who, ReadAll(who, Start, l), c)
    <3>1. l \in Seq(C) /\ c \in C
      BY <2>3
    <3> HIDE DEF l, c
    <3> QED BY <3>1, ReadOneMore
  <2> QED BY <2>2, <2>3, <2>4, <2>5
<1>4. RequestFor(s) = x \o y
  BY DEF RequestFor
<1> HIDE DEF x, y, C, b
<1>5. ReadAll(who, Start, x \o y) = ReadAll(who, ReadAll(who, Start, x), y)
  BY <1>1, <1>2, ReadInParts
<1>6. x \o y \in Seq(C)
  BY <1>1, <1>2, ConcatProperties
<1> QED BY <1>2, <1>3, <1>4, <1>5, <1>6 DEF C

LEMMA CommandWords ==
  ASSUME NEW s
  PROVE  << <<"L">>, s, <<>> >> = Append(Append(<< <<"L">> >>, s), <<>>)
BY Tuples

\* The server reads the request as one command with its two words.
LEMMA RequestServed ==
  ASSUME NEW s \in Seq(Char \ {"N"})
  PROVE  /\ ServerWords(Append(RequestFor(s), "N")) = << <<"L">>, s, <<>> >>
         /\ \A i \in DOMAIN Append(RequestFor(s), "N") :
              Append(RequestFor(s), "N")[i] = "N"
                <=> i = Len(Append(RequestFor(s), "N"))
<1> DEFINE C == Letter \ {"N"}
           q == RequestFor(s)
           r == ReadAll("server", Start, q)
           c == "N"
<1>1. q \in Seq(C) /\ r \in WordRead(s, << <<"L">> >>)
  BY RequestWords
<1>2. Step("server", r, c) = Reader("blank", <<>>, << <<"L">>, s, <<>> >>)
  <2> DEFINE ws == << <<"L">> >>
             all == Reader("blank", <<>>, Append(Append(ws, s), <<>>))
  <2>1. ASSUME r = Reader("closed", <<>>, Append(ws, s))
        PROVE  Step("server", r, c) = all
    <3>1. r.mode = "closed" /\ r.words = Append(ws, s) /\ r.word = <<>>
      BY <2>1 DEF Reader
    <3> HIDE DEF r, ws
    <3>2. Step("server", r, c) = Word(r, "blank")
      BY <3>1 DEF Step, Serve, ServeUnquoted, EndWords, EndWord
    <3> QED BY <3>1, <3>2 DEF Word
  <2>2. ASSUME r = Reader("bare", s, ws)
        PROVE  Step("server", r, c) = all
    <3>1. r.mode = "bare" /\ r.word = s /\ r.words = ws
      BY <2>2 DEF Reader
    <3> HIDE DEF r, ws
    <3>2. Step("server", r, c) = Word(Word(r, "blank"), "blank")
      BY <3>1 DEF Step, Serve, ServeUnquoted, EndWords, EndWord
    <3> QED BY <3>1, <3>2 DEF Word, Reader
  <2>3. Append(Append(ws, s), <<>>) = << <<"L">>, s, <<>> >>
    BY CommandWords
  <2> QED BY <1>1, <2>1, <2>2, <2>3 DEF WordRead
<1>3. ReadAll("server", Start, Append(q, c)) = Step("server", r, c)
  <2>1. q \in Seq(Letter) /\ c \in Letter
    <3>1. C \subseteq Letter
      OBVIOUS
    <3> HIDE DEF C, q
    <3>2. q \in Seq(Letter)
      BY <1>1, <3>1, SeqMonotonic
    <3> QED BY <3>2 DEF Letter, Char
  <2> HIDE DEF q, c
  <2> QED BY <2>1, ReadOneMore
<1>4. ServerWords(Append(q, c)) = << <<"L">>, s, <<>> >>
  BY <1>2, <1>3 DEF ServerWords, Reader
<1>5. \A i \in DOMAIN Append(q, c) : Append(q, c)[i] = c <=> i = Len(Append(q, c))
  <2> HIDE DEF q
  <2>1. /\ Len(q) \in Nat /\ Len(Append(q, c)) = Len(q) + 1
        /\ DOMAIN Append(q, c) = 1 .. Len(q) + 1
        /\ Append(q, c)[Len(q) + 1] = c
        /\ \A i \in 1 .. Len(q) : Append(q, c)[i] = q[i] /\ q[i] \in C
    BY <1>1
  <2> QED BY <2>1
<1> QED BY <1>4, <1>5

\* A keyword is one word.
LEMMA KeywordRead ==
  ASSUME NEW k \in {"L", "V", "v"}, NEW ws
  PROVE  /\ <<k>> \in Seq(Letter)
         /\ ReadAll("client", Reader("blank", <<>>, ws), <<k>>) \in WordRead(<<k>>, ws)
<1>1. k \in Letter /\ k \notin {" ", "Q", "B"}
  BY DEF Letter, Char
<1>2. Step("client", Reader("blank", <<>>, ws), k) = Reader("bare", <<k>>, ws)
  <2>1. Append(<<>>, k) = <<k>>
    OBVIOUS
  <2>2. Step("client", Reader("blank", <<>>, ws), k) = Reader("bare", Append(<<>>, k), ws)
    BY <1>1 DEF Step, Read, InBlank, Add, Reader
  <2> QED BY <2>1, <2>2
<1>3. <<k>> \in Seq(Letter)
  <2> HIDE DEF Letter
  <2> QED BY <1>1, Pairs
<1> QED BY <1>2, <1>3, ReadOne DEF WordRead

Gap(blanks) == [i \in 1 .. blanks |-> " "]

\* One blank, or two, end a word.
LEMMA GapRead ==
  ASSUME NEW blanks \in 1 .. 2, NEW s, NEW ws, NEW r \in WordRead(s, ws)
  PROVE  /\ Gap(blanks) \in Seq(Letter)
         /\ ReadAll("client", r, Gap(blanks)) = Reader("blank", <<>>, Append(ws, s))
<1> DEFINE b == Reader("blank", <<>>, Append(ws, s))
           c == " "
           g == <<c>>
<1>0. /\ Gap(blanks) \in Seq({c}) /\ Len(Gap(blanks)) = blanks
      /\ \A i \in 1 .. blanks : Gap(blanks)[i] = c
      /\ g \in Seq({c}) /\ Len(g) = 1 /\ g[1] = c
  BY DEF Gap
<1>1. Step("client", r, c) = b
  <2>1. CASE r = Reader("closed", <<>>, Append(ws, s))
    BY <2>1 DEF Step, Read, AfterQuote, To, Reader
  <2>2. CASE r = Reader("bare", s, ws)
    BY <2>2 DEF Step, Read, InBare, Word, Reader
  <2> QED BY <2>1, <2>2 DEF WordRead
<1>2. Step("client", b, c) = b
  BY DEF Step, Read, InBlank, Reader
<1>3. g \in Seq(Letter)
  BY DEF Letter, Char
<1>4. ReadAll("client", r, g) = b /\ ReadAll("client", b, g) = b
  BY <1>1, <1>2, ReadOne
<1>5. CASE blanks = 1
  <2>1. Gap(blanks) = g
    <3> HIDE DEF g, c
    <3>1. \A i \in 1 .. 1 : Gap(blanks)[i] = g[i]
      BY <1>0, <1>5
    <3> QED BY <1>0, <1>5, <3>1, SeqEqual
  <2> QED BY <1>3, <1>4, <2>1
<1>6. CASE blanks = 2
  <2>1. Gap(blanks) = g \o g
    <3> HIDE DEF g, c
    <3> DEFINE gg == g \o g
    <3>1. /\ gg \in Seq({c}) /\ Len(gg) = 2
          /\ \A i \in 1 .. 2 : gg[i] = c
      BY <1>0, ConcatProperties
    <3> HIDE DEF gg
    <3>2. \A i \in 1 .. 2 : Gap(blanks)[i] = gg[i]
      BY <1>0, <1>6, <3>1
    <3>3. Gap(blanks) = gg
      BY <1>0, <1>6, <3>1, <3>2, SeqEqual
    <3> QED BY <3>3 DEF gg
  <2> HIDE DEF g, b
  <2>2. ReadAll("client", r, g \o g) = ReadAll("client", ReadAll("client", r, g), g)
    BY <1>3, ReadInParts
  <2>3. g \o g \in Seq(Letter)
    BY <1>3, ConcatProperties
  <2> QED BY <1>4, <2>1, <2>2, <2>3 DEF b
<1> QED BY <1>5, <1>6

\* The end of the line ends a word.
LEMMA WordEnds ==
  ASSUME NEW s, NEW ws, NEW r \in WordRead(s, ws)
  PROVE  Tokens(r) = {Append(ws, s)}
BY DEF WordRead, Tokens, Word, Reader

\* A line that has said ws so far, a word, and a gap.
LEMMA WordAdded ==
  ASSUME NEW line \in Seq(Letter), NEW ws,
         ReadAll("client", Start, line) = Reader("blank", <<>>, ws),
         NEW text \in Seq(Letter), NEW s,
         ReadAll("client", Reader("blank", <<>>, ws), text) \in WordRead(s, ws),
         NEW blanks \in 1 .. 2
  PROVE  /\ line \o text \in Seq(Letter)
         /\ ReadAll("client", Start, line \o text) \in WordRead(s, ws)
         /\ (line \o text) \o Gap(blanks) \in Seq(Letter)
         /\ ReadAll("client", Start, (line \o text) \o Gap(blanks))
              = Reader("blank", <<>>, Append(ws, s))
<1> DEFINE x == line \o text
           g == Gap(blanks)
<1>1. x \in Seq(Letter)
  BY ConcatProperties
<1>2. ReadAll("client", Start, x) \in WordRead(s, ws)
  BY ReadInParts
<1> HIDE DEF x, g
<1>3. /\ g \in Seq(Letter)
      /\ ReadAll("client", ReadAll("client", Start, x), g) = Reader("blank", <<>>, Append(ws, s))
  BY <1>2, GapRead DEF g
<1>4. ReadAll("client", Start, x \o g) = Reader("blank", <<>>, Append(ws, s))
  BY <1>1, <1>3, ReadInParts
<1>5. x \o g \in Seq(Letter)
  BY <1>1, <1>3, ConcatProperties
<1> QED BY <1>1, <1>2, <1>4, <1>5 DEF x, g

\* However the server writes the name.
NameText(s, special, bare) ==
  IF bare /\ s # <<>> /\ ToSet(s) \cap {" ", "Q", "B"} = {}
  THEN s ELSE Quoted(s, special)

LEMMA NameRead ==
  ASSUME NEW s \in Seq(Char), NEW special, Escaping("client", special),
         NEW bare \in BOOLEAN, NEW ws
  PROVE  /\ NameText(s, special, bare) \in Seq(Letter)
         /\ ReadAll("client", Reader("blank", <<>>, ws), NameText(s, special, bare))
              \in WordRead(s, ws)
<1>1. s \in Seq(Letter) /\ Quotable("client") = Letter
  <2>1. Char \subseteq Letter
    BY DEF Letter
  <2> QED BY <2>1, SeqMonotonic DEF Quotable
<1>2. CASE bare /\ s # <<>> /\ ToSet(s) \cap {" ", "Q", "B"} = {}
  <2>1. ToSet(s) \subseteq Char
    BY LenProperties DEF ToSet
  <2>2. ToSet(s) \subseteq Bare("client")
    BY <1>2, <2>1 DEF Bare, Letter
  <2>3. s \in Seq(Bare("client"))
    BY <2>2, Narrow
  <2>4. NameText(s, special, bare) = s
    BY <1>2 DEF NameText
  <2> QED BY <1>1, <1>2, <2>3, <2>4, ReadBare DEF WordRead
<1>3. CASE ~(bare /\ s # <<>> /\ ToSet(s) \cap {" ", "Q", "B"} = {})
  <2>1. NameText(s, special, bare) = Quoted(s, special)
    BY <1>3 DEF NameText
  <2> QED BY <1>1, <2>1, ReadQuoted DEF WordRead
<1> QED BY <1>2, <1>3

\* A row up to its value, and the words it has said by then.
Lead(s, special, bare, blanks) ==
  <<"V">> \o Gap(blanks) \o NameText(s, special, bare) \o Gap(blanks)
    \o <<"v">> \o Gap(blanks)
LeadWords(s) == << <<"V">>, s, <<"v">> >>

LEMMA LeadRead ==
  ASSUME NEW s \in Seq(Char), NEW special, Escaping("client", special),
         NEW bare \in BOOLEAN, NEW blanks \in 1 .. 2
  PROVE  /\ Lead(s, special, bare, blanks) \in Seq(Letter)
         /\ ReadAll("client", Start, Lead(s, special, bare, blanks))
              = Reader("blank", <<>>, LeadWords(s))
<1> DEFINE g == Gap(blanks)
           n == NameText(s, special, bare)
           V == <<"V">>
           v == <<"v">>
           w0 == <<>>
           w1 == Append(w0, V)
           w2 == Append(w1, s)
           w3 == Append(w2, v)
           l0 == <<>>
           l1 == V \o g
           l2 == (l1 \o n) \o g
           l3 == (l2 \o v) \o g
<1>1. /\ \A ws : /\ V \in Seq(Letter)
                 /\ ReadAll("client", Reader("blank", <<>>, ws), V) \in WordRead(V, ws)
      /\ \A ws : /\ v \in Seq(Letter)
                 /\ ReadAll("client", Reader("blank", <<>>, ws), v) \in WordRead(v, ws)
  BY KeywordRead
<1>2. \A ws : /\ n \in Seq(Letter)
              /\ ReadAll("client", Reader("blank", <<>>, ws), n) \in WordRead(s, ws)
  BY NameRead
<1>3. l0 \in Seq(Letter) /\ ReadAll("client", Start, l0) = Reader("blank", <<>>, w0)
  BY ReadNothing DEF Start
<1>4. l0 \o V = V
  BY <1>1, ConcatEmptySeq
<1>5. w3 = LeadWords(s)
  <2>1. w1 = <<V>>
    OBVIOUS
  <2> HIDE DEF V, v, w1
  <2>2. <<V, s, v>> = Append(Append(<<V>>, s), v)
    BY Tuples
  <2> QED BY <2>1, <2>2 DEF LeadWords, V, v
<1>6. Lead(s, special, bare, blanks) = l3
  BY DEF Lead
<1> HIDE DEF g, n, V, v, w0, w1, w2, w3, l0, l1, l2, l3
<1>7. l1 \in Seq(Letter) /\ ReadAll("client", Start, l1) = Reader("blank", <<>>, w1)
  <2>1. /\ (l0 \o V) \o Gap(blanks) \in Seq(Letter)
        /\ ReadAll("client", Start, (l0 \o V) \o Gap(blanks))
             = Reader("blank", <<>>, Append(w0, V))
    BY <1>1, <1>3, WordAdded
  <2> QED BY <1>4, <2>1 DEF l1, g, w1
<1>8. l2 \in Seq(Letter) /\ ReadAll("client", Start, l2) = Reader("blank", <<>>, w2)
  BY <1>2, <1>7, WordAdded DEF l2, g, w2
<1>9. l3 \in Seq(Letter) /\ ReadAll("client", Start, l3) = Reader("blank", <<>>, w3)
  BY <1>1, <1>8, WordAdded DEF l3, g, w3
<1> QED BY <1>5, <1>6, <1>9

LEMMA RowWords ==
  ASSUME NEW s, NEW w
  PROVE  << <<"V">>, s, <<"v">>, w >> = Append(LeadWords(s), w)
BY Tuples DEF LeadWords

\* The value is the fourth word of its row.
LEMMA RowRead ==
  ASSUME NEW lead \in Seq(Letter), NEW s,
         ReadAll("client", Start, lead) = Reader("blank", <<>>, LeadWords(s)),
         NEW value0 \in Seq(Char), NEW special, Escaping("client", special)
  PROVE  /\ lead \o Quoted(value0, special) \in Seq(Letter)
         /\ parseTokens(lead \o Quoted(value0, special))
              = {<< <<"V">>, s, <<"v">>, value0 >>}
<1> DEFINE ws == LeadWords(s)
           q == Quoted(value0, special)
           r == ReadAll("client", Start, lead \o q)
<1>1. value0 \in Seq(Quotable("client"))
  <2>1. Char \subseteq Quotable("client")
    BY DEF Quotable, Letter
  <2> QED BY <2>1, SeqMonotonic
<1>2. /\ q \in Seq(Letter)
      /\ ReadAll("client", Reader("blank", <<>>, ws), q) = Reader("closed", <<>>, Append(ws, value0))
  BY <1>1, ReadQuoted
<1>3. lead \o q \in Seq(Letter) /\ r = Reader("closed", <<>>, Append(ws, value0))
  <2> HIDE DEF q
  <2> QED BY <1>2, ReadInParts, ConcatProperties
<1>4. Tokens(r) = {Append(ws, value0)}
  <2> HIDE DEF r
  <2> QED BY <1>3, WordEnds DEF WordRead
<1>5. Append(ws, value0) = << <<"V">>, s, <<"v">>, value0 >>
  BY RowWords
<1> QED BY <1>3, <1>4, <1>5 DEF parseTokens

\* A text without its last character, or its last two.
LEMMA Shortened ==
  ASSUME NEW C, NEW x \in Seq(C), NEW c \in C, NEW d \in C
  PROVE  LET l == Append(Append(x, c), d)
         IN  /\ l \in Seq(C)
             /\ SubSeq(l, 1, Len(l)) = l
             /\ SubSeq(l, 1, Len(l) - 1) = Append(x, c)
             /\ SubSeq(l, 1, Len(l) - 2) = x
<1> DEFINE y == Append(x, c)
           l == Append(y, d)
           n == Len(x)
<1>1. /\ n \in Nat /\ y \in Seq(C) /\ Len(y) = n + 1
      /\ \A i \in 1 .. n : y[i] = x[i]
  BY LenProperties, AppendProperties
<1> HIDE DEF y
<1>2. /\ l \in Seq(C) /\ Len(l) = n + 2
      /\ \A i \in 1 .. n + 1 : l[i] = y[i]
  BY <1>1, LenProperties, AppendProperties
<1> HIDE DEF l, n
<1>3. SubSeq(l, 1, Len(l)) = l
  BY <1>2, SubSeqFull
<1>4. \A i \in 1 .. n + 2 : l[i] \in C
  BY <1>1, <1>2, ElementOfSeq
<1>5. SubSeq(l, 1, n + 1) = y
  <2> DEFINE t == SubSeq(l, 1, n + 1)
  <2>1. /\ t \in Seq(C) /\ Len(t) = n + 1
        /\ \A i \in 1 .. n + 1 : t[i] = l[i]
    BY <1>1, <1>2, <1>4, SubSeqProperties
  <2> HIDE DEF t
  <2>2. t = y
    BY <1>1, <1>2, <2>1, SeqEqual
  <2> QED BY <2>2 DEF t
<1>6. SubSeq(l, 1, n) = x
  <2> DEFINE t == SubSeq(l, 1, n)
  <2>1. /\ t \in Seq(C) /\ Len(t) = n
        /\ \A i \in 1 .. n : t[i] = l[i]
    BY <1>1, <1>2, <1>4, SubSeqProperties
  <2> HIDE DEF t
  <2>2. t = x
    <3>1. Len(x) = n
      BY DEF n
    <3> QED BY <1>1, <1>2, <2>1, <3>1, SeqEqual
  <2> QED BY <2>2 DEF t
<1>7. Len(l) - 1 = n + 1 /\ Len(l) - 2 = n
  BY <1>1, <1>2
<1> QED BY <1>2, <1>3, <1>5, <1>6, <1>7 DEF l, y

LEMMA LineInParts ==
  ASSUME NEW x \in Seq(Letter), NEW y \in Seq(Letter), NEW z \in Seq(Letter), NEW r
  PROVE  /\ x \o (y \o z) = (x \o y) \o z /\ x \o y \in Seq(Letter)
         /\ ReadAll("client", r, x \o y) = ReadAll("client", ReadAll("client", r, x), y)
<1>1. x \o (y \o z) = (x \o y) \o z
  OBVIOUS
<1>2. x \o y \in Seq(Letter)
  BY ConcatProperties
<1>3. ReadAll("client", r, x \o y) = ReadAll("client", ReadAll("client", r, x), y)
  BY ReadInParts
<1> QED BY <1>1, <1>2, <1>3

\* The last two characters of a row: the closing quote, and the opening one
\* or the end of an escape.  Without them the reader has three words, or none.
EndsWithValue(line, s) ==
  \E y \in Seq(Letter), c \in Letter, d \in Letter :
    /\ line = Append(Append(y, c), d)
    /\ parseTokens(y) \subseteq {LeadWords(s)}
    /\ parseTokens(Append(y, c)) = {}

LEMMA RowEnd ==
  ASSUME NEW lead \in Seq(Letter), NEW s,
         ReadAll("client", Start, lead) = Reader("blank", <<>>, LeadWords(s)),
         NEW w \in Seq(Char), NEW special, Escaping("client", special)
  PROVE  EndsWithValue(lead \o Quoted(w, special), s)
<1> DEFINE ws == LeadWords(s)
           q == <<"Q">>
           open == q \o Escape(w, special)
<1>1. "Q" \in Letter /\ "B" \in Letter /\ Char \subseteq Letter /\ q \in Seq(Letter)
  <2>1. "Q" \in Letter /\ "B" \in Letter /\ Char \subseteq Letter
    BY DEF Letter, Char
  <2> QED BY <2>1, Pairs
<1>2. Quotable("client") = Letter
  BY DEF Quotable
<1>3. \A t \in Seq(Letter) :
        /\ Escape(t, special) \in Seq(Letter)
        /\ ReadAll("client", Reader("blank", <<>>, ws), q \o Escape(t, special))
             = Reader("quoted", t, ws)
  BY <1>2, ReadEscapes, ReadQuoted
<1>4. \A t \in Seq(Letter) :
        /\ lead \o (q \o Escape(t, special)) \in Seq(Letter)
        /\ ReadAll("client", Start, lead \o (q \o Escape(t, special)))
             = Reader("quoted", t, ws)
  <2> TAKE t \in Seq(Letter)
  <2> DEFINE x == q \o Escape(t, special)
  <2>1. x \in Seq(Letter) /\ ReadAll("client", Reader("blank", <<>>, ws), x) = Reader("quoted", t, ws)
    BY <1>1, <1>3, ConcatProperties
  <2> HIDE DEF x
  <2>2. lead \o x \in Seq(Letter) /\ ReadAll("client", Start, lead \o x) = Reader("quoted", t, ws)
    BY <2>1, ReadInParts, ConcatProperties
  <2> QED BY <2>2 DEF x
<1>5. \A t : Tokens(Reader("quoted", t, ws)) = {} /\ Tokens(Reader("escaped", t, ws)) = {}
  BY DEF Tokens, Reader
<1>6. w \in Seq(Letter)
  BY <1>1, SeqMonotonic
<1>7. \A x \in Seq(Letter), c \in Letter : Append(x, c) = x \o <<c>> /\ <<c>> \in Seq(Letter)
  BY AppendIsConcat
<1> HIDE DEF q, ws
<1>8. lead \o Quoted(w, special) = Append(lead \o open, "Q")
  <2>1. Escape(w, special) \in Seq(Letter)
    BY <1>3, <1>6
  <2>2. open \in Seq(Letter)
    BY <1>1, <2>1, ConcatProperties
  <2>3. Quoted(w, special) = open \o q
    BY DEF Quoted, q
  <2> HIDE DEF open
  <2>4. lead \o (open \o q) = (lead \o open) \o q /\ lead \o open \in Seq(Letter)
    BY <1>1, <2>2, ConcatAssociative, ConcatProperties
  <2>5. Append(lead \o open, "Q") = (lead \o open) \o <<"Q">>
    BY <1>1, <1>7, <2>4
  <2> QED BY <2>3, <2>4, <2>5 DEF q
<1>9. parseTokens(lead \o open) = {}
  BY <1>4, <1>5, <1>6 DEF parseTokens
<1>10. \E y \in Seq(Letter), c \in Letter :
         lead \o open = Append(y, c) /\ parseTokens(y) \subseteq {LeadWords(s)}
  <2>1. CASE w = <<>>
    <3>1. open = q
      BY <1>1, <2>1, EscapeNothing, ConcatEmptySeq
    <3>2. lead \o open = Append(lead, "Q")
      BY <1>1, <1>7, <3>1 DEF q
    <3>3. parseTokens(lead) = {LeadWords(s)}
      BY DEF parseTokens, Tokens, Reader
    <3> QED BY <1>1, <3>2, <3>3
  <2>2. CASE w # <<>>
    <3>1. PICK t \in Seq(Letter), c \in Letter : w = Append(t, c)
      BY <1>6, <2>2, SequenceEmptyOrAppend
    <3> DEFINE x == Escape(t, special)
               z == lead \o (q \o x)
    <3>2. Escape(w, special) = x \o Escaped(c, special)
      BY <3>1, EscapeOneMore
    <3>3. x \in Seq(Letter) /\ z \in Seq(Letter) /\ q \o x \in Seq(Letter)
          /\ ReadAll("client", Start, z) = Reader("quoted", t, ws)
      BY <1>1, <1>3, <1>4, ConcatProperties
    <3> HIDE DEF x
    <3>4. \A e \in Seq(Letter) : lead \o (q \o (x \o e)) = z \o e
      <4> TAKE e \in Seq(Letter)
      <4>1. q \o (x \o e) = (q \o x) \o e
        BY <1>1, <3>3, ConcatAssociative
      <4> DEFINE qx == q \o x
      <4>2. qx \in Seq(Letter)
        BY <3>3
      <4> HIDE DEF qx
      <4>3. lead \o (qx \o e) = (lead \o qx) \o e
        BY <4>2
      <4> QED BY <4>1, <4>3 DEF qx
    <3> HIDE DEF z
    <3>5. CASE c \notin special
      <4>1. Escaped(c, special) = <<c>>
        BY <3>5 DEF Escaped
      <4>2. lead \o open = Append(z, c)
        BY <1>7, <3>2, <3>3, <3>4, <4>1
      <4>3. parseTokens(z) = {}
        BY <1>5, <3>3 DEF parseTokens
      <4> QED BY <3>3, <4>2, <4>3
    <3>6. CASE c \in special
      <4> DEFINE b == <<"B">>
                 k == <<c>>
      <4>1. Escaped(c, special) = b \o k /\ b \in Seq(Letter) /\ k \in Seq(Letter)
        BY <1>1, <3>6 DEF Escaped
      <4> HIDE DEF b, k
      <4>2. b \o k \in Seq(Letter)
        BY <4>1, ConcatProperties
      <4>3. lead \o open = z \o (b \o k)
        BY <3>2, <3>4, <4>1, <4>2
      <4>4. z \o (b \o k) = (z \o b) \o k /\ z \o b \in Seq(Letter)
        <5>1. z \in Seq(Letter)
          BY <3>3
        <5>2. z \o (b \o k) = (z \o b) \o k
          BY <4>1, <5>1
        <5> QED BY <4>1, <5>1, <5>2, LineInParts
      <4>5. Append(z \o b, c) = (z \o b) \o k
        BY <1>7, <4>4 DEF k
      <4>6. ReadAll("client", Start, z \o b) = Step("client", Reader("quoted", t, ws), "B")
        <5>1. ReadAll("client", Start, z \o b) = ReadAll("client", ReadAll("client", Start, z), b)
          BY <3>3, <4>1, LineInParts
        <5> QED BY <3>3, <5>1, ReadOne DEF b
      <4>7. Step("client", Reader("quoted", t, ws), "B") = Reader("escaped", t, ws)
        BY DEF Step, Read, InQuoted, To, Reader
      <4>8. parseTokens(z \o b) = {}
        BY <1>5, <4>6, <4>7 DEF parseTokens
      <4> QED BY <4>3, <4>4, <4>5, <4>8
    <3> QED BY <3>5, <3>6
  <2> QED BY <2>1, <2>2
<1> HIDE DEF open
<1>11. PICK y \in Seq(Letter), c \in Letter :
         lead \o open = Append(y, c) /\ parseTokens(y) \subseteq {LeadWords(s)}
  BY <1>10
<1>12. parseTokens(Append(y, c)) = {}
  BY <1>9, <1>11
<1> QED BY <1>1, <1>8, <1>11, <1>12 DEF EndsWithValue

\* The BEGIN line and the request say the same to the client.
LEMMA BeginRead ==
  ASSUME NEW s \in Seq(Char \ {"N"}), NEW special, Escaping("client", special),
         NEW bare \in BOOLEAN, NEW blanks \in 1 .. 2
  PROVE  sameTokens(<<"L">> \o Gap(blanks) \o NameText(s, special, bare),
                    RequestFor(s))
<1> DEFINE k == <<"L">>
           l0 == <<>>
           l1 == k \o Gap(blanks)
           n == NameText(s, special, bare)
           w0 == <<>>
           w1 == Append(w0, k)
           words == {Append(w1, s)}
<1>1. k \in Seq(Letter) /\ ReadAll("client", Reader("blank", <<>>, w0), k) \in WordRead(k, w0)
  BY KeywordRead
<1>2. s \in Seq(Char)
  <2>1. Char \ {"N"} \subseteq Char
    OBVIOUS
  <2> QED BY <2>1, SeqMonotonic
<1>3. n \in Seq(Letter)
      /\ ReadAll("client", Reader("blank", <<>>, w1), n) \in WordRead(s, w1)
  BY <1>2, NameRead
<1>4. l0 \in Seq(Letter) /\ ReadAll("client", Start, l0) = Reader("blank", <<>>, w0)
  BY ReadNothing DEF Start
<1>5. l0 \o k = k
  BY <1>1, ConcatEmptySeq
<1>6. << <<"L">> >> = w1
  OBVIOUS
<1>7. parseTokens(RequestFor(s)) = words
  <2>1. ReadAll("client", Start, RequestFor(s)) \in WordRead(s, w1)
    BY <1>6, RequestWords
  <2> HIDE DEF w1
  <2> QED BY <2>1, WordEnds DEF parseTokens
<1> HIDE DEF k, l0, l1, n, w0, w1
<1>8. l1 \in Seq(Letter) /\ ReadAll("client", Start, l1) = Reader("blank", <<>>, w1)
  <2>1. /\ (l0 \o k) \o Gap(blanks) \in Seq(Letter)
        /\ ReadAll("client", Start, (l0 \o k) \o Gap(blanks))
             = Reader("blank", <<>>, Append(w0, k))
    BY <1>1, <1>4, WordAdded
  <2> QED BY <1>5, <2>1 DEF l1, w1
<1>9. ReadAll("client", Start, l1 \o n) \in WordRead(s, w1)
  BY <1>3, <1>8, WordAdded
<1>10. parseTokens(l1 \o n) = words
  BY <1>9, WordEnds DEF parseTokens
<1> QED BY <1>7, <1>10 DEF sameTokens, l1, k, n

-----------------------------------------------------------------------------
(***************************************************************************)
(* The exchange.                                                           *)
(***************************************************************************)

\* The reply says what it must: BEGIN repeats the request, the row has the
\* name and the value as its words, or has lost the value.
ReplyInv ==
  /\ sameTokens(begin, RequestFor(ups))
  /\ IF cut THEN parseTokens(row) \subseteq {LeadWords(ups)}
     ELSE parseTokens(row) = {<< <<"V">>, ups, <<"v">>, value >>}

WireInv ==
  /\ ups \in Seq(Char) /\ value \in Seq(Char) /\ cut \in BOOLEAN
  /\ stage = "compose" => stream = <<>> /\ ~cut
  /\ stage \in {"sent", "answered"} => stream # <<>>
  /\ stream # <<>> => /\ ups \in Seq(Char \ {"N"})
                     /\ stream = Append(RequestFor(ups), "N")
  /\ stage = "answered" => ReplyInv
  /\ stage = "over" =>
       /\ (stream # <<>> /\ ups # <<>> /\ ~cut => result = {value})
       /\ (cut => result = {})

LEMMA SendKeepsInv ==
  ASSUME WireInv, SendList
  PROVE  WireInv'
<1>1. ups \in Seq(Char \ {"N"})
  <2>1. ups \in Seq(Char) /\ "N" \notin ToSet(ups)
    BY DEF WireInv, SendList, validateArguments
  <2>2. ToSet(ups) \subseteq Char \ {"N"}
    BY <2>1, LenProperties DEF ToSet
  <2> HIDE DEF WireInv
  <2> QED BY <2>1, <2>2, Narrow
<1>2. stream' = Append(RequestFor(ups), "N")
  BY DEF SendList, Request, RequestFor
<1>3. stream' # <<>>
  <2>1. RequestFor(ups) \in Seq(Letter \ {"N"})
    BY <1>1, RequestWords
  <2>2. \A q \in Seq(Letter \ {"N"}) : Append(q, "N") # <<>>
    OBVIOUS
  <2> QED BY <1>2, <2>1, <2>2
<1> QED BY <1>1, <1>2, <1>3 DEF WireInv, SendList, RequestFor

LEMMA AnswerKeepsInv ==
  ASSUME WireInv, Answer
  PROVE  WireInv'
<1>1. PICK special \in {{"Q", "B"}, {"Q", "B", "#", "=", "a"}},
           bare \in BOOLEAN, blanks \in 1 .. 2 :
        LET name == NameText(ups, special, bare)
            line == Lead(ups, special, bare, blanks) \o Quoted(value, special)
        IN  /\ begin' = <<"L">> \o Gap(blanks) \o name
            /\ \E n \in {Len(line), Len(line) - 1, Len(line) - 2} :
                 row' = SubSeq(line, 1, n) /\ cut' = (n < Len(line))
  BY DEF Answer, NameText, Lead, Gap
<1> DEFINE lead == Lead(ups, special, bare, blanks)
           line == lead \o Quoted(value, special)
<1>2. /\ ups \in Seq(Char \ {"N"}) /\ ups \in Seq(Char) /\ value \in Seq(Char)
      /\ UNCHANGED <<ups, value, stream, result>>
      /\ stage' = "answered" /\ stream # <<>>
      /\ stream = Append(RequestFor(ups), "N")
  BY DEF WireInv, Answer
<1>3. Escaping("client", special)
  BY <1>1 DEF Escaping
<1>4. sameTokens(begin', RequestFor(ups))
  BY <1>1, <1>2, <1>3, BeginRead
<1>5. lead \in Seq(Letter)
      /\ ReadAll("client", Start, lead) = Reader("blank", <<>>, LeadWords(ups))
  BY <1>2, <1>3, LeadRead
<1> HIDE DEF lead
<1>6. line \in Seq(Letter) /\ parseTokens(line) = {<< <<"V">>, ups, <<"v">>, value >>}
  BY <1>2, <1>3, <1>5, RowRead
<1>7. PICK y \in Seq(Letter), c \in Letter, d \in Letter :
        /\ line = Append(Append(y, c), d)
        /\ parseTokens(y) \subseteq {LeadWords(ups)}
        /\ parseTokens(Append(y, c)) = {}
  <2>1. EndsWithValue(line, ups)
    BY <1>2, <1>3, <1>5, RowEnd
  <2> HIDE DEF line
  <2> QED BY <2>1 DEF EndsWithValue
<1>8. PICK n \in {Len(line), Len(line) - 1, Len(line) - 2} :
        row' = SubSeq(line, 1, n) /\ cut' = (n < Len(line))
  BY <1>1 DEF lead
<1> HIDE DEF line
<1>9. /\ SubSeq(line, 1, Len(line)) = line
      /\ SubSeq(line, 1, Len(line) - 1) = Append(y, c)
      /\ SubSeq(line, 1, Len(line) - 2) = y
  BY <1>7, Shortened
<1>10. Len(line) \in Nat
  BY <1>6, LenProperties
<1>11. cut' \in BOOLEAN /\ (cut' <=> n # Len(line))
  <2> DEFINE short == n < Len(line)
  <2>1. short \in BOOLEAN /\ (short <=> n # Len(line))
    BY <1>8, <1>10
  <2>2. cut' = short
    BY <1>8
  <2> HIDE DEF short
  <2> QED BY <2>1, <2>2
<1>12. IF cut' THEN parseTokens(row') \subseteq {LeadWords(ups)}
       ELSE parseTokens(row') = {<< <<"V">>, ups, <<"v">>, value >>}
  <2>1. CASE n = Len(line)
    <3>1. ~cut' /\ row' = line
      BY <1>8, <1>9, <1>11, <2>1
    <3> QED BY <1>6, <3>1
  <2>2. CASE n = Len(line) - 1
    <3>1. cut' /\ row' = Append(y, c)
      <4>1. n # Len(line)
        BY <1>10, <2>2
      <4> QED BY <1>8, <1>9, <1>11, <2>2, <4>1
    <3> QED BY <1>7, <3>1
  <2>3. CASE n = Len(line) - 2
    <3>1. cut' /\ row' = y
      <4>1. n # Len(line)
        BY <1>10, <2>3
      <4> QED BY <1>8, <1>9, <1>11, <2>3, <4>1
    <3> QED BY <1>7, <3>1
  <2> QED BY <1>8, <2>1, <2>2, <2>3
<1>13. ReplyInv'
  BY <1>2, <1>4, <1>12 DEF ReplyInv, sameTokens, RequestFor, LeadWords, parseTokens
<1> QED BY <1>2, <1>11, <1>13 DEF WireInv, RequestFor

LEMMA ReadKeepsInv ==
  ASSUME WireInv, ReadReply
  PROVE  WireInv'
<1>1. ReplyInv /\ Request = RequestFor(ups) /\ cut \in BOOLEAN
  BY DEF WireInv, ReadReply, Request, RequestFor
<1>2. result' = RowValue(row)
  BY <1>1 DEF ReadReply, ReplyInv
<1>3. ASSUME cut PROVE RowValue(row) = {}
  <2>1. parseTokens(row) \subseteq {LeadWords(ups)}
    BY <1>1, <1>3 DEF ReplyInv
  <2>2. Len(LeadWords(ups)) # 4
    BY DEF LeadWords
  <2>3. \A g \in parseTokens(row) : ~IsRow(g)
    BY <2>1, <2>2 DEF IsRow
  <2> QED BY <2>3 DEF RowValue
<1>4. ASSUME ~cut, ups # <<>> PROVE RowValue(row) = {value}
  <2> DEFINE f == << <<"V">>, ups, <<"v">>, value >>
  <2>1. parseTokens(row) = {f}
    BY <1>1, <1>4 DEF ReplyInv
  <2>2. Len(f) = 4 /\ f[1] = <<"V">> /\ f[2] = ups /\ f[3] = <<"v">> /\ f[4] = value
    OBVIOUS
  <2>3. <<"v">> # <<>>
    OBVIOUS
  <2> HIDE DEF f
  <2>4. IsRow(f) /\ f[2] = ups /\ f[4] = value
    BY <1>4, <2>2, <2>3 DEF IsRow
  <2> QED BY <2>1, <2>4 DEF RowValue
<1> QED BY <1>1, <1>2, <1>3, <1>4 DEF WireInv, ReadReply

LEMMA WireStep ==
  ASSUME WireInv, [Next]_vars
  PROVE  WireInv'
<1>1. CASE Compose
  <2>1. PICK c \in Char :
          \/ value = <<>> /\ ups' = Append(ups, c) /\ UNCHANGED value
          \/ c # "N" /\ value' = Append(value, c) /\ UNCHANGED ups
    BY <1>1 DEF Compose
  <2>2. ups \in Seq(Char) /\ value \in Seq(Char)
    BY DEF WireInv
  <2>3. Append(ups, c) \in Seq(Char) /\ Append(value, c) \in Seq(Char)
    BY <2>2, AppendProperties
  <2>4. ups' \in Seq(Char) /\ value' \in Seq(Char)
    BY <2>1, <2>2, <2>3
  <2> QED BY <1>1, <2>4 DEF Compose, WireInv
<1>2. CASE SendList
  BY <1>2, SendKeepsInv
<1>3. CASE Refuse
  BY <1>3 DEF Refuse, WireInv
<1>4. CASE Answer
  BY <1>4, AnswerKeepsInv
<1>5. CASE ReadReply
  BY <1>5, ReadKeepsInv
<1>6. CASE UNCHANGED vars
  BY <1>6 DEF vars, WireInv, ReplyInv, sameTokens, parseTokens, RequestFor, LeadWords
<1> QED BY <1>1, <1>2, <1>3, <1>4, <1>5, <1>6 DEF Next

\* The inductive invariant: what is on the wire is one request for the name,
\* and a reply that says its words, for texts of every length.
THEOREM WireInvHolds == Spec => []WireInv
<1>1. Init => WireInv
  BY EmptySeq DEF Init, WireInv
<1> QED BY <1>1, WireStep, PTL DEF Spec

\* The server reads a request as one command of two words, the second the
\* operator's name, and its one line break is its end, whatever the name.
THEOREM RequestsReadBack == Spec => []RequestReadsBack
<1>1. ASSUME WireInv PROVE RequestReadsBack
  <2>1. CASE stream = <<>>
    BY <1>1, <2>1 DEF WireInv, RequestReadsBack
  <2>2. CASE stream # <<>>
    <3>1. ups \in Seq(Char \ {"N"}) /\ stream = Append(RequestFor(ups), "N")
      BY <1>1, <2>2 DEF WireInv
    <3> QED BY <3>1, RequestServed DEF RequestReadsBack
  <2> QED BY <2>1, <2>2
<1> QED BY <1>1, WireInvHolds, PTL

\* However the server quotes and escapes, the client reads the value it holds.
THEOREM AnswersReadBack == Spec => []AnswerReadsBack
<1>1. WireInv => AnswerReadsBack
  BY DEF WireInv, AnswerReadsBack
<1> QED BY <1>1, WireInvHolds, PTL

\* A row that lost one character or two of its end has no value.
THEOREM CutRowsRefused == Spec => []CutRowRefused
<1>1. WireInv => CutRowRefused
  BY DEF WireInv, CutRowRefused
<1> QED BY <1>1, WireInvHolds, PTL
=============================================================================
