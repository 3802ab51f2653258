----------------------------- MODULE ApiProofs -----------------------------
(***************************************************************************)
(* Theorems about what the serializer writes and what the functions of the *)
(* Python API make of it.                                                  *)
(***************************************************************************)
EXTENDS RoundTrip, SerializerProofs

Json == INSTANCE JsonProofs WITH
  GoodStrings <- Keys, GoodScalars <- (Scalars \ Fragments) \cup LongInts,
  LexErrors <- {}, NotUtf8 <- {}, Infinite <- {}, TooManyDigits <- LongInts,
  Hook <- FALSE, Raises <- FALSE

\* The grammar of Output is the grammar that JsonProofs is about.
LEMMA SameAlphabet == Grammar!Alphabet = Json!Alphabet
BY DEF Grammar!Alphabet, Json!Alphabet

LEMMA SameNoSpace == \A s : Grammar!NoSpace(s) = Json!NoSpace(s)
BY Zenon DEF Grammar!NoSpace, Json!NoSpace, Grammar!Kept, Json!Kept

LEMMA SameDenotation == Grammar!Denotation = Json!Denotation
BY Zenon DEF Grammar!Denotation, Json!Denotation, Grammar!Alphabet, Json!Alphabet,
  Grammar!ValueOf, Json!ValueOf, Grammar!ItemsOf, Json!ItemsOf,
  Grammar!EntriesOf, Json!EntriesOf, Grammar!EntryOf, Json!EntryOf,
  Grammar!Leaf, Json!Leaf, Grammar!PyList, Json!PyList, Grammar!PyDict, Json!PyDict,
  Grammar!DictOf, Json!DictOf, Grammar!Firsts, Json!Firsts, Grammar!LastOf, Json!LastOf,
  Grammar!Bracketed, Json!Bracketed, Grammar!Inner, Json!Inner,
  Grammar!Commas, Json!Commas, Grammar!Before, Json!Before, Grammar!After, Json!After

LEMMA SameValues == \A s : Grammar!Values(s) = Json!Values(s)
BY SameAlphabet, SameDenotation, Zenon DEF Grammar!Values, Json!Values

LEMMA SameMakers ==
  /\ \A t : Grammar!Leaf(t) = Json!Leaf(t)
  /\ \A vs : Grammar!PyList(vs) = Json!PyList(vs)
  /\ \A ps : Grammar!DictOf(ps) = Json!DictOf(ps)
BY Zenon DEF Grammar!Leaf, Json!Leaf, Grammar!PyList, Json!PyList, Grammar!PyDict, Json!PyDict,
  Grammar!DictOf, Json!DictOf, Grammar!Firsts, Json!Firsts, Grammar!LastOf, Json!LastOf
----------------------------------------------------------------------------
(***************************************************************************)
(* What lies between two brackets of a text that is being written, for a   *)
(* frame f: that of the whole value, of a list or tuple, or of a dict.  A  *)
(* reading G says what the text denotes, where that is known: the document *)
(* that f waits for, and those of the items that it has yielded.           *)
(***************************************************************************)
Alphabet == Json!Alphabet
Texts == Seq(Alphabet)

Known(G) == G.of = "graph"

\* w is a value, and what f waits for.
Serves(G, f, w) == \E v \in Json!Values(w) : Known(G) => v = G.given[f]

\* s is what has been written for f once the item that it waits for is complete.
Full(G, f, s) ==
  \/ f.op = "Done" /\ Serves(G, f, s)
  \/ /\ f.op = "SerializingSequence"
     /\ \E u : \E vs \in Json!ItemsIn(u) : s = <<"[">> \o u /\ (Known(G) => vs = G.part[f])
  \/ /\ f.op = "SerializingDict"
     /\ \E u : \E ps \in Json!EntriesIn(u) : s = <<"lbrace">> \o u /\ (Known(G) => ps = G.part[f])

\* s is what has been written for f when a value has to follow.
Lead(G, f, s) ==
  s \in Texts /\ \A w : Serves(G, f, w) => Full(G, f, s \o w)

LEMMA TokensOfTexts ==
  /\ <<"[">> \in Texts /\ <<"]">> \in Texts /\ <<"lbrace">> \in Texts /\ <<"rbrace">> \in Texts
  /\ <<"comma">> \in Texts
  /\ \A k \in Keys : <<k>> \in Texts /\ <<":">> \in Texts /\ <<k, ":">> \in Texts
BY DEF Texts, Alphabet, Json!Alphabet

LEMMA PhraseIsText ==
  \A s : Json!Values(s) # {} \/ Json!ItemsIn(s) # {} \/ Json!EntriesIn(s) # {} => s \in Texts
BY Json!PhraseIsText DEF Texts, Alphabet

LEMMA ServesIsText ==
  ASSUME NEW G, NEW f, NEW w, Serves(G, f, w)
  PROVE  w \in Seq(Alphabet)
BY PhraseIsText DEF Serves, Texts

LEMMA FullIsText ==
  ASSUME NEW G, NEW f, NEW s, Full(G, f, s)
  PROVE  s \in Texts
<1>1. CASE Serves(G, f, s)
  BY <1>1, ServesIsText DEF Texts
<1>2. ASSUME NEW u, Json!ItemsIn(u) # {}, s = <<"[">> \o u PROVE s \in Texts
  <2>1. u \in Seq(Alphabet) /\ <<"[">> \in Seq(Alphabet)
    BY <1>2, PhraseIsText, TokensOfTexts DEF Texts
  <2> QED BY <1>2, <2>1 DEF Texts
<1>3. ASSUME NEW u, Json!EntriesIn(u) # {}, s = <<"lbrace">> \o u PROVE s \in Texts
  <2>1. u \in Seq(Alphabet) /\ <<"lbrace">> \in Seq(Alphabet)
    BY <1>3, PhraseIsText, TokensOfTexts DEF Texts
  <2> QED BY <1>3, <2>1 DEF Texts
<1> QED BY <1>1, <1>2, <1>3 DEF Full

\* Before the first item.
LEMMA LeadOfNothing ==
  ASSUME NEW G
  PROVE  Lead(G, DoneFrame, <<>>)
<1> SUFFICES ASSUME NEW w, Serves(G, DoneFrame, w) PROVE Full(G, DoneFrame, <<>> \o w)
  BY EmptySeq DEF Lead, Texts
<1>1. w \in Seq(Alphabet)
  BY ServesIsText
<1>2. <<>> \o w = w
  BY <1>1, ConcatEmptySeq
<1> QED BY <1>2 DEF Full, DoneFrame

LEMMA LeadOfList ==
  ASSUME NEW G, NEW f, f.op = "SerializingSequence", Known(G) => G.part[f] = <<G.given[f]>>
  PROVE  Lead(G, f, <<"[">>)
<1> SUFFICES ASSUME NEW w, Serves(G, f, w)
             PROVE  Full(G, f, <<"[">> \o w)
  BY TokensOfTexts DEF Lead
<1>1. PICK v \in Json!Values(w) : Known(G) => v = G.given[f]
  BY DEF Serves
<1>2. PICK vs : vs = <<v>>
  OBVIOUS
<1>3. vs \in Json!ItemsIn(w)
  BY <1>2, Json!ValueIsItems
<1>4. Known(G) => vs = G.part[f]
  BY <1>1, <1>2
<1> QED BY <1>3, <1>4 DEF Full

LEMMA LeadOfDict ==
  ASSUME NEW G, NEW f, f.op = "SerializingDict", NEW k \in Keys,
         Known(G) => G.part[f] = <<<<Json!Leaf(k), G.given[f]>>>>
  PROVE  Lead(G, f, <<"lbrace">> \o <<k, ":">>)
<1>1. <<"lbrace">> \in Seq(Alphabet) /\ <<k, ":">> \in Seq(Alphabet)
  BY TokensOfTexts DEF Texts
<1> SUFFICES ASSUME NEW w, Serves(G, f, w)
             PROVE  Full(G, f, (<<"lbrace">> \o <<k, ":">>) \o w)
  BY <1>1 DEF Lead, Texts
<1>2. w \in Seq(Alphabet)
  BY ServesIsText
<1>3. PICK v \in Json!Values(w) : Known(G) => v = G.given[f]
  BY DEF Serves
<1>4. PICK ps : ps = <<<<Json!Leaf(k), v>>>>
  OBVIOUS
<1>5. PICK e : e = <<k, ":">> \o w
  OBVIOUS
<1>6. ps \in Json!EntriesIn(e)
  BY <1>4, <1>5, Json!FirstEntryWritten
<1>7. (<<"lbrace">> \o <<k, ":">>) \o w = <<"lbrace">> \o e
  BY <1>1, <1>2, <1>5, ConcatAssociative
<1>8. Known(G) => ps = G.part[f]
  BY <1>3, <1>4
<1> QED BY <1>6, <1>7, <1>8 DEF Full

\* Before the next one.
LEMMA LeadAfterItem ==
  ASSUME NEW G, NEW f, NEW g, f.op = "SerializingSequence", g.op = "SerializingSequence",
         Known(G) => G.part[g] = Append(G.part[f], G.given[g]),
         NEW s, Full(G, f, s)
  PROVE  Lead(G, g, s \o <<"comma">>)
<1>1. PICK u : \E vs \in Json!ItemsIn(u) : s = <<"[">> \o u /\ (Known(G) => vs = G.part[f])
  BY DEF Full
<1>0. PICK vs \in Json!ItemsIn(u) : s = <<"[">> \o u /\ (Known(G) => vs = G.part[f])
  BY <1>1
<1>2. <<"[">> \in Seq(Alphabet) /\ u \in Seq(Alphabet) /\ <<"comma">> \in Seq(Alphabet)
  BY <1>0, PhraseIsText, TokensOfTexts DEF Texts
<1> SUFFICES ASSUME NEW w, Serves(G, g, w)
             PROVE  Full(G, g, (s \o <<"comma">>) \o w)
  BY <1>1, <1>2 DEF Lead, Texts
<1>3. w \in Seq(Alphabet)
  BY ServesIsText
<1>4. PICK v \in Json!Values(w) : Known(G) => v = G.given[g]
  BY DEF Serves
<1>5. PICK us, c : us = Append(vs, v) /\ c = (u \o <<"comma">>) \o w
  OBVIOUS
<1>6. us \in Json!ItemsIn(c)
  BY <1>0, <1>4, <1>5, Json!ItemWritten
<1>7. (s \o <<"comma">>) \o w = <<"[">> \o c
  <2>1. s \o <<"comma">> = <<"[">> \o (u \o <<"comma">>)
    BY <1>0, <1>2, ConcatAssociative
  <2>2. u \o <<"comma">> \in Seq(Alphabet)
    BY <1>2
  <2>3. (<<"[">> \o (u \o <<"comma">>)) \o w = <<"[">> \o ((u \o <<"comma">>) \o w)
    BY <1>2, <1>3, <2>2, ConcatAssociative
  <2> QED BY <1>5, <2>1, <2>3
<1>8. Known(G) => us = G.part[g]
  BY <1>0, <1>4, <1>5
<1> QED BY <1>6, <1>7, <1>8 DEF Full

LEMMA LeadAfterEntry ==
  ASSUME NEW G, NEW f, NEW g, f.op = "SerializingDict", g.op = "SerializingDict", NEW k \in Keys,
         Known(G) => G.part[g] = Append(G.part[f], <<Json!Leaf(k), G.given[g]>>),
         NEW s, Full(G, f, s)
  PROVE  Lead(G, g, (s \o <<"comma">>) \o <<k, ":">>)
<1>1. PICK u : \E ps \in Json!EntriesIn(u) : s = <<"lbrace">> \o u /\ (Known(G) => ps = G.part[f])
  BY DEF Full
<1>0. PICK ps \in Json!EntriesIn(u) : s = <<"lbrace">> \o u /\ (Known(G) => ps = G.part[f])
  BY <1>1
<1>2. /\ <<"lbrace">> \in Seq(Alphabet) /\ u \in Seq(Alphabet)
      /\ <<"comma">> \in Seq(Alphabet) /\ <<k, ":">> \in Seq(Alphabet)
  BY <1>0, PhraseIsText, TokensOfTexts DEF Texts
<1>3. s \in Seq(Alphabet)
  BY <1>0, <1>2
<1> SUFFICES ASSUME NEW w, Serves(G, g, w)
             PROVE  Full(G, g, ((s \o <<"comma">>) \o <<k, ":">>) \o w)
  BY <1>2, <1>3, SMTT(30) DEF Lead, Texts
<1>4. w \in Seq(Alphabet)
  BY ServesIsText
<1>5. PICK v \in Json!Values(w) : Known(G) => v = G.given[g]
  BY DEF Serves
<1>6. PICK e, c : e = <<k, ":">> \o w /\ c = u \o <<"comma">>
  OBVIOUS
<1>7. PICK qs, d : qs = Append(ps, <<Json!Leaf(k), v>>) /\ d = c \o e
  OBVIOUS
<1>8. qs \in Json!EntriesIn(d)
  BY <1>0, <1>5, <1>6, <1>7, Json!EntryWritten
<1>9. e \in Seq(Alphabet) /\ c \in Seq(Alphabet) /\ s \o <<"comma">> \in Seq(Alphabet)
  BY <1>2, <1>3, <1>4, <1>6
<1>10. ((s \o <<"comma">>) \o <<k, ":">>) \o w = <<"lbrace">> \o d
  <2>1. ((s \o <<"comma">>) \o <<k, ":">>) \o w = (s \o <<"comma">>) \o e
    BY <1>2, <1>4, <1>6, <1>9, ConcatAssociative, SMTT(30)
  <2>2. s \o <<"comma">> = <<"lbrace">> \o c
    BY <1>0, <1>2, <1>6, ConcatAssociative
  <2>3. (<<"lbrace">> \o c) \o e = <<"lbrace">> \o (c \o e)
    BY <1>2, <1>9, ConcatAssociative
  <2> QED BY <1>7, <2>1, <2>2, <2>3
<1>11. Known(G) => qs = G.part[g]
  BY <1>0, <1>5, <1>7
<1> QED BY <1>8, <1>10, <1>11 DEF Full

\* A closed container is a value: that of its items, for which b waits.
LEMMA ClosedServes ==
  ASSUME NEW G, NEW f, NEW b, NEW s, Full(G, f, s)
  PROVE  /\ f.op = "SerializingSequence" /\ (Known(G) => G.given[b] = Json!PyList(G.part[f]))
              => Serves(G, b, s \o <<"]">>)
         /\ f.op = "SerializingDict" /\ (Known(G) => G.given[b] = Json!DictOf(G.part[f]))
              => Serves(G, b, s \o <<"rbrace">>)
<1>1. ASSUME f.op = "SerializingSequence", Known(G) => G.given[b] = Json!PyList(G.part[f])
      PROVE  Serves(G, b, s \o <<"]">>)
  <2>1. PICK u : \E vs \in Json!ItemsIn(u) : s = <<"[">> \o u /\ (Known(G) => vs = G.part[f])
    BY <1>1 DEF Full
  <2>0. PICK vs \in Json!ItemsIn(u) : s = <<"[">> \o u /\ (Known(G) => vs = G.part[f])
    BY <2>1
  <2>2. Json!PyList(vs) \in Json!Values(s \o <<"]">>)
    BY <2>0, Json!ListWritten
  <2>3. Known(G) => Json!PyList(vs) = G.given[b]
    BY <1>1, <2>0
  <2> QED BY <2>2, <2>3 DEF Serves
<1>2. ASSUME f.op = "SerializingDict", Known(G) => G.given[b] = Json!DictOf(G.part[f])
      PROVE  Serves(G, b, s \o <<"rbrace">>)
  <2>1. PICK u : \E ps \in Json!EntriesIn(u) : s = <<"lbrace">> \o u /\ (Known(G) => ps = G.part[f])
    BY <1>2 DEF Full
  <2>0. PICK ps \in Json!EntriesIn(u) : s = <<"lbrace">> \o u /\ (Known(G) => ps = G.part[f])
    BY <2>1
  <2>2. Json!DictOf(ps) \in Json!Values(s \o <<"rbrace">>)
    BY <2>0, Json!DictWritten
  <2>3. Known(G) => Json!DictOf(ps) = G.given[b]
    BY <1>2, <2>0
  <2> QED BY <2>2, <2>3 DEF Serves
<1> QED BY <1>1, <1>2

LEMMA EmptyServes ==
  ASSUME NEW G, NEW b
  PROVE  /\ (Known(G) => G.given[b] = Json!PyList(<<>>)) => Serves(G, b, <<"[">> \o <<"]">>)
         /\ (Known(G) => G.given[b] = Json!DictOf(<<>>)) => Serves(G, b, <<"lbrace">> \o <<"rbrace">>)
<1>1. <<"[">> \in Seq(Alphabet) /\ <<"lbrace">> \in Seq(Alphabet)
  BY TokensOfTexts DEF Texts
<1>2. <<"[">> \o <<>> = <<"[">> /\ <<"lbrace">> \o <<>> = <<"lbrace">>
  BY <1>1, ConcatEmptySeq
<1>3. /\ Json!PyList(<<>>) \in Json!Values((<<"[">> \o <<>>) \o <<"]">>)
      /\ Json!DictOf(<<>>) \in Json!Values((<<"lbrace">> \o <<>>) \o <<"rbrace">>)
  BY Json!ListWritten, Json!DictWritten
<1> QED BY <1>2, <1>3 DEF Serves
----------------------------------------------------------------------------
(***************************************************************************)
(* The whole text: for each of the frames fs, ts has what had been written *)
(* when the frame was begun, and between two of them lies a Lead.          *)
(***************************************************************************)
Nested(G, fs, ts) ==
  /\ ts \in Seq(Texts) /\ Len(ts) = Len(fs)
  /\ ts[1] = <<>>
  /\ \A i \in 1 .. Len(fs) - 1 : \E s : Lead(G, fs[i], s) /\ ts[i + 1] = ts[i] \o s

\* x is a text to go on with a value, inside fs.
Awaits(G, fs, x) ==
  \E ts, s : Nested(G, fs, ts) /\ Lead(G, fs[Len(fs)], s) /\ x = ts[Len(fs)] \o s

\* x is a text that has just been given the value it awaited.
Given(G, fs, x) ==
  \E ts, s : Nested(G, fs, ts) /\ Full(G, fs[Len(fs)], s) /\ x = ts[Len(fs)] \o s

LEMMA LastText ==
  ASSUME NEW G, NEW fs \in Seq(Frames), fs # <<>>, NEW ts, Nested(G, fs, ts)
  PROVE  Len(fs) \in Nat \ {0} /\ ts[Len(fs)] \in Seq(Alphabet)
<1>1. Len(fs) \in Nat \ {0}
  BY EmptySeq
<1>2. Len(ts) = Len(fs) /\ ts \in Seq(Texts)
  BY DEF Nested
<1>3. Len(fs) \in 1 .. Len(ts)
  BY <1>1, <1>2
<1> QED BY <1>1, <1>2, <1>3 DEF Texts

LEMMA AwaitsAtFirst ==
  ASSUME NEW G
  PROVE  Awaits(G, <<DoneFrame>>, <<>>)
<1> DEFINE fs == <<DoneFrame>>
           ts == <<<<>>>>
<1>1. Len(fs) = 1 /\ fs[1] = DoneFrame /\ <<>> \in Texts
  BY EmptySeq DEF DoneFrame, Texts
<1>2. ts \in Seq(Texts) /\ Len(ts) = 1 /\ ts[1] = <<>>
  BY <1>1
<1> HIDE DEF fs, ts
<1>3. Nested(G, fs, ts)
  BY <1>1, <1>2 DEF Nested
<1>4. <<>> = ts[1] \o <<>>
  BY <1>2
<1>5. Awaits(G, fs, <<>>)
  BY <1>1, <1>3, <1>4, LeadOfNothing DEF Awaits
<1> QED BY <1>5 DEF fs

\* A value is written.
LEMMA GivenValue ==
  ASSUME NEW G, NEW fs \in Seq(Frames), fs # <<>>, NEW x, Awaits(G, fs, x),
         NEW w, Serves(G, fs[Len(fs)], w)
  PROVE  Given(G, fs, x \o w)
<1>1. PICK ts, s : Nested(G, fs, ts) /\ Lead(G, fs[Len(fs)], s) /\ x = ts[Len(fs)] \o s
  BY DEF Awaits
<1>2. ts[Len(fs)] \in Seq(Alphabet) /\ s \in Seq(Alphabet) /\ w \in Seq(Alphabet)
  BY <1>1, LastText, ServesIsText DEF Lead, Texts
<1>3. x \o w = ts[Len(fs)] \o (s \o w)
  <2>1. PICK y \in Seq(Alphabet) : y = ts[Len(fs)]
    BY <1>2
  <2>2. (y \o s) \o w = y \o (s \o w)
    BY <1>2, ConcatAssociative, SMTT(30)
  <2> QED BY <1>1, <2>1, <2>2
<1>4. Full(G, fs[Len(fs)], s \o w)
  BY <1>1 DEF Lead
<1> QED BY <1>1, <1>3, <1>4 DEF Given

\* A container is opened, and its first item is to be written.
LEMMA AwaitsFirstItem ==
  ASSUME NEW G, NEW fs \in Seq(Frames), fs # <<>>, NEW x, Awaits(G, fs, x),
         NEW f \in Frames, NEW l, Lead(G, f, l)
  PROVE  Awaits(G, Append(fs, f), x \o l)
<1>1. PICK ts, s : Nested(G, fs, ts) /\ Lead(G, fs[Len(fs)], s) /\ x = ts[Len(fs)] \o s
  BY DEF Awaits
<1> DEFINE n == Len(fs)
           gs == Append(fs, f)
           us == Append(ts, x)
<1>2. n \in Nat \ {0} /\ ts[n] \in Seq(Alphabet) /\ s \in Seq(Alphabet)
  BY <1>1, LastText DEF Lead, Texts
<1>3. x \in Texts
  BY <1>1, <1>2 DEF Texts
<1>4. ts \in Seq(Texts) /\ Len(ts) = n
  BY <1>1 DEF Nested
<1>5. /\ Len(gs) = n + 1 /\ gs[n + 1] = f /\ \A i \in 1 .. n : gs[i] = fs[i]
  BY <1>2
<1>6. /\ us \in Seq(Texts) /\ Len(us) = n + 1 /\ us[n + 1] = x /\ \A i \in 1 .. n : us[i] = ts[i]
  BY <1>2, <1>3, <1>4
<1> HIDE DEF n, gs, us
<1>7. Nested(G, gs, us)
  <2>1. us[1] = <<>>
    <3>1. 1 \in 1 .. n
      BY <1>2
    <3>2. us[1] = ts[1]
      BY <1>6, <3>1
    <3> QED BY <1>1, <3>2 DEF Nested
  <2>2. ASSUME NEW i \in 1 .. Len(gs) - 1
        PROVE  \E r : Lead(G, gs[i], r) /\ us[i + 1] = us[i] \o r
    <3>1. CASE i = n
      <4>1. n \in 1 .. n /\ gs[i] = fs[n] /\ us[i] = ts[n] /\ us[i + 1] = x
        BY <1>2, <1>5, <1>6, <3>1
      <4> QED BY <1>1, <4>1 DEF n
    <3>2. CASE i # n
      <4>1. i \in 1 .. n - 1 /\ i \in 1 .. n /\ i + 1 \in 1 .. n
        BY <1>2, <1>5, <3>2
      <4>2. PICK r : Lead(G, fs[i], r) /\ ts[i + 1] = ts[i] \o r
        BY <1>1, <4>1 DEF Nested, n
      <4> QED BY <1>5, <1>6, <4>1, <4>2
    <3> QED BY <3>1, <3>2
  <2> QED BY <1>5, <1>6, <2>1, <2>2 DEF Nested
<1>8. Awaits(G, gs, x \o l)
  BY <1>5, <1>6, <1>7 DEF Awaits
<1> QED BY <1>8 DEF gs

\* The frames below the top.
LEMMA NestedBelow ==
  ASSUME NEW G, NEW fs \in Seq(Frames), fs # <<>>, NEW f \in Frames,
         NEW ts, Nested(G, Append(fs, f), ts)
  PROVE  \E us, s : /\ Nested(G, fs, us) /\ Lead(G, fs[Len(fs)], s)
                    /\ ts[Len(fs) + 1] = us[Len(fs)] \o s
                    /\ \A g \in Frames : Nested(G, Append(fs, g), ts)
<1> DEFINE n == Len(fs)
           us == SubSeq(ts, 1, n)
           gs(g) == Append(fs, g)
<1>1. n \in Nat \ {0}
  BY EmptySeq
<1>2. ASSUME NEW g \in Frames
      PROVE  Len(gs(g)) = n + 1 /\ gs(g)[n + 1] = g /\ \A i \in 1 .. n : gs(g)[i] = fs[i]
  BY <1>1
<1>3. ts \in Seq(Texts) /\ Len(ts) = n + 1
  BY <1>2 DEF Nested
<1>4. us \in Seq(Texts) /\ Len(us) = n /\ \A i \in 1 .. n : us[i] = ts[i]
  BY <1>1, <1>3
<1> HIDE DEF n, us, gs
<1>5. /\ ts[1] = <<>>
      /\ \A i \in 1 .. n : \E s : Lead(G, fs[i], s) /\ ts[i + 1] = ts[i] \o s
  <2>1. Nested(G, gs(f), ts)
    BY DEF gs
  <2>2. Len(gs(f)) - 1 = n
    BY <1>1, <1>2
  <2> QED BY <1>2, <2>1, <2>2 DEF Nested
<1>6. Nested(G, fs, us)
  <2>1. us[1] = <<>>
    BY <1>1, <1>4, <1>5
  <2>2. ASSUME NEW i \in 1 .. n - 1
        PROVE  \E s : Lead(G, fs[i], s) /\ us[i + 1] = us[i] \o s
    <3>1. i \in 1 .. n /\ i + 1 \in 1 .. n
      BY <1>1
    <3> QED BY <1>4, <1>5, <3>1
  <2> QED BY <1>4, <2>1, <2>2 DEF Nested, n
<1>7. ASSUME NEW g \in Frames PROVE Nested(G, gs(g), ts)
  <2>1. Len(gs(g)) - 1 = n
    BY <1>1, <1>2
  <2> QED BY <1>2, <1>3, <1>5, <2>1 DEF Nested
<1>8. PICK s : Lead(G, fs[n], s) /\ ts[n + 1] = us[n] \o s
  <2>1. n \in 1 .. n /\ us[n] = ts[n]
    BY <1>1, <1>4
  <2>2. \E s : Lead(G, fs[n], s) /\ ts[n + 1] = ts[n] \o s
    BY <1>5, <2>1
  <2> QED BY <2>1, <2>2
<1> QED BY <1>6, <1>7, <1>8 DEF n, gs

\* The next item is to be written.
LEMMA AwaitsNextItem ==
  ASSUME NEW G, NEW fs \in Seq(Frames), fs # <<>>, NEW f \in Frames, NEW g \in Frames,
         NEW x, Given(G, Append(fs, f), x), NEW l \in Texts,
         \A s : Full(G, f, s) => Lead(G, g, s \o l)
  PROVE  Awaits(G, Append(fs, g), x \o l)
<1> DEFINE n == Len(fs)
<1>1. /\ n \in Nat \ {0}
      /\ Len(Append(fs, f)) = n + 1 /\ Append(fs, f)[n + 1] = f
      /\ Len(Append(fs, g)) = n + 1 /\ Append(fs, g)[n + 1] = g
  BY EmptySeq
<1>2. PICK ts, s : Nested(G, Append(fs, f), ts) /\ Full(G, f, s) /\ x = ts[n + 1] \o s
  BY <1>1 DEF Given
<1>3. Nested(G, Append(fs, g), ts)
  BY <1>2, NestedBelow
<1>4. ts[n + 1] \in Seq(Alphabet)
  <2>1. ts \in Seq(Texts) /\ Len(ts) = n + 1
    BY <1>1, <1>2 DEF Nested
  <2>2. n + 1 \in 1 .. Len(ts)
    BY <1>1, <2>1
  <2> QED BY <2>1, <2>2 DEF Texts
<1>5. s \in Seq(Alphabet) /\ l \in Seq(Alphabet)
  BY <1>2, FullIsText DEF Texts
<1>6. x \o l = ts[n + 1] \o (s \o l)
  <2>1. PICK y \in Seq(Alphabet) : y = ts[n + 1]
    BY <1>4
  <2>2. (y \o s) \o l = y \o (s \o l)
    BY <1>5, ConcatAssociative, SMTT(30)
  <2> QED BY <1>2, <2>1, <2>2
<1>7. Lead(G, g, s \o l)
  BY <1>2
<1> HIDE DEF n
<1> QED BY <1>1, <1>3, <1>6, <1>7 DEF Awaits

\* The container is closed.
LEMMA GivenContainer ==
  ASSUME NEW G, NEW fs \in Seq(Frames), fs # <<>>, NEW f \in Frames,
         NEW x, Given(G, Append(fs, f), x), NEW c \in Texts,
         \A s : Full(G, f, s) => Serves(G, fs[Len(fs)], s \o c)
  PROVE  Given(G, fs, x \o c)
<1> DEFINE n == Len(fs)
<1>1. /\ n \in Nat \ {0}
      /\ Len(Append(fs, f)) = n + 1 /\ Append(fs, f)[n + 1] = f
  BY EmptySeq
<1>2. PICK ts, s : Nested(G, Append(fs, f), ts) /\ Full(G, f, s) /\ x = ts[n + 1] \o s
  BY <1>1 DEF Given
<1>3. PICK us, l : Nested(G, fs, us) /\ Lead(G, fs[n], l) /\ ts[n + 1] = us[n] \o l
  <2>1. Nested(G, Append(fs, f), ts)
    BY <1>2
  <2>2. \E us, l : /\ Nested(G, fs, us) /\ Lead(G, fs[Len(fs)], l)
                   /\ ts[Len(fs) + 1] = us[Len(fs)] \o l
                   /\ \A g \in Frames : Nested(G, Append(fs, g), ts)
    BY <2>1, NestedBelow
  <2> QED BY <2>2
<1>4. us[n] \in Seq(Alphabet)
  BY <1>3, LastText
<1>5. s \in Seq(Alphabet) /\ l \in Seq(Alphabet) /\ c \in Seq(Alphabet)
  BY <1>2, <1>3, FullIsText DEF Lead, Texts
<1>6. Full(G, fs[n], l \o (s \o c))
  BY <1>2, <1>3 DEF Lead
<1>7. x \o c = us[n] \o (l \o (s \o c))
  <2>1. PICK y \in Seq(Alphabet) : y = us[n]
    BY <1>4
  <2>2. s \o c \in Seq(Alphabet) /\ y \o l \in Seq(Alphabet)
    BY <1>5
  <2>3. ((y \o l) \o s) \o c = (y \o l) \o (s \o c)
    BY <1>5, <2>2, ConcatAssociative, SMTT(30)
  <2>4. (y \o l) \o (s \o c) = y \o (l \o (s \o c))
    <3>1. PICK z \in Seq(Alphabet), m \in Seq(Alphabet) : z = s \o c /\ m = l
      BY <1>5, <2>2
    <3>2. (y \o m) \o z = y \o (m \o z)
      BY ConcatAssociative
    <3> QED BY <3>1, <3>2
  <2> QED BY <1>2, <1>3, <2>1, <2>3, <2>4
<1> HIDE DEF n
<1>8. Given(G, fs, us[n] \o (l \o (s \o c)))
  BY <1>3, <1>6 DEF Given, n
<1> QED BY <1>7, <1>8

\* The whole value is written.
LEMMA GivenAtLast ==
  ASSUME NEW G, NEW x, Given(G, <<DoneFrame>>, x)
  PROVE  Serves(G, DoneFrame, x)
<1> DEFINE fs == <<DoneFrame>>
<1>1. Len(fs) = 1 /\ fs[1] = DoneFrame
  BY DEF DoneFrame
<1> HIDE DEF fs
<1>2. PICK ts, s : Nested(G, fs, ts) /\ Full(G, DoneFrame, s) /\ x = ts[1] \o s
  BY <1>1 DEF Given, fs
<1>3. ts[1] = <<>> /\ s \in Seq(Alphabet)
  BY <1>2, FullIsText DEF Nested, Texts
<1>4. x = s
  BY <1>2, <1>3, ConcatEmptySeq
<1> QED BY <1>2, <1>4 DEF Full, DoneFrame
----------------------------------------------------------------------------
(***************************************************************************)
(* The text in the buffer, with the whitespace of its Fragments.           *)
(***************************************************************************)
\* Of b, a text that holds the Fragments of e.
Spoilt(e) == e \cap Unvalidated # {}
TextIn(e, b) == b \in Seq(FragmentTokens) /\ (Spoilt(e) \/ IsUtf8(b))
AwaitsIn(e, G, fs, b) == TextIn(e, b) /\ (Spoilt(e) \/ Awaits(G, fs, Json!NoSpace(b)))
GivenIn(e, G, fs, b) == TextIn(e, b) /\ (Spoilt(e) \/ Given(G, fs, Json!NoSpace(b)))

\* What the serializer writes by itself.
Marks == {l \in Texts : Json!NoSpace(l) = l}

\* What decodes does so with what decodes after it.
LEMMA TextGrows ==
  ASSUME NEW b \in Seq(FragmentTokens), NEW y \in Seq(FragmentTokens)
  PROVE  /\ b \o y \in Seq(FragmentTokens)
         /\ IsUtf8(b) /\ IsUtf8(y) => IsUtf8(b \o y)
         /\ Json!NoSpace(b \o y) = Json!NoSpace(b) \o Json!NoSpace(y)
<1> DEFINE u == b \o y
<1>1. /\ u \in Seq(FragmentTokens) /\ Len(u) = Len(b) + Len(y)
      /\ \A i \in 1 .. Len(b) : u[i] = b[i]
      /\ \A i \in 1 .. Len(y) : u[Len(b) + i] = y[i]
      /\ Len(b) \in Nat /\ Len(y) \in Nat
  OBVIOUS
<1> HIDE DEF u
<1>2. ASSUME IsUtf8(b), IsUtf8(y) PROVE IsUtf8(u)
  <2>1. ASSUME NEW i \in 1 .. Len(u) PROVE u[i] \notin BadStrings
    <3>1. CASE i <= Len(b)
      BY <1>1, <1>2, <3>1 DEF IsUtf8
    <3>2. CASE i > Len(b)
      <4>1. i - Len(b) \in 1 .. Len(y) /\ Len(b) + (i - Len(b)) = i
        BY <1>1, <3>2
      <4>2. u[i] = y[i - Len(b)]
        BY <1>1, <4>1
      <4> QED BY <1>2, <4>1, <4>2 DEF IsUtf8
    <3> QED BY <1>1, <3>1, <3>2
  <2> QED BY <1>1, <2>1 DEF IsUtf8
<1>3. Json!NoSpace(u) = Json!NoSpace(b) \o Json!NoSpace(y)
  BY Json!NoSpaceConcat DEF u
<1> QED BY <1>1, <1>2, <1>3 DEF u

LEMMA MarksArePlain ==
  ASSUME NEW l \in Marks
  PROVE  l \in Seq(FragmentTokens) /\ IsUtf8(l) /\ Json!NoSpace(l) = l /\ l \in Texts
<1>1. l \in Seq(Alphabet) /\ Json!NoSpace(l) = l
  BY DEF Marks, Texts
<1>2. Alphabet \subseteq FragmentTokens /\ Alphabet \cap BadStrings = {}
  BY SameAlphabet, FragmentsAssumption DEF FragmentTokens, Alphabet
<1>3. \A i \in 1 .. Len(l) : l[i] \in Alphabet
  BY <1>1
<1>4. l \in Seq(FragmentTokens)
  BY <1>1, <1>2, <1>3
<1> QED BY <1>1, <1>2, <1>3, <1>4 DEF IsUtf8, Texts

LEMMA MarkTokens ==
  /\ \A t \in Alphabet : <<t>> \in Marks
  /\ \A k, l \in Marks : k \o l \in Marks
  /\ \A k \in Keys : <<k, ":">> \in Marks
<1>1. ASSUME NEW t \in Alphabet PROVE <<t>> \in Marks
  <2>1. t # "ws"
    BY SameAlphabet, FragmentsAssumption DEF Alphabet
  <2>2. Json!NoSpace(<<t>>) = <<t>>
    BY <2>1, Json!NoSpaceToken
  <2> QED BY <2>2 DEF Marks, Texts
<1>2. ASSUME NEW k \in Marks, NEW l \in Marks PROVE k \o l \in Marks
  <2>1. k \in Seq(Alphabet) /\ l \in Seq(Alphabet) /\ Json!NoSpace(k) = k /\ Json!NoSpace(l) = l
    BY DEF Marks, Texts
  <2>2. Json!NoSpace(k \o l) = Json!NoSpace(k) \o Json!NoSpace(l)
    BY <2>1, Json!NoSpaceConcat
  <2> QED BY <2>1, <2>2 DEF Marks, Texts
<1>3. ASSUME NEW k \in Keys PROVE <<k, ":">> \in Marks
  <2>1. k \in Alphabet /\ ":" \in Alphabet
    BY DEF Alphabet, Json!Alphabet
  <2>2. <<k>> \o <<":">> = <<k, ":">>
    <3> DEFINE u == <<k>> \o <<":">>
               w == <<k, ":">>
    <3>1. /\ u \in Seq(Alphabet) /\ Len(u) = 2 /\ u[1] = k /\ u[2] = ":"
          /\ w \in Seq(Alphabet) /\ Len(w) = 2 /\ w[1] = k /\ w[2] = ":"
      BY <2>1
    <3> HIDE DEF u, w
    <3>2. \A i \in 1 .. 2 : u[i] = w[i]
      BY <3>1
    <3>3. u = [i \in 1 .. 2 |-> u[i]] /\ w = [i \in 1 .. 2 |-> w[i]]
      BY <3>1
    <3>4. u = w
      BY <3>2, <3>3
    <3> QED BY <3>4 DEF u, w
  <2> QED BY <1>1, <1>2, <2>1, <2>2
<1> QED BY <1>1, <1>2, <1>3

\* A scalar is written as a value, unless it is a Fragment nobody validated.
LEMMA WrittenScalar ==
  ASSUME NEW v \in Scalars
  PROVE  /\ Written(v) \in Seq(FragmentTokens)
         /\ v \notin Unvalidated => IsUtf8(Written(v)) /\ Json!Values(Json!NoSpace(Written(v))) # {}
<1>1. CASE v \notin Fragments
  <2>1. v \in Scalars \ Fragments /\ v \in Alphabet /\ Written(v) = <<v>>
    BY <1>1 DEF Alphabet, Json!Alphabet, Written
  <2>2. Json!Values(<<v>>) # {}
    BY <2>1, Json!LeafIsValue DEF Json!IsValue
  <2>3. <<v>> \in Marks
    BY <2>1, MarkTokens
  <2> QED BY <2>1, <2>2, <2>3, MarksArePlain
<1>2. CASE v \in Fragments
  <2>1. Written(v) = Text[v] /\ Text[v] \in Seq(FragmentTokens)
    BY <1>2, FragmentsAssumption DEF Written
  <2>2. ASSUME v \notin Unvalidated
        PROVE  IsUtf8(Text[v]) /\ Json!Values(Json!NoSpace(Text[v])) # {}
    <3> DEFINE s == Text[v]
    <3>1. Json!Values(Json!NoSpace(s)) # {}
      BY <1>2, <2>2, FragmentsAssumption, SameValues, SameNoSpace
    <3>2. Json!NoSpace(s) \in Seq(Alphabet)
      BY <3>1, PhraseIsText DEF Texts
    <3>3. s \in Seq(FragmentTokens)
      BY <2>1
    <3> HIDE DEF s
    <3>4. ASSUME NEW i \in 1 .. Len(s) PROVE s[i] = "ws" \/ s[i] \in Alphabet
      <4>1. CASE s[i] # "ws"
        <5>1. PICK j \in 1 .. Len(Json!NoSpace(s)) : Json!NoSpace(s)[j] = s[i]
          BY <3>3, <4>1, Json!NoSpaceType
        <5>2. Json!NoSpace(s)[j] \in Alphabet
          BY <3>2
        <5> QED BY <5>1, <5>2
      <4> QED BY <4>1
    <3>5. BadStrings \cap (Alphabet \cup {"ws"}) = {}
      BY SameAlphabet, FragmentsAssumption DEF Alphabet
    <3>6. IsUtf8(s)
      BY <3>3, <3>4, <3>5 DEF IsUtf8
    <3> QED BY <3>1, <3>6 DEF s
  <2> QED BY <2>1, <2>2
<1> QED BY <1>1, <1>2
----------------------------------------------------------------------------
(***************************************************************************)
(* What each of the writes makes of the text.                              *)
(***************************************************************************)
LEMMA MarkGrows ==
  ASSUME NEW e, NEW b, TextIn(e, b), NEW l \in Marks
  PROVE  TextIn(e, b \o l) /\ Json!NoSpace(b \o l) = Json!NoSpace(b) \o l
<1>1. l \in Seq(FragmentTokens) /\ IsUtf8(l) /\ Json!NoSpace(l) = l
  BY MarksArePlain
<1>2. b \in Seq(FragmentTokens) /\ (Spoilt(e) \/ IsUtf8(b))
  BY DEF TextIn
<1>3. /\ b \o l \in Seq(FragmentTokens)
      /\ IsUtf8(b) => IsUtf8(b \o l)
      /\ Json!NoSpace(b \o l) = Json!NoSpace(b) \o l
  BY <1>1, <1>2, TextGrows
<1> QED BY <1>2, <1>3, Zenon DEF TextIn

LEMMA ScalarText ==
  ASSUME NEW e, NEW G, NEW fs \in Seq(Frames), fs # <<>>, NEW b, AwaitsIn(e, G, fs, b),
         NEW v \in Scalars,
         Known(G) => G.given[fs[Len(fs)]] = CHOOSE x \in Json!Values(Json!NoSpace(Written(v))) : TRUE
  PROVE  GivenIn(e \cup ({v} \cap Fragments), G, fs, b \o Written(v))
<1> DEFINE d == e \cup ({v} \cap Fragments)
<1>1. PICK y \in Seq(FragmentTokens) : y = Written(v)
  BY WrittenScalar
<1>2. b \in Seq(FragmentTokens) /\ b \o y \in Seq(FragmentTokens)
  BY TextGrows DEF AwaitsIn, TextIn
<1>3. CASE v \in Unvalidated
  <2>1. Spoilt(d)
    BY <1>3, FragmentsAssumption DEF Spoilt
  <2> QED BY <1>1, <1>2, <2>1 DEF GivenIn, TextIn
<1>4. CASE Spoilt(e)
  <2>1. Spoilt(d)
    BY <1>4 DEF Spoilt
  <2> QED BY <1>1, <1>2, <2>1 DEF GivenIn, TextIn
<1>5. CASE v \notin Unvalidated /\ ~Spoilt(e)
  <2>1. IsUtf8(y) /\ Serves(G, fs[Len(fs)], Json!NoSpace(y))
    BY <1>1, <1>5, WrittenScalar DEF Serves
  <2>2. IsUtf8(b) /\ Awaits(G, fs, Json!NoSpace(b))
    BY <1>5 DEF AwaitsIn, TextIn
  <2>3. IsUtf8(b \o y) /\ Json!NoSpace(b \o y) = Json!NoSpace(b) \o Json!NoSpace(y)
    BY <1>2, <2>1, <2>2, TextGrows
  <2>4. Given(G, fs, Json!NoSpace(b) \o Json!NoSpace(y))
    BY <2>1, <2>2, GivenValue
  <2> HIDE DEF d
  <2>5. GivenIn(d, G, fs, b \o y)
    BY <1>2, <2>3, <2>4 DEF GivenIn, TextIn
  <2> QED BY <1>1, <2>5 DEF d
<1> QED BY <1>3, <1>4, <1>5

\* A container without items.
LEMMA EmptyText ==
  ASSUME NEW e, NEW G, NEW fs \in Seq(Frames), fs # <<>>, NEW b, AwaitsIn(e, G, fs, b),
         NEW l \in Marks, Serves(G, fs[Len(fs)], l)
  PROVE  GivenIn(e, G, fs, b \o l)
<1>1. TextIn(e, b \o l) /\ Json!NoSpace(b \o l) = Json!NoSpace(b) \o l
  BY MarkGrows DEF AwaitsIn
<1>2. Awaits(G, fs, Json!NoSpace(b)) => Given(G, fs, Json!NoSpace(b) \o l)
  BY GivenValue
<1> QED BY <1>1, <1>2 DEF AwaitsIn, GivenIn

LEMMA OpenText ==
  ASSUME NEW e, NEW G, NEW fs \in Seq(Frames), fs # <<>>, NEW b, AwaitsIn(e, G, fs, b),
         NEW f \in Frames, NEW l \in Marks, Lead(G, f, l)
  PROVE  AwaitsIn(e, G, Append(fs, f), b \o l)
<1>1. TextIn(e, b \o l) /\ Json!NoSpace(b \o l) = Json!NoSpace(b) \o l
  BY MarkGrows DEF AwaitsIn
<1>2. Awaits(G, fs, Json!NoSpace(b)) => Awaits(G, Append(fs, f), Json!NoSpace(b) \o l)
  BY AwaitsFirstItem
<1> QED BY <1>1, <1>2 DEF AwaitsIn

LEMMA NextText ==
  ASSUME NEW e, NEW G, NEW fs \in Seq(Frames), fs # <<>>, NEW f \in Frames, NEW g \in Frames,
         NEW b, GivenIn(e, G, Append(fs, f), b), NEW l \in Marks,
         \A s : Full(G, f, s) => Lead(G, g, s \o l)
  PROVE  AwaitsIn(e, G, Append(fs, g), b \o l)
<1>1. TextIn(e, b \o l) /\ Json!NoSpace(b \o l) = Json!NoSpace(b) \o l
  BY MarkGrows DEF GivenIn
<1>2. l \in Texts
  BY MarksArePlain
<1>3. Given(G, Append(fs, f), Json!NoSpace(b)) => Awaits(G, Append(fs, g), Json!NoSpace(b) \o l)
  BY <1>2, AwaitsNextItem
<1> QED BY <1>1, <1>3 DEF AwaitsIn, GivenIn

LEMMA ClosedText ==
  ASSUME NEW e, NEW G, NEW fs \in Seq(Frames), fs # <<>>, NEW f \in Frames,
         NEW b, GivenIn(e, G, Append(fs, f), b), NEW c \in Marks,
         \A s : Full(G, f, s) => Serves(G, fs[Len(fs)], s \o c)
  PROVE  GivenIn(e, G, fs, b \o c)
<1>1. TextIn(e, b \o c) /\ Json!NoSpace(b \o c) = Json!NoSpace(b) \o c
  BY MarkGrows DEF GivenIn
<1>2. c \in Texts
  BY MarksArePlain
<1>3. Given(G, Append(fs, f), Json!NoSpace(b)) => Given(G, fs, Json!NoSpace(b) \o c)
  BY <1>2, GivenContainer
<1> QED BY <1>1, <1>3 DEF GivenIn
----------------------------------------------------------------------------
(***************************************************************************)
(* The inductive invariant: unless it holds an unvalidated Fragment, the   *)
(* text awaits a value whenever one is to be written, and has been given   *)
(* it whenever one has been.  When the hook changes nothing, it denotes    *)
(* the documents of the graph.                                             *)
(***************************************************************************)
Meaning ==
  IF Static
  THEN [of |-> "graph", part |-> Part, given |-> [f \in Frames |-> Documents[Awaited[f]]]]
  ELSE [of |-> "text"]

TextInv ==
  /\ TextIn(embedded, buffer)
  /\ result = Running /\ last.tag = "Thunk" => AwaitsIn(embedded, Meaning, Pending, buffer)
  /\ result = Running /\ last.tag = "Ok" => GivenIn(embedded, Meaning, stack, buffer)
  /\ result = Ok => HoldsUnvalidated \/ Serves(Meaning, DoneFrame, Json!NoSpace(buffer))

WritingInv == IInv /\ (Static => UnfoldInv) /\ TextInv

LEMMA MeaningIs ==
  /\ Known(Meaning) <=> Static
  /\ Known(Meaning) => Meaning.part = Part
  /\ Known(Meaning) => \A f \in Frames : Meaning.given[f] = Documents[Awaited[f]]
BY DEF Known, Meaning

\* What is written for the value that f waits for.
LEMMA GivenTurned ==
  ASSUME Known(Meaning), heap \in Graphs, NEW f \in Frames,
         NEW v \in Unfoldable, <<Awaited[f], v>> \in Turned
  PROVE  Meaning.given[f] = Documents[v]
BY MeaningIs, TurnsBack

LEMMA MeaningStays ==
  ASSUME IInv, Static => UnfoldInv, [Next]_vars
  PROVE  (Static' <=> Static) /\ Meaning' = Meaning
<1>1. hook' = hook
  <2>1. Push => hook' = hook
    BY DEF Push
  <2>2. WriteItem \/ WriteHooked => hook' = hook
    BY <2>1, Zenon DEF WriteItem, WriteHooked
  <2>3. ASSUME NEW op, Resume(op) PROVE hook' = hook
    BY <2>3 DEF Resume
  <2>4. ContinueSequence \/ ContinueDict \/ Finish => hook' = hook
    BY <2>3, Zenon DEF ContinueSequence, ContinueDict, Finish
  <2>5. Fail \/ Exhausted \/ UNCHANGED vars => hook' = hook
    BY DEF Fail, Exhausted, vars
  <2> QED BY <2>2, <2>4, <2>5 DEF Next, Iterate, Returned
<1>2. Static' <=> Static
  BY <1>1 DEF Static, HookIsStatic
<1>3. CASE Static
  <2>1. Frozen
    BY <1>3, StepUnfoldInv
  <2>2. Documents' = Documents /\ Awaited' = Awaited /\ Part' = Part
    BY <2>1, FrozenDocuments
  <2> QED BY <1>2, <1>3, <2>2 DEF Meaning
<1>4. CASE ~Static
  BY <1>2, <1>4 DEF Meaning
<1> QED BY <1>2, <1>3, <1>4

LEMMA InitTextInv == Init => TextInv
<1> SUFFICES ASSUME Init PROVE TextInv
  OBVIOUS
<1>1. /\ buffer = <<>> /\ embedded = {} /\ result = Running
      /\ last.tag = "Thunk" /\ Pending = Append(<<>>, DoneFrame)
  BY DEF Init, Thunk, Pending
<1>2. Pending = <<DoneFrame>> /\ DoneFrame \in Frames
  BY <1>1 DEF Frames
<1>3. TextIn({}, <<>>)
  BY EmptySeq DEF TextIn, IsUtf8
<1>4. Json!NoSpace(<<>>) = <<>>
  <2>1. <<>> \in Seq(Alphabet) /\ Len(<<>>) = 0
    BY EmptySeq
  <2>2. Json!Kept(<<>>)[0] = <<>>
    BY <2>1, Json!KeptEquation
  <2> QED BY <2>1, <2>2 DEF Json!NoSpace
<1>5. AwaitsIn(embedded, Meaning, Pending, buffer)
  BY <1>1, <1>2, <1>3, <1>4, AwaitsAtFirst DEF AwaitsIn
<1>6. result # Ok
  BY <1>1 DEF Running, Ok
<1> QED BY <1>1, <1>3, <1>5, <1>6 DEF TextInv

\* What an iteration that goes on has to establish.
LEMMA TextAfter ==
  ASSUME Meaning' = Meaning, result' = Running,
         \/ last' = Ok /\ GivenIn(embedded', Meaning, stack', buffer')
         \/ last'.tag = "Err" /\ TextIn(embedded', buffer')
         \/ \E v, g : last' = Thunk(v, g) /\ AwaitsIn(embedded', Meaning, Append(stack', g), buffer')
  PROVE  TextInv'
<1>1. result' # Ok
  BY DEF Running, Ok
<1>2. CASE last' = Ok /\ GivenIn(embedded', Meaning, stack', buffer')
  <2>1. last'.tag = "Ok"
    BY <1>2 DEF Ok
  <2> QED BY <1>1, <1>2, <2>1 DEF TextInv, GivenIn
<1>3. CASE last'.tag = "Err" /\ TextIn(embedded', buffer')
  BY <1>1, <1>3 DEF TextInv
<1>4. ASSUME NEW v, NEW g, last' = Thunk(v, g), AwaitsIn(embedded', Meaning, Append(stack', g), buffer')
      PROVE  TextInv'
  <2>1. last'.tag = "Thunk" /\ last'.continuation = g
    BY <1>4 DEF Thunk
  <2>2. Pending' = Append(stack', g)
    BY <2>1 DEF Pending
  <2> QED BY <1>1, <1>4, <2>1, <2>2 DEF TextInv, AwaitsIn
<1> QED BY <1>2, <1>3, <1>4

\* A frame that the iteration hands on.
LEMMA HandedOn ==
  ASSUME IInv', NEW v, NEW g, last' = Thunk(v, g)
  PROVE  g \in Frames
<1>1. last'.tag = "Thunk" /\ last'.continuation = g
  BY DEF Thunk
<1>2. last' \in [tag : {"Thunk"}, item : Values, continuation : Frames]
  BY <1>1 DEF IInv, TypeOK, Ok, Failures
<1> QED BY <1>1, <1>2

LEMMA TopIsFrame ==
  ASSUME NEW fs \in Seq(Frames), fs # <<>>
  PROVE  \E b \in Frames : b = fs[Len(fs)]
BY EmptySeq

LEMMA FirstAppended == \A x : Append(<<>>, x) = <<x>>
OBVIOUS

LEMMA BracketMarks ==
  /\ <<"[">> \in Marks /\ <<"]">> \in Marks /\ <<"lbrace">> \in Marks /\ <<"rbrace">> \in Marks
  /\ <<"comma">> \in Marks
  /\ <<"[">> \o <<"]">> \in Marks /\ <<"lbrace">> \o <<"rbrace">> \in Marks
<1>1. {"[", "]", "lbrace", "rbrace", "comma"} \subseteq Alphabet
  BY DEF Alphabet, Json!Alphabet
<1> QED BY <1>1, MarkTokens

\* Appending a token, and two.
LEMMA Appended ==
  ASSUME NEW b \in Seq(FragmentTokens), NEW t, <<t>> \in Marks
  PROVE  /\ Append(b, t) = b \o <<t>> /\ b \o <<t>> \in Seq(FragmentTokens)
         /\ \A l \in Marks : (b \o <<t>>) \o l = b \o (<<t>> \o l)
<1>1. <<t>> \in Seq(FragmentTokens)
  BY MarksArePlain
<1>2. t \in FragmentTokens
  <2>1. <<t>>[1] = t /\ 1 \in 1 .. Len(<<t>>)
    OBVIOUS
  <2> QED BY <1>1, <2>1
<1>3. Append(b, t) = b \o <<t>> /\ b \o <<t>> \in Seq(FragmentTokens)
  BY <1>1, <1>2, AppendIsConcat
<1>4. ASSUME NEW l \in Marks PROVE (b \o <<t>>) \o l = b \o (<<t>> \o l)
  <2>1. l \in Seq(FragmentTokens)
    BY MarksArePlain
  <2> QED BY <1>1, <2>1, ConcatAssociative
<1> QED BY <1>3, <1>4

\* Only the writing of a scalar writes a Fragment.
LEMMA NoFragment ==
  /\ \A h, f, out, s, c : NextOfSequence(h, f, out, s, c) => embedded' = embedded
  /\ \A h, f, out, s, c : NextOfDict(h, f, out, s, c) => embedded' = embedded
<1>1. \A r, out, s : Yield(r, out, s) => embedded' = embedded
  BY Zenon DEF Yield
<1>2. \A out, s, bracket : Close(out, s, bracket) => embedded' = embedded
  BY <1>1, Zenon DEF Close
<1>3. ASSUME NEW h, NEW f, NEW out, NEW s, NEW c, NextOfSequence(h, f, out, s, c)
      PROVE  embedded' = embedded
  BY <1>1, <1>2, <1>3, Zenon DEF NextOfSequence
<1>4. ASSUME NEW h, NEW f, NEW out, NEW s, NEW c, NextOfDict(h, f, out, s, c)
      PROVE  embedded' = embedded
  BY <1>1, <1>2, <1>4, Zenon DEF NextOfDict
<1>5. \A h, f, out, s, c : NextOfSequence(h, f, out, s, c) => embedded' = embedded
  BY <1>3
<1>6. \A h, f, out, s, c : NextOfDict(h, f, out, s, c) => embedded' = embedded
  BY <1>4
<1> QED BY <1>5, <1>6

\* A list or tuple is opened, and closed at once when it has no items.
LEMMA OpenedSequenceText ==
  ASSUME IInv', Meaning' = Meaning, result' = Running, embedded' = embedded,
         stack' \in Seq(Frames), stack' # <<>>, AwaitsIn(embedded, Meaning, stack', buffer),
         NEW f, SequenceText(f, Append(buffer, "["), <<>>),
         Static => /\ heap \in Graphs /\ Part[f] = <<>>
                   /\ <<Awaited[stack'[Len(stack')]], f.object>> \in Turned
  PROVE  TextInv'
<1>1. /\ buffer \in Seq(FragmentTokens)
      /\ Append(buffer, "[") = buffer \o <<"[">> /\ buffer \o <<"[">> \in Seq(FragmentTokens)
  BY Appended, BracketMarks DEF AwaitsIn, TextIn
<1>2. PICK b \in Frames : b = stack'[Len(stack')]
  BY TopIsFrame
<1>3. ASSUME last' = Ok, buffer' = Append(Append(buffer, "["), "]"),
             Static => f.object \in Unfoldable /\ Documents[f.object] = Grammar!PyList(Part[f])
      PROVE  TextInv'
  <2>1. buffer' = (buffer \o <<"[">>) \o <<"]">>
    BY <1>1, <1>3, Appended, BracketMarks, ZenonT(60)
  <2>2. buffer' = buffer \o (<<"[">> \o <<"]">>)
    BY <1>1, <2>1, Appended, BracketMarks
  <2>3. Known(Meaning) => Meaning.given[b] = Json!PyList(<<>>)
    BY <1>2, <1>3, MeaningIs, GivenTurned, SameMakers
  <2>4. Serves(Meaning, b, <<"[">> \o <<"]">>)
    BY <2>3, EmptyServes
  <2>5. GivenIn(embedded, Meaning, stack', buffer \o (<<"[">> \o <<"]">>))
    BY <1>2, <2>4, BracketMarks, EmptyText
  <2> QED BY <1>3, <2>2, <2>5, TextAfter
<1>4. ASSUME NEW v, NEW g, last' = Thunk(v, g), g.op = "SerializingSequence",
             buffer' = Append(buffer, "[") \o <<>>,
             Static => v = Awaited[g] /\ Part[g] = Append(Part[f], Documents[v])
      PROVE  TextInv'
  <2>1. buffer' = buffer \o <<"[">>
    BY <1>1, <1>4, ConcatEmptySeq
  <2>2. g \in Frames
    BY <1>4, HandedOn
  <2>3. Known(Meaning) => Meaning.part[g] = <<Meaning.given[g]>>
    <3>1. Known(Meaning) => Meaning.part[g] = Append(<<>>, Meaning.given[g])
      BY <1>4, <2>2, MeaningIs
    <3> QED BY <3>1, FirstAppended
  <2>4. Lead(Meaning, g, <<"[">>)
    BY <1>4, <2>3, LeadOfList
  <2>5. AwaitsIn(embedded, Meaning, Append(stack', g), buffer \o <<"[">>)
    BY <2>2, <2>4, BracketMarks, OpenText
  <2> QED BY <1>4, <2>1, <2>5, TextAfter
<1> QED BY <1>3, <1>4 DEF SequenceText

LEMMA OpenedDictText ==
  ASSUME IInv', Meaning' = Meaning, result' = Running, embedded' = embedded,
         stack' \in Seq(Frames), stack' # <<>>, AwaitsIn(embedded, Meaning, stack', buffer),
         NEW f, DictText(f, Append(buffer, "lbrace"), <<>>),
         Static => /\ heap \in Graphs /\ Part[f] = <<>>
                   /\ <<Awaited[stack'[Len(stack')]], f.object>> \in Turned
  PROVE  TextInv'
<1>1. /\ buffer \in Seq(FragmentTokens)
      /\ Append(buffer, "lbrace") = buffer \o <<"lbrace">>
      /\ buffer \o <<"lbrace">> \in Seq(FragmentTokens)
  BY Appended, BracketMarks DEF AwaitsIn, TextIn
<1>2. PICK b \in Frames : b = stack'[Len(stack')]
  BY TopIsFrame
<1>3. ASSUME last' = Ok, buffer' = Append(Append(buffer, "lbrace"), "rbrace"),
             Static => f.object \in Unfoldable /\ Documents[f.object] = Grammar!DictOf(Part[f])
      PROVE  TextInv'
  <2>1. buffer' = (buffer \o <<"lbrace">>) \o <<"rbrace">>
    BY <1>1, <1>3, Appended, BracketMarks, ZenonT(60)
  <2>2. buffer' = buffer \o (<<"lbrace">> \o <<"rbrace">>)
    BY <1>1, <2>1, Appended, BracketMarks
  <2>3. Known(Meaning) => Meaning.given[b] = Json!DictOf(<<>>)
    BY <1>2, <1>3, MeaningIs, GivenTurned, SameMakers
  <2>4. Serves(Meaning, b, <<"lbrace">> \o <<"rbrace">>)
    BY <2>3, EmptyServes
  <2>5. GivenIn(embedded, Meaning, stack', buffer \o (<<"lbrace">> \o <<"rbrace">>))
    BY <1>2, <2>4, BracketMarks, EmptyText
  <2> QED BY <1>3, <2>2, <2>5, TextAfter
<1>4. CASE last'.tag = "Err" /\ buffer' = Append(buffer, "lbrace") \o <<>>
  <2>1. buffer' = buffer \o <<"lbrace">>
    BY <1>1, <1>4, ConcatEmptySeq
  <2>2. TextIn(embedded, buffer \o <<"lbrace">>)
    BY MarkGrows, BracketMarks DEF AwaitsIn
  <2> QED BY <1>4, <2>1, <2>2, TextAfter
<1>5. ASSUME NEW v, NEW g, NEW k \in Keys, last' = Thunk(v, g), g.op = "SerializingDict",
             buffer' = Append(buffer, "lbrace") \o <<>> \o <<k, ":">>,
             Static => /\ v = Awaited[g]
                       /\ Part[g] = Append(Part[f], <<Grammar!Leaf(k), Documents[v]>>)
      PROVE  TextInv'
  <2>1. <<k, ":">> \in Marks /\ <<"lbrace">> \o <<k, ":">> \in Marks
    BY BracketMarks, MarkTokens
  <2>2. buffer' = (buffer \o <<"lbrace">>) \o <<k, ":">>
    <3>1. Append(buffer, "lbrace") \o <<>> = buffer \o <<"lbrace">>
      BY <1>1, ConcatEmptySeq
    <3> QED BY <1>5, <3>1
  <2>3. buffer' = buffer \o (<<"lbrace">> \o <<k, ":">>)
    BY <1>1, <2>1, <2>2, Appended, BracketMarks
  <2>4. g \in Frames
    BY <1>5, HandedOn
  <2>5. Known(Meaning) => Meaning.part[g] = <<<<Json!Leaf(k), Meaning.given[g]>>>>
    <3>1. Known(Meaning) => Meaning.part[g] = Append(<<>>, <<Json!Leaf(k), Meaning.given[g]>>)
      BY <1>5, <2>4, MeaningIs, SameMakers
    <3> QED BY <3>1, FirstAppended
  <2>6. Lead(Meaning, g, <<"lbrace">> \o <<k, ":">>)
    BY <1>5, <2>5, LeadOfDict
  <2>7. AwaitsIn(embedded, Meaning, Append(stack', g), buffer \o (<<"lbrace">> \o <<k, ":">>))
    BY <2>1, <2>4, <2>6, OpenText
  <2> QED BY <1>5, <2>3, <2>7, TextAfter
<1> QED BY <1>3, <1>4, <1>5 DEF DictText

\* any_to_json_native, inside the frames that wait.
LEMMA NativeText ==
  ASSUME IInv', Meaning' = Meaning, result' = Running,
         stack' \in Seq(Frames), stack' # <<>>, AwaitsIn(embedded, Meaning, stack', buffer),
         NEW h \in Graphs, NEW v, WriteNative(h, v),
         Static => h = heap /\ <<Awaited[stack'[Len(stack')]], v>> \in Turned
  PROVE  TextInv'
<1>1. PICK b \in Frames : b = stack'[Len(stack')]
  BY TopIsFrame
<1>2. CASE v \in Scalars /\ WriteScalar(v)
  <2>1. Known(Meaning) =>
          Meaning.given[b] = CHOOSE x \in Grammar!Values(Grammar!NoSpace(Written(v))) : TRUE
    BY <1>1, <1>2, MeaningIs, ScalarUnfolds, GivenTurned
  <2>2. Grammar!Values(Grammar!NoSpace(Written(v))) = Json!Values(Json!NoSpace(Written(v)))
    BY SameValues, SameNoSpace
  <2>3. Known(Meaning) =>
          Meaning.given[b] = CHOOSE x \in Json!Values(Json!NoSpace(Written(v))) : TRUE
    BY <2>1, <2>2
  <2>4. GivenIn(embedded \cup ({v} \cap Fragments), Meaning, stack', buffer \o Written(v))
    BY <1>1, <1>2, <2>3, ScalarText
  <2> QED BY <1>2, <2>4, TextAfter DEF WriteScalar
<1>3. ASSUME NEW e, Yield(Err(e), buffer, objectStack) PROVE TextInv'
  BY <1>3, TextAfter DEF Yield, AwaitsIn, Err
<1>4. ASSUME TypeIn(h, v) \in {"list", "tuple"},
             NextOfSequence(h, SequenceFrame(v, 1, Len(h[v].items)),
                            Append(buffer, "["), PushObject(v), <<>>)
      PROVE  TextInv'
  <2>1. PICK f : f = SequenceFrame(v, 1, Len(h[v].items))
    OBVIOUS
  <2>2. v \in Addresses /\ h[v].type \in {"list", "tuple"}
    BY <1>4 DEF TypeIn
  <2>3. f \in SequenceFrames /\ f.object = v
    <3>1. Len(h[v].items) \in Nat
      BY <2>2, ItemsOfKind
    <3> QED BY <2>1, <2>2, <3>1 DEF SequenceFrame, SequenceFrames
  <2>4. Static => heap \in Graphs /\ h = heap /\ KindIn(heap, f) /\ Ready(f) /\ Part[f] = <<>>
    BY <2>1, <2>2, SequenceIsReady
  <2>5. SequenceText(f, Append(buffer, "["), <<>>)
    BY <1>4, <2>1, <2>3, <2>4, SequenceWrites
  <2>6. embedded' = embedded
    BY <1>4, NoFragment
  <2> QED BY <2>3, <2>4, <2>5, <2>6, OpenedSequenceText
<1>5. ASSUME TypeIn(h, v) = "dict",
             LET n == DictLen(h[v].items) IN
             NextOfDict(h, DictFrame(v, 1, n, n), Append(buffer, "lbrace"), PushObject(v), <<>>)
      PROVE  TextInv'
  <2>1. PICK f : f = DictFrame(v, 1, DictLen(h[v].items), DictLen(h[v].items))
    OBVIOUS
  <2>2. v \in Addresses /\ h[v].type = "dict" /\ f.object = v
    BY <1>5, <2>1 DEF TypeIn, DictFrame
  <2>3. Static => /\ heap \in Graphs /\ h = heap /\ f \in DictFrames /\ KindIn(heap, f)
                  /\ Ready(f) /\ Part[f] = <<>>
    BY <2>1, <2>2, DictIsReady
  <2>4. DictText(f, Append(buffer, "lbrace"), <<>>)
    BY <1>5, <2>1, <2>3, DictWrites
  <2>5. embedded' = embedded
    BY <1>5, NoFragment
  <2> QED BY <2>2, <2>3, <2>4, <2>5, OpenedDictText
<1> QED BY Zenon, <1>2, <1>3, <1>4, <1>5 DEF WriteNative

LEMMA WriteItemText ==
  ASSUME IInv, Static => UnfoldInv, TextInv, IInv', Meaning' = Meaning, WriteItem
  PROVE  TextInv'
<1>1. /\ Push /\ result = Running /\ last.tag = "Thunk" /\ stack' = Pending
      /\ result' = Running /\ heap \in Graphs
  BY DEF WriteItem, Push, Pending, IInv, TypeOK
<1>2. stack' \in Seq(Frames) /\ stack' # <<>> /\ last.item \in Values
  BY <1>1, AfterPush DEF WellFormed
<1>3. AwaitsIn(embedded, Meaning, stack', buffer)
  BY <1>1 DEF TextInv
<1>4. CASE WriteNative(heap, last.item)
  <2>1. TypeIn(heap, last.item) # "other"
    BY <1>4, GraphsAssumption, Zenon DEF WriteNative, TypeIn
  <2>2. <<last.item, last.item>> \in Turned
    BY <1>2, <2>1 DEF Turned
  <2>3. Static => <<Awaited[stack'[Len(stack')]], last.item>> \in Turned
    BY <1>1, <2>2 DEF UnfoldInv
  <2> QED BY <1>1, <1>2, <1>3, <1>4, <2>3, NativeText
<1>5. CASE Yield(Err("ValueError"), buffer, objectStack)
  BY <1>1, <1>3, <1>5, TextAfter DEF Yield, Err, AwaitsIn
<1> QED BY <1>4, <1>5 DEF WriteItem

LEMMA WriteHookedText ==
  ASSUME IInv, Static => UnfoldInv, TextInv, IInv', Meaning' = Meaning, WriteHooked
  PROVE  TextInv'
<1>1. /\ Push /\ result = Running /\ last.tag = "Thunk" /\ stack' = Pending
      /\ result' = Running /\ heap \in Graphs /\ heap' \in Graphs
  <2>1. heap \in Graphs /\ heap' \in Graphs
    BY DEF IInv, TypeOK
  <2>2. Push
    BY Zenon DEF WriteHooked
  <2> QED BY <2>1, <2>2 DEF Push, Pending
<1>2. stack' \in Seq(Frames) /\ stack' # <<>>
  BY <1>1, AfterPush DEF WellFormed
<1>3. AwaitsIn(embedded, Meaning, stack', buffer)
  BY <1>1 DEF TextInv
<1>4. ASSUME last'.tag = "Err", buffer' = buffer, embedded' = embedded PROVE TextInv'
  BY <1>1, <1>3, <1>4, TextAfter DEF AwaitsIn
<1>5. ASSUME NEW h \in Graphs, NEW v, WriteNative(h, v), ~Static PROVE TextInv'
  BY <1>1, <1>2, <1>3, <1>5, NativeText
<1>6. CASE Static
  <2>1. ASSUME NEW v \in Values, <<last.item, v>> \in Turned, WriteNative(heap, v)
        PROVE  TextInv'
    <3>1. last.item = Awaited[stack'[Len(stack')]]
      BY <1>1, <1>6 DEF UnfoldInv
    <3> QED BY <1>1, <1>2, <1>3, <2>1, <3>1, NativeText
  <2> QED BY <1>4, <1>6, <2>1, HookedUnfolds
<1>7. CASE ~Static
  <2>1. ASSUME NEW e, NEW s, Yield(Err(e), buffer, s) PROVE TextInv'
    BY <1>4, <2>1 DEF Yield, Err
  <2>2. ASSUME NEW e, heap' = e.heap, WriteNative(e.heap, e.value) PROVE TextInv'
    BY <1>1, <1>5, <1>7, <2>2
  <2>3. ASSUME NEW e, heap' = e.heap,
               \/ e.raises /\ Yield(Err("Custom"), buffer, PushObject(last.item))
               \/ ~e.raises /\ WriteNative(e.heap, e.value)
               \/ /\ ~e.raises /\ Unsupported(e.heap, e.value)
                  /\ Yield(Err("ValueError"), buffer, objectStack)
        PROVE  TextInv'
    BY Zenon, <2>1, <2>2, <2>3
  <2> QED BY Zenon, <2>1, <2>3 DEF WriteHooked
<1> QED BY <1>6, <1>7

\* The frames below the iterator that is resumed.
LEMMA Resumed ==
  ASSUME IInv, Static => UnfoldInv, TextInv, NEW op, Resume(op), op # "Done"
  PROVE  /\ stack' \in Seq(Frames) /\ stack' # <<>> /\ Top \in Frames /\ Top.op = op
         /\ Top \in Iterators /\ result = Running
         /\ GivenIn(embedded, Meaning, Append(stack', Top), buffer)
         /\ Static => /\ heap \in Graphs /\ KindIn(heap, Top) /\ Ready(Top)
                      /\ <<Awaited[stack'[Len(stack')]], Top.object>> \in Turned
<1>1. /\ stack' \in Seq(Frames) /\ WellFormed(heap, stack')
      /\ Top \in Iterators /\ Top.op = op /\ stack = Append(stack', Top) /\ result = Running
  BY AfterResume
<1>2. GivenIn(embedded, Meaning, stack, buffer)
  BY <1>1 DEF Resume, TextInv
<1>3. Static => /\ heap \in Graphs /\ KindIn(heap, Top) /\ Ready(Top)
                /\ <<Awaited[stack'[Len(stack')]], Top.object>> \in Turned
  BY ResumedIsReady
<1> QED BY <1>1, <1>2, <1>3, FrameKinds DEF WellFormed

LEMMA ContinueSequenceText ==
  ASSUME IInv, Static => UnfoldInv, TextInv, IInv', Meaning' = Meaning, ContinueSequence
  PROVE  TextInv'
<1>1. /\ Resume("SerializingSequence") /\ UNCHANGED result
      /\ NextOfSequence(heap, Top, buffer, objectStack, <<"comma">>)
  BY DEF ContinueSequence
<1>2. /\ stack' \in Seq(Frames) /\ stack' # <<>> /\ Top \in Frames /\ result' = Running
      /\ embedded' = embedded /\ Top.op = "SerializingSequence" /\ Top \in Iterators
      /\ GivenIn(embedded, Meaning, Append(stack', Top), buffer)
      /\ Static => /\ heap \in Graphs /\ KindIn(heap, Top) /\ Ready(Top)
                   /\ <<Awaited[stack'[Len(stack')]], Top.object>> \in Turned
  BY <1>1, NoFragment, Resumed
<1>3. Top \in SequenceFrames /\ buffer \in Seq(FragmentTokens)
  BY <1>2, FrameKinds DEF Iterators, GivenIn, TextIn
<1>4. PICK b \in Frames : b = stack'[Len(stack')]
  BY <1>2, TopIsFrame
<1>5. SequenceText(Top, buffer, <<"comma">>)
  BY <1>1, <1>2, <1>3, SequenceWrites
<1>6. ASSUME last' = Ok, buffer' = Append(buffer, "]"),
             Static => Top.object \in Unfoldable /\ Documents[Top.object] = Grammar!PyList(Part[Top])
      PROVE  TextInv'
  <2>1. buffer' = buffer \o <<"]">>
    BY <1>3, <1>6, Appended, BracketMarks
  <2>2. Known(Meaning) => Meaning.given[b] = Json!PyList(Meaning.part[Top])
    BY <1>2, <1>4, <1>6, MeaningIs, GivenTurned, SameMakers
  <2>3. ASSUME NEW s, Full(Meaning, Top, s) PROVE Serves(Meaning, b, s \o <<"]">>)
    BY <1>2, <2>2, <2>3, ClosedServes
  <2>4. GivenIn(embedded, Meaning, stack', buffer \o <<"]">>)
    BY <1>2, <1>4, <2>3, BracketMarks, ClosedText
  <2> QED BY <1>2, <1>6, <2>1, <2>4, TextAfter
<1>7. ASSUME NEW v, NEW g, last' = Thunk(v, g), g.op = "SerializingSequence",
             buffer' = buffer \o <<"comma">>,
             Static => v = Awaited[g] /\ Part[g] = Append(Part[Top], Documents[v])
      PROVE  TextInv'
  <2>1. g \in Frames
    BY <1>7, HandedOn
  <2>2. Known(Meaning) => Meaning.part[g] = Append(Meaning.part[Top], Meaning.given[g])
    BY <1>7, <2>1, MeaningIs
  <2>3. \A s : Full(Meaning, Top, s) => Lead(Meaning, g, s \o <<"comma">>)
    BY <1>2, <1>7, <2>2, LeadAfterItem
  <2>4. AwaitsIn(embedded, Meaning, Append(stack', g), buffer \o <<"comma">>)
    BY <1>2, <2>1, <2>3, BracketMarks, NextText
  <2> QED BY <1>2, <1>7, <2>4, TextAfter
<1> QED BY <1>5, <1>6, <1>7 DEF SequenceText

LEMMA ContinueDictText ==
  ASSUME IInv, Static => UnfoldInv, TextInv, IInv', Meaning' = Meaning, ContinueDict,
         ~DictPanics(heap, Top)
  PROVE  TextInv'
<1>1. /\ Resume("SerializingDict") /\ UNCHANGED result
      /\ NextOfDict(heap, Top, buffer, objectStack, <<"comma">>)
  BY DEF ContinueDict
<1>2. /\ stack' \in Seq(Frames) /\ stack' # <<>> /\ Top \in Frames /\ result' = Running
      /\ embedded' = embedded /\ Top.op = "SerializingDict" /\ Top \in Iterators
      /\ GivenIn(embedded, Meaning, Append(stack', Top), buffer)
      /\ Static => /\ heap \in Graphs /\ KindIn(heap, Top) /\ Ready(Top)
                   /\ <<Awaited[stack'[Len(stack')]], Top.object>> \in Turned
  BY <1>1, NoFragment, Resumed
<1>3. Top \in DictFrames /\ buffer \in Seq(FragmentTokens) /\ TextIn(embedded, buffer)
  BY <1>2, FrameKinds DEF Iterators, GivenIn, TextIn
<1>4. PICK b \in Frames : b = stack'[Len(stack')]
  BY <1>2, TopIsFrame
<1>5. DictText(Top, buffer, <<"comma">>)
  BY <1>1, <1>2, <1>3, DictWrites
<1>6. ASSUME last' = Ok, buffer' = Append(buffer, "rbrace"),
             Static => Top.object \in Unfoldable /\ Documents[Top.object] = Grammar!DictOf(Part[Top])
      PROVE  TextInv'
  <2>1. buffer' = buffer \o <<"rbrace">>
    BY <1>3, <1>6, Appended, BracketMarks
  <2>2. Known(Meaning) => Meaning.given[b] = Json!DictOf(Meaning.part[Top])
    BY <1>2, <1>4, <1>6, MeaningIs, GivenTurned, SameMakers
  <2>3. ASSUME NEW s, Full(Meaning, Top, s) PROVE Serves(Meaning, b, s \o <<"rbrace">>)
    BY <1>2, <2>2, <2>3, ClosedServes
  <2>4. GivenIn(embedded, Meaning, stack', buffer \o <<"rbrace">>)
    BY <1>2, <1>4, <2>3, BracketMarks, ClosedText
  <2> QED BY <1>2, <1>6, <2>1, <2>4, TextAfter
<1>7. CASE last'.tag = "Err" /\ buffer' = buffer \o <<"comma">>
  <2>1. TextIn(embedded, buffer \o <<"comma">>)
    BY <1>3, MarkGrows, BracketMarks
  <2> QED BY <1>2, <1>7, <2>1, TextAfter
<1>8. ASSUME NEW v, NEW g, NEW k \in Keys, last' = Thunk(v, g), g.op = "SerializingDict",
             buffer' = buffer \o <<"comma">> \o <<k, ":">>,
             Static => /\ v = Awaited[g]
                       /\ Part[g] = Append(Part[Top], <<Grammar!Leaf(k), Documents[v]>>)
      PROVE  TextInv'
  <2>1. g \in Frames
    BY <1>8, HandedOn
  <2>2. <<k, ":">> \in Marks /\ <<"comma">> \o <<k, ":">> \in Marks
    BY MarkTokens, BracketMarks
  <2>3. buffer' = buffer \o (<<"comma">> \o <<k, ":">>)
    <3>1. (buffer \o <<"comma">>) \o <<k, ":">> = buffer \o (<<"comma">> \o <<k, ":">>)
      BY <1>3, <2>2, Appended, BracketMarks
    <3> QED BY <1>8, <3>1
  <2>4. Known(Meaning) =>
          Meaning.part[g] = Append(Meaning.part[Top], <<Json!Leaf(k), Meaning.given[g]>>)
    BY <1>8, <2>1, MeaningIs, SameMakers
  <2>5. ASSUME NEW s, Full(Meaning, Top, s)
        PROVE  Lead(Meaning, g, s \o (<<"comma">> \o <<k, ":">>))
    <3>1. Lead(Meaning, g, (s \o <<"comma">>) \o <<k, ":">>)
      BY <1>2, <1>8, <2>4, <2>5, LeadAfterEntry
    <3>2. s \in Seq(Alphabet) /\ <<"comma">> \in Seq(Alphabet) /\ <<k, ":">> \in Seq(Alphabet)
      BY <2>5, FullIsText, TokensOfTexts DEF Texts
    <3>3. (s \o <<"comma">>) \o <<k, ":">> = s \o (<<"comma">> \o <<k, ":">>)
      BY <3>2, ConcatAssociative
    <3> QED BY <3>1, <3>3
  <2>6. AwaitsIn(embedded, Meaning, Append(stack', g), buffer \o (<<"comma">> \o <<k, ":">>))
    BY <1>2, <2>1, <2>2, <2>5, NextText
  <2> QED BY <1>2, <1>8, <2>3, <2>6, TextAfter
<1> QED BY <1>5, <1>6, <1>7, <1>8 DEF DictText

LEMMA FinishText ==
  ASSUME IInv, TextInv, Meaning' = Meaning, Finish
  PROVE  TextInv'
<1>1. /\ Resume("Done") /\ result = Running /\ last.tag = "Ok"
      /\ result' = Ok /\ UNCHANGED <<buffer, embedded, last>>
  BY DEF Finish, Resume
<1>2. GivenIn(embedded, Meaning, <<DoneFrame>>, buffer) /\ TextIn(embedded, buffer)
  BY <1>1, DoneIsLast DEF TextInv
<1>3. HoldsUnvalidated \/ Serves(Meaning, DoneFrame, Json!NoSpace(buffer))
  BY <1>2, GivenAtLast DEF GivenIn, Spoilt, HoldsUnvalidated
<1>4. result' # Running
  BY <1>1 DEF Ok, Running
<1> QED BY <1>1, <1>2, <1>3, <1>4 DEF TextInv, HoldsUnvalidated

LEMMA InitWritingInv == Init => WritingInv
BY InitIInv, InitUnfoldInv, InitTextInv DEF WritingInv

LEMMA StepWritingInv == WritingInv /\ [Next]_vars => WritingInv'
<1> SUFFICES ASSUME IInv, Static => UnfoldInv, TextInv, [Next]_vars PROVE WritingInv'
  BY DEF WritingInv
<1>1. IInv'
  BY StepIInv
<1>2. (Static' <=> Static) /\ Meaning' = Meaning
  BY MeaningStays
<1>3. Static' => UnfoldInv'
  BY <1>2, StepUnfoldInv
<1>4. TextInv'
  <2>1. CASE WriteItem
    BY <1>1, <1>2, <2>1, WriteItemText
  <2>2. CASE WriteHooked
    BY <1>1, <1>2, <2>2, WriteHookedText
  <2>3. CASE ContinueSequence
    BY <1>1, <1>2, <2>3, ContinueSequenceText
  <2>4. CASE ContinueDict /\ ~DictPanics(heap, Top)
    BY <1>1, <1>2, <2>4, ContinueDictText
  <2>5. CASE ContinueDict /\ DictPanics(heap, Top)
    BY <2>5 DEF ContinueDict, Panic, TextInv, HoldsUnvalidated, Aborted, Running, Ok
  <2>6. CASE Finish
    BY <1>2, <2>6, FinishText
  <2>7. CASE Fail
    BY <2>7 DEF Fail, TextInv, HoldsUnvalidated, Running, Ok
  <2>8. CASE Exhausted
    BY <2>8 DEF Exhausted, TextInv, HoldsUnvalidated, Killed, Running, Ok
  <2>9. CASE UNCHANGED vars
    BY <1>2, <2>9 DEF vars, TextInv, HoldsUnvalidated, Pending
  <2> QED BY <2>1, <2>2, <2>3, <2>4, <2>5, <2>6, <2>7, <2>8, <2>9 DEF Next, Iterate, Returned
<1> QED BY <1>1, <1>3, <1>4 DEF WritingInv

LEMMA TextMeans == TextInv /\ result = Ok => WritesJson
<1>1. ASSUME Serves(Meaning, DoneFrame, Json!NoSpace(buffer))
      PROVE  Grammar!Values(Grammar!NoSpace(buffer)) # {}
  BY <1>1, SameValues, SameNoSpace DEF Serves
<1> QED BY <1>1 DEF TextInv, WritesJson

\* Whatever graph dumps is given and whatever its hook does to the objects
\* while they are being written, what it returns is one JSON value (ser.rs:
\* 418-540), unless it holds a Fragment that nobody validated.
THEOREM OutputCorrect == Spec => OutputIsJson
<1>1. WritingInv => (result = Ok => WritesJson)
  BY TextMeans DEF WritingInv
<1>2. (result = Ok => WritesJson)' => [result = Running /\ result' = Ok => WritesJson']_vars
  OBVIOUS
<1> QED BY <1>1, <1>2, InitWritingInv, StepWritingInv, PTL DEF Spec, OutputIsJson

\* What dumps returns without an unvalidated Fragment has one value.
LEMMA WrittenIsDocument ==
  ASSUME WritingInv, Static, result = Ok, ~HoldsUnvalidated
  PROVE  /\ ~Cyclic
         /\ Grammar!Values(Grammar!NoSpace(buffer)) = {Unfold}
<1>1. heap \in Graphs /\ root \in Unfoldable
  BY DEF WritingInv, IInv, TypeOK, UnfoldInv
<1>2. ~Cyclic
  BY <1>1, ReachableUnfolds
<1>3. Meaning.given[DoneFrame] = Unfold
  <2>1. DoneFrame \in Frames /\ Awaited[DoneFrame] = root
    BY DEF Awaited, Frames, DoneFrame
  <2>2. Meaning.given[DoneFrame] = Documents[root]
    BY <2>1, MeaningIs
  <2> QED BY <1>1, <2>2, UnfoldIsDocument
<1>4. Serves(Meaning, DoneFrame, Json!NoSpace(buffer))
  BY DEF WritingInv, TextInv
<1>5. Unfold \in Json!Values(Json!NoSpace(buffer))
  BY <1>3, <1>4, MeaningIs DEF Serves
<1>6. Json!Values(Json!NoSpace(buffer)) = {Unfold}
  <2>1. Json!Distinct
    BY LoadsAssumption DEF Json!Distinct, L!Punctuation, TextStrings, TextScalars, GoodScalars
  <2>2. \A v \in Json!Values(Json!NoSpace(buffer)) : v = Unfold
    BY <1>5, <2>1, Json!OneValue
  <2> QED BY <1>5, <2>2
<1> QED BY <1>2, <1>6, SameValues, SameNoSpace

\* When the hook changes nothing, what dumps returns is the JSON text of the
\* graph: read back it gives the document that the graph denotes, and the
\* graph had no cycle (ser.rs:202-251, 418-584).
THEOREM ReadsBackCorrect ==
  ASSUME HookIsStatic
  PROVE  Spec => []ReadsBack
<1>1. WritingInv => ReadsBack
  <2> SUFFICES ASSUME WritingInv, result = Ok
               PROVE  /\ ~Cyclic
                      /\ HoldsUnvalidated \/ Grammar!Values(Grammar!NoSpace(buffer)) = {Unfold}
    BY DEF ReadsBack
  <2>1. Static
    BY DEF Static
  <2>2. ~Cyclic
    BY <2>1, ReachableUnfolds DEF WritingInv, IInv, TypeOK, UnfoldInv
  <2> QED BY <2>1, <2>2, WrittenIsDocument
<1> QED BY <1>1, InitWritingInv, StepWritingInv, PTL DEF Spec
----------------------------------------------------------------------------
(***************************************************************************)
(* The functions of the Python API.                                        *)
(***************************************************************************)
\* A call of dump or of load runs the loop of the serializer and nothing else
\* of it.
LEMMA ApiStep == [RNext]_<<vars, apiVars>> => [Next]_vars
BY DEF RNext, Dump, CallDumps, CallDumpb, CallDump, CallLoads, CallLoad, Load, Over,
  EnterParser, LoadFails, Next, apiVars

THEOREM ApiRunsSerializer == RSpec => Spec
<1>1. RInit => Init
  BY DEF RInit
<1> QED BY <1>1, ApiStep, PTL DEF RSpec, Spec

\* Nothing is handed over before the serializer has ended, and it has ended
\* with a text or with an exception.  What is in the file is the text if dump
\* returned, and of a dump that raises there is at most a beginning of it.
CallInv ==
  /\ returned \in {Running, Str, Bytes, None} \/ returned.tag = "Err"
  /\ returned = Running => file = <<>>
  /\ returned # Running => result \in {Ok} \cup Failures
  /\ returned \in {Str, Bytes, None} => result = Ok
  /\ returned = None => file = buffer
  /\ returned.tag = "Err" => file = <<>> \/ (result = Ok /\ file \in Beginnings(buffer))
  /\ returned = Err("UnicodeDecodeError") => HoldsUnvalidated

ApiInv == WritingInv /\ CallInv

LEMMA EndedResult ==
  ASSUME TypeOK, Ended
  PROVE  /\ \/ result = Ok /\ result.tag = "Ok"
            \/ result \in Failures /\ result.tag = "Err"
         /\ result \in Failures => result # Err("UnicodeDecodeError")
<1>1. result \in {Running, Aborted, Killed, Ok} \cup Failures /\ result.tag \in {"Ok", "Err"}
  BY DEF TypeOK, Ended
<1>2. result \in Failures => result.tag = "Err" /\ result.err \in Errors
  BY DEF Failures
<1>3. /\ Running.tag \notin {"Ok", "Err"} /\ Aborted.tag \notin {"Ok", "Err"}
      /\ Killed.tag \notin {"Ok", "Err"} /\ Ok.tag = "Ok"
  BY DEF Running, Aborted, Killed, Ok
<1>4. Err("UnicodeDecodeError").err \notin Errors
  BY DEF Err, Errors
<1> HIDE DEF Failures, Errors
<1> QED BY <1>1, <1>2, <1>3, <1>4

\* A text that does not decode holds a Fragment nobody validated.
LEMMA UndecodedText ==
  ASSUME TextInv, ~IsUtf8(buffer)
  PROVE  HoldsUnvalidated
BY DEF TextInv, TextIn, Spoilt, HoldsUnvalidated

LEMMA ReturnTags ==
  /\ \A e : Err(e).tag = "Err" /\ Err(e) \notin {Running, Str, Bytes, None}
  /\ \A e \in {"WriteError", "Custom"} : Err(e) # Err("UnicodeDecodeError")
  /\ \A r \in {Str, Bytes, None} : r # Running /\ r.tag # "Err" /\ r # Err("UnicodeDecodeError")
  /\ Str # None /\ Bytes # None /\ Running.tag # "Err" /\ Running # Err("UnicodeDecodeError")
  /\ Running \notin {Str, Bytes, None}
  /\ \A r \in Failures : r \notin {Running, Str, Bytes, None}
BY DEF Err, Running, Str, Bytes, None, Failures

LEMMA DecodedText ==
  ASSUME TypeOK, TextInv, Ended
  PROVE  /\ Decoded = Str => result = Ok
         /\ Decoded # Str => /\ Decoded.tag = "Err" /\ Decoded \notin {Running, Str, Bytes, None}
                             /\ Decoded = Err("UnicodeDecodeError") => HoldsUnvalidated
<1>1. CASE result = Ok /\ result.tag = "Ok"
  <2>1. Decoded = IF IsUtf8(buffer) THEN Str ELSE Err("UnicodeDecodeError")
    BY <1>1 DEF Decoded
  <2> QED BY <1>1, <2>1, UndecodedText, ReturnTags
<1>2. CASE result \in Failures /\ result.tag = "Err"
  <2>1. Decoded = result
    BY <1>2 DEF Decoded
  <2>2. result # Err("UnicodeDecodeError")
    BY <1>2, EndedResult
  <2> QED BY <1>2, <2>1, <2>2, ReturnTags
<1> QED BY <1>1, <1>2, EndedResult

LEMMA InitApiInv == RInit => ApiInv
<1> SUFFICES ASSUME RInit PROVE ApiInv
  OBVIOUS
<1>1. Init /\ returned = Running /\ file = <<>>
  BY DEF RInit
<1>2. WritingInv
  BY <1>1, InitWritingInv
<1>3. CallInv
  BY <1>1, ReturnTags DEF CallInv
<1> QED BY <1>2, <1>3 DEF ApiInv

\* A dump function returns when the serializer has ended.
LEMMA HandsOver ==
  ASSUME ApiInv, CallDumps \/ CallDumpb \/ CallDump
  PROVE  /\ UNCHANGED <<vars, parserVars, loaded>> /\ returned = Running
         /\ \/ /\ file' = file /\ returned' \in {Str, Bytes} /\ result = Ok
            \/ /\ file' = file /\ returned'.tag = "Err" /\ returned' \notin {Running, Str, Bytes, None}
               /\ returned' = Err("UnicodeDecodeError") => HoldsUnvalidated
            \/ file' = buffer /\ returned' = None /\ result = Ok
            \/ file' \in Beginnings(buffer) /\ returned' = Err("WriteError") /\ result = Ok
<1>1. TypeOK /\ TextInv
  BY DEF ApiInv, WritingInv, IInv
<1>2. UNCHANGED <<vars, parserVars, loaded>> /\ Ended /\ returned = Running
  BY DEF CallDumps, CallDumpb, CallDump, Ended
<1>3. CASE CallDumps
  <2>1. returned' = Decoded /\ file' = file
    BY <1>3 DEF CallDumps
  <2> QED BY <1>1, <1>2, <2>1, DecodedText
<1>4. CASE CallDumpb
  <2>1. returned' = (IF result.tag = "Err" THEN result ELSE Bytes) /\ file' = file
    BY <1>4 DEF CallDumpb
  <2> QED BY <1>1, <1>2, <2>1, EndedResult, ReturnTags
<1>5. CASE CallDump
  <2>1. \/ Decoded # Str /\ returned' = Decoded /\ file' = file
        \/ Decoded = Str /\ returned' = None /\ file' = buffer
        \/ Decoded = Str /\ returned' = Err("WriteError") /\ file' \in Beginnings(buffer)
    BY <1>5 DEF CallDump
  <2> QED BY <1>1, <1>2, <2>1, DecodedText
<1> QED BY <1>2, <1>3, <1>4, <1>5

LEMMA StepApiInv == ApiInv /\ [RNext]_<<vars, apiVars>> => ApiInv'
<1> SUFFICES ASSUME ApiInv, [RNext]_<<vars, apiVars>> PROVE ApiInv'
  OBVIOUS
<1>1. WritingInv'
  BY ApiStep, StepWritingInv DEF ApiInv
<1>2. TypeOK /\ CallInv
  BY DEF ApiInv, WritingInv, IInv
<1>3. CASE Dump
  <2>1. result = Running /\ UNCHANGED <<returned, file>>
    <3>1. Iterate => result = Running
      BY Zenon DEF Iterate, WriteItem, WriteHooked, Push, ContinueSequence,
        ContinueDict, Finish, Resume, Fail, Exhausted
    <3> QED BY <1>3, <3>1 DEF Dump, apiVars
  <2>2. returned = Running /\ file = <<>>
    BY <1>2, <2>1 DEF CallInv, Running, Ok, Failures
  <2>3. CallInv'
    BY <2>1, <2>2, ReturnTags DEF CallInv
  <2> QED BY <1>1, <2>3 DEF ApiInv
<1>4. CASE CallDumps \/ CallDumpb \/ CallDump
  <2>1. /\ UNCHANGED <<result, buffer, embedded>> /\ returned = Running /\ file = <<>>
        /\ Ended
    BY <1>2, <1>4, HandsOver DEF vars, CallInv, CallDumps, CallDumpb, CallDump
  <2>2. result' \in {Ok} \cup Failures
    BY <1>2, <2>1, EndedResult
  <2>3. /\ HoldsUnvalidated <=> HoldsUnvalidated'
        /\ Beginnings(buffer)' = Beginnings(buffer)
    BY <2>1 DEF HoldsUnvalidated
  <2>4. \/ /\ file' = <<>> /\ returned' \in {Str, Bytes} /\ result' = Ok
        \/ /\ file' = <<>> /\ returned'.tag = "Err" /\ returned' \notin {Running, Str, Bytes, None}
           /\ returned' = Err("UnicodeDecodeError") => HoldsUnvalidated'
        \/ file' = buffer' /\ returned' = None /\ result' = Ok
        \/ file' \in Beginnings(buffer)' /\ returned' = Err("WriteError") /\ result' = Ok
    BY <1>4, <2>1, <2>3, HandsOver
  <2>5. CallInv'
    BY <2>2, <2>4, ReturnTags DEF CallInv
  <2> QED BY <1>1, <2>5 DEF ApiInv
<1>5. CASE UNCHANGED <<vars, returned, file>>
  <2>1. UNCHANGED <<result, buffer, embedded, returned, file>>
    BY <1>5 DEF vars
  <2>2. /\ HoldsUnvalidated <=> HoldsUnvalidated'
        /\ Beginnings(buffer)' = Beginnings(buffer)
    BY <2>1 DEF HoldsUnvalidated
  <2>3. CallInv'
    BY <1>2, <2>1, <2>2 DEF CallInv
  <2> QED BY <1>1, <2>3 DEF ApiInv
<1>6. CASE CallLoads \/ CallLoad \/ Load \/ Over \/ UNCHANGED <<vars, apiVars>>
  BY <1>5, <1>6 DEF CallLoads, CallLoad, Load, Over, EnterParser, LoadFails, apiVars
<1> QED BY <1>3, <1>4, <1>6 DEF RNext
----------------------------------------------------------------------------
(***************************************************************************)
(* The load functions, which parse what the dump functions delivered: the  *)
(* parser of AgreementProofs, for every text.                              *)
(***************************************************************************)
GivenTokens == FragmentTokens \cup TornStrings \cup TornScalars

Reader == INSTANCE AgreementProofs WITH
  input <- given, stack <- thunks, last <- lastAny, result <- loaded,
  Strings <- TextStrings, NotUtf8 <- BadStrings, Scalars <- TextScalars,
  LexErrors <- TornStrings \cup TornScalars, Infinite <- {}, TooManyDigits <- LongInts,
  Others <- {}, GoodStrings <- Keys, GoodScalars <- GoodScalars,
  Inputs <- Seq(GivenTokens), Hook <- FALSE, Raises <- FALSE,
  vpos <- pos, vstack <- thunks, vlast <- lastAny, vfinished <- finished, vresult <- loaded

LEMMA ReaderTokens ==
  /\ Seq(GivenTokens) \subseteq Seq(Reader!Tokens)
  /\ Limits \subseteq Nat
  /\ Reader!Eof \notin Reader!Tokens
  /\ Reader!Punctuation \cap (TextStrings \cup TextScalars \cup {}) = {}
  /\ Reader!WS \notin TextStrings \cup TextScalars \cup {}
  /\ TextStrings \cap TextScalars = {}
  /\ {} \cap (TextStrings \cup TextScalars) = {}
  /\ Keys = TextStrings \ ((TornStrings \cup TornScalars) \cup BadStrings)
  /\ GoodScalars = TextScalars \ ((TornStrings \cup TornScalars) \cup {})
<1>1. GivenTokens = Reader!Tokens
  BY DEF GivenTokens, FragmentTokens, Grammar!Alphabet, Reader!Tokens, Reader!Punctuation, Reader!WS,
    TextStrings, TextScalars, GoodScalars
<1>2. Keys \cap BadStrings = {}
  BY FragmentsAssumption DEF Grammar!Alphabet
<1>3. /\ Keys = TextStrings \ ((TornStrings \cup TornScalars) \cup BadStrings)
      /\ GoodScalars = TextScalars \ ((TornStrings \cup TornScalars) \cup {})
  <2> HIDE DEF GoodScalars
  <2> QED BY <1>2, LoadsAssumption DEF TextStrings, TextScalars
<1>4. Reader!Eof = L!Eof /\ Reader!Tokens = L!Tokens /\ Reader!Punctuation = L!Punctuation /\ Reader!WS = L!WS
  BY Zenon DEF L!Eof, Reader!Eof, L!Tokens, Reader!Tokens, L!Punctuation, Reader!Punctuation, L!WS, Reader!WS
<1> HIDE DEF GoodScalars, TextStrings, TextScalars, GivenTokens
<1> QED BY <1>1, <1>3, <1>4, LoadsAssumption

LEMMA ReaderBegins == (Reader!Init => Reader!LoadInv)'
BY ReaderTokens, Reader!InitLoadInv, PTL

LEMMA ReaderMeans ==
  Reader!LoadInv => Reader!ReadsJson /\ Reader!DepthIsNesting /\ Reader!TypeOK
BY ReaderTokens, Reader!LoadInvMeans, Reader!LoadInvType

LEMMA ReaderStep == Reader!LoadInv /\ [L!Next]_(L!vars) => Reader!LoadInv'
<1>1. [L!Next]_(L!vars) => [Reader!Next]_(Reader!vars)
  BY Zenon DEF L!Ok, Reader!Ok, L!Err, Reader!Err, L!Thunk, Reader!Thunk, L!Running,
     Reader!Running, L!ListFrame, Reader!ListFrame, L!MapFrame, Reader!MapFrame,
     L!DoneFrame, Reader!DoneFrame, L!Failures, Reader!Failures, L!Returns,
     Reader!Returns, L!Containers, Reader!Containers, L!Frames, Reader!Frames,
     L!NoLimit, Reader!NoLimit, L!WS, Reader!WS, L!Eof, Reader!Eof,
     L!Punctuation, Reader!Punctuation, L!Tokens, Reader!Tokens, L!ParseErrors,
     Reader!ParseErrors, L!Peek, Reader!Peek, L!SkipWs, Reader!SkipWs, L!Yield,
     Reader!Yield, L!FinishListAt, Reader!FinishListAt, L!FinishMapAt,
     Reader!FinishMapAt, L!Top, Reader!Top, L!Pop, Reader!Pop, L!ParseList,
     Reader!ParseList, L!ParseKey, Reader!ParseKey, L!ParseMap, Reader!ParseMap,
     L!DepthExceeded, Reader!DepthExceeded, L!Push, Reader!Push, L!TooDeep,
     Reader!TooDeep, L!ParseAny, Reader!ParseAny, L!Resume, Reader!Resume,
     L!ContinueList, Reader!ContinueList, L!ContinueMap, Reader!ContinueMap,
     L!Finish, Reader!Finish, L!Fail, Reader!Fail, L!Returned, Reader!Returned,
     L!Iterate, Reader!Iterate, L!Next, Reader!Next, L!vars, Reader!vars,
     L!Leaf, Reader!Leaf, L!PyList, Reader!PyList, L!PyDict, Reader!PyDict,
     L!Hooked, Reader!Hooked, L!PyParseStr, Reader!PyParseStr, L!PyParseScalar,
     Reader!PyParseScalar, L!PyEmptyList, Reader!PyEmptyList, L!PyExtendList,
     Reader!PyExtendList, L!PyFinishList, Reader!PyFinishList, L!PyEmptyMap,
     Reader!PyEmptyMap, L!PyExtendMap, Reader!PyExtendMap, L!PyFinishMap,
     Reader!PyFinishMap
<1> QED BY <1>1, ReaderTokens, Reader!StepLoadInv

\* Only what a dump function has handed over is parsed, and what the parser does
\* with it is what Reader says.
LoadingInv ==
  /\ loaded = NotCalled => thunks = <<>> /\ finished = <<>>
  /\ loaded # NotCalled => returned # Running
  /\ loaded \in {NotCalled, Err("TypeError"), Err("ReadError")} \/ Reader!LoadInv

LEMMA LoadedTags ==
  /\ Reader!LoadInv => loaded # NotCalled
  /\ L!Running # NotCalled /\ \A e : Err(e) # NotCalled /\ Err(e) # L!Running
<1>1. Reader!TypeOK => loaded.tag \in {"Running", "Ok", "Err"}
  BY DEF Reader!TypeOK, Reader!Returns, Reader!Failures, Reader!Running, Reader!Err
<1> QED BY <1>1, ReaderMeans DEF NotCalled, L!Running, Err

LEMMA LaterLoaded == (Reader!LoadInv => loaded # NotCalled)'
BY LoadedTags, PTL

\* What is left of a text whose writing was broken off.
LEMMA BeginningIs ==
  ASSUME NEW b \in Seq(FragmentTokens), NEW s \in Beginnings(b)
  PROVE  \/ \E n \in 0 .. Len(b) : s = SubSeq(b, 1, n)
         \/ \E n \in 1 .. Len(b), c \in TornStrings \cup TextScalars :
              /\ (b[n] \in Keys /\ c \in TornStrings) \/ b[n] \in GoodScalars
              /\ s = Append(SubSeq(b, 1, n - 1), c)
<1>1. \/ s \in {SubSeq(b, 1, n) : n \in 0 .. Len(b)}
      \/ \E n \in 1 .. Len(b) : s \in {Append(SubSeq(b, 1, n - 1), c) : c \in CutShort(b[n])}
  <2> HIDE DEF CutShort
  <2> QED BY DEF Beginnings
<1>2. \A t, c : c \in CutShort(t) => \/ c \in TornStrings /\ t \in Keys
                                     \/ c \in TornStrings \cup TextScalars /\ t \in GoodScalars
  BY DEF CutShort
<1> HIDE DEF CutShort, GoodScalars, TextScalars
<1>3. ASSUME NEW n \in 1 .. Len(b), s \in {Append(SubSeq(b, 1, n - 1), c) : c \in CutShort(b[n])}
      PROVE  \E c \in TornStrings \cup TextScalars :
               /\ (b[n] \in Keys /\ c \in TornStrings) \/ b[n] \in GoodScalars
               /\ s = Append(SubSeq(b, 1, n - 1), c)
  <2>1. PICK c \in CutShort(b[n]) : s = Append(SubSeq(b, 1, n - 1), c)
    BY <1>3
  <2> QED BY <1>2, <2>1
<1>4. s \in {SubSeq(b, 1, n) : n \in 0 .. Len(b)} => \E n \in 0 .. Len(b) : s = SubSeq(b, 1, n)
  OBVIOUS
<1> QED BY <1>1, <1>3, <1>4

LEMMA GivenIsText ==
  ASSUME TextInv, CallInv, returned \in {Str, Bytes, None} \/ returned.tag = "Err"
  PROVE  given \in Seq(GivenTokens)
<1>1. buffer \in Seq(FragmentTokens)
  BY DEF TextInv, TextIn
<1>2. FragmentTokens \subseteq GivenTokens /\ TornStrings \cup TextScalars \subseteq GivenTokens
  BY DEF GivenTokens, FragmentTokens, TextScalars, GoodScalars, Grammar!Alphabet
<1>3. buffer \in Seq(GivenTokens)
  <2> HIDE DEF FragmentTokens, GivenTokens
  <2>1. \A i \in 1 .. Len(buffer) : buffer[i] \in GivenTokens
    BY <1>1, <1>2
  <2> QED BY <1>1, <2>1
<1> HIDE DEF GivenTokens, FragmentTokens, TextScalars, GoodScalars, Beginnings
<1>4. ASSUME file \in Beginnings(buffer) PROVE file \in Seq(GivenTokens)
  <2>1. ASSUME NEW n \in 0 .. Len(buffer) PROVE SubSeq(buffer, 1, n) \in Seq(GivenTokens)
    BY <1>3
  <2>2. ASSUME NEW n \in 1 .. Len(buffer), NEW c \in TornStrings \cup TextScalars
        PROVE  Append(SubSeq(buffer, 1, n - 1), c) \in Seq(GivenTokens)
    <3>1. n - 1 \in 0 .. Len(buffer) /\ c \in GivenTokens
      BY <1>2
    <3>2. SubSeq(buffer, 1, n - 1) \in Seq(GivenTokens)
      BY <2>1, <3>1
    <3> QED BY <3>1, <3>2
  <2> QED BY <1>1, <1>4, <2>1, <2>2, BeginningIs
<1>5. <<>> \in Seq(GivenTokens)
  BY EmptySeq
<1>6. CASE returned \in {Str, Bytes, None}
  <2>1. given = buffer
    BY <1>6 DEF given, CallInv
  <2> QED BY <1>3, <2>1
<1>7. CASE returned.tag = "Err"
  <2>1. returned \notin {Str, Bytes}
    BY <1>7, ReturnTags
  <2>2. given = file /\ (file = <<>> \/ file \in Beginnings(buffer))
    BY <1>7, <2>1 DEF given, CallInv
  <2> QED BY <1>4, <1>5, <2>2
<1> QED BY <1>6, <1>7

LEMMA EnteringReads ==
  ASSUME EnterParser, given \in Seq(GivenTokens), thunks = <<>>, finished = <<>>
  PROVE  Reader!LoadInv'
<1>1. /\ UNCHANGED <<buffer, file, returned, thunks, finished>> /\ limit' \in Limits
      /\ pos' = L!SkipWs(1) /\ lastAny' = L!Thunk(L!DoneFrame) /\ loaded' = L!Running
  BY DEF EnterParser, vars
<1>2. given' = given
  BY <1>1 DEF given
<1>3. pos' = Reader!SkipWs(1)'
  <2>1. L!SkipWs(1) = Reader!SkipWs(1)
    BY Zenon DEF L!SkipWs, Reader!SkipWs, L!Peek, Reader!Peek, L!WS, Reader!WS, L!Eof, Reader!Eof
  <2>2. Reader!SkipWs(1)' = Reader!SkipWs(1)
    <3> HIDE DEF given
    <3> QED BY <1>2, Zenon DEF Reader!SkipWs, Reader!Peek
  <2> QED BY <1>1, <2>1, <2>2
<1>4. lastAny' = Reader!Thunk(Reader!DoneFrame) /\ loaded' = Reader!Running
  BY <1>1 DEF L!Thunk, Reader!Thunk, L!DoneFrame, Reader!DoneFrame, L!Running, Reader!Running
<1>5. Reader!Init'
  <2> HIDE DEF given
  <2> QED BY <1>1, <1>2, <1>3, <1>4 DEF Reader!Init
<1> QED BY <1>5, ReaderBegins

LEMMA InitLoadingInv == RInit => ApiInv /\ LoadingInv
<1> SUFFICES ASSUME RInit PROVE ApiInv /\ LoadingInv
  OBVIOUS
<1>1. /\ returned = Running /\ thunks = <<>> /\ finished = <<>> /\ loaded = NotCalled
  BY DEF RInit
<1>2. LoadingInv
  BY <1>1, LoadedTags DEF LoadingInv
<1> QED BY <1>2, InitApiInv

LEMMA StepLoadingInv ==
  ApiInv /\ LoadingInv /\ [RNext]_<<vars, apiVars>> => LoadingInv'
<1> SUFFICES ASSUME ApiInv, LoadingInv, [RNext]_<<vars, apiVars>> PROVE LoadingInv'
  OBVIOUS
<1>1. TypeOK /\ TextInv /\ CallInv
  BY DEF ApiInv, WritingInv, IInv
<1>2. ASSUME loaded = NotCalled, UNCHANGED <<parserVars, loaded>> PROVE LoadingInv'
  BY <1>2 DEF LoadingInv, parserVars
<1>3. CASE Dump
  <2>1. result = Running
    <3>1. Iterate => result = Running
      BY Zenon DEF Iterate, WriteItem, WriteHooked, Push, ContinueSequence,
        ContinueDict, Finish, Resume, Fail, Exhausted
    <3> QED BY <1>3, <3>1 DEF Dump
  <2>2. returned = Running
    BY <1>1, <2>1 DEF CallInv, Running, Ok, Failures
  <2>3. loaded = NotCalled /\ UNCHANGED <<parserVars, loaded>>
    BY <1>3, <2>2 DEF LoadingInv, Dump, apiVars
  <2> QED BY <1>2, <2>3
<1>4. CASE CallDumps \/ CallDumpb \/ CallDump
  <2>1. loaded = NotCalled /\ UNCHANGED <<parserVars, loaded>>
    BY <1>4, HandsOver DEF LoadingInv
  <2> QED BY <1>2, <2>1
<1>5. CASE CallLoads \/ CallLoad
  <2>1. (returned \in {Str, Bytes, None} \/ returned.tag = "Err") /\ loaded = NotCalled
    BY <1>5 DEF CallLoads, CallLoad
  <2>2. thunks = <<>> /\ finished = <<>> /\ returned # Running
    BY <2>1, ReturnTags DEF LoadingInv
  <2>3. CASE EnterParser
    <3>1. Reader!LoadInv'
      BY <1>1, <2>1, <2>2, <2>3, EnteringReads, GivenIsText
    <3>2. loaded' # NotCalled /\ returned' = returned
      BY <2>3, LoadedTags DEF EnterParser
    <3> QED BY <2>2, <3>1, <3>2 DEF LoadingInv
  <2>4. ASSUME NEW e \in {"TypeError", "ReadError"}, LoadFails(e) PROVE LoadingInv'
    <3>1. loaded' = Err(e) /\ loaded' # NotCalled /\ returned' = returned
      BY <2>4, LoadedTags DEF LoadFails
    <3> QED BY <2>2, <3>1 DEF LoadingInv, Err
  <2> QED BY <1>5, <2>3, <2>4 DEF CallLoads, CallLoad
<1>6. CASE Load
  <2>1. loaded = L!Running /\ loaded # NotCalled /\ L!Next /\ returned' = returned
    <3>1. L!Iterate => loaded = L!Running
      BY Zenon DEF L!Iterate, L!TooDeep, L!Push, L!ParseAny, L!ContinueList, L!ContinueMap,
        L!Finish, L!Resume, L!Fail
    <3> QED BY <1>6, <3>1 DEF Load, L!Next
  <2>2. Reader!LoadInv
    BY <2>1, LoadedTags DEF LoadingInv
  <2>3. Reader!LoadInv' /\ loaded' # NotCalled
    BY <2>1, <2>2, ReaderStep, LaterLoaded
  <2> QED BY <2>1, <2>3 DEF LoadingInv
<1>7. CASE Over \/ UNCHANGED <<vars, apiVars>>
  <2>1. UNCHANGED <<buffer, file, returned, parserVars, loaded>>
    BY <1>7 DEF Over, vars, apiVars
  <2>2. given' = given
    BY <2>1 DEF given
  <2>3. UNCHANGED L!vars
    <3> HIDE DEF given
    <3> QED BY <2>1, <2>2 DEF L!vars, parserVars
  <2>4. Reader!LoadInv => Reader!LoadInv'
    BY <2>3, ReaderStep
  <2> QED BY <2>1, <2>4 DEF LoadingInv, parserVars, Err
<1> QED BY <1>3, <1>4, <1>5, <1>6, <1>7 DEF RNext

\* The grammar of Output is the grammar that Reader reads.
LEMMA SameReading ==
  /\ \A s : Grammar!NoSpace(s) = Reader!NoSpace(s)
  /\ \A s : Grammar!Nesting(s) = Reader!Nesting(s)
  /\ \A s : Grammar!Values(s) = Reader!Values(s)
  /\ \A s : Grammar!HoldsLongInt(s) <=> Reader!HoldsLongInt(s)
<1>1. \A s : Grammar!NoSpace(s) = Reader!NoSpace(s)
  BY Zenon DEF Grammar!NoSpace, Reader!NoSpace, Grammar!Kept, Reader!Kept
<1>2. \A s : Grammar!Nesting(s) = Reader!Nesting(s)
  BY Zenon DEF Grammar!Nesting, Reader!Nesting, Grammar!Open, Reader!Open,
    Grammar!Count, Reader!Count, Grammar!Finite!Max, Reader!Finite!Max,
    Grammar!Finite!Cardinality, Reader!Finite!Cardinality
<1>3. Grammar!Alphabet = Reader!Alphabet
  BY Zenon DEF Grammar!Alphabet, Reader!Alphabet, GoodScalars
<1>4. Grammar!Denotation = Reader!Denotation
  BY Zenon DEF Grammar!Denotation, Reader!Denotation, Grammar!Alphabet, Reader!Alphabet,
    Grammar!ValueOf, Reader!ValueOf, Grammar!ItemsOf, Reader!ItemsOf,
    Grammar!EntriesOf, Reader!EntriesOf, Grammar!EntryOf, Reader!EntryOf,
    Grammar!Leaf, Reader!Leaf, Grammar!PyList, Reader!PyList, Grammar!PyDict, Reader!PyDict,
    Grammar!DictOf, Reader!DictOf, Grammar!Firsts, Reader!Firsts, Grammar!LastOf, Reader!LastOf,
    Grammar!Bracketed, Reader!Bracketed, Grammar!Inner, Reader!Inner,
    Grammar!Commas, Reader!Commas, Grammar!Before, Reader!Before, Grammar!After, Reader!After,
    GoodScalars
<1>5. \A s : Grammar!Values(s) = Reader!Values(s)
  BY <1>3, <1>4, Zenon DEF Grammar!Values, Reader!Values
<1>6. \A s : Grammar!HoldsLongInt(s) <=> Reader!HoldsLongInt(s)
  BY Zenon DEF Grammar!HoldsLongInt, Reader!HoldsLongInt
<1> QED BY <1>1, <1>2, <1>5, <1>6

\* What a load function returns of the text it is given.
LEMMA LoadedMeans ==
  ASSUME ApiInv, LoadingInv, loaded.tag \in {"Ok", "Err"},
         loaded \notin {Err("TypeError"), Err("ReadError")}
  PROVE  LET text == Grammar!NoSpace(given) IN
         /\ returned # Running /\ Reader!LoadInv
         /\ loaded.tag = "Ok" => Grammar!Values(text) = {loaded.value}
         /\ loaded.tag = "Err" /\ loaded # Err("DepthLimitExceeded") =>
              \/ loaded = Err("Custom") /\ Grammar!HoldsLongInt(given)
              \/ Grammar!Values(text) = {}
         /\ loaded.tag = "Ok" => limit = 0 \/ Grammar!Nesting(text) <= limit
         /\ loaded = Err("DepthLimitExceeded") =>
              limit # 0 /\ (Grammar!Nesting(text) > limit \/ Grammar!Values(text) = {})
<1> HIDE DEF given
<1>1. loaded # NotCalled
  BY DEF NotCalled
<1>2. Reader!LoadInv /\ returned # Running
  BY <1>1 DEF LoadingInv
<1>3. PICK text, values, n : /\ text = Grammar!NoSpace(given) /\ values = Grammar!Values(text)
                            /\ n = Grammar!Nesting(text)
  OBVIOUS
<1>4. /\ loaded.tag = "Ok" => \E v \in values : values = {v} /\ v = loaded.value
      /\ loaded.tag = "Err" /\ loaded # Err("DepthLimitExceeded") =>
           \/ loaded = Err("Custom") /\ Grammar!HoldsLongInt(given)
           \/ values = {}
  BY <1>2, <1>3, ReaderMeans, SameReading DEF Reader!ReadsJson, Reader!Err, Err
<1>5. /\ loaded.tag = "Ok" => limit = 0 \/ n <= limit
      /\ loaded = Err("DepthLimitExceeded") => limit # 0 /\ (n > limit \/ values = {})
  BY <1>2, <1>3, ReaderMeans, SameReading DEF Reader!DepthIsNesting, Reader!Err, Err,
    Reader!NoLimit
<1> QED BY <1>2, <1>3, <1>4, <1>5

LEMMA DeliveredMeans ==
  ASSUME ApiInv, LoadingInv
  PROVE  DeliveredIsRead
<1> SUFFICES ASSUME returned \in {Str, Bytes, None}, loaded.tag \in {"Ok", "Err"},
                    loaded \notin {Err("TypeError"), Err("ReadError")}, ~HoldsUnvalidated
             PROVE  DeliveredIsRead
  BY DEF DeliveredIsRead
<1>1. given = buffer /\ result = Ok
  BY DEF given, ApiInv, CallInv
<1> HIDE DEF given
<1>2. PICK text, values, n : /\ text = Grammar!NoSpace(buffer) /\ values = Grammar!Values(text)
                            /\ n = Grammar!Nesting(text)
  OBVIOUS
<1>3. values # {}
  <2>1. WritesJson
    BY <1>1, TextMeans DEF ApiInv, WritingInv
  <2> QED BY <1>2, <2>1 DEF WritesJson
<1>4. /\ Reader!LoadInv
      /\ loaded.tag = "Ok" => values = {loaded.value} /\ (limit = 0 \/ n <= limit)
      /\ loaded.tag = "Err" /\ loaded # Err("DepthLimitExceeded") =>
           loaded = Err("Custom") /\ Grammar!HoldsLongInt(buffer)
      /\ loaded = Err("DepthLimitExceeded") => limit # 0 /\ n > limit
  BY <1>1, <1>2, <1>3, LoadedMeans
<1>5. n \in Int /\ limit \in Nat
  <2>1. given \in Seq(Reader!Tokens) /\ limit \in Limits
    BY <1>4, ReaderMeans DEF Reader!TypeOK
  <2>2. Reader!Nesting(Reader!NoSpace(given)) \in Int
    BY <2>1, ReaderTokens, Reader!NestingMeans
  <2> QED BY <1>1, <1>2, <2>1, <2>2, ReaderTokens, SameReading
<1>6. n <= limit => ~(n > limit)
  BY <1>5
<1> QED BY <1>2, <1>4, <1>6 DEF DeliveredIsRead

\* Whatever dumps, dumpb or dump delivers, loads, loadb and load read: for every
\* object graph, every hook and every depth limit, they return the one value of
\* the text, or refuse it for a depth that it has or for an int in one of its
\* Fragments that has too many digits for Python, unless it holds a Fragment
\* that nobody validated.
THEOREM DeliveredCorrect == RSpec => []DeliveredIsRead
<1>1. ApiInv /\ LoadingInv => DeliveredIsRead
  BY DeliveredMeans
<1> QED BY <1>1, InitLoadingInv, StepApiInv, StepLoadingInv, PTL DEF RSpec

LEMMA CutInTwo ==
  ASSUME NEW S, NEW b \in Seq(S), NEW n \in 0 .. Len(b)
  PROVE  /\ SubSeq(b, 1, n) \in Seq(S) /\ SubSeq(b, n + 1, Len(b)) \in Seq(S)
         /\ b = SubSeq(b, 1, n) \o SubSeq(b, n + 1, Len(b))
<1>1. /\ 1 \in 1 .. Len(b) + 1 /\ n \in 1 - 1 .. Len(b) /\ Len(b) \in n .. Len(b)
  OBVIOUS
<1>2. SubSeq(b, 1, n) \o SubSeq(b, n + 1, Len(b)) = SubSeq(b, 1, Len(b))
  BY <1>1, ConcatAdjacentSubSeq
<1>3. SubSeq(b, 1, n) \in Seq(S) /\ SubSeq(b, n + 1, Len(b)) \in Seq(S)
  OBVIOUS
<1> QED BY <1>2, <1>3, SubSeqFull

LEMMA CutFirst ==
  ASSUME NEW S, NEW b \in Seq(S), NEW n \in 1 .. Len(b)
  PROVE  /\ SubSeq(b, n + 1, Len(b)) \in Seq(S)
         /\ SubSeq(b, n, Len(b)) = <<b[n]>> \o SubSeq(b, n + 1, Len(b))
<1>1. Len(b) \in n .. Len(b) /\ SubSeq(b, n + 1, Len(b)) \in Seq(S)
  OBVIOUS
<1> QED BY <1>1, SubSeqRecursiveFirst

LEMMA PlainIsText ==
  ASSUME NEW S, NEW T, NEW s \in Seq(S \ T)
  PROVE  s \in Seq(S)
BY SeqMonotonic

\* A beginning of a JSON text that is JSON is all of it, but for whitespace.
LEMMA WholeBeginning ==
  ASSUME NEW b \in Seq(FragmentTokens), NEW n \in 0 .. Len(b),
         NEW v \in Json!Values(Json!NoSpace(SubSeq(b, 1, n))), NEW w \in Json!Values(Json!NoSpace(b))
  PROVE  v = w
<1>1. Json!Distinct
  BY LoadsAssumption DEF Json!Distinct, L!Punctuation, TextStrings, TextScalars, GoodScalars
<1>2. PICK s \in Seq(FragmentTokens), r \in Seq(FragmentTokens) :
        s = SubSeq(b, 1, n) /\ r = SubSeq(b, n + 1, Len(b)) /\ b = s \o r
  <2> HIDE DEF FragmentTokens
  <2>1. /\ SubSeq(b, 1, n) \in Seq(FragmentTokens) /\ SubSeq(b, n + 1, Len(b)) \in Seq(FragmentTokens)
        /\ b = SubSeq(b, 1, n) \o SubSeq(b, n + 1, Len(b))
    BY CutInTwo
  <2> QED BY <2>1, Zenon
<1>3. PICK x \in Seq(FragmentTokens \ {"ws"}), y \in Seq(FragmentTokens \ {"ws"}) :
        x = Json!NoSpace(s) /\ y = Json!NoSpace(r)
  BY Json!NoSpaceType
<1>4. Json!NoSpace(b) = x \o y
  BY <1>2, <1>3, Json!NoSpaceConcat
<1>5. x \in Seq(Json!Alphabet) /\ x \o y \in Seq(Json!Alphabet)
  BY <1>2, <1>3, <1>4, Json!PhraseIsText
<1>6. y \in Seq(Json!Alphabet)
  <2>1. /\ Len(x \o y) = Len(x) + Len(y) /\ Len(x) \in Nat /\ Len(y) \in Nat
        /\ \A i \in 1 .. Len(y) : (x \o y)[Len(x) + i] = y[i]
    OBVIOUS
  <2>2. ASSUME NEW i \in 1 .. Len(y) PROVE y[i] \in Json!Alphabet
    <3>1. Len(x) + i \in 1 .. Len(x \o y)
      BY <2>1
    <3>2. (x \o y)[Len(x) + i] \in Json!Alphabet
      BY <1>5, <3>1
    <3> QED BY <2>1, <3>2
  <2>3. Len(y) \in Nat /\ y = [i \in 1 .. Len(y) |-> y[i]]
    OBVIOUS
  <2> QED BY <2>2, <2>3
<1>7. v \in Json!Values(x) /\ w \in Json!Values(Json!Cat(x, y))
  BY <1>2, <1>3, <1>4 DEF Json!Cat
<1> QED BY <1>1, <1>5, <1>6, <1>7, Json!OneBeginning

\* A text whose last token was cut short is JSON only if it is a scalar.
LEMMA CutScalar ==
  ASSUME NEW b \in Seq(FragmentTokens), NEW n \in 1 .. Len(b), NEW c \in TornStrings \cup TextScalars,
         (b[n] \in Keys /\ c \in TornStrings) \/ b[n] \in GoodScalars,
         Json!Values(Json!NoSpace(Append(SubSeq(b, 1, n - 1), c))) # {},
         Json!Values(Json!NoSpace(b)) # {}
  PROVE  Len(Json!NoSpace(b)) = 1
<1>1. Json!Distinct
  BY LoadsAssumption DEF Json!Distinct, L!Punctuation, TextStrings, TextScalars, GoodScalars
<1>2. PICK S : S = FragmentTokens \cup {c}
  OBVIOUS
<1>3. PICK s \in Seq(FragmentTokens), r \in Seq(FragmentTokens), q \in Seq(FragmentTokens) :
        /\ s = SubSeq(b, 1, n - 1) /\ r = SubSeq(b, n, Len(b)) /\ b = s \o r
        /\ q = SubSeq(b, n + 1, Len(b)) /\ r = <<b[n]>> \o q
  <2> HIDE DEF FragmentTokens
  <2>1. n - 1 \in 0 .. Len(b) /\ (n - 1) + 1 = n
    OBVIOUS
  <2>2. PICK s \in Seq(FragmentTokens), r \in Seq(FragmentTokens) :
          s = SubSeq(b, 1, n - 1) /\ r = SubSeq(b, n, Len(b)) /\ b = s \o r
    <3>1. PICK m \in 0 .. Len(b) : m = n - 1 /\ m + 1 = n
      BY <2>1
    <3>2. /\ SubSeq(b, 1, m) \in Seq(FragmentTokens) /\ SubSeq(b, m + 1, Len(b)) \in Seq(FragmentTokens)
          /\ b = SubSeq(b, 1, m) \o SubSeq(b, m + 1, Len(b))
      BY CutInTwo
    <3>3. /\ SubSeq(b, 1, n - 1) \in Seq(FragmentTokens) /\ SubSeq(b, n, Len(b)) \in Seq(FragmentTokens)
          /\ b = SubSeq(b, 1, n - 1) \o SubSeq(b, n, Len(b))
      BY <3>1, <3>2
    <3> QED BY <3>3, Zenon
  <2>3. PICK q \in Seq(FragmentTokens) : q = SubSeq(b, n + 1, Len(b)) /\ r = <<b[n]>> \o q
    <3>1. /\ SubSeq(b, n + 1, Len(b)) \in Seq(FragmentTokens)
          /\ SubSeq(b, n, Len(b)) = <<b[n]>> \o SubSeq(b, n + 1, Len(b))
      BY CutFirst
    <3> QED BY <2>2, <3>1, Zenon
  <2> QED BY <2>2, <2>3
<1>4. PICK x \in Seq(FragmentTokens \ {"ws"}) : x = Json!NoSpace(s)
  BY Json!NoSpaceType
<1>5. /\ c # "ws" /\ b[n] # "ws" /\ b[n] \in Keys \cup GoodScalars
      /\ s \in Seq(S) /\ x \in Seq(S) /\ c \in S
  <2>1. s \in Seq(S) /\ c \in S
    BY <1>2, SeqMonotonic
  <2>2. FragmentTokens \ {"ws"} \subseteq S
    BY <1>2
  <2>3. x \in Seq(S)
    BY <2>2, SeqMonotonic
  <2> QED BY <2>1, <2>3, LoadsAssumption DEF L!WS, TextStrings, TextScalars
<1>6. Json!NoSpace(Append(s, c)) = Append(x, c)
  <2>1. Append(s, c) = s \o <<c>> /\ <<c>> \in Seq(S)
    BY <1>5, AppendIsConcat
  <2>2. Json!NoSpace(s \o <<c>>) = Json!NoSpace(s) \o Json!NoSpace(<<c>>)
    BY <1>5, <2>1, Json!NoSpaceConcat
  <2>3. Json!NoSpace(<<c>>) = <<c>>
    BY <1>5, Json!NoSpaceToken
  <2>4. x \o <<c>> = Append(x, c)
    BY <1>5, AppendIsConcat
  <2> QED BY <1>4, <2>1, <2>2, <2>3, <2>4
<1>7. Append(x, c) \in Seq(Json!Alphabet)
  BY <1>3, <1>6, Json!PhraseIsText
<1>8. c \in Json!Alphabet /\ x \in Seq(Json!Alphabet)
  <2>1. Len(Append(x, c)) = Len(x) + 1 /\ Append(x, c)[Len(x) + 1] = c /\ Len(x) \in Nat
        /\ \A i \in 1 .. Len(x) : Append(x, c)[i] = x[i]
    BY <1>5, AppendProperties
  <2>2. \A i \in 1 .. Len(x) + 1 : Append(x, c)[i] \in Json!Alphabet
    BY <1>7, <2>1
  <2>3. \A i \in 1 .. Len(x) : x[i] \in Json!Alphabet
    BY <2>1, <2>2
  <2>4. x = [i \in 1 .. Len(x) |-> x[i]]
    OBVIOUS
  <2>5. c \in Json!Alphabet
    BY <2>1, <2>2
  <2> QED BY <2>1, <2>3, <2>4, <2>5
<1>9. c \in GoodScalars /\ b[n] \in GoodScalars
  <2>1. c \in {"[", "]", "lbrace", "rbrace", ":", "comma"} \cup Keys \cup GoodScalars
    BY <1>8 DEF Json!Alphabet, GoodScalars
  <2>2. {"[", "]", "lbrace", "rbrace", ":", "comma"} \cap (TextStrings \cup TextScalars) = {}
    BY LoadsAssumption DEF L!Punctuation
  <2> HIDE DEF GoodScalars
  <2>3. /\ TextStrings \cap TextScalars = {} /\ TornStrings \cap (Keys \cup BadStrings) = {}
        /\ TornScalars \cap GoodScalars = {}
    BY LoadsAssumption
  <2>4. c \notin TornStrings
    BY <2>1, <2>2, <2>3 DEF TextStrings, TextScalars
  <2>5. c \in GoodScalars
    BY <2>1, <2>2, <2>3, <2>4 DEF TextStrings, TextScalars
  <2> QED BY <2>4, <2>5
<1>10. x = <<>>
  <2>1. c \in Keys \cup ((Scalars \ Fragments) \cup LongInts)
    BY <1>9 DEF GoodScalars
  <2>2. Json!Values(Append(x, c)) # {}
    BY <1>3, <1>6
  <2> QED BY <1>1, <1>8, <2>1, <2>2, Json!ScalarEnds
<1>11. PICK y \in Seq(FragmentTokens \ {"ws"}) : y = Json!NoSpace(q)
  BY Json!NoSpaceType
<1>12. Json!NoSpace(b) = <<b[n]>> \o y
  <2>1. b[n] \in FragmentTokens /\ <<b[n]>> \in Seq(FragmentTokens)
    <3> HIDE DEF FragmentTokens
    <3> QED OBVIOUS
  <2>2. Json!NoSpace(<<b[n]>> \o q) = Json!NoSpace(<<b[n]>>) \o Json!NoSpace(q)
    BY <2>1, Json!NoSpaceConcat
  <2>3. Json!NoSpace(<<b[n]>>) = <<b[n]>>
    BY <1>5, Json!NoSpaceToken
  <2>4. Json!NoSpace(s \o r) = Json!NoSpace(s) \o Json!NoSpace(r)
    BY Json!NoSpaceConcat
  <2>5. PICK u \in Seq(FragmentTokens) : u = <<b[n]>> \o y
    <3>1. y \in Seq(FragmentTokens)
      BY PlainIsText
    <3> HIDE DEF FragmentTokens
    <3>2. <<b[n]>> \o y \in Seq(FragmentTokens)
      BY <2>1, <3>1
    <3> QED BY <3>2
  <2>6. <<>> \o u = u
    BY ConcatEmptySeq
  <2> QED BY <1>3, <1>4, <1>10, <1>11, <2>2, <2>3, <2>4, <2>5, <2>6
<1>13. PICK z, v : z = Json!NoSpace(b) /\ v \in Json!Values(z)
  OBVIOUS
<1>14. z[1] = b[n]
  <2>1. y \in Seq(FragmentTokens)
    BY PlainIsText
  <2> HIDE DEF FragmentTokens
  <2>2. (<<b[n]>> \o y)[1] = b[n]
    BY <2>1
  <2> QED BY <1>12, <1>13, <2>2
<1>15. z = <<z[1]>>
  <2>1. z[1] \in Keys \cup ((Scalars \ Fragments) \cup LongInts)
    BY <1>9, <1>14 DEF GoodScalars
  <2> QED BY <1>1, <1>13, <2>1, Json!ValueFrom
<1>16. Len(<<z[1]>>) = 1
  OBVIOUS
<1> QED BY <1>13, <1>15, <1>16

LEMMA FailedDumpMeans ==
  ASSUME ApiInv, LoadingInv
  PROVE  FailedDumpIsRefused
<1> SUFFICES ASSUME ~HoldsUnvalidated
             PROVE  /\ returned # Err("UnicodeDecodeError")
                    /\ returned.tag = "Err" /\ loaded.tag = "Ok" =>
                         \/ Len(Grammar!NoSpace(buffer)) = 1
                         \/ Grammar!Values(Grammar!NoSpace(buffer)) = {loaded.value}
  BY DEF FailedDumpIsRefused
<1>1. returned # Err("UnicodeDecodeError")
  BY DEF ApiInv, CallInv
<1> SUFFICES ASSUME returned.tag = "Err", loaded.tag = "Ok"
             PROVE  \/ Len(Grammar!NoSpace(buffer)) = 1
                    \/ Grammar!Values(Grammar!NoSpace(buffer)) = {loaded.value}
  BY <1>1
<1>2. given = file /\ (file = <<>> \/ (result = Ok /\ file \in Beginnings(buffer)))
  BY ReturnTags DEF given, ApiInv, CallInv
<1> HIDE DEF given, Beginnings, GoodScalars, TextScalars
<1>3. Json!Values(Json!NoSpace(file)) = {loaded.value}
  <2>1. \A e : loaded # Err(e)
    BY DEF Err
  <2> QED BY <1>2, <2>1, LoadedMeans, SameValues, SameNoSpace
<1>4. file # <<>>
  <2>1. Json!NoSpace(<<>>) = <<>>
    <3>1. <<>> \in Seq(Alphabet) /\ Len(<<>>) = 0
      BY EmptySeq
    <3>2. Json!Kept(<<>>)[0] = <<>>
      BY <3>1, Json!KeptEquation
    <3> QED BY <3>1, <3>2 DEF Json!NoSpace
  <2> QED BY <1>3, <2>1, Json!ValueBegins
<1>5. buffer \in Seq(FragmentTokens)
  BY DEF ApiInv, WritingInv, TextInv, TextIn
<1>6. Json!Values(Json!NoSpace(buffer)) # {}
  <2>1. WritesJson
    BY <1>2, <1>4, TextMeans DEF ApiInv, WritingInv
  <2> QED BY <1>2, <2>1, SameValues, SameNoSpace DEF WritesJson
<1>7. CASE \E n \in 0 .. Len(buffer) : file = SubSeq(buffer, 1, n)
  <2>1. PICK w : w \in Json!Values(Json!NoSpace(buffer))
    BY <1>6
  <2>2. loaded.value \in Json!Values(Json!NoSpace(file))
    BY <1>3
  <2>3. \A u \in Json!Values(Json!NoSpace(buffer)) : u = loaded.value
    BY <1>5, <1>7, <2>2, WholeBeginning
  <2>4. Json!Values(Json!NoSpace(buffer)) = {loaded.value}
    BY <2>1, <2>3
  <2> QED BY <2>4, SameValues, SameNoSpace
<1>8. CASE \E n \in 1 .. Len(buffer), c \in TornStrings \cup TextScalars :
             /\ (buffer[n] \in Keys /\ c \in TornStrings) \/ buffer[n] \in GoodScalars
             /\ file = Append(SubSeq(buffer, 1, n - 1), c)
  <2>1. Json!Values(Json!NoSpace(file)) # {}
    BY <1>3
  <2>2. Len(Json!NoSpace(buffer)) = 1
    BY <1>5, <1>6, <1>8, <2>1, CutScalar
  <2> QED BY <2>2, SameNoSpace
<1> QED BY <1>2, <1>4, <1>5, <1>7, <1>8, BeginningIs

\* What a dump that failed leaves in its file is refused, or denotes what the
\* whole text denotes, or is a bare scalar: for every object graph and hook and
\* wherever the write stopped (lib.rs:285-287, de.rs:852-902).
THEOREM FailedDumpCorrect == RSpec => []FailedDumpIsRefused
<1>1. ApiInv /\ LoadingInv => FailedDumpIsRefused
  BY FailedDumpMeans
<1> QED BY <1>1, InitLoadingInv, StepApiInv, StepLoadingInv, PTL DEF RSpec

\* What is read back is the object graph that was given, whatever its depth and
\* however its containers share their items, when no hook ran: every container
\* where it was, and of keys that are written alike the last (lib.rs:48-57,
\* ser.rs:543-584, de.rs:852-902).
THEOREM RoundTripsCorrect == RSpec => []RoundTrips
<1>1. ASSUME ApiInv, LoadingInv PROVE RoundTrips
  <2> SUFFICES ASSUME loaded.tag = "Ok", returned.tag # "Err", ~hook, ~HoldsUnvalidated
               PROVE  loaded.value = Unfold
    BY DEF RoundTrips
  <2>1. returned \in {Str, Bytes, None} /\ result = Ok
    <3>1. loaded # NotCalled
      BY DEF NotCalled
    <3> QED BY <1>1, <3>1 DEF ApiInv, CallInv, LoadingInv
  <2>2. Static
    BY DEF Static
  <2>3. Grammar!Values(Grammar!NoSpace(buffer)) = {loaded.value}
    <3>1. \A e : loaded # Err(e)
      BY DEF Err
    <3>2. DeliveredIsRead
      BY <1>1, DeliveredMeans
    <3> QED BY <2>1, <3>1, <3>2, Zenon DEF DeliveredIsRead
  <2>4. Grammar!Values(Grammar!NoSpace(buffer)) = {Unfold}
    BY <1>1, <2>1, <2>2, WrittenIsDocument DEF ApiInv
  <2> QED BY <2>3, <2>4
<1> QED BY <1>1, InitLoadingInv, StepApiInv, StepLoadingInv, PTL DEF RSpec
=============================================================================
