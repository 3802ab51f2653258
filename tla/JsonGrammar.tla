----------------------------- MODULE JsonGrammar -----------------------------
(***************************************************************************)
(* The reference: the JSON grammar over tokens and the Python value of a   *)
(* document, defined on the text as a whole and without a cursor, a stack  *)
(* or a depth.  It models no code; the parser is compared with it.         *)
(***************************************************************************)
EXTENDS PyDeserialization
Finite == INSTANCE FiniteSetsExt

CONSTANTS GoodStrings, GoodScalars

Alphabet ==
  {"[", "]", "lbrace", "rbrace", ":", "comma"} \cup GoodStrings \cup GoodScalars

\* The first n tokens of s without the whitespace among them.
Kept(s) ==
  LET kept[n \in 0 .. Len(s)] ==
        IF n = 0 THEN <<>>
        ELSE IF s[n] = "ws" THEN kept[n - 1]
        ELSE Append(kept[n - 1], s[n])
  IN kept
NoSpace(s) == Kept(s)[Len(s)]

Inner(s) == SubSeq(s, 2, Len(s) - 1)
Bracketed(s, open, close) == Len(s) >= 2 /\ s[1] = open /\ s[Len(s)] = close
Commas(s) == {i \in DOMAIN s : s[i] = "comma"}
Before(s, i) == SubSeq(s, 1, i - 1)
After(s, i) == SubSeq(s, i + 1, Len(s))

\* The places, among the first n, at which a key of pairs occurs first.
Firsts(pairs) ==
  LET firsts[n \in 0 .. Len(pairs)] ==
        IF n = 0 THEN <<>>
        ELSE IF \E j \in 1 .. n - 1 : pairs[j][1] = pairs[n][1] THEN firsts[n - 1]
        ELSE Append(firsts[n - 1], n)
  IN firsts
LastOf(pairs, k) ==
  CHOOSE i \in DOMAIN pairs :
    pairs[i][1] = k /\ \A j \in DOMAIN pairs : pairs[j][1] = k => j <= i

\* The dict that a sequence of key-value pairs denotes: keys in the order of
\* their first occurrence, each with its last value.
DictOf(pairs) ==
  LET firsts == Firsts(pairs)[Len(pairs)] IN
  PyDict([n \in DOMAIN firsts |-> pairs[firsts[n]][1]],
         [n \in DOMAIN firsts |-> pairs[LastOf(pairs, pairs[firsts[n]][1])][2]])

(***************************************************************************)
(* What a text free of whitespace denotes as a value, as the items of a    *)
(* list and as the entries of a dict, d being what shorter texts denote.   *)
(***************************************************************************)
ValueOf(d, s) ==
  {Leaf(t) : t \in {u \in GoodStrings \cup GoodScalars : s = <<u>>}}
  \cup (IF ~Bracketed(s, "[", "]") THEN {}
        ELSE IF Len(s) = 2 THEN {PyList(<<>>)}
        ELSE {PyList(vs) : vs \in d[<<"items", Inner(s)>>]})
  \cup (IF ~Bracketed(s, "lbrace", "rbrace") THEN {}
        ELSE IF Len(s) = 2 THEN {PyDict(<<>>, <<>>)}
        ELSE {DictOf(ps) : ps \in d[<<"entries", Inner(s)>>]})

ItemsOf(d, s) ==
  {<<v>> : v \in d[<<"value", s>>]}
  \cup UNION {UNION {{<<v>> \o vs : vs \in d[<<"items", After(s, c)>>]} :
                       v \in d[<<"value", Before(s, c)>>]} : c \in Commas(s)}

EntryOf(d, s) ==
  IF Len(s) >= 3 /\ s[1] \in GoodStrings /\ s[2] = ":"
  THEN {<<Leaf(s[1]), v>> : v \in d[<<"value", After(s, 2)>>]}
  ELSE {}

EntriesOf(d, s) ==
  {<<p>> : p \in EntryOf(d, s)}
  \cup UNION {UNION {{<<p>> \o ps : ps \in d[<<"entries", After(s, c)>>]} :
                       p \in EntryOf(d, Before(s, c))} : c \in Commas(s)}

Denotation[x \in {"value", "items", "entries"} \X Seq(Alphabet)] ==
  CASE x[1] = "value" -> ValueOf(Denotation, x[2])
    [] x[1] = "items" -> ItemsOf(Denotation, x[2])
    [] x[1] = "entries" -> EntriesOf(Denotation, x[2])

\* The values that s, free of whitespace, denotes: none or one.
Values(s) == IF s \in Seq(Alphabet) THEN Denotation[<<"value", s>>] ELSE {}

\* s holds an int that has too many digits for Python, which is JSON none the less.
HoldsLongInt(s) == \E i \in DOMAIN s : s[i] \in TooManyDigits

Count(s, set) == Finite!Cardinality({i \in DOMAIN s : s[i] \in set})
Open(s) == Count(s, {"[", "lbrace"}) - Count(s, {"]", "rbrace"})

\* How deep a text nests: a scalar and an empty container are one level.
Nesting(s) ==
  Finite!Max({0} \cup {1 + Open(SubSeq(s, 1, i - 1)) : i \in {n \in DOMAIN s : s[n] \notin {"]", "rbrace"}}})
==============================================================================
