---------------------------- MODULE ParserProofs ----------------------------
(***************************************************************************)
(* Theorems about Parser, for every document, every depth limit and every  *)
(* implementation of Deserialization.                                      *)
(***************************************************************************)
EXTENDS Parser, NaturalFacts, TLAPS, SequenceTheorems, FiniteSetTheorems

\* What consume_whitespace leaves the cursor on (de.rs:430-434): it moves
\* forward over whitespace only, stays inside the document or at its end, and
\* stops on a token that is not whitespace.
LEMMA SkipWsStops ==
  ASSUME input \in Seq(Tokens), NEW p \in 1 .. Len(input) + 1
  PROVE  /\ SkipWs(p) \in p .. Len(input) + 1
         /\ Peek(SkipWs(p)) # WS
         /\ \A i \in p .. SkipWs(p) - 1 : input[i] = WS
<1> DEFINE Stops == {q \in p .. Len(input) + 1 : Peek(q) # WS}
<1>1. Len(input) + 1 \in Stops
  BY TokensAssumption DEF Peek, Tokens, WS
<1>2. PICK q \in Stops : \A r \in Stops : q <= r
  <2>1. Stops \in SUBSET Nat /\ Stops # {}
    BY <1>1
  <2> QED BY <2>1, LeastElement
<1>3. \A i \in p .. q - 1 : input[i] = WS
  BY <1>2 DEF Peek
<1>4. \E r \in p .. Len(input) + 1 : Peek(r) # WS /\ \A i \in p .. r - 1 : input[i] = WS
  BY <1>3
<1> QED BY <1>4 DEF SkipWs
----------------------------------------------------------------------------
Brackets == {"[", "]", "lbrace", "rbrace"}

\* Tokens that are not brackets do not change how many are unclosed.
LEMMA UnclosedSame ==
  ASSUME NEW p \in Nat \ {0}, NEW q \in Nat, p <= q,
         \A i \in p .. q - 1 : input[i] \notin Brackets
  PROVE  Unclosed(q - 1) = Unclosed(p - 1)
<1>1. ASSUME NEW S, S \subseteq Brackets
      PROVE  {i \in 1 .. q - 1 : input[i] \in S} = {i \in 1 .. p - 1 : input[i] \in S}
  <2>1. ASSUME NEW i \in 1 .. q - 1, input[i] \in S
        PROVE  i \in 1 .. p - 1
    <3>1. i \notin p .. q - 1
      BY <1>1, <2>1
    <3> QED BY <3>1
  <2>2. 1 .. p - 1 \subseteq 1 .. q - 1
    OBVIOUS
  <2> QED BY <2>1, <2>2
<1>2. {"[", "lbrace"} \subseteq Brackets /\ {"]", "rbrace"} \subseteq Brackets
  BY DEF Brackets
<1> QED BY <1>1, <1>2 DEF Unclosed

\* Where, among the first n places of s, there is one of S.
Places(s, n, S) == {i \in 1 .. n : s[i] \in S}

\* How one more token changes these places.
LEMMA OneMorePlace ==
  ASSUME NEW s, NEW S, NEW p \in Nat \ {0}
  PROVE  /\ Cardinality(Places(s, p, S)) \in Nat
         /\ Cardinality(Places(s, p - 1, S)) \in Nat
         /\ s[p] \in S => Cardinality(Places(s, p, S)) = Cardinality(Places(s, p - 1, S)) + 1
         /\ s[p] \notin S => Cardinality(Places(s, p, S)) = Cardinality(Places(s, p - 1, S))
<1> DEFINE At(n) == Places(s, n, S)
<1>1. IsFiniteSet(At(p)) /\ IsFiniteSet(At(p - 1))
  <2>1. IsFiniteSet(1 .. p) /\ IsFiniteSet(1 .. p - 1)
    BY FS_Interval
  <2>2. At(p) \subseteq 1 .. p /\ At(p - 1) \subseteq 1 .. p - 1
    BY DEF Places
  <2> QED BY <2>1, <2>2, FS_Subset
<1>2. s[p] \in S => At(p) = At(p - 1) \cup {p}
  BY DEF Places
<1>3. s[p] \notin S => At(p) = At(p - 1)
  BY DEF Places
<1>4. p \notin At(p - 1)
  BY DEF Places
<1> HIDE DEF At
<1>5. Cardinality(At(p)) \in Nat /\ Cardinality(At(p - 1)) \in Nat
  BY <1>1, FS_CardinalityType
<1>6. s[p] \in S => Cardinality(At(p)) = Cardinality(At(p - 1)) + 1
  BY <1>1, <1>2, <1>4, FS_AddElement
<1>7. s[p] \notin S => Cardinality(At(p)) = Cardinality(At(p - 1))
  BY <1>3
<1> QED BY <1>5, <1>6, <1>7 DEF At

LEMMA NoPlace == \A s, S : Cardinality(Places(s, 0, S)) = 0
<1>1. \A s, S : Places(s, 0, S) = {}
  BY DEF Places
<1> QED BY <1>1, FS_EmptySet

LEMMA UnclosedPlaces ==
  \A n : Unclosed(n) = Cardinality(Places(input, n, {"[", "lbrace"}))
                       - Cardinality(Places(input, n, {"]", "rbrace"}))
BY DEF Unclosed, Places

LEMMA UnclosedNothing == Unclosed(0) = 0
BY NoPlace, UnclosedPlaces

\* An opening bracket adds one to the unclosed ones, a closing bracket takes
\* one away.
LEMMA UnclosedBracket ==
  ASSUME NEW p \in Nat \ {0}
  PROVE  /\ Unclosed(p - 1) \in Int
         /\ input[p] \in {"[", "lbrace"} => Unclosed(p) = Unclosed(p - 1) + 1
         /\ input[p] \in {"]", "rbrace"} => Unclosed(p) = Unclosed(p - 1) - 1
         /\ input[p] \notin Brackets => Unclosed(p) = Unclosed(p - 1)
<1> DEFINE Opening(n) == Places(input, n, {"[", "lbrace"})
           Closed(n) == Places(input, n, {"]", "rbrace"})
<1>1. /\ Cardinality(Opening(p)) \in Nat
      /\ Cardinality(Opening(p - 1)) \in Nat
      /\ input[p] \in {"[", "lbrace"} => Cardinality(Opening(p)) = Cardinality(Opening(p - 1)) + 1
      /\ input[p] \notin {"[", "lbrace"} => Cardinality(Opening(p)) = Cardinality(Opening(p - 1))
  BY OneMorePlace
<1>2. /\ Cardinality(Closed(p)) \in Nat
      /\ Cardinality(Closed(p - 1)) \in Nat
      /\ input[p] \in {"]", "rbrace"} => Cardinality(Closed(p)) = Cardinality(Closed(p - 1)) + 1
      /\ input[p] \notin {"]", "rbrace"} => Cardinality(Closed(p)) = Cardinality(Closed(p - 1))
  BY OneMorePlace
<1>3. /\ Unclosed(p) = Cardinality(Opening(p)) - Cardinality(Closed(p))
      /\ Unclosed(p - 1) = Cardinality(Opening(p - 1)) - Cardinality(Closed(p - 1))
  BY UnclosedPlaces
<1> HIDE DEF Opening, Closed
<1>4. CASE input[p] \in {"[", "lbrace"}
  <2>1. input[p] \notin {"]", "rbrace"} /\ input[p] \in Brackets
    BY <1>4 DEF Brackets
  <2> QED BY <1>1, <1>2, <1>3, <1>4, <2>1
<1>5. CASE input[p] \in {"]", "rbrace"}
  <2>1. input[p] \notin {"[", "lbrace"} /\ input[p] \in Brackets
    BY <1>5 DEF Brackets
  <2> QED BY <1>1, <1>2, <1>3, <1>5, <2>1
<1>6. CASE input[p] \notin Brackets
  <2>1. input[p] \notin {"[", "lbrace"} /\ input[p] \notin {"]", "rbrace"}
    BY <1>6 DEF Brackets
  <2> QED BY <1>1, <1>2, <1>3, <1>6, <2>1
<1> QED BY <1>4, <1>5, <1>6 DEF Brackets
----------------------------------------------------------------------------
(***************************************************************************)
(* How deep the tokens of a document stand: inside so many brackets.  A    *)
(* bracket that closes stands where the one it closes stands, and is left  *)
(* out, as whitespace is.                                                  *)
(***************************************************************************)
Stands(i) == input[i] \notin {WS, "]", "rbrace"}

\* From p on and before q no token stands inside more than d brackets.
Shallow(p, q, d) == \A i \in p .. q - 1 : Stands(i) => Unclosed(i - 1) <= d

\* Some token stands inside d brackets at least.
Deep(d) == \E i \in 1 .. Len(input) : Stands(i) /\ Unclosed(i - 1) >= d

LEMMA ShallowJoin ==
  ASSUME NEW p \in Int, NEW q \in Int, NEW r \in Int, NEW d,
         Shallow(p, q, d), Shallow(q, r, d)
  PROVE  Shallow(p, r, d)
BY DEF Shallow

LEMMA ShallowWs ==
  ASSUME input \in Seq(Tokens), NEW p \in 1 .. Len(input) + 1, NEW d
  PROVE  Shallow(p, SkipWs(p), d)
BY SkipWsStops DEF Shallow, Stands

LEMMA ShallowOne ==
  ASSUME NEW p \in Int, NEW d, Stands(p) => Unclosed(p - 1) <= d
  PROVE  Shallow(p, p + 1, d)
BY DEF Shallow

LEMMA DeepAt ==
  ASSUME NEW p \in 1 .. Len(input), NEW d, Stands(p), Unclosed(p - 1) >= d
  PROVE  Deep(d)
BY DEF Deep
----------------------------------------------------------------------------
(***************************************************************************)
(* What a function of the parser leaves behind when it began at p: it      *)
(* fails, or it consumes n tokens at least and puts in last_any a thunk    *)
(* inside d unclosed brackets or a value outside the innermost of them.    *)
(* A thunk is made for a token inside these brackets; only after the       *)
(* bracket of a list it is made for whatever follows, which may be a brace *)
(* that closes nothing.                                                    *)
(***************************************************************************)
Outcome(p, n, d) ==
  /\ pos' \in p .. Len(input) + 1
  /\ finished' \in Seq(Map)
  /\ \/ last' \in Failures
     \/ /\ last' \in [tag : {"Thunk"}, op : Containers]
        /\ Unclosed(pos' - 1) = d
        /\ pos' >= p + n
        /\ Shallow(p, pos', d)
        /\ Deep(d) \/ Peek(pos') = "rbrace"
     \/ /\ last' \in [tag : {"Ok"}, value : Any]
        /\ Unclosed(pos' - 1) = d - 1
        /\ pos' >= p + n
        /\ Shallow(p, pos', d - 1)

\* A function that began earlier, at p, and went on at q with another.
LEMMA OutcomeEarlier ==
  ASSUME NEW p \in Nat, NEW q \in Nat, p <= q, NEW n \in Nat, NEW m \in Nat, p + m <= q + n,
         NEW d \in Int, Outcome(q, n, d), Shallow(p, q, d),
         last'.tag = "Ok" => Shallow(p, q, d - 1), input \in Seq(Tokens)
  PROVE  Outcome(p, m, d)
<1>1. pos' \in p .. Len(input) + 1 /\ finished' \in Seq(Map) /\ pos' \in Int
  BY DEF Outcome
<1>2. pos' >= q + n => pos' >= p + m
  BY <1>1
<1>3. CASE last' \in Failures
  BY <1>1, <1>3 DEF Outcome
<1>4. CASE last' \in [tag : {"Thunk"}, op : Containers]
  <2>1. /\ Unclosed(pos' - 1) = d /\ pos' >= q + n /\ Shallow(q, pos', d)
        /\ Deep(d) \/ Peek(pos') = "rbrace"
    BY <1>4 DEF Outcome, Failures
  <2>2. Shallow(p, pos', d)
    BY <1>1, <2>1, ShallowJoin
  <2> QED BY <1>1, <1>2, <1>4, <2>1, <2>2 DEF Outcome
<1>5. CASE last' \in [tag : {"Ok"}, value : Any]
  <2>1. Unclosed(pos' - 1) = d - 1 /\ pos' >= q + n /\ Shallow(q, pos', d - 1)
    BY <1>5 DEF Outcome, Failures
  <2>2. Shallow(p, pos', d - 1)
    BY <1>1, <1>5, <2>1, ShallowJoin
  <2> QED BY <1>1, <1>2, <1>5, <2>1, <2>2 DEF Outcome
<1> QED BY <1>3, <1>4, <1>5 DEF Outcome

\* The tag of a result tells what it is.
LEMMA ResultTags ==
  ASSUME NEW T, NEW r \in Returns(T)
  PROVE  /\ r.tag \in {"Ok", "Err"}
         /\ r.tag = "Err" => r \in Failures
         /\ r.tag = "Ok" => r \in [tag : {"Ok"}, value : T] /\ r.value \in T
BY DEF Returns, Failures

\* Looking at the cursor finds the end exactly past the last token.
LEMMA PeekInside ==
  ASSUME input \in Seq(Tokens), NEW p \in 1 .. Len(input) + 1
  PROVE  /\ Peek(p) # Eof => p \in 1 .. Len(input) /\ p + 1 \in 1 .. Len(input) + 1
         /\ Peek(p) # Eof => Peek(p) = input[p] /\ input[p] \in Tokens
         /\ Peek(p) = Eof => p = Len(input) + 1
<1>1. CASE p <= Len(input)
  <2>1. Peek(p) = input[p] /\ input[p] \in Tokens
    BY <1>1 DEF Peek
  <2> QED BY <1>1, <2>1, TokensAssumption
<1>2. CASE p > Len(input)
  BY <1>2 DEF Peek
<1> QED BY <1>1, <1>2

\* Whitespace is not a bracket.
LEMMA SkipWsUnclosed ==
  ASSUME input \in Seq(Tokens), NEW p \in 1 .. Len(input) + 1
  PROVE  Unclosed(SkipWs(p) - 1) = Unclosed(p - 1)
<1>1. SkipWs(p) \in p .. Len(input) + 1 /\ \A i \in p .. SkipWs(p) - 1 : input[i] = WS
  BY SkipWsStops
<1>2. WS \notin Brackets
  BY DEF WS, Brackets
<1> QED BY <1>1, <1>2, UnclosedSame

\* Consuming the token at p, which is no bracket.
LEMMA ConsumeOther ==
  ASSUME input \in Seq(Tokens), NEW p \in 1 .. Len(input), input[p] \notin Brackets
  PROVE  Unclosed((p + 1) - 1) = Unclosed(p - 1)
BY UnclosedBracket
\* finish_list and finish_map after the closing bracket at q.
LEMMA FinishOutcome ==
  ASSUME input \in Seq(Tokens), finished \in Seq(Map),
         NEW p \in 1 .. Len(input) + 1, NEW q \in p .. Len(input),
         input[q] \in {"]", "rbrace"},
         Unclosed(q - 1) = Unclosed(p - 1), \A i \in p .. q - 1 : input[i] = WS
  PROVE  /\ \A l \in BuildingList :
              FinishListAt(q + 1, l) => Outcome(p, 1, Unclosed(p - 1))
         /\ \A m \in Map :
              FinishMapAt(q + 1, m) => Outcome(p, 1, Unclosed(p - 1))
<1>1. Unclosed((q + 1) - 1) = Unclosed(p - 1) - 1
  BY UnclosedBracket
<1>2. q + 1 \in p .. Len(input) + 1 /\ q + 1 >= p + 1
  OBVIOUS
<1> DEFINE d == Unclosed(p - 1)
<1>0. Shallow(p, q + 1, d - 1)
  BY DEF Shallow, Stands
<1>3. ASSUME NEW l \in BuildingList, FinishListAt(q + 1, l)
      PROVE  Outcome(p, 1, Unclosed(p - 1))
  <2>1. pos' = q + 1 /\ finished' = finished /\ last' \in Returns(Any)
    BY <1>3, DeserializationAssumption DEF FinishListAt
  <2> QED BY <1>0, <1>1, <1>2, <2>1 DEF Outcome, Returns
<1>4. ASSUME NEW m \in Map, FinishMapAt(q + 1, m)
      PROVE  Outcome(p, 1, Unclosed(p - 1))
  <2>1. pos' = q + 1 /\ last' \in Returns(Any)
    BY <1>4, DeserializationAssumption DEF FinishMapAt
  <2>2. finished' \in Seq(Map)
    BY <1>4 DEF FinishMapAt
  <2> QED BY <1>0, <1>1, <1>2, <2>1, <2>2 DEF Outcome, Returns
<1> QED BY <1>3, <1>4

\* A key, its colon and the whitespace around them.
LEMMA ParseKeyOutcome ==
  ASSUME input \in Seq(Tokens), finished \in Seq(Map),
         NEW p \in 1 .. Len(input), input[p] \in Strings,
         NEW m \in Map, ParseKey(p, m)
  PROVE  Outcome(p, 1, Unclosed(p - 1)) /\ last'.tag # "Ok"
<1> DEFINE c == SkipWs(p + 1)
<1>1. PICK r \in ParseStr(input[p]) :
        \/ r.tag = "Err" /\ Yield(p + 1, r)
        \/ r.tag = "Ok" /\ Peek(c) # ":" /\ Yield(c, Err("ExpectedMapItem"))
        \/ /\ r.tag = "Ok"
           /\ Peek(c) = ":"
           /\ Yield(SkipWs(c + 1), Thunk(MapFrame(m, r.value)))
  BY DEF ParseKey
<1>2. r \in Returns(String)
  BY DeserializationAssumption
<1>3. p + 1 \in 1 .. Len(input) + 1 /\ c \in p + 1 .. Len(input) + 1
  BY SkipWsStops
<1>4. CASE r.tag = "Err" /\ Yield(p + 1, r)
  <2>1. pos' = p + 1 /\ last' \in Failures /\ finished' = finished
    BY <1>2, <1>4, ResultTags DEF Yield
  <2> QED BY <1>3, <2>1 DEF Outcome, Failures
<1>5. CASE Peek(c) # ":" /\ Yield(c, Err("ExpectedMapItem"))
  <2>1. pos' = c /\ last' \in Failures /\ finished' = finished
    BY <1>5 DEF Yield, Err, Failures, ParseErrors
  <2> QED BY <1>3, <2>1 DEF Outcome, Failures
<1>6. CASE r.tag = "Ok" /\ Peek(c) = ":" /\ Yield(SkipWs(c + 1), Thunk(MapFrame(m, r.value)))
  <2>1. c \in 1 .. Len(input) /\ input[c] = ":" /\ c + 1 \in 1 .. Len(input) + 1
    BY <1>3, <1>6, PeekInside DEF Eof
  <2>2. input[p] \notin Brackets /\ input[c] \notin Brackets
    BY <2>1, TokensAssumption DEF Brackets, Punctuation
  <2>3. Unclosed(c - 1) = Unclosed(p)
    BY <1>3, SkipWsUnclosed
  <2>4. Unclosed(SkipWs(c + 1) - 1) = Unclosed(c)
    BY <2>1, SkipWsUnclosed
  <2>5. Unclosed(p) = Unclosed(p - 1) /\ Unclosed(c) = Unclosed(c - 1)
    <3> HIDE DEF c
    <3>1. p \in Nat \ {0} /\ c \in Nat \ {0}
      BY <2>1
    <3> QED BY <2>2, <3>1, UnclosedBracket
  <2>6. SkipWs(c + 1) \in p + 1 .. Len(input) + 1
    BY <1>3, <2>1, SkipWsStops
  <2>7. pos' = SkipWs(c + 1) /\ finished' = finished
    BY <1>6 DEF Yield
  <2>8. last' \in [tag : {"Thunk"}, op : Containers]
    BY <1>2, <1>6, ResultTags DEF Yield, Thunk, MapFrame, Containers
  <2> DEFINE d == Unclosed(p - 1)
             k == SkipWs(c + 1)
  <2>9. d \in Int /\ p \in Int /\ p + 1 \in Int /\ c \in Int /\ c + 1 \in Int /\ k \in Int
    <3>1. p \in Nat \ {0}
      OBVIOUS
    <3> HIDE DEF c, k
    <3> QED BY <1>3, <2>1, <2>6, <3>1, UnclosedBracket DEF k
  <2>10. Shallow(p + 1, c, d) /\ Shallow(c + 1, k, d)
    BY <1>3, <2>1, ShallowWs
  <2> HIDE DEF c, d, k
  <2>11. Unclosed(p - 1) <= d /\ Unclosed(c - 1) <= d
    BY <2>3, <2>5, <2>9 DEF d
  <2>12. Shallow(p, p + 1, d) /\ Shallow(c, c + 1, d)
    BY <2>9, <2>11, ShallowOne
  <2>13. Shallow(p, k, d)
    <3>1. Shallow(p, c, d)
      BY <2>9, <2>10, <2>12, ShallowJoin
    <3>2. Shallow(p, c + 1, d)
      BY <2>9, <2>12, <3>1, ShallowJoin
    <3> QED BY <2>9, <2>10, <3>2, ShallowJoin
  <2>14. Deep(d)
    <3>1. Stands(p)
      BY TokensAssumption, <2>2 DEF Stands, Brackets
    <3> QED BY <2>9, <3>1, DeepAt DEF d
  <2>15. last'.tag # "Ok"
    BY <2>8
  <2> QED BY <2>3, <2>4, <2>5, <2>6, <2>7, <2>8, <2>13, <2>14, <2>15 DEF Outcome, d, k
<1> QED BY <1>1, <1>4, <1>5, <1>6
\* parse_list (de.rs:748-763).
LEMMA ParseListOutcome ==
  ASSUME input \in Seq(Tokens), finished \in Seq(Map),
         NEW p \in 1 .. Len(input) + 1, ParseList(p)
  PROVE  Outcome(p, 0, Unclosed(p - 1))
<1> DEFINE q == SkipWs(p)
<1>1. q \in p .. Len(input) + 1 /\ Unclosed(q - 1) = Unclosed(p - 1)
      /\ Peek(q) # WS /\ \A i \in p .. q - 1 : input[i] = WS
  BY SkipWsStops, SkipWsUnclosed
<1>0. Shallow(p, q, Unclosed(p - 1))
  BY ShallowWs
<1>2. \/ Peek(q) = Eof /\ Yield(q, Err("Eof"))
      \/ Peek(q) = "]" /\ FinishListAt(q + 1, EmptyList)
      \/ Peek(q) \notin {Eof, "]"} /\ Yield(q, Thunk(ListFrame(EmptyList)))
  BY DEF ParseList
<1> HIDE DEF q
<1>3. CASE Yield(q, Err("Eof"))
  BY <1>1, <1>3 DEF Yield, Err, Failures, ParseErrors, Outcome
<1>4. CASE Peek(q) = "]" /\ FinishListAt(q + 1, EmptyList)
  <2>1. q \in p .. Len(input) /\ input[q] = "]"
    BY <1>1, <1>4, PeekInside DEF Eof
  <2>2. Outcome(p, 1, Unclosed(p - 1))
    BY <1>1, <1>4, <2>1, FinishOutcome, DeserializationAssumption
  <2> QED BY <2>2 DEF Outcome
<1>5. CASE Peek(q) \notin {Eof, "]"} /\ Yield(q, Thunk(ListFrame(EmptyList)))
  <2> DEFINE d == Unclosed(p - 1)
  <2>0. Deep(d) \/ Peek(q) = "rbrace"
    <3>1. q \in 1 .. Len(input) /\ Peek(q) = input[q]
      BY <1>1, <1>5, PeekInside
    <3>2. Peek(q) # "rbrace" => Stands(q)
      BY <1>1, <1>5, <3>1 DEF Stands
    <3>3. Unclosed(q - 1) >= d
      BY <1>1, <3>1, UnclosedBracket
    <3> QED BY <3>1, <3>2, <3>3, DeepAt
  <2>1. pos' = q /\ finished' = finished /\ last' \in [tag : {"Thunk"}, op : Containers]
    BY <1>5, DeserializationAssumption DEF Yield, Thunk, ListFrame, Containers
  <2> QED BY <1>0, <1>1, <2>0, <2>1 DEF Outcome
<1> QED BY <1>2, <1>3, <1>4, <1>5

\* parse_map (de.rs:795-815).
LEMMA ParseMapOutcome ==
  ASSUME input \in Seq(Tokens), finished \in Seq(Map),
         NEW p \in 1 .. Len(input) + 1, ParseMap(p)
  PROVE  Outcome(p, 0, Unclosed(p - 1))
<1> DEFINE q == SkipWs(p)
<1>1. q \in p .. Len(input) + 1 /\ Unclosed(q - 1) = Unclosed(p - 1)
      /\ Peek(q) # WS /\ \A i \in p .. q - 1 : input[i] = WS
  BY SkipWsStops, SkipWsUnclosed
<1>0. Shallow(p, q, Unclosed(p - 1))
  BY ShallowWs
<1>2. \/ Peek(q) = Eof /\ Yield(q, Err("Eof"))
      \/ Peek(q) = "rbrace" /\ FinishMapAt(q + 1, EmptyMap)
      \/ Peek(q) \in Strings /\ ParseKey(q, EmptyMap)
      \/ Peek(q) \notin {Eof, "rbrace"} \cup Strings /\ Yield(q + 1, Err("ExpectedMapItem"))
  BY DEF ParseMap
<1> HIDE DEF q
<1>3. CASE Yield(q, Err("Eof"))
  BY <1>1, <1>3 DEF Yield, Err, Failures, ParseErrors, Outcome
<1>4. CASE Peek(q) = "rbrace" /\ FinishMapAt(q + 1, EmptyMap)
  <2>1. q \in p .. Len(input) /\ input[q] = "rbrace"
    BY <1>1, <1>4, PeekInside DEF Eof
  <2>2. Outcome(p, 1, Unclosed(p - 1))
    BY <1>1, <1>4, <2>1, FinishOutcome, DeserializationAssumption
  <2> QED BY <2>2 DEF Outcome
<1>5. CASE Peek(q) \in Strings /\ ParseKey(q, EmptyMap)
  <2>1. Peek(q) # Eof
    BY <1>5, TokensAssumption DEF Tokens
  <2>2. q \in 1 .. Len(input) /\ input[q] \in Strings
    BY <1>1, <1>5, <2>1, PeekInside
  <2>3. Outcome(q, 1, Unclosed(q - 1))
    BY <1>5, <2>2, ParseKeyOutcome, DeserializationAssumption
  <2> DEFINE d == Unclosed(q - 1)
  <2>4. d \in Int
    BY <2>2, UnclosedBracket
  <2>5. Shallow(p, q, d) /\ Shallow(p, q, d - 1)
    BY <1>1 DEF Shallow, Stands
  <2>6. d = Unclosed(p - 1) /\ Outcome(q, 1, d)
    BY <1>1, <2>3
  <2> HIDE DEF d
  <2>7. Outcome(p, 0, d)
    <3>1. p \in Nat /\ q \in Nat /\ p <= q /\ 0 \in Nat /\ 1 \in Nat /\ p + 0 <= q + 1
      BY <1>1
    <3> QED BY <2>4, <2>5, <2>6, <3>1, OutcomeEarlier
  <2> QED BY <2>6, <2>7
<1>6. CASE Peek(q) # Eof /\ Yield(q + 1, Err("ExpectedMapItem"))
  <2>1. q + 1 \in p .. Len(input) + 1
    BY <1>1, <1>6, PeekInside
  <2> QED BY <1>6, <2>1 DEF Yield, Err, Failures, ParseErrors, Outcome
<1> QED BY <1>2, <1>3, <1>4, <1>5, <1>6
\* parse_any (de.rs:503-543): a scalar, a string, or the start of a container.
LEMMA ParseAnyOutcome ==
  ASSUME TypeOK, ParseAny
  PROVE  Outcome(pos, 1, Unclosed(pos - 1) + 1)
<1>1. input \in Seq(Tokens) /\ pos \in 1 .. Len(input) + 1 /\ finished \in Seq(Map)
  BY DEF TypeOK
<1>2. \/ Peek(pos) = Eof /\ Yield(pos, Err("Eof"))
      \/ Peek(pos) \in Scalars /\ \E r \in ParseScalar(input[pos]) : Yield(pos + 1, r)
      \/ Peek(pos) \in Strings /\ \E r \in ParseStr(input[pos]) : Yield(pos + 1, r)
      \/ Peek(pos) = "[" /\ ParseList(pos + 1)
      \/ Peek(pos) = "lbrace" /\ ParseMap(pos + 1)
      \/ Yield(pos, Err("ExpectedAny"))
  BY DEF ParseAny
<1>3. Unclosed(pos - 1) \in Int
  BY <1>1, UnclosedBracket
<1>4. CASE Yield(pos, Err("Eof")) \/ Yield(pos, Err("ExpectedAny"))
  BY <1>1, <1>4 DEF Yield, Err, Failures, ParseErrors, Outcome
<1>5. ASSUME Peek(pos) \in Scalars \cup Strings,
             NEW r \in Returns(Any), Yield(pos + 1, r)
      PROVE  Outcome(pos, 1, Unclosed(pos - 1) + 1)
  <2>1. Peek(pos) # Eof
    BY <1>5, TokensAssumption DEF Tokens
  <2>2. pos \in 1 .. Len(input) /\ pos + 1 \in 1 .. Len(input) + 1
        /\ input[pos] \in Scalars \cup Strings
    BY <1>1, <1>5, <2>1, PeekInside
  <2>3. input[pos] \notin Brackets
    BY <2>2, TokensAssumption DEF Brackets, Punctuation
  <2>4. Unclosed((pos + 1) - 1) = Unclosed(pos - 1)
    BY <1>1, <2>2, <2>3, ConsumeOther
  <2>5. pos' = pos + 1 /\ last' = r /\ finished' = finished
    BY <1>5 DEF Yield
  <2>6. Shallow(pos, pos + 1, (Unclosed(pos - 1) + 1) - 1)
    BY <1>1, <1>3, ShallowOne
  <2> QED BY <1>1, <1>3, <1>5, <2>2, <2>4, <2>5, <2>6 DEF Outcome, Returns
<1>6. CASE Peek(pos) \in Scalars /\ \E r \in ParseScalar(input[pos]) : Yield(pos + 1, r)
  <2>1. Peek(pos) # Eof
    BY <1>6, TokensAssumption DEF Tokens
  <2>2. ParseScalar(input[pos]) \subseteq Returns(Any)
    BY <1>1, <1>6, <2>1, PeekInside, DeserializationAssumption
  <2> QED BY <1>5, <1>6, <2>2
<1>7. CASE Peek(pos) \in Strings /\ \E r \in ParseStr(input[pos]) : Yield(pos + 1, r)
  <2>1. Peek(pos) # Eof
    BY <1>7, TokensAssumption DEF Tokens
  <2>2. ParseStr(input[pos]) \subseteq Returns(Any)
    BY <1>1, <1>7, <2>1, PeekInside, DeserializationAssumption DEF Returns
  <2> QED BY <1>5, <1>7, <2>2
<1>8. ASSUME Peek(pos) \in {"[", "lbrace"}
      PROVE  /\ pos \in 1 .. Len(input)
             /\ pos + 1 \in 1 .. Len(input) + 1
             /\ Unclosed((pos + 1) - 1) = Unclosed(pos - 1) + 1
             /\ Shallow(pos, pos + 1, Unclosed(pos - 1) + 1)
             /\ Shallow(pos, pos + 1, (Unclosed(pos - 1) + 1) - 1)
  <2>1. pos \in 1 .. Len(input) /\ input[pos] \in {"[", "lbrace"}
    BY <1>1, <1>8, PeekInside DEF Eof
  <2>2. Shallow(pos, pos + 1, Unclosed(pos - 1) + 1) /\ Shallow(pos, pos + 1, (Unclosed(pos - 1) + 1) - 1)
    BY <1>1, <1>3, ShallowOne
  <2> QED BY <2>1, <2>2, UnclosedBracket
<1>9. CASE Peek(pos) = "[" /\ ParseList(pos + 1)
  <2>1. Outcome(pos + 1, 0, Unclosed((pos + 1) - 1))
    BY <1>1, <1>8, <1>9, ParseListOutcome
  <2>2. Outcome(pos + 1, 0, Unclosed(pos - 1) + 1)
    BY <1>8, <1>9, <2>1
  <2> QED BY <1>1, <1>3, <1>8, <1>9, <2>2, OutcomeEarlier
<1>10. CASE Peek(pos) = "lbrace" /\ ParseMap(pos + 1)
  <2>1. Outcome(pos + 1, 0, Unclosed((pos + 1) - 1))
    BY <1>1, <1>8, <1>10, ParseMapOutcome
  <2>2. Outcome(pos + 1, 0, Unclosed(pos - 1) + 1)
    BY <1>8, <1>10, <2>1
  <2> QED BY <1>1, <1>3, <1>8, <1>10, <2>2, OutcomeEarlier
<1> QED BY <1>2, <1>4, <1>6, <1>7, <1>9, <1>10

\* A value resumes the newest thunk, which is Done only when it is the last.
LEMMA ResumeTop ==
  ASSUME TypeOK, NEW op, Resume(op)
  PROVE  /\ last.value \in Any
         /\ Top \in Frames
         /\ stack' \in Seq(Frames)
         /\ Len(stack') = Len(stack) - 1
         /\ \A i \in 1 .. Len(stack') : stack'[i].op = "Done" <=> i = 1
         /\ op = "Done" <=> stack' = <<>>
<1>1. /\ result = Running /\ last.tag = "Ok"
      /\ stack # <<>> /\ Top.op = op /\ stack' = SubSeq(stack, 1, Len(stack) - 1)
  BY DEF Resume, Pop
<1>2. /\ stack \in Seq(Frames)
      /\ last \in [tag : {"Ok"}, value : Any] \cup Failures \cup [tag : {"Thunk"}, op : Frames]
      /\ \A i \in 1 .. Len(stack) : stack[i].op = "Done" <=> i = 1
  BY DEF TypeOK
<1>3. last.value \in Any
  BY <1>1, <1>2 DEF Failures
<1>4. Len(stack) \in Nat \ {0} /\ Top = stack[Len(stack)] /\ Top \in Frames
  BY <1>1, <1>2 DEF Top
<1>5. /\ stack' \in Seq(Frames)
      /\ Len(stack') = Len(stack) - 1
      /\ \A i \in 1 .. Len(stack') : stack'[i] = stack[i]
  <2> DEFINE n == Len(stack) - 1
  <2>1. n \in Nat /\ n <= Len(stack) /\ stack' = SubSeq(stack, 1, n)
    BY <1>1, <1>4
  <2>2. \A i \in 1 .. n : stack[i] \in Frames
    BY <1>2, <2>1
  <2> HIDE DEF n
  <2>3. stack' \in Seq(Frames) /\ Len(stack') = n /\ \A i \in 1 .. n : stack'[i] = stack[i]
    BY <1>2, <2>1, <2>2, SubSeqProperties
  <2> QED BY <2>3 DEF n
<1>6. op = "Done" <=> Len(stack) = 1
  <2>1. Len(stack) \in 1 .. Len(stack)
    BY <1>4
  <2>2. stack[Len(stack)].op = "Done" <=> Len(stack) = 1
    BY <1>2, <2>1
  <2> QED BY <1>1, <1>4, <2>2
<1>7. Len(stack) = 1 <=> stack' = <<>>
  BY <1>4, <1>5
<1> QED BY <1>2, <1>3, <1>4, <1>5, <1>6, <1>7
\* continue_parse_list (de.rs:765-789).
LEMMA ContinueListOutcome ==
  ASSUME TypeOK, ContinueList
  PROVE  Outcome(pos, 1, Unclosed(pos - 1))
<1> DEFINE l == ExtendList(Top.list, last.value)
           q == SkipWs(pos)
<1>1. input \in Seq(Tokens) /\ pos \in 1 .. Len(input) + 1 /\ finished \in Seq(Map)
  BY DEF TypeOK
<1>2. Resume("ParsingList")
  BY DEF ContinueList
<1>3. l \in BuildingList
  <2>1. Top \in Frames /\ last.value \in Any
    BY <1>2, ResumeTop
  <2>2. Top.op = "ParsingList"
    BY <1>2 DEF Resume
  <2>3. Top.list \in BuildingList
    BY <2>1, <2>2 DEF Frames, Containers, DoneFrame
  <2> QED BY <2>1, <2>3, DeserializationAssumption
<1>4. q \in pos .. Len(input) + 1 /\ Unclosed(q - 1) = Unclosed(pos - 1)
      /\ \A i \in pos .. q - 1 : input[i] = WS
  BY <1>1, SkipWsStops, SkipWsUnclosed
<1>5. \/ Peek(q) = Eof /\ Yield(q, Err("Eof"))
      \/ Peek(q) = "]" /\ FinishListAt(q + 1, l)
      \/ Peek(q) = "comma" /\ Yield(SkipWs(q + 1), Thunk(ListFrame(l)))
      \/ Peek(q) \notin {Eof, "]", "comma"} /\ Yield(q + 1, Err("ExpectedListItem"))
  BY DEF ContinueList
<1> HIDE DEF l, q
<1>6. CASE Yield(q, Err("Eof"))
  BY <1>1, <1>4, <1>6 DEF Yield, Err, Failures, ParseErrors, Outcome
<1>7. CASE Peek(q) = "]" /\ FinishListAt(q + 1, l)
  <2>1. q \in pos .. Len(input) /\ input[q] = "]"
    BY <1>1, <1>4, <1>7, PeekInside DEF Eof
  <2> QED BY <1>1, <1>3, <1>4, <1>7, <2>1, FinishOutcome
<1>8. CASE Peek(q) = "comma" /\ Yield(SkipWs(q + 1), Thunk(ListFrame(l)))
  <2>1. q \in pos .. Len(input) /\ input[q] = "comma" /\ q + 1 \in 1 .. Len(input) + 1
    BY <1>1, <1>4, <1>8, PeekInside DEF Eof
  <2>2. Unclosed((q + 1) - 1) = Unclosed(pos - 1)
    BY <1>1, <1>4, <2>1, ConsumeOther DEF Brackets
  <2>3. /\ SkipWs(q + 1) \in q + 1 .. Len(input) + 1
        /\ Unclosed(SkipWs(q + 1) - 1) = Unclosed((q + 1) - 1)
    BY <1>1, <2>1, SkipWsStops, SkipWsUnclosed
  <2>4. /\ pos' = SkipWs(q + 1)
        /\ finished' = finished
        /\ last' \in [tag : {"Thunk"}, op : Containers]
    BY <1>3, <1>8 DEF Yield, Thunk, ListFrame, Containers
  <2> DEFINE d == Unclosed(pos - 1)
  <2>5. d \in Int /\ Stands(q) /\ Unclosed(q - 1) = d
    BY <1>1, <1>4, <2>1, UnclosedBracket DEF Stands, WS
  <2>6. Deep(d) /\ Shallow(q, q + 1, d)
    <3> HIDE DEF d
    <3>1. q \in 1 .. Len(input) /\ q \in Int /\ Unclosed(q - 1) <= d /\ Unclosed(q - 1) >= d
      BY <1>1, <1>4, <2>1, <2>5
    <3> QED BY <2>5, <3>1, DeepAt, ShallowOne
  <2>7. Shallow(pos, q, d) /\ Shallow(q + 1, SkipWs(q + 1), d)
    BY <1>1, <1>4, <2>1, ShallowWs DEF Shallow, Stands
  <2>8. Shallow(pos, SkipWs(q + 1), d)
    <3> HIDE DEF d
    <3>1. pos \in Int /\ q \in Int /\ q + 1 \in Int /\ SkipWs(q + 1) \in Int
      BY <1>1, <1>4, <2>3
    <3>2. Shallow(pos, q + 1, d)
      BY <2>6, <2>7, <3>1, ShallowJoin
    <3> QED BY <2>7, <3>1, <3>2, ShallowJoin
  <2> QED BY <1>1, <1>4, <2>2, <2>3, <2>4, <2>6, <2>8 DEF Outcome
<1>9. CASE Peek(q) # Eof /\ Yield(q + 1, Err("ExpectedListItem"))
  <2>1. q + 1 \in pos .. Len(input) + 1
    BY <1>1, <1>4, <1>9, PeekInside
  <2> QED BY <1>1, <1>9, <2>1 DEF Yield, Err, Failures, ParseErrors, Outcome
<1> QED BY <1>5, <1>6, <1>7, <1>8, <1>9

\* continue_parse_map (de.rs:821-850).
LEMMA ContinueMapOutcome ==
  ASSUME TypeOK, ContinueMap
  PROVE  Outcome(pos, 1, Unclosed(pos - 1))
<1> DEFINE q == SkipWs(pos)
           k == SkipWs(q + 1)
<1>1. input \in Seq(Tokens) /\ pos \in 1 .. Len(input) + 1 /\ finished \in Seq(Map)
  BY DEF TypeOK
<1>2. Resume("ParsingMap")
  BY DEF ContinueMap
<1>3. PICK r \in ExtendMap(Top.dict, Top.key, last.value) :
        \/ r.tag = "Err" /\ Yield(pos, r)
        \/ /\ r.tag = "Ok"
           /\ \/ Peek(q) = Eof /\ Yield(q, Err("Eof"))
              \/ Peek(q) = "rbrace" /\ FinishMapAt(q + 1, r.value)
              \/ Peek(q) = "comma" /\ Peek(k) \in Strings /\ ParseKey(k, r.value)
              \/ Peek(q) = "comma" /\ Yield(k, Err("ExpectedMapItem"))
              \/ /\ Peek(q) \notin {Eof, "rbrace", "comma"}
                 /\ Yield(q + 1, Err("ExpectedMapItem"))
  BY DEF ContinueMap
<1>4. r \in Returns(Map)
  <2>1. Top \in Frames /\ last.value \in Any
    BY <1>2, ResumeTop
  <2>2. Top.op = "ParsingMap"
    BY <1>2 DEF Resume
  <2>3. Top.dict \in Map /\ Top.key \in String
    BY <2>1, <2>2 DEF Frames, Containers, DoneFrame
  <2> QED BY <1>3, <2>1, <2>3, DeserializationAssumption
<1>5. q \in pos .. Len(input) + 1 /\ Unclosed(q - 1) = Unclosed(pos - 1)
      /\ \A i \in pos .. q - 1 : input[i] = WS
  BY <1>1, SkipWsStops, SkipWsUnclosed
<1>6. ASSUME Peek(q) = "comma"
      PROVE  /\ k \in pos + 1 .. Len(input) + 1
             /\ Unclosed(k - 1) = Unclosed(pos - 1)
             /\ Shallow(pos, k, Unclosed(pos - 1))
  <2> HIDE DEF q
  <2>1. q \in pos .. Len(input) /\ input[q] = "comma" /\ q + 1 \in 1 .. Len(input) + 1
    BY <1>1, <1>5, <1>6, PeekInside DEF Eof
  <2>2. Unclosed((q + 1) - 1) = Unclosed(pos - 1)
    BY <1>1, <1>5, <2>1, ConsumeOther DEF Brackets
  <2>3. k \in q + 1 .. Len(input) + 1 /\ Unclosed(k - 1) = Unclosed((q + 1) - 1)
    BY <1>1, <2>1, SkipWsStops, SkipWsUnclosed
  <2>4. Unclosed(pos - 1) \in Int /\ Unclosed(q - 1) = Unclosed(pos - 1)
    BY <1>1, <1>5, UnclosedBracket
  <2>5. Shallow(q, q + 1, Unclosed(pos - 1))
    BY <1>5, <2>1, <2>4, ShallowOne
  <2>6. Shallow(pos, q, Unclosed(pos - 1)) /\ Shallow(q + 1, k, Unclosed(pos - 1))
    BY <1>1, <1>5, <2>1, ShallowWs DEF Shallow, Stands
  <2>7. Shallow(pos, k, Unclosed(pos - 1))
    <3>1. pos \in Int /\ q \in Int /\ q + 1 \in Int /\ k \in Int
      BY <1>1, <1>5, <2>3
    <3>2. Shallow(pos, q + 1, Unclosed(pos - 1))
      BY <2>5, <2>6, <3>1, ShallowJoin
    <3> QED BY <2>6, <3>1, <3>2, ShallowJoin
  <2> QED BY <1>1, <1>5, <2>1, <2>2, <2>3, <2>7
<1> HIDE DEF q, k
<1>7. CASE r.tag = "Err" /\ Yield(pos, r)
  <2>1. pos' = pos /\ finished' = finished /\ last' \in Failures
    BY <1>4, <1>7, ResultTags DEF Yield
  <2> QED BY <1>1, <2>1 DEF Outcome
<1>8. CASE Yield(q, Err("Eof"))
  BY <1>1, <1>5, <1>8 DEF Yield, Err, Failures, ParseErrors, Outcome
<1>9. CASE r.tag = "Ok" /\ Peek(q) = "rbrace" /\ FinishMapAt(q + 1, r.value)
  <2>1. q \in pos .. Len(input) /\ input[q] = "rbrace"
    BY <1>1, <1>5, <1>9, PeekInside DEF Eof
  <2>2. r.value \in Map
    BY <1>4, <1>9, ResultTags
  <2> QED BY <1>1, <1>5, <1>9, <2>1, <2>2, FinishOutcome
<1>10. CASE r.tag = "Ok" /\ Peek(q) = "comma" /\ Peek(k) \in Strings /\ ParseKey(k, r.value)
  <2>1. Peek(k) # Eof
    BY <1>10, TokensAssumption DEF Tokens
  <2>2. k \in 1 .. Len(input) /\ input[k] \in Strings
    BY <1>1, <1>6, <1>10, <2>1, PeekInside
  <2>3. r.value \in Map
    BY <1>4, <1>10, ResultTags
  <2>4. Outcome(k, 1, Unclosed(k - 1)) /\ last'.tag # "Ok"
    BY <1>1, <1>10, <2>2, <2>3, ParseKeyOutcome
  <2>5. Unclosed(pos - 1) \in Int /\ Outcome(k, 1, Unclosed(pos - 1))
    BY <1>1, <1>6, <1>10, <2>4, UnclosedBracket
  <2> QED BY <1>1, <1>6, <1>10, <2>2, <2>4, <2>5, OutcomeEarlier
<1>11. CASE Peek(q) = "comma" /\ Yield(k, Err("ExpectedMapItem"))
  <2>1. k \in pos .. Len(input) + 1
    BY <1>1, <1>6, <1>11
  <2> QED BY <1>1, <1>11, <2>1 DEF Yield, Err, Failures, ParseErrors, Outcome
<1>12. CASE Peek(q) # Eof /\ Yield(q + 1, Err("ExpectedMapItem"))
  <2>1. q + 1 \in pos .. Len(input) + 1
    BY <1>1, <1>5, <1>12, PeekInside
  <2> QED BY <1>1, <1>12, <2>1 DEF Yield, Err, Failures, ParseErrors, Outcome
<1> QED BY <1>3, <1>7, <1>8, <1>9, <1>10, <1>11, <1>12
----------------------------------------------------------------------------
(***************************************************************************)
(* Type correctness.                                                       *)
(***************************************************************************)
\* A thunk is pushed: Done on the empty stack, any other above it.
LEMMA PushFrame ==
  ASSUME TypeOK, Push
  PROVE  /\ stack' \in Seq(Frames)
         /\ Len(stack') = Len(stack) + 1
         /\ \A i \in 1 .. Len(stack') : stack'[i].op = "Done" <=> i = 1
<1>1. /\ stack \in Seq(Frames)
      /\ \A i \in 1 .. Len(stack) : stack[i].op = "Done" <=> i = 1
      /\ last.op.op = "Done" <=> stack = <<>>
      /\ last.op \in Frames
      /\ stack' = Append(stack, last.op)
  BY DEF TypeOK, Push, Failures
<1>2. /\ stack' \in Seq(Frames)
      /\ Len(stack') = Len(stack) + 1
      /\ \A i \in 1 .. Len(stack) : stack'[i] = stack[i]
      /\ stack'[Len(stack) + 1] = last.op
  BY <1>1, AppendProperties
<1>3. stack = <<>> <=> Len(stack) + 1 = 1
  BY <1>1, EmptySeq
<1>4. ASSUME NEW i \in 1 .. Len(stack')
      PROVE  stack'[i].op = "Done" <=> i = 1
  <2>1. CASE i \in 1 .. Len(stack)
    BY <1>1, <1>2, <2>1
  <2>2. CASE i = Len(stack) + 1
    BY <1>1, <1>2, <1>3, <2>2
  <2> QED BY <1>2, <2>1, <2>2
<1> QED BY <1>2, <1>4

\* An iteration that goes on with what a function of the parser yielded.
LEMMA OutcomeType ==
  ASSUME TypeOK, UNCHANGED <<input, limit, result>>,
         NEW n \in Nat, NEW d \in Int, Outcome(pos, n, d),
         stack' \in Seq(Frames), stack' # <<>>,
         \A i \in 1 .. Len(stack') : stack'[i].op = "Done" <=> i = 1
  PROVE  TypeOK'
<1>1. /\ input' \in Seq(Tokens)
      /\ limit' \in Limits
      /\ result' \in {Running, Err("DepthLimitExceeded")} \cup Returns(Any)
  BY DEF TypeOK
<1>2. pos' \in 1 .. Len(input') + 1 /\ finished' \in Seq(Map)
  BY DEF TypeOK, Outcome
<1>3. last' \in [tag : {"Ok"}, value : Any] \cup Failures \cup [tag : {"Thunk"}, op : Frames]
  BY DEF Outcome, Frames
<1>4. last'.tag = "Thunk" => last'.op.op # "Done"
  BY DEF Outcome, Failures, Containers
<1> QED BY <1>1, <1>2, <1>3, <1>4 DEF TypeOK

LEMMA InitTypeOK == Init => TypeOK
<1> SUFFICES ASSUME Init PROVE TypeOK
  OBVIOUS
<1>1. input \in Seq(Tokens) /\ limit \in Limits
  BY TokensAssumption DEF Init
<1>2. pos \in 1 .. Len(input) + 1
  <2>1. 1 \in 1 .. Len(input) + 1
    BY <1>1
  <2> QED BY <1>1, <2>1, SkipWsStops DEF Init
<1>3. last \in [tag : {"Thunk"}, op : Frames] /\ last.op.op = "Done"
  BY DEF Init, Thunk, DoneFrame, Frames
<1> QED BY <1>1, <1>2, <1>3 DEF Init, TypeOK, Running, Thunk

LEMMA StepTypeOK == TypeOK /\ [Next]_vars => TypeOK'
<1> SUFFICES ASSUME TypeOK, [Next]_vars PROVE TypeOK'
  OBVIOUS
<1>1. Unclosed(pos - 1) \in Int
  BY UnclosedBracket DEF TypeOK
<1>2. CASE TooDeep
  <2>1. /\ stack' \in Seq(Frames)
        /\ \A i \in 1 .. Len(stack') : stack'[i].op = "Done" <=> i = 1
    BY <1>2, PushFrame DEF TooDeep
  <2>2. result' = Err("DepthLimitExceeded") /\ UNCHANGED <<input, limit, pos, last, finished>>
    BY <1>2 DEF TooDeep
  <2>3. result' # Running
    BY <2>2 DEF Err, Running
  <2> QED BY <2>1, <2>2, <2>3 DEF TypeOK
<1>3. CASE ParseAny
  <2>1. Push /\ UNCHANGED <<input, limit, result>>
    BY <1>3 DEF ParseAny
  <2>2. Outcome(pos, 1, Unclosed(pos - 1) + 1)
    BY <1>3, ParseAnyOutcome
  <2>3. /\ stack' \in Seq(Frames) /\ stack' # <<>>
        /\ \A i \in 1 .. Len(stack') : stack'[i].op = "Done" <=> i = 1
    BY <2>1, PushFrame DEF TypeOK
  <2> QED BY <1>1, <2>1, <2>2, <2>3, OutcomeType
<1>4. CASE ContinueList
  <2>1. Resume("ParsingList") /\ UNCHANGED <<input, limit, result>>
    BY <1>4 DEF ContinueList, Resume
  <2>2. Outcome(pos, 1, Unclosed(pos - 1))
    BY <1>4, ContinueListOutcome
  <2> QED BY <1>1, <2>1, <2>2, ResumeTop, OutcomeType
<1>5. CASE ContinueMap
  <2>1. Resume("ParsingMap") /\ UNCHANGED <<input, limit, result>>
    BY <1>5 DEF ContinueMap, Resume
  <2>2. Outcome(pos, 1, Unclosed(pos - 1))
    BY <1>5, ContinueMapOutcome
  <2> QED BY <1>1, <2>1, <2>2, ResumeTop, OutcomeType
<1>6. CASE Finish
  <2>1. Resume("Done") /\ UNCHANGED <<input, limit, last, finished>>
    BY <1>6 DEF Finish, Resume
  <2>2. /\ stack' \in Seq(Frames)
        /\ \A i \in 1 .. Len(stack') : stack'[i].op = "Done" <=> i = 1
        /\ last.value \in Any
    BY <2>1, ResumeTop
  <2>3. pos' \in 1 .. Len(input) + 1
    BY <1>6, SkipWsStops DEF Finish, TypeOK
  <2>4. result' \in Returns(Any) /\ result' # Running
    BY <1>6, <2>2 DEF Finish, Ok, Err, Returns, Failures, ParseErrors, Running
  <2> QED BY <2>1, <2>2, <2>3, <2>4 DEF TypeOK
<1>7. CASE Fail
  <2>1. result' = last /\ UNCHANGED <<input, limit, pos, stack, last, finished>> /\ last.tag = "Err"
    BY <1>7 DEF Fail
  <2>2. last \in Failures /\ last # Running
    BY <2>1 DEF TypeOK, Failures, Running
  <2> QED BY <2>1, <2>2 DEF TypeOK, Returns
<1>8. CASE UNCHANGED vars
  BY <1>8 DEF TypeOK, vars, Unclosed
<1> QED BY <1>2, <1>3, <1>4, <1>5, <1>6, <1>7, <1>8 DEF Next, Iterate, Returned

\* In every state of every call the parser's state has its type, Done is the
\* bottom of the stack, and a value always finds a thunk to resume.
THEOREM TypeCorrect == Spec => []TypeOK
BY InitTypeOK, StepTypeOK, PTL DEF Spec
----------------------------------------------------------------------------
(***************************************************************************)
(* The stack, the brackets and the depth limit.  DepthLimitExact is not    *)
(* inductive: that a value lies inside fewer than limit brackets follows   *)
(* from the number of thunks, which StackMirrorsBrackets ties to the       *)
(* brackets and WithinLimit to the limit.                                  *)
(***************************************************************************)
WithinLimit == result = Running /\ limit # NoLimit => Len(stack) <= limit

IInv == TypeOK /\ StackMirrorsBrackets /\ WithinLimit /\ DepthLimitExact

\* The brackets counted in an unchanged document.
LEMMA UnclosedPrime ==
  ASSUME input' = input
  PROVE  Unclosed(pos - 1)' = Unclosed(pos' - 1)
BY DEF Unclosed

\* An iteration that goes on inside as many brackets as thunks wait.
LEMMA OutcomeMirrors ==
  ASSUME TypeOK, UNCHANGED <<input, limit, result>>, result = Running,
         NEW n \in Nat, Len(stack') \in Nat,
         limit # NoLimit => Len(stack') <= limit,
         Outcome(pos, n, Len(stack'))
  PROVE  StackMirrorsBrackets' /\ WithinLimit' /\ DepthLimitExact'
<1>1. Unclosed(pos - 1)' = Unclosed(pos' - 1)
  BY UnclosedPrime
<1>2. result' = Running /\ result'.tag # "Ok" /\ result' # Err("DepthLimitExceeded")
  BY DEF Running, Err
<1>3. last'.tag = "Thunk" => Unclosed(pos' - 1) = Len(stack')
  BY DEF Outcome, Failures
<1>4. last'.tag = "Ok" => Unclosed(pos' - 1) = Len(stack') - 1
  BY DEF Outcome, Failures
<1>5. limit \in Nat /\ limit' = limit
  BY TokensAssumption DEF TypeOK
<1>6. StackMirrorsBrackets'
  BY <1>1, <1>2, <1>3, <1>4 DEF StackMirrorsBrackets
<1>7. WithinLimit'
  BY <1>5 DEF WithinLimit, NoLimit
<1>8. DepthLimitExact'
  BY <1>1, <1>2, <1>4, <1>5 DEF DepthLimitExact, NoLimit
<1> QED BY <1>6, <1>7, <1>8

LEMMA InitIInv == Init => IInv
<1> SUFFICES ASSUME Init PROVE IInv
  OBVIOUS
<1>1. TypeOK
  BY InitTypeOK
<1>2. input \in Seq(Tokens) /\ limit \in Nat
  BY <1>1, TokensAssumption DEF TypeOK
<1>3. Unclosed(pos - 1) = 0
  <2>1. 1 \in 1 .. Len(input) + 1
    BY <1>2
  <2>2. Unclosed(pos - 1) = Unclosed(1 - 1)
    BY <1>2, <2>1, SkipWsUnclosed DEF Init
  <2> QED BY <2>2, UnclosedNothing
<1>4. /\ result = Running /\ result.tag = "Running" /\ result # Err("DepthLimitExceeded")
      /\ last.tag = "Thunk"
      /\ stack = <<>> /\ Len(stack) = 0
  BY DEF Init, Running, Err, Thunk
<1>5. StackMirrorsBrackets
  BY <1>3, <1>4 DEF StackMirrorsBrackets
<1>6. WithinLimit /\ DepthLimitExact
  BY <1>2, <1>4 DEF WithinLimit, DepthLimitExact, NoLimit
<1> QED BY <1>1, <1>5, <1>6 DEF IInv

LEMMA StepIInv == IInv /\ [Next]_vars => IInv'
<1> SUFFICES ASSUME IInv, [Next]_vars PROVE IInv'
  OBVIOUS
<1>1. TypeOK /\ TypeOK'
  BY StepTypeOK DEF IInv
<1>2. /\ input \in Seq(Tokens) /\ limit \in Nat
      /\ pos \in 1 .. Len(input) + 1
      /\ stack \in Seq(Frames) /\ Len(stack) \in Nat
  BY <1>1, TokensAssumption DEF TypeOK
<1>3. Unclosed(pos - 1) \in Int
  BY <1>2, UnclosedBracket
<1> SUFFICES StackMirrorsBrackets' /\ WithinLimit' /\ DepthLimitExact'
  BY <1>1 DEF IInv
<1>4. CASE TooDeep
  <2>1. /\ result = Running /\ last.tag = "Thunk"
        /\ UNCHANGED <<input, limit, pos>>
        /\ limit # NoLimit
        /\ Len(stack') > limit
        /\ result' = Err("DepthLimitExceeded")
    BY <1>4 DEF TooDeep, Push, DepthExceeded
  <2>2. Len(stack') = Len(stack) + 1
    BY <1>1, <1>4, PushFrame DEF TooDeep
  <2>3. Unclosed(pos - 1) = Len(stack) /\ Len(stack) <= limit
    BY <2>1 DEF IInv, StackMirrorsBrackets, WithinLimit
  <2>4. Unclosed(pos - 1)' = Unclosed(pos - 1)
    BY <2>1, UnclosedPrime
  <2>5. result' # Running /\ result'.tag = "Err"
    BY <2>1 DEF Err, Running
  <2> QED BY <1>2, <2>1, <2>2, <2>3, <2>4, <2>5
          DEF StackMirrorsBrackets, WithinLimit, DepthLimitExact
<1>5. CASE ParseAny
  <2>1. /\ result = Running /\ last.tag = "Thunk"
        /\ UNCHANGED <<input, limit, result>>
        /\ ~DepthExceeded(stack')
    BY <1>5 DEF ParseAny, Push
  <2>2. Len(stack') = Len(stack) + 1
    BY <1>1, <1>5, PushFrame DEF ParseAny
  <2>3. Unclosed(pos - 1) + 1 = Len(stack')
    BY <2>1, <2>2 DEF IInv, StackMirrorsBrackets
  <2>4. Outcome(pos, 1, Len(stack'))
    BY <1>1, <1>5, <2>3, ParseAnyOutcome
  <2>5. limit # NoLimit => Len(stack') <= limit
    BY <1>2, <2>1, <2>2 DEF DepthExceeded
  <2> QED BY <1>1, <1>2, <2>1, <2>2, <2>4, <2>5, OutcomeMirrors
<1>6. ASSUME NEW op, Resume(op), UNCHANGED result, Outcome(pos, 1, Unclosed(pos - 1))
      PROVE  StackMirrorsBrackets' /\ WithinLimit' /\ DepthLimitExact'
  <2>1. result = Running /\ last.tag = "Ok" /\ UNCHANGED <<input, limit, result>>
    BY <1>6 DEF Resume
  <2>2. Len(stack') = Len(stack) - 1 /\ stack' \in Seq(Frames)
    BY <1>1, <1>6, ResumeTop
  <2>3. Unclosed(pos - 1) = Len(stack')
    BY <2>1, <2>2 DEF IInv, StackMirrorsBrackets
  <2>4. Outcome(pos, 1, Len(stack'))
    BY <1>6, <2>3
  <2>5. limit # NoLimit => Len(stack') <= limit
    BY <1>2, <2>1, <2>2 DEF IInv, WithinLimit
  <2> QED BY <1>1, <1>2, <2>1, <2>2, <2>4, <2>5, OutcomeMirrors
<1>7. CASE ContinueList
  BY <1>1, <1>6, <1>7, ContinueListOutcome DEF ContinueList
<1>8. CASE ContinueMap
  BY <1>1, <1>6, <1>8, ContinueMapOutcome DEF ContinueMap
<1>9. CASE Finish
  <2>1. /\ result = Running /\ last.tag = "Ok" /\ input' = input
        /\ Resume("Done") /\ pos' = SkipWs(pos)
    BY <1>9 DEF Finish, Resume
  <2>2. Len(stack) = 1
    <3>1. stack' = <<>> /\ Len(stack') = Len(stack) - 1
      BY <1>1, <2>1, ResumeTop
    <3> QED BY <1>2, <3>1
  <2>3. Unclosed(SkipWs(pos) - 1) = 0
    BY <1>2, <2>1, <2>2, SkipWsUnclosed DEF IInv, StackMirrorsBrackets
  <2>4. result'.tag = "Ok" => Peek(pos') = Eof
    BY <1>9 DEF Finish, Err
  <2>5. Peek(SkipWs(pos)) = Eof => SkipWs(pos) - 1 = Len(input)
    <3>1. SkipWs(pos) \in 1 .. Len(input) + 1
      BY <1>2, SkipWsStops
    <3> QED BY <1>2, <3>1, PeekInside
  <2>6. result'.tag = "Ok" => Unclosed(Len(input))' = 0
    BY <2>1, <2>3, <2>4, <2>5 DEF Unclosed
  <2>7. result' # Running /\ result' # Err("DepthLimitExceeded")
    BY <1>9 DEF Finish, Ok, Err, Running
  <2> QED BY <2>6, <2>7 DEF StackMirrorsBrackets, WithinLimit, DepthLimitExact
<1>10. CASE Fail
  <2>1. result' = last /\ last.tag = "Err" /\ UNCHANGED <<input, limit, pos, stack, last>>
    BY <1>10 DEF Fail
  <2>2. last \in Failures
    BY <1>1, <2>1 DEF TypeOK, Failures
  <2>3. result' # Running /\ result' # Err("DepthLimitExceeded") /\ result'.tag # "Ok"
    BY <2>1, <2>2 DEF Failures, ParseErrors, Err, Running
  <2> QED BY <2>3 DEF StackMirrorsBrackets, WithinLimit, DepthLimitExact
<1>11. CASE UNCHANGED vars
  BY <1>11 DEF IInv, StackMirrorsBrackets, WithinLimit, DepthLimitExact, Unclosed, vars
<1> QED BY <1>4, <1>5, <1>7, <1>8, <1>9, <1>10, <1>11 DEF Next, Iterate, Returned

\* The thunks that wait are the brackets not yet closed, in every call.
THEOREM StackCorrect == Spec => []StackMirrorsBrackets
<1>1. Spec => []IInv
  BY InitIInv, StepIInv, PTL DEF Spec
<1>2. IInv => StackMirrorsBrackets
  BY DEF IInv
<1> QED BY <1>1, <1>2, PTL

\* depth_limit is exact for every limit and every document.
THEOREM DepthLimitCorrect == Spec => []DepthLimitExact
<1>1. Spec => []IInv
  BY InitIInv, StepIInv, PTL DEF Spec
<1>2. IInv => DepthLimitExact
  BY DEF IInv
<1> QED BY <1>1, <1>2, PTL

----------------------------------------------------------------------------
(***************************************************************************)
(* The nesting of the whole document: how deep any token stands, and not   *)
(* only the one at the cursor.  While a value is awaited, the token it is  *)
(* awaited for may stand one level below the limit, which the next         *)
(* iteration finds out.                                                    *)
(***************************************************************************)
NestInv ==
  /\ result = Running /\ last.tag = "Thunk" =>
       /\ last.op.op # "Done" => Deep(Len(stack)) \/ Peek(pos) = "rbrace"
       /\ limit # NoLimit =>
            \A d \in Nat : d >= limit - 1 /\ d >= Len(stack) => Shallow(1, pos, d)
  /\ result = Running /\ last.tag = "Ok" /\ limit # NoLimit => Shallow(1, pos, limit - 1)
  /\ result.tag = "Ok" /\ limit # NoLimit => Shallow(1, Len(input) + 1, limit - 1)
  /\ result = Err("DepthLimitExceeded") =>
       limit # NoLimit /\ last.tag = "Thunk" /\ (Deep(limit) \/ Peek(pos) = "rbrace")

LEMMA ShallowMore ==
  ASSUME NEW p \in Nat \ {0}, NEW q \in Int, NEW d \in Int, NEW e \in Int, d <= e, Shallow(p, q, d)
  PROVE  Shallow(p, q, e)
<1> SUFFICES ASSUME NEW i \in p .. q - 1, Stands(i) PROVE Unclosed(i - 1) <= e
  BY DEF Shallow
<1>1. Unclosed(i - 1) <= d
  BY DEF Shallow
<1>2. Unclosed(i - 1) \in Int
  <2>1. i \in Nat \ {0}
    OBVIOUS
  <2> QED BY <2>1, UnclosedBracket
<1> QED BY <1>1, <1>2

LEMMA NestPrime ==
  ASSUME input' = input, limit' = limit
  PROVE  /\ Shallow(1, pos, limit - 1)' <=> Shallow(1, pos', limit - 1)
         /\ (\A d \in Nat : d >= limit - 1 /\ d >= Len(stack) => Shallow(1, pos, d))'
              <=> (\A d \in Nat : d >= limit - 1 /\ d >= Len(stack') => Shallow(1, pos', d))
         /\ Shallow(1, Len(input) + 1, limit - 1)' <=> Shallow(1, Len(input) + 1, limit - 1)
         /\ (Deep(Len(stack)) \/ Peek(pos) = "rbrace")'
              <=> Deep(Len(stack')) \/ Peek(pos') = "rbrace"
         /\ (Deep(limit) \/ Peek(pos) = "rbrace")' <=> Deep(limit) \/ Peek(pos') = "rbrace"
BY DEF Shallow, Stands, Unclosed, Deep, Peek

\* An iteration that goes on behind tokens that stand within the limit.
LEMMA OutcomeNests ==
  ASSUME IInv, UNCHANGED <<input, limit, result>>, result = Running,
         Len(stack') \in Nat, Outcome(pos, 1, Len(stack')),
         limit # NoLimit => Shallow(1, pos, limit - 1) /\ Len(stack') <= limit
  PROVE  NestInv'
<1>1. result' = Running /\ result'.tag # "Ok" /\ result' # Err("DepthLimitExceeded")
  BY DEF Running, Err
<1>2. limit \in Nat /\ pos \in Nat \ {0} /\ pos' \in Int
  BY TokensAssumption DEF IInv, TypeOK, Outcome
<1>3. ASSUME last'.tag = "Thunk"
      PROVE  /\ Deep(Len(stack')) \/ Peek(pos') = "rbrace"
             /\ limit # NoLimit =>
                  \A d \in Nat : d >= limit - 1 /\ d >= Len(stack') => Shallow(1, pos', d)
  <2>1. Shallow(pos, pos', Len(stack')) /\ (Deep(Len(stack')) \/ Peek(pos') = "rbrace")
    BY <1>3 DEF Outcome, Failures
  <2>2. ASSUME limit # NoLimit, NEW d \in Nat, d >= limit - 1, d >= Len(stack')
        PROVE  Shallow(1, pos', d)
    <3>1. Shallow(1, pos, d) /\ Shallow(pos, pos', d)
      BY <1>2, <2>1, <2>2, ShallowMore
    <3> QED BY <1>2, <3>1, ShallowJoin
  <2> QED BY <2>1, <2>2
<1>4. ASSUME last'.tag = "Ok", limit # NoLimit
      PROVE  Shallow(1, pos', limit - 1)
  <2>1. Shallow(pos, pos', Len(stack') - 1)
    BY <1>4 DEF Outcome, Failures
  <2>2. Shallow(pos, pos', limit - 1) /\ Shallow(1, pos, limit - 1)
    BY <1>2, <1>4, <2>1, ShallowMore
  <2> QED BY <1>2, <2>2, ShallowJoin
<1> QED BY <1>1, <1>3, <1>4, NestPrime DEF NestInv

LEMMA InitNestInv == Init => NestInv
<1> SUFFICES ASSUME Init PROVE NestInv
  OBVIOUS
<1>1. input \in Seq(Tokens) /\ limit \in Nat
  BY InitTypeOK, TokensAssumption DEF TypeOK
<1>2. \A d : Shallow(1, pos, d)
  <2>1. 1 \in 1 .. Len(input) + 1
    BY <1>1
  <2> QED BY <1>1, <2>1, ShallowWs DEF Init
<1>3. /\ result = Running /\ result.tag # "Ok" /\ result # Err("DepthLimitExceeded")
      /\ last.op.op = "Done" /\ last.tag = "Thunk"
  BY DEF Init, Running, Err, Thunk, DoneFrame
<1> QED BY <1>2, <1>3 DEF NestInv

LEMMA StepNestInv == IInv /\ NestInv /\ [Next]_vars => NestInv'
<1> SUFFICES ASSUME IInv, NestInv, [Next]_vars PROVE NestInv'
  OBVIOUS
<1>1. TypeOK
  BY DEF IInv
<1>2. /\ input \in Seq(Tokens) /\ limit \in Nat
      /\ pos \in 1 .. Len(input) + 1
      /\ stack \in Seq(Frames) /\ Len(stack) \in Nat
  BY <1>1, TokensAssumption DEF TypeOK
<1>3. CASE TooDeep
  <2>1. /\ result = Running /\ last.tag = "Thunk"
        /\ UNCHANGED <<input, limit, pos, last>>
        /\ limit # NoLimit
        /\ Len(stack') > limit
        /\ result' = Err("DepthLimitExceeded")
    BY <1>3 DEF TooDeep, Push, DepthExceeded
  <2>2. Len(stack') = Len(stack) + 1
    BY <1>1, <1>3, PushFrame DEF TooDeep
  <2>3. Len(stack) = limit /\ stack # <<>>
    <3>1. Len(stack) <= limit
      BY <2>1 DEF IInv, WithinLimit
    <3> QED BY <1>2, <2>1, <2>2, <3>1 DEF NoLimit
  <2>4. last.op.op # "Done"
    BY <1>1, <2>1, <2>3 DEF TypeOK
  <2>5. Deep(limit) \/ Peek(pos) = "rbrace"
    BY <2>1, <2>3, <2>4 DEF NestInv
  <2>6. (Deep(limit) \/ Peek(pos) = "rbrace")'
    BY <2>1, <2>5, NestPrime
  <2>7. result' # Running /\ result'.tag # "Ok" /\ limit' # NoLimit
    BY <2>1 DEF Err, Running
  <2> QED BY <2>1, <2>6, <2>7 DEF NestInv
<1>4. CASE ParseAny
  <2>1. /\ result = Running /\ last.tag = "Thunk"
        /\ UNCHANGED <<input, limit, result>>
        /\ ~DepthExceeded(stack')
    BY <1>4 DEF ParseAny, Push
  <2>2. Len(stack') = Len(stack) + 1
    BY <1>1, <1>4, PushFrame DEF ParseAny
  <2>3. Unclosed(pos - 1) + 1 = Len(stack')
    BY <2>1, <2>2 DEF IInv, StackMirrorsBrackets
  <2>4. Outcome(pos, 1, Len(stack'))
    BY <1>1, <1>4, <2>3, ParseAnyOutcome
  <2>5. limit # NoLimit => Len(stack') <= limit
    BY <1>2, <2>1, <2>2 DEF DepthExceeded
  <2>6. limit # NoLimit => Shallow(1, pos, limit - 1)
    <3>1. limit # NoLimit => limit - 1 \in Nat /\ limit - 1 >= Len(stack)
      BY <1>2, <2>2, <2>5 DEF NoLimit
    <3> QED BY <1>2, <2>1, <3>1 DEF NestInv
  <2> QED BY <1>2, <2>1, <2>2, <2>4, <2>5, <2>6, OutcomeNests
<1>5. ASSUME NEW op, Resume(op), UNCHANGED result, Outcome(pos, 1, Unclosed(pos - 1))
      PROVE  NestInv'
  <2>1. result = Running /\ last.tag = "Ok" /\ UNCHANGED <<input, limit, result>>
    BY <1>5 DEF Resume
  <2>2. Len(stack') = Len(stack) - 1 /\ stack' \in Seq(Frames) /\ Len(stack') \in Nat
    BY <1>1, <1>5, ResumeTop
  <2>3. Unclosed(pos - 1) = Len(stack')
    BY <2>1, <2>2 DEF IInv, StackMirrorsBrackets
  <2>4. limit # NoLimit => Shallow(1, pos, limit - 1) /\ Len(stack') <= limit
    BY <1>2, <2>1, <2>2 DEF IInv, WithinLimit, NestInv
  <2> QED BY <1>5, <2>1, <2>2, <2>3, <2>4, OutcomeNests
<1>6. CASE ContinueList
  BY <1>1, <1>5, <1>6, ContinueListOutcome DEF ContinueList
<1>7. CASE ContinueMap
  BY <1>1, <1>5, <1>7, ContinueMapOutcome DEF ContinueMap
<1>8. CASE Finish
  <2>1. /\ result = Running /\ last.tag = "Ok" /\ input' = input /\ limit' = limit
        /\ pos' = SkipWs(pos) /\ result' # Running /\ result' # Err("DepthLimitExceeded")
        /\ result'.tag = "Ok" => Peek(pos') = Eof
    BY <1>8 DEF Finish, Resume, Ok, Err, Running
  <2>2. SkipWs(pos) \in pos .. Len(input) + 1
    BY <1>2, SkipWsStops
  <2>3. result'.tag = "Ok" => pos' = Len(input) + 1
    BY <1>2, <2>1, <2>2, PeekInside
  <2>4. limit # NoLimit => Shallow(1, SkipWs(pos), limit - 1)
    <3>1. Shallow(pos, SkipWs(pos), limit - 1)
      BY <1>2, ShallowWs
    <3>2. limit # NoLimit => Shallow(1, pos, limit - 1)
      BY <2>1 DEF NestInv
    <3>3. pos \in Int /\ SkipWs(pos) \in Int
      BY <1>2, <2>2
    <3> QED BY <3>1, <3>2, <3>3, ShallowJoin
  <2>5. result'.tag = "Ok" /\ limit' # NoLimit => Shallow(1, Len(input) + 1, limit - 1)'
    BY <2>1, <2>3, <2>4, NestPrime
  <2> QED BY <2>1, <2>5 DEF NestInv
<1>9. CASE Fail
  <2>1. result' = last /\ last.tag = "Err"
    BY <1>9 DEF Fail
  <2>2. last \in Failures
    BY <1>1, <2>1 DEF TypeOK, Failures
  <2>3. result' # Running /\ result' # Err("DepthLimitExceeded") /\ result'.tag # "Ok"
    BY <2>1, <2>2 DEF Failures, ParseErrors, Err, Running
  <2> QED BY <2>3 DEF NestInv
<1>10. CASE UNCHANGED vars
  <2>1. UNCHANGED <<input, limit, pos, stack, last, result>>
    BY <1>10 DEF vars
  <2> QED BY <2>1, NestPrime DEF NestInv
<1> QED BY <1>3, <1>4, <1>6, <1>7, <1>8, <1>9, <1>10 DEF Next, Iterate, Returned

\* How deep the document nests decides about its depth: the invariant holds in
\* every state of every call.
THEOREM NestingCorrect == Spec => [](IInv /\ NestInv)
BY InitIInv, StepIInv, InitNestInv, StepNestInv, PTL DEF Spec
----------------------------------------------------------------------------
\* Every iteration consumes input or decides the call.
THEOREM ProgressCorrect == Spec => Progress
<1> DEFINE Consumes == /\ pos' >= pos
                       /\ pos' = pos => (result' # Running \/ last'.tag = "Err")
<1>1. TypeOK /\ [Next]_vars => [Consumes]_vars
  <2> SUFFICES ASSUME TypeOK, Next PROVE Consumes \/ UNCHANGED vars
    OBVIOUS
  <2>1. input \in Seq(Tokens) /\ pos \in 1 .. Len(input) + 1
    BY DEF TypeOK
  <2>2. CASE TooDeep
    BY <2>1, <2>2 DEF TooDeep, Err, Running
  <2>3. ASSUME NEW d, Outcome(pos, 1, d)
        PROVE  Consumes
    BY <2>1, <2>3 DEF Outcome, Failures
  <2>4. CASE ParseAny \/ ContinueList \/ ContinueMap
    BY <2>3, <2>4, ParseAnyOutcome, ContinueListOutcome, ContinueMapOutcome
  <2>5. CASE Finish
    <3>1. pos' \in pos .. Len(input) + 1
      BY <2>1, <2>5, SkipWsStops DEF Finish
    <3>2. result' # Running
      BY <2>5 DEF Finish, Ok, Err, Running
    <3> QED BY <2>1, <3>1, <3>2
  <2>6. CASE Fail
    BY <2>1, <2>6 DEF Fail
  <2> QED BY <2>2, <2>4, <2>5, <2>6 DEF Next, Iterate, Returned
<1>2. Spec => []TypeOK
  BY TypeCorrect
<1> QED BY <1>1, <1>2, PTL DEF Spec, Progress
============================================================================
