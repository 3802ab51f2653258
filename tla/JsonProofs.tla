----------------------------- MODULE JsonProofs -----------------------------
(***************************************************************************)
(* Lemmas about the grammar: Denotation is the function its equation       *)
(* describes; the rules of the grammar, which follow from it; what is left *)
(* of them when a text is read from left to right, and when it is written  *)
(* so; and texts without their whitespace.                                 *)
(***************************************************************************)
EXTENDS JsonGrammar, NaturalFacts, SequenceTheorems, TLAPS

Phrases == {"value", "items", "entries"} \X Seq(Alphabet)

\* The right-hand side of the equation.
Meaning(d, x) ==
  CASE x[1] = "value" -> ValueOf(d, x[2])
    [] x[1] = "items" -> ItemsOf(d, x[2])
    [] x[1] = "entries" -> EntriesOf(d, x[2])

\* It refers only to phrases of a lower rank.
Rank(x) == 2 * Len(x[2]) + (IF x[1] = "value" THEN 0 ELSE 1)
Below(n) == {x \in Phrases : Rank(x) < n}

LEMMA RankIsNat ==
  \A x \in Phrases : Rank(x) \in Nat /\ 2 * Len(x[2]) <= Rank(x)
BY DEF Rank, Phrases

LEMMA Parts ==
  ASSUME NEW s \in Seq(Alphabet)
  PROVE  /\ Len(s) >= 2 => Inner(s) \in Seq(Alphabet) /\ Len(Inner(s)) = Len(s) - 2
         /\ \A i \in 1 .. Len(s) : /\ Before(s, i) \in Seq(Alphabet) /\ Len(Before(s, i)) = i - 1
                                   /\ After(s, i) \in Seq(Alphabet) /\ Len(After(s, i)) = Len(s) - i
<1>1. ASSUME Len(s) >= 2
      PROVE  Inner(s) \in Seq(Alphabet) /\ Len(Inner(s)) = Len(s) - 2
  <2>1. 2 \in 1 .. Len(s) + 1 /\ Len(s) - 1 \in 2 - 1 .. Len(s) /\ Len(s) \in Nat
    BY <1>1
  <2>2. /\ SubSeq(s, 2, Len(s) - 1) \in Seq(Alphabet)
        /\ Len(SubSeq(s, 2, Len(s) - 1)) = IF 2 <= Len(s) - 1 THEN (Len(s) - 1) - 2 + 1 ELSE 0
    BY <2>1, SubSeqProperties
  <2>3. Len(SubSeq(s, 2, Len(s) - 1)) = Len(s) - 2
    <3> DEFINE n == Len(s)
               m == Len(SubSeq(s, 2, Len(s) - 1))
    <3>1. n \in Nat /\ n >= 2 /\ m = IF 2 <= n - 1 THEN (n - 1) - 2 + 1 ELSE 0
      BY <1>1, <2>1, <2>2
    <3> HIDE DEF n, m
    <3>2. m = n - 2
      BY <3>1
    <3> QED BY <3>2 DEF n, m
  <2> QED BY <2>2, <2>3 DEF Inner
<1>2. ASSUME NEW i \in 1 .. Len(s)
      PROVE  /\ Before(s, i) \in Seq(Alphabet) /\ Len(Before(s, i)) = i - 1
             /\ After(s, i) \in Seq(Alphabet) /\ Len(After(s, i)) = Len(s) - i
  BY DEF Before, After
<1> QED BY <1>1, <1>2

\* Meaning looks at d only where the rank is lower.
LEMMA MeaningIsLocal ==
  ASSUME NEW x \in Phrases, NEW d, NEW e,
         \A y \in Phrases : Rank(y) < Rank(x) => d[y] = e[y]
  PROVE  Meaning(d, x) = Meaning(e, x)
<1> DEFINE s == x[2]
<1>1. s \in Seq(Alphabet) /\ Len(s) \in Nat
  BY DEF Phrases
<1>2. ASSUME NEW t \in Seq(Alphabet), Len(t) < Len(s)
      PROVE  /\ d[<<"value", t>>] = e[<<"value", t>>]
             /\ d[<<"items", t>>] = e[<<"items", t>>]
             /\ d[<<"entries", t>>] = e[<<"entries", t>>]
  <2>1. ASSUME NEW k \in {"value", "items", "entries"} PROVE d[<<k, t>>] = e[<<k, t>>]
    <3>1. <<k, t>> \in Phrases /\ Len(t) \in Nat
      BY DEF Phrases
    <3>2. Rank(<<k, t>>) \in Nat /\ Rank(x) \in Nat
      BY <3>1, RankIsNat
    <3>3. Rank(<<k, t>>) <= 2 * Len(t) + 1
      BY <3>1 DEF Rank
    <3>4. 2 * Len(s) <= Rank(x)
      BY RankIsNat DEF s
    <3>5. Rank(<<k, t>>) < Rank(x)
      BY <1>1, <1>2, <3>1, <3>2, <3>3, <3>4
    <3> QED BY <3>1, <3>5
  <2> QED BY <2>1
<1>8. x[1] # "value" => d[<<"value", s>>] = e[<<"value", s>>]
  <2>1. <<"value", s>> \in Phrases
    BY <1>1 DEF Phrases
  <2>2. x[1] # "value" => Rank(<<"value", s>>) < Rank(x)
    BY <1>1 DEF Rank
  <2> QED BY <2>1, <2>2
<1> HIDE DEF s
<1>3. ValueOf(d, s) = ValueOf(e, s)
  <2>1. CASE Len(s) >= 2
    <3>1. Inner(s) \in Seq(Alphabet) /\ Len(Inner(s)) < Len(s)
      <4>1. Inner(s) \in Seq(Alphabet) /\ Len(Inner(s)) = Len(s) - 2
        BY <1>1, <2>1, Parts
      <4> QED BY <1>1, <4>1
    <3>2. d[<<"items", Inner(s)>>] = e[<<"items", Inner(s)>>]
      BY <1>2, <3>1
    <3>3. d[<<"entries", Inner(s)>>] = e[<<"entries", Inner(s)>>]
      BY <1>2, <3>1
    <3> QED BY <3>2, <3>3 DEF ValueOf
  <2>2. CASE ~(Len(s) >= 2)
    BY <2>2 DEF ValueOf, Bracketed
  <2> QED BY <2>1, <2>2
<1>4. ASSUME NEW c \in Commas(s)
      PROVE  /\ After(s, c) \in Seq(Alphabet) /\ Len(After(s, c)) < Len(s)
             /\ Before(s, c) \in Seq(Alphabet) /\ Len(Before(s, c)) < Len(s)
  <2>1. c \in 1 .. Len(s)
    BY <1>1 DEF Commas
  <2>2. /\ After(s, c) \in Seq(Alphabet) /\ Len(After(s, c)) = Len(s) - c
        /\ Before(s, c) \in Seq(Alphabet) /\ Len(Before(s, c)) = c - 1
    BY <1>1, <2>1, Parts
  <2> QED BY <1>1, <2>1, <2>2
<1>5. ASSUME x[1] # "value" PROVE ItemsOf(d, s) = ItemsOf(e, s)
  <2>1. d[<<"value", s>>] = e[<<"value", s>>]
    BY <1>8, <1>5
  <2>2. ASSUME NEW c \in Commas(s)
        PROVE  /\ d[<<"value", Before(s, c)>>] = e[<<"value", Before(s, c)>>]
               /\ d[<<"items", After(s, c)>>] = e[<<"items", After(s, c)>>]
    BY <1>2, <1>4
  <2> DEFINE of(f, c) == UNION {{<<v>> \o vs : vs \in f[<<"items", After(s, c)>>]} :
                                  v \in f[<<"value", Before(s, c)>>]}
  <2>3. \A c \in Commas(s) : of(d, c) = of(e, c)
    BY <2>2
  <2>4. /\ ItemsOf(d, s) = {<<v>> : v \in d[<<"value", s>>]} \cup UNION {of(d, c) : c \in Commas(s)}
        /\ ItemsOf(e, s) = {<<v>> : v \in e[<<"value", s>>]} \cup UNION {of(e, c) : c \in Commas(s)}
    BY DEF ItemsOf
  <2> HIDE DEF of
  <2> QED BY <2>1, <2>3, <2>4
<1>6. ASSUME NEW t \in Seq(Alphabet), Len(t) <= Len(s)
      PROVE  EntryOf(d, t) = EntryOf(e, t)
  <2>1. CASE Len(t) >= 3
    <3>1. 2 \in 1 .. Len(t) /\ Len(t) \in Nat
      BY <2>1
    <3>2. After(t, 2) \in Seq(Alphabet) /\ Len(After(t, 2)) = Len(t) - 2
      BY <3>1, Parts
    <3>3. Len(After(t, 2)) < Len(s)
      BY <1>1, <1>6, <3>1, <3>2
    <3>4. d[<<"value", After(t, 2)>>] = e[<<"value", After(t, 2)>>]
      BY <1>2, <3>2, <3>3
    <3> QED BY <3>4 DEF EntryOf
  <2>2. CASE ~(Len(t) >= 3)
    BY <2>2 DEF EntryOf
  <2> QED BY <2>1, <2>2
<1>7. EntriesOf(d, s) = EntriesOf(e, s)
  <2>1. EntryOf(d, s) = EntryOf(e, s)
    BY <1>1, <1>6
  <2>2. ASSUME NEW c \in Commas(s)
        PROVE  /\ EntryOf(d, Before(s, c)) = EntryOf(e, Before(s, c))
               /\ d[<<"entries", After(s, c)>>] = e[<<"entries", After(s, c)>>]
    <3>1. Len(Before(s, c)) <= Len(s)
      BY <1>1, <1>4
    <3> QED BY <1>2, <1>4, <1>6, <3>1
  <2> DEFINE of(f, c) == UNION {{<<p>> \o ps : ps \in f[<<"entries", After(s, c)>>]} :
                                  p \in EntryOf(f, Before(s, c))}
  <2>3. \A c \in Commas(s) : of(d, c) = of(e, c)
    BY <2>2
  <2>4. /\ EntriesOf(d, s) = {<<p>> : p \in EntryOf(d, s)} \cup UNION {of(d, c) : c \in Commas(s)}
        /\ EntriesOf(e, s) = {<<p>> : p \in EntryOf(e, s)} \cup UNION {of(e, c) : c \in Commas(s)}
    BY DEF EntriesOf
  <2> HIDE DEF of
  <2> QED BY <2>1, <2>3, <2>4
<1> QED BY <1>3, <1>5, <1>7 DEF Meaning, s

\* Denotation up to rank n.
UpTo(g, n) == g = [x \in Below(n) |-> Meaning(g, x)]

LEMMA UpToExists == \A n \in Nat : \E g : UpTo(g, n)
<1> DEFINE T == {n \in Nat : \E g : UpTo(g, n)}
<1>1. 0 \in T
  <2>1. Below(0) = {}
    BY RankIsNat DEF Below
  <2>2. UpTo([x \in Below(0) |-> 0], 0)
    BY <2>1 DEF UpTo
  <2> QED BY <2>2
<1>2. ASSUME NEW n \in T PROVE n + 1 \in T
  <2>1. PICK g : UpTo(g, n)
    OBVIOUS
  <2> DEFINE h == [x \in Below(n + 1) |-> Meaning(g, x)]
  <2>2. \A x \in Below(n) : g[x] = Meaning(g, x)
    BY <2>1 DEF UpTo
  <2>3. ASSUME NEW x \in Below(n + 1) PROVE h[x] = Meaning(h, x)
    <3>1. x \in Phrases /\ Rank(x) < n + 1
      BY DEF Below
    <3>2. ASSUME NEW y \in Phrases, Rank(y) < Rank(x) PROVE g[y] = h[y]
      <4>1. y \in Below(n) /\ y \in Below(n + 1)
        BY <3>1, <3>2, RankIsNat DEF Below
      <4> QED BY <2>2, <4>1
    <3> HIDE DEF h
    <3>3. Meaning(g, x) = Meaning(h, x)
      BY <3>1, <3>2, MeaningIsLocal
    <3> QED BY <3>3 DEF h
  <2>4. h = [x \in Below(n + 1) |-> h[x]]
    OBVIOUS
  <2>5. UpTo(h, n + 1)
    <3> HIDE DEF h
    <3> QED BY <2>3, <2>4 DEF UpTo
  <2> QED BY <2>5
<1> HIDE DEF T
<1>3. T = Nat
  <2>1. T \in SUBSET Nat
    BY DEF T
  <2> QED BY <1>1, <1>2, <2>1, NatSetInduction
<1> QED BY <1>3 DEF T

LEMMA UpToUnique ==
  ASSUME NEW m \in Nat, NEW n \in Nat, m <= n, NEW g, NEW h, UpTo(g, m), UpTo(h, n)
  PROVE  \A x \in Below(m) : g[x] = h[x]
<1> DEFINE T == {k \in Nat : \A x \in Below(m) : Rank(x) < k => g[x] = h[x]}
<1>1. 0 \in T
  BY RankIsNat DEF Below
<1>2. ASSUME NEW k \in T PROVE k + 1 \in T
  <2> SUFFICES ASSUME NEW x \in Below(m), Rank(x) < k + 1 PROVE g[x] = h[x]
    OBVIOUS
  <2>1. x \in Phrases /\ Rank(x) \in Nat /\ x \in Below(n)
    BY RankIsNat DEF Below
  <2>2. ASSUME NEW y \in Phrases, Rank(y) < Rank(x) PROVE g[y] = h[y]
    <3>1. y \in Below(m) /\ Rank(y) < k
      BY <2>1, <2>2, RankIsNat DEF Below
    <3> QED BY <3>1
  <2>3. g[x] = Meaning(g, x) /\ h[x] = Meaning(h, x)
    BY <2>1 DEF UpTo
  <2>4. Meaning(g, x) = Meaning(h, x)
    BY <2>1, <2>2, MeaningIsLocal
  <2> QED BY <2>3, <2>4
<1> HIDE DEF T
<1>3. T = Nat
  <2>1. T \in SUBSET Nat
    BY DEF T
  <2> QED BY <1>1, <1>2, <2>1, NatSetInduction
<1> QED BY <1>3, RankIsNat DEF T, Below

LEMMA DenotationEquation ==
  \A x \in Phrases : Denotation[x] = Meaning(Denotation, x)
<1> DEFINE Eq(f) == f = [x \in Phrases |-> Meaning(f, x)]
           G(n) == CHOOSE g : UpTo(g, n)
           f0 == [x \in Phrases |-> G(Rank(x) + 1)[x]]
<1>1. \A n \in Nat : UpTo(G(n), n)
  BY UpToExists
<1> HIDE DEF G
<1>2. ASSUME NEW x \in Phrases PROVE f0[x] = Meaning(f0, x)
  <2>1. Rank(x) + 1 \in Nat /\ Rank(x) \in Nat
    BY RankIsNat
  <2>2. UpTo(G(Rank(x) + 1), Rank(x) + 1) /\ x \in Below(Rank(x) + 1)
    BY <1>1, <2>1 DEF Below
  <2>3. G(Rank(x) + 1)[x] = Meaning(G(Rank(x) + 1), x)
    BY <2>2 DEF UpTo
  <2>4. ASSUME NEW y \in Phrases, Rank(y) < Rank(x)
        PROVE  G(Rank(x) + 1)[y] = f0[y]
    <3>1. Rank(y) + 1 \in Nat /\ Rank(y) + 1 <= Rank(x) + 1 /\ y \in Below(Rank(y) + 1)
      BY <2>1, <2>4, RankIsNat DEF Below
    <3>2. UpTo(G(Rank(y) + 1), Rank(y) + 1)
      BY <1>1, <3>1
    <3>3. G(Rank(y) + 1)[y] = G(Rank(x) + 1)[y]
      BY <2>1, <2>2, <3>1, <3>2, UpToUnique
    <3> QED BY <3>3
  <2>5. f0[x] = G(Rank(x) + 1)[x]
    OBVIOUS
  <2> HIDE DEF f0
  <2>6. Meaning(G(Rank(x) + 1), x) = Meaning(f0, x)
    BY <2>4, MeaningIsLocal
  <2> QED BY <2>3, <2>5, <2>6
<1>3. Eq(f0)
  <2>1. f0 = [x \in Phrases |-> f0[x]]
    OBVIOUS
  <2> HIDE DEF f0
  <2> QED BY <1>2, <2>1
<1>4. Denotation = CHOOSE f : Eq(f)
  BY DEF Denotation, Phrases, Meaning
<1> HIDE DEF f0
<1>5. Eq(Denotation)
  <2>1. \E f : Eq(f)
    BY <1>3
  <2> HIDE DEF Eq
  <2> QED BY <1>4, <2>1
<1> QED BY <1>5
----------------------------------------------------------------------------
(***************************************************************************)
(* Sequences taken apart at their first element.                           *)
(***************************************************************************)
Cat(a, b) == a \o b
Cons(t, r) == <<t>> \o r

LEMMA CatType ==
  ASSUME NEW S, NEW a \in Seq(S), NEW b \in Seq(S)
  PROVE  Cat(a, b) \in Seq(S) /\ Len(Cat(a, b)) = Len(a) + Len(b)
BY ConcatProperties DEF Cat

LEMMA CatFirst ==
  ASSUME NEW S, NEW a \in Seq(S), NEW b \in Seq(S), a # <<>>
  PROVE  Cat(a, b)[1] = a[1] /\ Cat(a, b) # <<>>
<1>1. Len(a) \in Nat \ {0} /\ Len(b) \in Nat /\ Len(a \o b) = Len(a) + Len(b)
  BY EmptySeq, ConcatProperties
<1>2. (a \o b)[1] = a[1] /\ a \o b # <<>>
  BY <1>1
<1> QED BY <1>2 DEF Cat

LEMMA CatEmpty ==
  ASSUME NEW S, NEW a \in Seq(S)
  PROVE  Cat(a, <<>>) = a /\ Cat(<<>>, a) = a
BY ConcatEmptySeq DEF Cat

LEMMA CatCat ==
  ASSUME NEW S, NEW a \in Seq(S), NEW b \in Seq(S), NEW c \in Seq(S)
  PROVE  Cat(Cat(a, b), c) = Cat(a, Cat(b, c))
BY ConcatAssociative DEF Cat

LEMMA CatCons ==
  ASSUME NEW S, NEW t \in S, NEW a \in Seq(S), NEW b \in Seq(S)
  PROVE  Cat(Cons(t, a), b) = Cons(t, Cat(a, b))
<1>1. <<t>> \in Seq(S)
  OBVIOUS
<1>2. (<<t>> \o a) \o b = <<t>> \o (a \o b)
  BY <1>1, ConcatAssociative
<1> QED BY <1>2 DEF Cat, Cons

LEMMA CatOne ==
  ASSUME NEW S, NEW t \in S, NEW a \in Seq(S)
  PROVE  /\ Cons(t, <<>>) = <<t>> /\ <<t>> \in Seq(S)
         /\ Cat(<<t>>, a) = Cons(t, a)
<1>1. <<t>> \in Seq(S)
  OBVIOUS
<1> QED BY <1>1, ConcatEmptySeq DEF Cat, Cons

LEMMA ConsParts ==
  ASSUME NEW S, NEW t \in S, NEW r \in Seq(S)
  PROVE  /\ Cons(t, r) \in Seq(S) /\ Len(Cons(t, r)) = Len(r) + 1
         /\ Cons(t, r) # <<>> /\ Cons(t, r)[1] = t /\ Tail(Cons(t, r)) = r
<1> USE DEF Cat, Cons
<1> DEFINE u == <<t>> \o r
<1>1. /\ u \in Seq(S) /\ Len(u) = Len(r) + 1 /\ Len(r) \in Nat /\ u[1] = t
      /\ \A i \in 1 .. Len(r) : u[i + 1] = r[i]
  OBVIOUS
<1> HIDE DEF u
<1>2. u # <<>>
  BY <1>1
<1>3. Tail(u) \in Seq(S) /\ Len(Tail(u)) = Len(r) /\ \A i \in 1 .. Len(r) : Tail(u)[i] = u[i + 1]
  BY <1>1, <1>2
<1>4. Tail(u) = r
  BY <1>1, <1>3, SeqEqual
<1> QED BY <1>1, <1>2, <1>4 DEF u

LEMMA ConsOfTail ==
  ASSUME NEW S, NEW s \in Seq(S), s # <<>>
  PROVE  /\ s[1] \in S /\ Tail(s) \in Seq(S) /\ Len(Tail(s)) = Len(s) - 1
         /\ s = Cons(s[1], Tail(s))
<1> USE DEF Cat, Cons
<1>1. Len(s) \in Nat \ {0} /\ s[1] \in S
  OBVIOUS
<1>2. Tail(s) \in Seq(S) /\ Len(Tail(s)) = Len(s) - 1 /\ \A i \in 1 .. Len(s) - 1 : Tail(s)[i] = s[i + 1]
  OBVIOUS
<1> DEFINE u == <<s[1]>> \o Tail(s)
<1>3. <<s[1]>> \in Seq(S)
  BY <1>1
<1>4. /\ u \in Seq(S) /\ Len(u) = Len(s) /\ u[1] = s[1]
      /\ \A i \in 1 .. Len(s) - 1 : u[i + 1] = Tail(s)[i]
  BY <1>1, <1>2, <1>3
<1>5. \A i \in 1 .. Len(s) : u[i] = s[i]
  <2> SUFFICES ASSUME NEW i \in 1 .. Len(s) PROVE u[i] = s[i]
    OBVIOUS
  <2> HIDE DEF u
  <2>1. CASE i = 1
    BY <1>4, <2>1
  <2>2. CASE i # 1
    <3>1. i - 1 \in 1 .. Len(s) - 1 /\ (i - 1) + 1 = i
      BY <1>1, <2>2
    <3> QED BY <1>2, <1>4, <3>1
  <2> QED BY <2>1, <2>2
<1>6. u = s
  <2> HIDE DEF u
  <2> QED BY <1>4, <1>5, SeqEqual
<1> QED BY <1>1, <1>2, <1>6

\* A sequence that begins with t and is a followed by b: t is all of a's
\* beginning, unless a is empty.
LEMMA ConsSplit ==
  ASSUME NEW S, NEW t \in S, NEW r \in Seq(S), NEW a \in Seq(S), NEW b \in Seq(S),
         Cons(t, r) = Cat(a, b), a # <<>>
  PROVE  /\ a[1] = t /\ Tail(a) \in Seq(S)
         /\ a = Cons(t, Tail(a)) /\ r = Cat(Tail(a), b)
<1>0. a[1] \in S /\ Tail(a) \in Seq(S) /\ a = Cons(a[1], Tail(a))
  BY ConsOfTail
<1>1. PICK h \in S, u \in Seq(S) : h = a[1] /\ u = Tail(a) /\ a = Cons(h, u)
  BY <1>0
<1>2. Cat(a, b) = Cons(h, Cat(u, b)) /\ Cat(u, b) \in Seq(S)
  <2>1. Cat(Cons(h, u), b) = Cons(h, Cat(u, b))
    BY CatCons
  <2>2. Cat(u, b) \in Seq(S)
    BY CatType
  <2> QED BY <1>1, <2>1, <2>2
<1>3. PICK q \in Seq(S) : q = Cat(u, b)
  BY <1>2
<1>4. Cons(t, r) = Cons(h, q)
  BY <1>2, <1>3
<1>5. Cons(t, r)[1] = t /\ Cons(h, q)[1] = h /\ Tail(Cons(t, r)) = r /\ Tail(Cons(h, q)) = q
  BY ConsParts
<1>6. t = h /\ r = q
  BY <1>4, <1>5
<1> QED BY <1>1, <1>3, <1>6

LEMMA ConsEqual ==
  ASSUME NEW S, NEW t \in S, NEW r \in Seq(S), NEW u \in S, NEW q \in Seq(S),
         Cons(t, r) = Cons(u, q)
  PROVE  t = u /\ r = q
<1> USE DEF Cat, Cons
<1>1. (<<t>> \o r)[1] = t /\ (<<u>> \o q)[1] = u /\ Tail(<<t>> \o r) = r /\ Tail(<<u>> \o q) = q
  BY ConsParts
<1> QED BY <1>1
----------------------------------------------------------------------------
(***************************************************************************)
(* DictOf: one more pair sets an item.                                     *)
(***************************************************************************)
FirstsUpTo(g, ps, n) ==
  g = [k \in 0 .. n |-> IF k = 0 THEN <<>>
                        ELSE IF \E j \in 1 .. k - 1 : ps[j][1] = ps[k][1] THEN g[k - 1]
                        ELSE Append(g[k - 1], k)]

LEMMA FirstsEquation ==
  ASSUME NEW S, NEW ps \in Seq(S)
  PROVE  /\ Firsts(ps)[0] = <<>>
         /\ \A n \in 1 .. Len(ps) :
              Firsts(ps)[n] = IF \E j \in 1 .. n - 1 : ps[j][1] = ps[n][1] THEN Firsts(ps)[n - 1]
                              ELSE Append(Firsts(ps)[n - 1], n)
<1> DEFINE T == {n \in Nat : \E g : FirstsUpTo(g, ps, n)}
           Again(n) == \E j \in 1 .. n - 1 : ps[j][1] = ps[n][1]
<1>1. 0 \in T
  <2>1. FirstsUpTo([k \in 0 .. 0 |-> <<>>], ps, 0)
    BY DEF FirstsUpTo
  <2> QED BY <2>1
<1>2. ASSUME NEW n \in T PROVE n + 1 \in T
  <2>1. PICK g : FirstsUpTo(g, ps, n)
    OBVIOUS
  <2>2. \A k \in 0 .. n : g[k] = IF k = 0 THEN <<>>
                                  ELSE IF Again(k) THEN g[k - 1]
                                  ELSE Append(g[k - 1], k)
    BY <2>1 DEF FirstsUpTo
  <2> HIDE DEF Again
  <2> DEFINE next == IF Again(n + 1) THEN g[n] ELSE Append(g[n], n + 1)
             h == [k \in 0 .. n + 1 |-> IF k <= n THEN g[k] ELSE next]
  <2>3. ASSUME NEW k \in 0 .. n + 1
        PROVE  h[k] = IF k = 0 THEN <<>>
                      ELSE IF Again(k) THEN h[k - 1]
                      ELSE Append(h[k - 1], k)
    <3>1. CASE k \in 0 .. n
      <4>1. k \in Nat /\ k <= n /\ h[k] = g[k]
        BY <3>1
      <4>2. k # 0 => h[k - 1] = g[k - 1]
        BY <3>1
      <4> QED BY <2>2, <3>1, <4>1, <4>2
    <3>2. CASE k = n + 1
      <4>1. n + 1 \in 0 .. n + 1 /\ n \in 0 .. n + 1 /\ ~(n + 1 <= n) /\ n + 1 # 0 /\ (n + 1) - 1 = n
        OBVIOUS
      <4>2. h[n + 1] = next /\ h[n] = g[n]
        BY <4>1
      <4> QED BY <3>2, <4>1, <4>2
    <3> QED BY <3>1, <3>2
  <2>4. h = [k \in 0 .. n + 1 |-> h[k]]
    OBVIOUS
  <2>5. FirstsUpTo(h, ps, n + 1)
    <3> HIDE DEF h
    <3>1. h = [k \in 0 .. n + 1 |-> IF k = 0 THEN <<>>
                                    ELSE IF Again(k) THEN h[k - 1]
                                    ELSE Append(h[k - 1], k)]
      BY <2>3, <2>4
    <3> QED BY <3>1 DEF FirstsUpTo, Again
  <2> QED BY <2>5
<1> HIDE DEF T
<1>3. T = Nat
  <2>1. T \in SUBSET Nat
    BY DEF T
  <2> QED BY <1>1, <1>2, <2>1, NatSetInduction
<1>4. \E g : FirstsUpTo(g, ps, Len(ps))
  <2>1. Len(ps) \in T
    BY <1>3
  <2> QED BY <2>1 DEF T
<1>5. Firsts(ps) = CHOOSE g : FirstsUpTo(g, ps, Len(ps))
  BY DEF Firsts, FirstsUpTo
<1>6. FirstsUpTo(Firsts(ps), ps, Len(ps))
  BY <1>4, <1>5
<1>7. \A n \in 1 .. Len(ps) : n \in 0 .. Len(ps) /\ n # 0
  OBVIOUS
<1>8. 0 \in 0 .. Len(ps)
  OBVIOUS
<1> QED BY <1>6, <1>7, <1>8 DEF FirstsUpTo

LEMMA FirstsStep ==
  ASSUME NEW S, NEW ps \in Seq(S), NEW n \in Nat, n + 1 <= Len(ps)
  PROVE  Firsts(ps)[n + 1] = IF \E j \in 1 .. n : ps[j][1] = ps[n + 1][1] THEN Firsts(ps)[n]
                             ELSE Append(Firsts(ps)[n], n + 1)
<1>1. PICK k \in 1 .. Len(ps) : k = n + 1
  OBVIOUS
<1>2. Firsts(ps)[k] = IF \E j \in 1 .. k - 1 : ps[j][1] = ps[k][1] THEN Firsts(ps)[k - 1]
                      ELSE Append(Firsts(ps)[k - 1], k)
  BY FirstsEquation
<1>3. k - 1 = n
  BY <1>1
<1> QED BY <1>1, <1>2, <1>3

\* Firsts(ps)[n] lists places among the first n; every key of those is at one
\* of the places listed.
LEMMA FirstsFacts ==
  ASSUME NEW S, NEW ps \in Seq(S), NEW n \in 0 .. Len(ps)
  PROVE  /\ Firsts(ps)[n] \in Seq(1 .. n)
         /\ \A i \in 1 .. n : \E m \in 1 .. Len(Firsts(ps)[n]) : ps[Firsts(ps)[n][m]][1] = ps[i][1]
<1> DEFINE Good(k) ==
             /\ Firsts(ps)[k] \in Seq(1 .. k)
             /\ \A i \in 1 .. k : \E m \in 1 .. Len(Firsts(ps)[k]) : ps[Firsts(ps)[k][m]][1] = ps[i][1]
           T == {k \in Nat : k <= Len(ps) => Good(k)}
<1>1. 0 \in T
  <2>1. Firsts(ps)[0] = <<>>
    BY FirstsEquation
  <2>2. Good(0)
    BY <2>1, EmptySeq
  <2> QED BY <2>2
<1>2. ASSUME NEW k \in T PROVE k + 1 \in T
  <2> SUFFICES ASSUME k + 1 <= Len(ps) PROVE Good(k + 1)
    OBVIOUS
  <2>1. k \in Nat /\ k + 1 \in 1 .. Len(ps) /\ k <= Len(ps)
    OBVIOUS
  <2> DEFINE f == Firsts(ps)[k]
             h == Firsts(ps)[k + 1]
             Again == \E j \in 1 .. k : ps[j][1] = ps[k + 1][1]
  <2>2. h = IF Again THEN f ELSE Append(f, k + 1)
    BY <2>1, FirstsStep
  <2>3. f \in Seq(1 .. k) /\ \A i \in 1 .. k : \E m \in 1 .. Len(f) : ps[f[m]][1] = ps[i][1]
    BY <2>1
  <2> HIDE DEF f, h
  <2>4. f \in Seq(1 .. k + 1)
    <3>1. 1 .. k \subseteq 1 .. k + 1
      OBVIOUS
    <3> QED BY <2>3, <3>1, SeqMonotonic
  <2>5. CASE Again
    <3>1. PICK j \in 1 .. k : ps[j][1] = ps[k + 1][1]
      BY <2>5
    <3>2. ASSUME NEW i \in 1 .. k + 1 PROVE \E m \in 1 .. Len(f) : ps[f[m]][1] = ps[i][1]
      <4>1. CASE i = k + 1
        <5>1. PICK m \in 1 .. Len(f) : ps[f[m]][1] = ps[j][1]
          BY <2>3
        <5> QED BY <3>1, <4>1, <5>1
      <4>2. CASE i # k + 1
        <5>1. i \in 1 .. k
          BY <4>2
        <5> QED BY <2>3, <5>1
      <4> QED BY <4>1, <4>2
    <3>3. h = f
      BY <2>2, <2>5
    <3> QED BY <2>4, <3>2, <3>3 DEF h
  <2>6. CASE ~Again
    <3>1. h = Append(f, k + 1)
      BY <2>2, <2>6
    <3>2. k + 1 \in 1 .. k + 1
      OBVIOUS
    <3>3. h \in Seq(1 .. k + 1) /\ Len(h) = Len(f) + 1 /\ Len(f) \in Nat /\ h[Len(f) + 1] = k + 1
          /\ \A m \in 1 .. Len(f) : h[m] = f[m]
      BY <2>4, <3>1, <3>2, AppendProperties
    <3>4. ASSUME NEW i \in 1 .. k + 1 PROVE \E m \in 1 .. Len(h) : ps[h[m]][1] = ps[i][1]
      <4>1. CASE i = k + 1
        <5>1. Len(f) + 1 \in 1 .. Len(h)
          BY <3>3
        <5> QED BY <3>3, <4>1, <5>1
      <4>2. CASE i # k + 1
        <5>1. i \in 1 .. k
          BY <4>2
        <5>2. PICK m \in 1 .. Len(f) : ps[f[m]][1] = ps[i][1]
          BY <2>3, <5>1
        <5>3. m \in 1 .. Len(h) /\ h[m] = f[m]
          BY <3>3
        <5> QED BY <5>2, <5>3
      <4> QED BY <4>1, <4>2
    <3> QED BY <3>3, <3>4 DEF h
  <2> QED BY <2>5, <2>6
<1> HIDE DEF T
<1>3. T = Nat
  <2>1. T \in SUBSET Nat
    BY DEF T
  <2> QED BY <1>1, <1>2, <2>1, NatSetInduction
<1>4. n \in T /\ n <= Len(ps)
  BY <1>3
<1> QED BY <1>4 DEF T

LEMMA FirstsOfAppend ==
  ASSUME NEW S, NEW ps \in Seq(S), NEW p \in S, NEW n \in 0 .. Len(ps)
  PROVE  Firsts(Append(ps, p))[n] = Firsts(ps)[n]
<1> DEFINE qs == Append(ps, p)
           T == {k \in Nat : k <= Len(ps) => Firsts(qs)[k] = Firsts(ps)[k]}
<1>1. qs \in Seq(S) /\ Len(qs) = Len(ps) + 1 /\ Len(ps) \in Nat /\ \A i \in 1 .. Len(ps) : qs[i] = ps[i]
  OBVIOUS
<1> HIDE DEF qs
<1>2. 0 \in T
  BY <1>1, FirstsEquation
<1>3. ASSUME NEW k \in T PROVE k + 1 \in T
  <2> SUFFICES ASSUME k + 1 <= Len(ps) PROVE Firsts(qs)[k + 1] = Firsts(ps)[k + 1]
    OBVIOUS
  <2>1. k \in Nat /\ k + 1 \in 1 .. Len(ps) /\ k + 1 <= Len(qs) /\ k <= Len(ps)
    BY <1>1
  <2>2. Firsts(qs)[k] = Firsts(ps)[k]
    BY <2>1
  <2>3. Firsts(qs)[k + 1] = IF \E j \in 1 .. k : qs[j][1] = qs[k + 1][1] THEN Firsts(qs)[k]
                            ELSE Append(Firsts(qs)[k], k + 1)
    BY <1>1, <2>1, FirstsStep
  <2>4. Firsts(ps)[k + 1] = IF \E j \in 1 .. k : ps[j][1] = ps[k + 1][1] THEN Firsts(ps)[k]
                            ELSE Append(Firsts(ps)[k], k + 1)
    BY <2>1, FirstsStep
  <2>5. qs[k + 1] = ps[k + 1] /\ \A j \in 1 .. k : qs[j] = ps[j]
    BY <1>1, <2>1
  <2>6. (\E j \in 1 .. k : qs[j][1] = qs[k + 1][1]) <=> (\E j \in 1 .. k : ps[j][1] = ps[k + 1][1])
    BY <2>5
  <2> QED BY <2>2, <2>3, <2>4, <2>6
<1> HIDE DEF T
<1>4. T = Nat
  <2>1. T \in SUBSET Nat
    BY DEF T
  <2> QED BY <1>2, <1>3, <2>1, NatSetInduction
<1>5. n \in T /\ n <= Len(ps)
  BY <1>4
<1> QED BY <1>5 DEF T, qs

LEMMA LastOfFacts ==
  ASSUME NEW S, NEW ps \in Seq(S), NEW k, \E i \in 1 .. Len(ps) : ps[i][1] = k
  PROVE  /\ LastOf(ps, k) \in 1 .. Len(ps) /\ ps[LastOf(ps, k)][1] = k
         /\ \A j \in 1 .. Len(ps) : ps[j][1] = k => j <= LastOf(ps, k)
<1> DEFINE T == {d \in Nat : \E i \in 1 .. Len(ps) : d = Len(ps) - i /\ ps[i][1] = k}
<1>1. T \in SUBSET Nat /\ T # {}
  <2>1. PICK i \in 1 .. Len(ps) : ps[i][1] = k
    OBVIOUS
  <2>2. Len(ps) - i \in Nat
    OBVIOUS
  <2> QED BY <2>1, <2>2
<1>2. PICK d \in T : \A e \in T : d <= e
  <2> HIDE DEF T
  <2> QED BY <1>1, LeastElement
<1>3. PICK i \in 1 .. Len(ps) : d = Len(ps) - i /\ ps[i][1] = k
  OBVIOUS
<1>4. ASSUME NEW j \in 1 .. Len(ps), ps[j][1] = k PROVE j <= i
  <2>1. Len(ps) - j \in T
    BY <1>4
  <2>2. d <= Len(ps) - j
    BY <1>2, <2>1
  <2> QED BY <1>3, <2>2
<1>5. DOMAIN ps = 1 .. Len(ps)
  OBVIOUS
<1>6. \E x \in DOMAIN ps : ps[x][1] = k /\ \A j \in DOMAIN ps : ps[j][1] = k => j <= x
  BY <1>3, <1>4, <1>5
<1> HIDE DEF T
<1>7. /\ LastOf(ps, k) \in DOMAIN ps /\ ps[LastOf(ps, k)][1] = k
      /\ \A j \in DOMAIN ps : ps[j][1] = k => j <= LastOf(ps, k)
  BY <1>6, Zenon DEF LastOf
<1> QED BY <1>5, <1>7

LEMMA LastOfAppend ==
  ASSUME NEW S, NEW ps \in Seq(S), NEW p \in S
  PROVE  /\ LastOf(Append(ps, p), p[1]) = Len(ps) + 1
         /\ \A k : k # p[1] /\ (\E i \in 1 .. Len(ps) : ps[i][1] = k)
                     => LastOf(Append(ps, p), k) = LastOf(ps, k)
<1> DEFINE qs == Append(ps, p)
<1>1. /\ qs \in Seq(S) /\ Len(qs) = Len(ps) + 1 /\ Len(ps) \in Nat
      /\ qs[Len(ps) + 1] = p /\ \A i \in 1 .. Len(ps) : qs[i] = ps[i]
  OBVIOUS
<1> HIDE DEF qs
<1>2. Len(ps) + 1 \in 1 .. Len(qs)
  BY <1>1
<1>3. LastOf(qs, p[1]) = Len(ps) + 1
  <2>1. \E i \in 1 .. Len(qs) : qs[i][1] = p[1]
    BY <1>1, <1>2
  <2>2. /\ LastOf(qs, p[1]) \in 1 .. Len(qs)
        /\ \A j \in 1 .. Len(qs) : qs[j][1] = p[1] => j <= LastOf(qs, p[1])
    BY <1>1, <2>1, LastOfFacts
  <2>3. Len(ps) + 1 <= LastOf(qs, p[1])
    BY <1>1, <1>2, <2>2
  <2> QED BY <1>1, <2>2, <2>3
<1>4. ASSUME NEW k, k # p[1], \E i \in 1 .. Len(ps) : ps[i][1] = k
      PROVE  LastOf(qs, k) = LastOf(ps, k)
  <2>1. /\ LastOf(ps, k) \in 1 .. Len(ps) /\ ps[LastOf(ps, k)][1] = k
        /\ \A j \in 1 .. Len(ps) : ps[j][1] = k => j <= LastOf(ps, k)
    BY <1>4, LastOfFacts
  <2>2. LastOf(ps, k) \in 1 .. Len(qs) /\ qs[LastOf(ps, k)][1] = k
    BY <1>1, <2>1
  <2>3. /\ LastOf(qs, k) \in 1 .. Len(qs) /\ qs[LastOf(qs, k)][1] = k
        /\ \A j \in 1 .. Len(qs) : qs[j][1] = k => j <= LastOf(qs, k)
    BY <1>1, <2>2, LastOfFacts
  <2>4. LastOf(qs, k) # Len(ps) + 1
    BY <1>1, <1>4, <2>3
  <2>5. LastOf(qs, k) \in 1 .. Len(ps)
    BY <1>1, <2>3, <2>4
  <2>6. ps[LastOf(qs, k)][1] = k
    BY <1>1, <2>3, <2>5
  <2>7. LastOf(qs, k) <= LastOf(ps, k) /\ LastOf(ps, k) <= LastOf(qs, k)
    BY <2>1, <2>2, <2>3, <2>5, <2>6, SMTT(30)
  <2> QED BY <2>1, <2>5, <2>7
<1> QED BY <1>3, <1>4 DEF qs

\* The keys and the items of DictOf(ps), spelled out.
LEMMA DictOfParts ==
  ASSUME NEW S, NEW ps \in Seq(S)
  PROVE  \E f \in Seq(1 .. Len(ps)) :
           /\ f = Firsts(ps)[Len(ps)]
           /\ DictOf(ps) = PyDict([n \in 1 .. Len(f) |-> ps[f[n]][1]],
                                  [n \in 1 .. Len(f) |-> ps[LastOf(ps, ps[f[n]][1])][2]])
<1>1. Len(ps) \in 0 .. Len(ps)
  OBVIOUS
<1>2. PICK f \in Seq(1 .. Len(ps)) : f = Firsts(ps)[Len(ps)]
  BY <1>1, FirstsFacts
<1>3. DOMAIN f = 1 .. Len(f)
  OBVIOUS
<1>4. DictOf(ps) = PyDict([n \in DOMAIN f |-> ps[f[n]][1]],
                          [n \in DOMAIN f |-> ps[LastOf(ps, ps[f[n]][1])][2]])
  BY <1>2, Zenon DEF DictOf
<1> QED BY <1>2, <1>3, <1>4

LEMMA DictOfNothing == DictOf(<<>>) = PyDict(<<>>, <<>>)
<1>1. <<>> \in Seq({}) /\ Len(<<>>) = 0
  OBVIOUS
<1>2. PICK f \in Seq(1 .. Len(<<>>)) :
        /\ f = Firsts(<<>>)[Len(<<>>)]
        /\ DictOf(<<>>) = PyDict([n \in 1 .. Len(f) |-> <<>>[f[n]][1]],
                                 [n \in 1 .. Len(f) |-> <<>>[LastOf(<<>>, <<>>[f[n]][1])][2]])
  BY <1>1, DictOfParts
<1>3. f = <<>> /\ Len(f) = 0
  <2>1. Firsts(<<>>)[0] = <<>>
    BY <1>1, FirstsEquation
  <2> QED BY <1>1, <1>2, <2>1
<1>4. \A g : [n \in 1 .. 0 |-> g[n]] = <<>>
  OBVIOUS
<1>5. /\ [n \in 1 .. Len(f) |-> <<>>[f[n]][1]] = <<>>
      /\ [n \in 1 .. Len(f) |-> <<>>[LastOf(<<>>, <<>>[f[n]][1])][2]] = <<>>
  BY <1>3, EmptySeq
<1> QED BY <1>2, <1>5, Zenon

LEMMA DictFields ==
  ASSUME NEW ks, NEW vs, NEW x
  PROVE  /\ PyDict(ks, vs).keys = ks /\ PyDict(ks, vs).items = vs
         /\ [PyDict(ks, vs) EXCEPT !.items = x] = PyDict(ks, x)
BY DEF PyDict

\* The dict m after m[k] = v.
SetItem(m, k, v) ==
  IF \E i \in DOMAIN m.keys : m.keys[i] = k
  THEN [m EXCEPT !.items = [i \in DOMAIN m.items |-> IF m.keys[i] = k THEN v ELSE @[i]]]
  ELSE PyDict(Append(m.keys, k), Append(m.items, v))

LEMMA DictOfAppend ==
  ASSUME NEW S, NEW ps \in Seq(S), NEW k, NEW v, <<k, v>> \in S
  PROVE  DictOf(Append(ps, <<k, v>>)) = SetItem(DictOf(ps), k, v)
<1> SUFFICES LET m == DictOf(ps) IN
             DictOf(Append(ps, <<k, v>>)) =
               IF \E i \in DOMAIN m.keys : m.keys[i] = k
               THEN [m EXCEPT !.items = [i \in DOMAIN m.items |-> IF m.keys[i] = k THEN v ELSE @[i]]]
               ELSE PyDict(Append(m.keys, k), Append(m.items, v))
  BY Zenon DEF SetItem
<1>1. PICK p \in S : p = <<k, v>>
  OBVIOUS
<1>2. p[1] = k /\ p[2] = v
  BY <1>1
<1>3. PICK n \in Nat : n = Len(ps)
  OBVIOUS
<1>4. PICK qs \in Seq(S) : qs = Append(ps, p)
  BY AppendProperties
<1>5. Len(qs) = n + 1 /\ qs[n + 1] = p /\ \A i \in 1 .. n : qs[i] = ps[i]
  BY <1>3, <1>4, AppendProperties
<1>6. PICK f \in Seq(1 .. n) :
        /\ f = Firsts(ps)[n]
        /\ DictOf(ps) = PyDict([i \in 1 .. Len(f) |-> ps[f[i]][1]],
                               [i \in 1 .. Len(f) |-> ps[LastOf(ps, ps[f[i]][1])][2]])
  BY <1>3, DictOfParts
<1>7. PICK g \in Seq(1 .. n + 1) :
        /\ g = Firsts(qs)[n + 1]
        /\ DictOf(qs) = PyDict([i \in 1 .. Len(g) |-> qs[g[i]][1]],
                               [i \in 1 .. Len(g) |-> qs[LastOf(qs, qs[g[i]][1])][2]])
  <2>1. PICK x \in Nat : x = n + 1
    OBVIOUS
  <2>2. Len(qs) = x
    BY <1>5, <2>1
  <2> QED BY <2>1, <2>2, DictOfParts
<1>8. g = IF \E j \in 1 .. n : ps[j][1] = k THEN f ELSE Append(f, n + 1)
  <2>1. n + 1 <= Len(qs) /\ n \in 0 .. Len(ps)
    BY <1>3, <1>5
  <2>2. Firsts(qs)[n + 1] = IF \E j \in 1 .. n : qs[j][1] = qs[n + 1][1] THEN Firsts(qs)[n]
                            ELSE Append(Firsts(qs)[n], n + 1)
    BY <2>1, FirstsStep
  <2>3. Firsts(qs)[n] = f
    BY <1>4, <1>6, <2>1, FirstsOfAppend
  <2>4. qs[n + 1][1] = k
    BY <1>2, <1>5
  <2>5. (\E j \in 1 .. n : qs[j][1] = k) <=> (\E j \in 1 .. n : ps[j][1] = k)
    BY <1>5
  <2> QED BY <1>7, <2>2, <2>3, <2>4, <2>5
<1>9. \A i \in 1 .. n : \E j \in 1 .. Len(f) : ps[f[j]][1] = ps[i][1]
  <2>1. n \in 0 .. Len(ps)
    BY <1>3
  <2> QED BY <1>6, <2>1, FirstsFacts
<1>10. Len(f) \in Nat /\ \A i \in 1 .. Len(f) : f[i] \in 1 .. n
  <2>1. f \in Seq(1 .. n)
    OBVIOUS
  <2> QED BY <2>1, ElementOfSeq, LenProperties
<1>11. /\ LastOf(qs, k) = n + 1
       /\ \A x : x # k /\ (\E i \in 1 .. n : ps[i][1] = x) => LastOf(qs, x) = LastOf(ps, x)
  BY <1>2, <1>3, <1>4, LastOfAppend
<1>12. \A x : (\E i \in 1 .. n : ps[i][1] = x) => LastOf(ps, x) \in 1 .. n
  BY <1>3, LastOfFacts
<1>13. PICK ks : ks = [i \in 1 .. Len(f) |-> ps[f[i]][1]]
  OBVIOUS
<1>14. PICK vs : vs = [i \in 1 .. Len(f) |-> ps[LastOf(ps, ps[f[i]][1])][2]]
  OBVIOUS
<1>15. DictOf(ps) = PyDict(ks, vs) /\ DOMAIN ks = 1 .. Len(f) /\ DOMAIN vs = 1 .. Len(f)
  BY <1>6, <1>13, <1>14
<1>16. ASSUME NEW i \in 1 .. Len(f)
       PROVE  /\ qs[f[i]][1] = ks[i]
              /\ qs[LastOf(qs, qs[f[i]][1])][2] = IF ks[i] = k THEN v ELSE vs[i]
  <2>1. f[i] \in 1 .. n /\ qs[f[i]] = ps[f[i]]
    BY <1>5, <1>10
  <2>2. ks[i] = ps[f[i]][1] /\ vs[i] = ps[LastOf(ps, ps[f[i]][1])][2]
    BY <1>13, <1>14
  <2>3. CASE ks[i] = k
    BY <1>2, <1>5, <1>11, <2>1, <2>2, <2>3
  <2>4. CASE ks[i] # k
    <3>1. \E j \in 1 .. n : ps[j][1] = ks[i]
      BY <2>1, <2>2
    <3>2. LastOf(qs, ks[i]) = LastOf(ps, ks[i]) /\ LastOf(ps, ks[i]) \in 1 .. n
      BY <1>11, <1>12, <2>4, <3>1
    <3> QED BY <1>5, <2>1, <2>2, <2>4, <3>2
  <2> QED BY <2>3, <2>4
<1>17. (\E i \in 1 .. Len(f) : ks[i] = k) <=> \E j \in 1 .. n : ps[j][1] = k
  BY <1>9, <1>10, <1>13
<1>18. PICK m : m = DictOf(ps)
  OBVIOUS
<1>19. m.keys = ks /\ m.items = vs /\ \A x : [m EXCEPT !.items = x] = PyDict(ks, x)
  BY <1>15, <1>18, DictFields
<1>20. CASE \E i \in 1 .. Len(f) : ks[i] = k
  <2>1. PICK items : items = [i \in 1 .. Len(f) |-> IF ks[i] = k THEN v ELSE vs[i]]
    OBVIOUS
  <2>2. g = f
    BY <1>8, <1>17, <1>20
  <2>3. [i \in 1 .. Len(g) |-> qs[g[i]][1]] = ks
    BY <1>13, <1>16, <2>2
  <2>4. [i \in 1 .. Len(g) |-> qs[LastOf(qs, qs[g[i]][1])][2]] = items
    BY <1>16, <2>1, <2>2
  <2>5. DictOf(qs) = [m EXCEPT !.items = items]
    BY <1>7, <1>19, <2>3, <2>4, Zenon
  <2>6. items = [i \in DOMAIN m.items |-> IF m.keys[i] = k THEN v ELSE m.items[i]]
    BY <1>15, <1>19, <2>1
  <2>7. \E i \in DOMAIN m.keys : m.keys[i] = k
    BY <1>15, <1>19, <1>20
  <2> QED BY <1>1, <1>4, <1>18, <2>5, <2>6, <2>7
<1>21. CASE ~(\E i \in 1 .. Len(f) : ks[i] = k)
  <2>1. g = Append(f, n + 1)
    BY <1>8, <1>17, <1>21
  <2>2. /\ Len(g) = Len(f) + 1 /\ g[Len(f) + 1] = n + 1
        /\ \A i \in 1 .. Len(f) : g[i] = f[i]
    <3>1. f \in Seq(1 .. n + 1) /\ n + 1 \in 1 .. n + 1
      <4>1. 1 .. n \subseteq 1 .. n + 1
        OBVIOUS
      <4>2. f \in Seq(1 .. n)
        OBVIOUS
      <4> QED BY <4>1, <4>2, SeqMonotonic
    <3> QED BY <2>1, <3>1, AppendProperties
  <2> DEFINE K == {ks[i] : i \in 1 .. Len(f)} \cup {k}
             V == {vs[i] : i \in 1 .. Len(f)} \cup {v}
  <2>3. ks \in Seq(K) /\ vs \in Seq(V) /\ Len(ks) = Len(f) /\ Len(vs) = Len(f)
    <3>1. ks = [i \in 1 .. Len(f) |-> ks[i]] /\ vs = [i \in 1 .. Len(f) |-> vs[i]]
      BY <1>13, <1>14
    <3>2. (\A i \in 1 .. Len(f) : ks[i] \in K) /\ \A i \in 1 .. Len(f) : vs[i] \in V
      OBVIOUS
    <3> HIDE DEF K, V
    <3> QED BY <1>10, <3>1, <3>2, IsASeq
  <2>4. k \in K /\ v \in V
    OBVIOUS
  <2> HIDE DEF K, V
  <2>5. PICK ks2 \in Seq(K) : ks2 = Append(ks, k)
    BY <2>3, <2>4, AppendProperties
  <2>6. PICK vs2 \in Seq(V) : vs2 = Append(vs, v)
    BY <2>3, <2>4, AppendProperties
  <2>7. /\ Len(ks2) = Len(f) + 1 /\ ks2[Len(f) + 1] = k /\ \A i \in 1 .. Len(f) : ks2[i] = ks[i]
        /\ Len(vs2) = Len(f) + 1 /\ vs2[Len(f) + 1] = v /\ \A i \in 1 .. Len(f) : vs2[i] = vs[i]
    BY <2>3, <2>4, <2>5, <2>6, AppendProperties
  <2>8. ASSUME NEW i \in 1 .. Len(f) + 1
        PROVE  /\ qs[g[i]][1] = ks2[i]
               /\ qs[LastOf(qs, qs[g[i]][1])][2] = vs2[i]
    <3>1. CASE i = Len(f) + 1
      <4>1. g[i] = n + 1 /\ qs[g[i]][1] = k /\ qs[LastOf(qs, k)][2] = v
        BY <1>2, <1>5, <1>11, <2>2, <3>1
      <4> QED BY <2>7, <3>1, <4>1
    <3>2. CASE i # Len(f) + 1
      <4>1. i \in 1 .. Len(f)
        <5>1. PICK w \in Nat : w = Len(f)
          BY <1>10
        <5>2. i \in 1 .. w + 1 /\ i # w + 1
          BY <3>2, <5>1
        <5>3. i \in 1 .. w
          BY <5>2
        <5> QED BY <5>1, <5>3
      <4>2. g[i] = f[i] /\ ks[i] # k
        BY <1>21, <2>2, <4>1
      <4> QED BY <1>16, <2>7, <4>1, <4>2
    <3> QED BY <3>1, <3>2
  <2>9. ks2 = [i \in 1 .. Len(f) + 1 |-> ks2[i]] /\ vs2 = [i \in 1 .. Len(f) + 1 |-> vs2[i]]
    BY <2>7, SeqDef
  <2>10. /\ [i \in 1 .. Len(g) |-> qs[g[i]][1]] = ks2
         /\ [i \in 1 .. Len(g) |-> qs[LastOf(qs, qs[g[i]][1])][2]] = vs2
    BY <2>2, <2>8, <2>9
  <2>11. DictOf(qs) = PyDict(Append(ks, k), Append(vs, v))
    BY <1>7, <2>5, <2>6, <2>10, Zenon
  <2>12. ~\E i \in DOMAIN m.keys : m.keys[i] = k
    BY <1>15, <1>19, <1>21
  <2> QED BY <1>1, <1>4, <1>18, <1>19, <2>11, <2>12
<1> QED BY <1>20, <1>21
----------------------------------------------------------------------------
(***************************************************************************)
(* The rules of the grammar: what each form of text denotes.               *)
(***************************************************************************)
ItemsIn(s) == IF s \in Seq(Alphabet) THEN Denotation[<<"items", s>>] ELSE {}
EntriesIn(s) == IF s \in Seq(Alphabet) THEN Denotation[<<"entries", s>>] ELSE {}
EntryIn(s) == IF s \in Seq(Alphabet) THEN EntryOf(Denotation, s) ELSE {}

\* The items of a list of which s is the text between its brackets; those that
\* follow an item, when s is what follows it up to the bracket.
AllItems(s) == IF s = <<>> THEN {<<>>} ELSE ItemsIn(s)
MoreItems(s) ==
  IF s = <<>> THEN {<<>>} ELSE IF s[1] = "comma" THEN ItemsIn(Tail(s)) ELSE {}
AllEntries(s) == IF s = <<>> THEN {<<>>} ELSE EntriesIn(s)
MoreEntries(s) ==
  IF s = <<>> THEN {<<>>} ELSE IF s[1] = "comma" THEN EntriesIn(Tail(s)) ELSE {}

LEMMA PhraseEquations ==
  ASSUME NEW s \in Seq(Alphabet)
  PROVE  /\ Denotation[<<"value", s>>] = ValueOf(Denotation, s)
         /\ Denotation[<<"items", s>>] = ItemsOf(Denotation, s)
         /\ Denotation[<<"entries", s>>] = EntriesOf(Denotation, s)
<1>1. <<"value", s>> \in Phrases /\ <<"items", s>> \in Phrases /\ <<"entries", s>> \in Phrases
  BY DEF Phrases
<1> QED BY <1>1, DenotationEquation DEF Meaning

LEMMA MarkTypes ==
  /\ "[" \in Alphabet /\ "]" \in Alphabet /\ "lbrace" \in Alphabet /\ "rbrace" \in Alphabet
  /\ ":" \in Alphabet /\ "comma" \in Alphabet
  /\ GoodStrings \subseteq Alphabet /\ GoodScalars \subseteq Alphabet
BY DEF Alphabet

LEMMA BracketFacts ==
  ASSUME NEW s \in Seq(Alphabet), NEW open \in Alphabet, NEW close \in Alphabet
  PROVE  LET t == <<open>> \o (s \o <<close>>) IN
         /\ t \in Seq(Alphabet) /\ Bracketed(t, open, close) /\ Len(t) = Len(s) + 2
         /\ Inner(t) = s /\ t[1] = open
<1> DEFINE t == <<open>> \o (s \o <<close>>)
<1>1. t \in Seq(Alphabet) /\ Len(s) \in Nat /\ Len(t) = Len(s) + 2
  OBVIOUS
<1>2. t[1] = open /\ t[Len(s) + 2] = close /\ \A i \in 1 .. Len(s) : t[i + 1] = s[i]
  OBVIOUS
<1> HIDE DEF t
<1>3. Inner(t) \in Seq(Alphabet) /\ Len(Inner(t)) = Len(s)
  BY <1>1, Parts
<1>4. \A i \in 1 .. Len(s) : Inner(t)[i] = s[i]
  BY <1>1, <1>2 DEF Inner
<1>5. Inner(t) = s
  BY <1>3, <1>4, SeqEqual
<1>6. Bracketed(t, open, close)
  BY <1>1, <1>2 DEF Bracketed
<1> QED BY <1>1, <1>2, <1>5, <1>6 DEF t

LEMMA BracketedIs ==
  ASSUME NEW s \in Seq(Alphabet), NEW open \in Alphabet, NEW close \in Alphabet,
         Bracketed(s, open, close)
  PROVE  Inner(s) \in Seq(Alphabet) /\ s = <<open>> \o (Inner(s) \o <<close>>)
<1>1. Len(s) \in Nat /\ Len(s) >= 2 /\ s[1] = open /\ s[Len(s)] = close
  BY DEF Bracketed
<1>2. Inner(s) \in Seq(Alphabet) /\ Len(Inner(s)) = Len(s) - 2
  BY <1>1, Parts
<1>3. \A i \in 1 .. Len(s) - 2 : Inner(s)[i] = s[i + 1]
  <2>1. Inner(s) = SubSeq(s, 2, Len(s) - 1)
    BY DEF Inner
  <2>2. 2 \in 1 .. Len(s) + 1 /\ Len(s) - 1 \in 2 - 1 .. Len(s)
    BY <1>1
  <2>3. \A i \in 1 .. (Len(s) - 1) - 2 + 1 : SubSeq(s, 2, Len(s) - 1)[i] = s[2 + i - 1]
    BY <2>2, SubSeqProperties
  <2>4. (Len(s) - 1) - 2 + 1 = Len(s) - 2 /\ \A i \in 1 .. Len(s) - 2 : 2 + i - 1 = i + 1
    BY <1>1
  <2> QED BY <2>1, <2>3, <2>4
<1>4. PICK w \in Seq(Alphabet) : w = Inner(s)
  BY <1>2
<1> DEFINE t == <<open>> \o (w \o <<close>>)
<1>5. t \in Seq(Alphabet) /\ Len(t) = Len(w) + 2 /\ Len(w) \in Nat
  OBVIOUS
<1>6. t[1] = open /\ t[Len(w) + 2] = close /\ \A i \in 1 .. Len(w) : t[i + 1] = w[i]
  OBVIOUS
<1> HIDE DEF t
<1>7. Len(t) = Len(s) /\ Len(w) = Len(s) - 2
  BY <1>1, <1>2, <1>4, <1>5
<1>8. ASSUME NEW i \in 1 .. Len(s) PROVE t[i] = s[i]
  <2>1. CASE i = 1
    BY <1>1, <1>6, <2>1
  <2>2. CASE i = Len(s)
    <3>1. Len(w) + 2 = i
      BY <1>1, <1>7, <2>2
    <3> QED BY <1>1, <1>6, <2>2, <3>1
  <2>3. CASE i # 1 /\ i # Len(s)
    <3>1. i - 1 \in 1 .. Len(w) /\ (i - 1) + 1 = i /\ i - 1 \in 1 .. Len(s) - 2
      BY <1>1, <1>7, <2>3
    <3> QED BY <1>3, <1>4, <1>6, <3>1
  <2> QED BY <2>1, <2>2, <2>3
<1>9. t = s
  BY <1>5, <1>7, <1>8, SeqEqual
<1> QED BY <1>2, <1>4, <1>9 DEF t

LEMMA LeafRule ==
  ASSUME NEW t \in GoodStrings \cup GoodScalars
  PROVE  Leaf(t) \in Values(<<t>>)
<1>1. <<t>> \in Seq(Alphabet)
  BY DEF Alphabet
<1>2. Leaf(t) \in ValueOf(Denotation, <<t>>)
  BY DEF ValueOf
<1> QED BY <1>1, <1>2, PhraseEquations DEF Values

LEMMA ListRule ==
  ASSUME NEW s \in Seq(Alphabet), NEW vs \in AllItems(s)
  PROVE  PyList(vs) \in Values(Cons("[", Cat(s, <<"]">>)))
<1> USE DEF Cat, Cons
<1> DEFINE t == <<"[">> \o (s \o <<"]">>)
<1>1. t \in Seq(Alphabet) /\ Bracketed(t, "[", "]") /\ Len(t) = Len(s) + 2 /\ Inner(t) = s
  BY MarkTypes, BracketFacts
<1> HIDE DEF t
<1>2. PyList(vs) \in ValueOf(Denotation, t)
  <2>1. CASE s = <<>>
    <3>1. vs = <<>> /\ Len(t) = 2
      BY <1>1, <2>1 DEF AllItems
    <3> QED BY <1>1, <3>1 DEF ValueOf
  <2>2. CASE s # <<>>
    <3>1. vs \in Denotation[<<"items", s>>]
      BY <2>2 DEF AllItems, ItemsIn
    <3>2. Len(t) # 2
      BY <1>1, <2>2, EmptySeq
    <3> QED BY <1>1, <3>1, <3>2 DEF ValueOf
  <2> QED BY <2>1, <2>2
<1> QED BY <1>1, <1>2, PhraseEquations DEF Values, t

LEMMA DictRule ==
  ASSUME NEW s \in Seq(Alphabet), NEW ps \in AllEntries(s)
  PROVE  DictOf(ps) \in Values(Cons("lbrace", Cat(s, <<"rbrace">>)))
<1> USE DEF Cat, Cons
<1> DEFINE t == <<"lbrace">> \o (s \o <<"rbrace">>)
<1>1. t \in Seq(Alphabet) /\ Bracketed(t, "lbrace", "rbrace") /\ Len(t) = Len(s) + 2 /\ Inner(t) = s
  BY MarkTypes, BracketFacts
<1> HIDE DEF t
<1>2. DictOf(ps) \in ValueOf(Denotation, t)
  <2>1. CASE s = <<>>
    <3>1. ps = <<>> /\ Len(t) = 2
      BY <1>1, <2>1 DEF AllEntries
    <3> QED BY <1>1, <3>1, DictOfNothing DEF ValueOf
  <2>2. CASE s # <<>>
    <3>1. ps \in Denotation[<<"entries", s>>]
      BY <2>2 DEF AllEntries, EntriesIn
    <3>2. Len(t) # 2
      BY <1>1, <2>2, EmptySeq
    <3> QED BY <1>1, <2>2, <3>1, <3>2 DEF ValueOf
  <2> QED BY <2>1, <2>2
<1> QED BY <1>1, <1>2, PhraseEquations DEF Values, t

\* A value is a leaf, a list or a dict.
IsListText(a, v) ==
  \E w \in Seq(Alphabet) : \E vs \in AllItems(w) : a = Cons("[", Cat(w, <<"]">>)) /\ v = PyList(vs)
IsDictText(a, v) ==
  \E w \in Seq(Alphabet) : \E ps \in AllEntries(w) :
    a = Cons("lbrace", Cat(w, <<"rbrace">>)) /\ v = DictOf(ps)

LEMMA ValueCases ==
  ASSUME NEW s, NEW v \in Values(s)
  PROVE  /\ s \in Seq(Alphabet)
         /\ \/ \E t \in GoodStrings \cup GoodScalars : s = <<t>> /\ v = Leaf(t)
            \/ IsListText(s, v)
            \/ IsDictText(s, v)
<1> USE DEF Cat, Cons, IsListText, IsDictText
<1>1. s \in Seq(Alphabet) /\ v \in ValueOf(Denotation, s)
  <2>1. s \in Seq(Alphabet) /\ v \in Denotation[<<"value", s>>]
    BY DEF Values
  <2> QED BY <2>1, PhraseEquations
<1>2. \/ v \in {Leaf(t) : t \in {u \in GoodStrings \cup GoodScalars : s = <<u>>}}
      \/ /\ Bracketed(s, "[", "]")
         /\ v \in IF Len(s) = 2 THEN {PyList(<<>>)}
                  ELSE {PyList(vs) : vs \in Denotation[<<"items", Inner(s)>>]}
      \/ /\ Bracketed(s, "lbrace", "rbrace")
         /\ v \in IF Len(s) = 2 THEN {PyDict(<<>>, <<>>)}
                  ELSE {DictOf(ps) : ps \in Denotation[<<"entries", Inner(s)>>]}
  BY <1>1 DEF ValueOf
<1>3. CASE v \in {Leaf(t) : t \in {u \in GoodStrings \cup GoodScalars : s = <<u>>}}
  BY <1>1, <1>3
<1>4. ASSUME Len(s) >= 2 PROVE Len(s) = 2 <=> Inner(s) = <<>>
  <2>1. Len(s) \in Nat
    BY <1>1
  <2>2. PICK w \in Seq(Alphabet) : w = Inner(s) /\ Len(w) = Len(s) - 2
    BY <1>1, <1>4, <2>1, Parts
  <2>3. Len(w) = 0 <=> w = <<>>
    BY EmptySeq
  <2> QED BY <2>1, <2>2, <2>3
<1>5. CASE /\ Bracketed(s, "[", "]")
           /\ v \in IF Len(s) = 2 THEN {PyList(<<>>)}
                    ELSE {PyList(vs) : vs \in Denotation[<<"items", Inner(s)>>]}
  <2>1. Inner(s) \in Seq(Alphabet) /\ s = <<"[">> \o (Inner(s) \o <<"]">>) /\ Len(s) >= 2
    BY <1>1, <1>5, MarkTypes, BracketedIs DEF Bracketed
  <2>2. \E vs \in AllItems(Inner(s)) : v = PyList(vs)
    BY <1>4, <1>5, <2>1 DEF AllItems, ItemsIn
  <2> QED BY <1>1, <2>1, <2>2
<1>6. CASE /\ Bracketed(s, "lbrace", "rbrace")
           /\ v \in IF Len(s) = 2 THEN {PyDict(<<>>, <<>>)}
                    ELSE {DictOf(ps) : ps \in Denotation[<<"entries", Inner(s)>>]}
  <2>1. Inner(s) \in Seq(Alphabet) /\ s = <<"lbrace">> \o (Inner(s) \o <<"rbrace">>) /\ Len(s) >= 2
    BY <1>1, <1>6, MarkTypes, BracketedIs DEF Bracketed
  <2>2. \E ps \in AllEntries(Inner(s)) : v = DictOf(ps)
    BY <1>4, <1>6, <2>1, DictOfNothing DEF AllEntries, EntriesIn
  <2> QED BY <1>1, <2>1, <2>2
<1> QED BY <1>2, <1>3, <1>5, <1>6

LEMMA ValueBegins ==
  ASSUME NEW s, NEW v \in Values(s)
  PROVE  s # <<>> /\ s[1] \in GoodStrings \cup GoodScalars \cup {"[", "lbrace"}
<1> USE DEF Cat, Cons, IsListText, IsDictText
<1>1. CASE \E t \in GoodStrings \cup GoodScalars : s = <<t>> /\ v = Leaf(t)
  BY <1>1
<1>2. ASSUME NEW w \in Seq(Alphabet), NEW b \in Alphabet, NEW c \in Alphabet,
             s = <<b>> \o (w \o <<c>>)
      PROVE  s # <<>> /\ s[1] = b
  <2>1. w \o <<c>> \in Seq(Alphabet)
    OBVIOUS
  <2>2. PICK r \in Seq(Alphabet) : r = w \o <<c>>
    BY <2>1
  <2> QED BY <1>2, <2>2, ConsParts
<1> QED BY <1>1, <1>2, ValueCases, MarkTypes

LEMMA CommaSplits ==
  ASSUME NEW s \in Seq(Alphabet), NEW c \in Commas(s)
  PROVE  /\ c \in 1 .. Len(s)
         /\ Before(s, c) \in Seq(Alphabet) /\ Len(Before(s, c)) = c - 1
         /\ After(s, c) \in Seq(Alphabet) /\ Len(After(s, c)) = Len(s) - c
         /\ s = Before(s, c) \o (<<"comma">> \o After(s, c))
<1>1. c \in 1 .. Len(s) /\ s[c] = "comma" /\ Len(s) \in Nat
  BY DEF Commas
<1>2. PICK a \in Seq(Alphabet), b \in Seq(Alphabet) :
        a = Before(s, c) /\ Len(a) = c - 1 /\ b = After(s, c) /\ Len(b) = Len(s) - c
  BY <1>1, Parts
<1>3. (\A i \in 1 .. c - 1 : a[i] = s[i]) /\ \A i \in 1 .. Len(s) - c : b[i] = s[c + i]
  BY <1>1, <1>2 DEF Before, After
<1> DEFINE t == a \o (<<"comma">> \o b)
<1>4. t \in Seq(Alphabet) /\ Len(t) = Len(a) + 1 + Len(b) /\ Len(a) \in Nat /\ Len(b) \in Nat
  BY MarkTypes
<1>5. /\ \A i \in 1 .. Len(a) : t[i] = a[i]
      /\ t[Len(a) + 1] = "comma"
      /\ \A i \in 1 .. Len(b) : t[Len(a) + 1 + i] = b[i]
  BY MarkTypes
<1> HIDE DEF t
<1>6. Len(t) = Len(s)
  BY <1>1, <1>2, <1>4
<1>7. ASSUME NEW i \in 1 .. Len(s) PROVE t[i] = s[i]
  <2>1. CASE i < c
    <3>1. i \in 1 .. Len(a) /\ i \in 1 .. c - 1
      BY <1>1, <1>2, <2>1
    <3> QED BY <1>3, <1>5, <3>1
  <2>2. CASE i = c
    <3>1. Len(a) + 1 = i
      BY <1>1, <1>2, <2>2
    <3> QED BY <1>1, <1>5, <2>2, <3>1
  <2>3. CASE i > c
    <3>1. /\ i - c \in 1 .. Len(b) /\ i - c \in 1 .. Len(s) - c
          /\ Len(a) + 1 + (i - c) = i /\ c + (i - c) = i
      BY <1>1, <1>2, <2>3
    <3> QED BY <1>3, <1>5, <3>1
  <2> QED BY <1>1, <2>1, <2>2, <2>3
<1>8. t = s
  BY <1>4, <1>6, <1>7, SeqEqual
<1> QED BY <1>1, <1>2, <1>8 DEF t

LEMMA CommaFacts ==
  ASSUME NEW s \in Seq(Alphabet), NEW w \in Seq(Alphabet)
  PROVE  LET t == s \o (<<"comma">> \o w)
             c == Len(s) + 1
         IN t \in Seq(Alphabet) /\ c \in Commas(t) /\ Before(t, c) = s /\ After(t, c) = w
<1> DEFINE t == s \o (<<"comma">> \o w)
           c == Len(s) + 1
<1>1. /\ t \in Seq(Alphabet) /\ Len(s) \in Nat /\ Len(w) \in Nat /\ Len(t) = Len(s) + 1 + Len(w)
      /\ DOMAIN t = 1 .. Len(t)
  BY MarkTypes
<1>2. /\ \A i \in 1 .. Len(s) : t[i] = s[i]
      /\ t[c] = "comma"
      /\ \A i \in 1 .. Len(w) : t[c + i] = w[i]
  BY MarkTypes
<1> HIDE DEF t
<1>3. c \in 1 .. Len(t) /\ c \in Nat
  BY <1>1
<1>4. /\ Before(t, c) \in Seq(Alphabet) /\ Len(Before(t, c)) = Len(s)
      /\ After(t, c) \in Seq(Alphabet) /\ Len(After(t, c)) = Len(w)
  BY <1>1, <1>3, Parts
<1>5. Before(t, c) = s
  <2>1. \A i \in 1 .. Len(s) : Before(t, c)[i] = s[i]
    BY <1>1, <1>2 DEF Before
  <2> QED BY <1>4, <2>1, SeqEqual
<1>6. After(t, c) = w
  <2>1. \A i \in 1 .. Len(w) : After(t, c)[i] = w[i]
    BY <1>1, <1>2 DEF After
  <2> QED BY <1>4, <2>1, SeqEqual
<1> QED BY <1>1, <1>2, <1>3, <1>5, <1>6 DEF Commas, t

\* What follows an item or an entry: nothing, or a comma and some more.
LEMMA MoreCases ==
  ASSUME NEW m \in Seq(Alphabet), m # <<>>, m[1] = "comma"
  PROVE  Tail(m) \in Seq(Alphabet) /\ m = <<"comma">> \o Tail(m)
BY ConsOfTail DEF Cat, Cons

LEMMA MoreRule ==
  ASSUME NEW r \in Seq(Alphabet)
  PROVE  /\ Cons("comma", r) \in Seq(Alphabet)
         /\ MoreItems(Cons("comma", r)) = ItemsIn(r)
         /\ MoreEntries(Cons("comma", r)) = EntriesIn(r)
<1> USE DEF Cat, Cons
<1>1. PICK c \in Alphabet : c = "comma"
  BY MarkTypes
<1>2. <<c>> \o r \in Seq(Alphabet) /\ <<c>> \o r # <<>> /\ (<<c>> \o r)[1] = c /\ Tail(<<c>> \o r) = r
  BY ConsParts
<1>3. PICK m \in Seq(Alphabet) : m = <<c>> \o r
  BY <1>2
<1>4. MoreItems(m) = ItemsIn(r) /\ MoreEntries(m) = EntriesIn(r)
  BY <1>1, <1>2, <1>3 DEF MoreItems, MoreEntries
<1> QED BY <1>1, <1>2, <1>3, <1>4

ItemsSplit(s, x) ==
  \E c \in Commas(s) : \E v \in Denotation[<<"value", Before(s, c)>>] :
    \E us \in Denotation[<<"items", After(s, c)>>] : x = <<v>> \o us
EntriesSplit(s, x) ==
  \E c \in Commas(s) : \E p \in EntryOf(Denotation, Before(s, c)) :
    \E us \in Denotation[<<"entries", After(s, c)>>] : x = <<p>> \o us

LEMMA ItemsOfIs ==
  ASSUME NEW s, NEW x
  PROVE  x \in ItemsOf(Denotation, s) <=>
           (\E v \in Denotation[<<"value", s>>] : x = <<v>>) \/ ItemsSplit(s, x)
<1> DEFINE Firstly == {<<v>> : v \in Denotation[<<"value", s>>]}
           Split(c) == UNION {{<<v>> \o vs : vs \in Denotation[<<"items", After(s, c)>>]} :
                                v \in Denotation[<<"value", Before(s, c)>>]}
<1>1. ItemsOf(Denotation, s) = Firstly \cup UNION {Split(c) : c \in Commas(s)}
  BY DEF ItemsOf
<1>2. x \in Firstly <=> \E v \in Denotation[<<"value", s>>] : x = <<v>>
  OBVIOUS
<1>3. \A c : x \in Split(c) <=> \E v \in Denotation[<<"value", Before(s, c)>>] :
                               \E us \in Denotation[<<"items", After(s, c)>>] : x = <<v>> \o us
  <2> TAKE c
  <2> DEFINE Row(v) == {<<v>> \o vs : vs \in Denotation[<<"items", After(s, c)>>]}
  <2>1. \A v : x \in Row(v) <=> \E us \in Denotation[<<"items", After(s, c)>>] : x = <<v>> \o us
    BY Zenon
  <2>2. Split(c) = UNION {Row(v) : v \in Denotation[<<"value", Before(s, c)>>]}
    BY Zenon
  <2> HIDE DEF Row, Split
  <2>3. x \in Split(c) <=> \E v \in Denotation[<<"value", Before(s, c)>>] : x \in Row(v)
    BY <2>2
  <2> QED BY <2>1, <2>3, Zenon
<1> HIDE DEF Firstly, Split
<1>4. x \in UNION {Split(c) : c \in Commas(s)} <=> \E c \in Commas(s) : x \in Split(c)
  OBVIOUS
<1>5. ItemsSplit(s, x) <=> \E c \in Commas(s) : x \in Split(c)
  BY <1>3, Zenon DEF ItemsSplit
<1> QED BY <1>1, <1>2, <1>4, <1>5

LEMMA EntriesOfIs ==
  ASSUME NEW s, NEW x
  PROVE  x \in EntriesOf(Denotation, s) <=>
           (\E p \in EntryOf(Denotation, s) : x = <<p>>) \/ EntriesSplit(s, x)
<1> DEFINE Firstly == {<<p>> : p \in EntryOf(Denotation, s)}
           Split(c) == UNION {{<<p>> \o ps : ps \in Denotation[<<"entries", After(s, c)>>]} :
                                p \in EntryOf(Denotation, Before(s, c))}
<1>1. EntriesOf(Denotation, s) = Firstly \cup UNION {Split(c) : c \in Commas(s)}
  BY DEF EntriesOf
<1>2. x \in Firstly <=> \E p \in EntryOf(Denotation, s) : x = <<p>>
  OBVIOUS
<1>3. \A c : x \in Split(c) <=> \E p \in EntryOf(Denotation, Before(s, c)) :
                               \E us \in Denotation[<<"entries", After(s, c)>>] : x = <<p>> \o us
  <2> TAKE c
  <2> DEFINE Row(p) == {<<p>> \o ps : ps \in Denotation[<<"entries", After(s, c)>>]}
  <2>1. \A p : x \in Row(p) <=> \E us \in Denotation[<<"entries", After(s, c)>>] : x = <<p>> \o us
    BY Zenon
  <2>2. Split(c) = UNION {Row(p) : p \in EntryOf(Denotation, Before(s, c))}
    BY Zenon
  <2> HIDE DEF Row, Split
  <2>3. x \in Split(c) <=> \E p \in EntryOf(Denotation, Before(s, c)) : x \in Row(p)
    BY <2>2
  <2> QED BY <2>1, <2>3, Zenon
<1> HIDE DEF Firstly, Split
<1>4. x \in UNION {Split(c) : c \in Commas(s)} <=> \E c \in Commas(s) : x \in Split(c)
  OBVIOUS
<1>5. EntriesSplit(s, x) <=> \E c \in Commas(s) : x \in Split(c)
  BY <1>3, Zenon DEF EntriesSplit
<1> QED BY <1>1, <1>2, <1>4, <1>5

\* The items of a list are a value and what follows it.
LEMMA ItemsRule ==
  ASSUME NEW w \in Seq(Alphabet), NEW m \in Seq(Alphabet), NEW v \in Values(w), NEW us \in MoreItems(m)
  PROVE  Cons(v, us) \in ItemsIn(Cat(w, m))
<1> USE DEF Cat, Cons
<1>1. v \in Denotation[<<"value", w>>]
  BY DEF Values
<1>2. CASE m = <<>>
  <2>1. us = <<>> /\ w \o m = w
    BY <1>2, ConcatEmptySeq DEF MoreItems
  <2>2. <<v>> \o <<>> = <<v>>
    BY <<v>> \in Seq({v}), ConcatEmptySeq
  <2>3. <<v>> \in ItemsOf(Denotation, w)
    BY <1>1 DEF ItemsOf
  <2> QED BY <2>1, <2>2, <2>3, PhraseEquations DEF ItemsIn
<1>3. CASE m # <<>>
  <2>1. m[1] = "comma" /\ us \in ItemsIn(Tail(m))
    BY <1>3 DEF MoreItems
  <2>2. PICK r \in Seq(Alphabet) : r = Tail(m) /\ m = <<"comma">> \o r
    BY <1>3, <2>1, MoreCases
  <2>3. us \in Denotation[<<"items", r>>]
    BY <2>1, <2>2 DEF ItemsIn
  <2>4. PICK t : t = w \o (<<"comma">> \o r)
    OBVIOUS
  <2>5. t \in Seq(Alphabet) /\ \E c \in Commas(t) : Before(t, c) = w /\ After(t, c) = r
    BY <2>4, CommaFacts
  <2>6. (<<v>> \o us) \in ItemsOf(Denotation, t)
    <3>1. ItemsSplit(t, <<v>> \o us)
      BY <1>1, <2>3, <2>5 DEF ItemsSplit
    <3> QED BY <3>1, ItemsOfIs
  <2> QED BY <2>2, <2>4, <2>5, <2>6, PhraseEquations DEF ItemsIn
<1> QED BY <1>2, <1>3

AreItems(s, vs) ==
  \E w \in Seq(Alphabet), m \in Seq(Alphabet) : \E v \in Values(w), us \in MoreItems(m) :
    s = Cat(w, m) /\ vs = Cons(v, us)

LEMMA ItemsCases ==
  ASSUME NEW s, NEW vs \in ItemsIn(s)
  PROVE  /\ s \in Seq(Alphabet)
         /\ AreItems(s, vs)
<1> USE DEF Cat, Cons
<1>1. s \in Seq(Alphabet) /\ vs \in ItemsOf(Denotation, s)
  BY PhraseEquations DEF ItemsIn
<1>2. CASE \E v \in Denotation[<<"value", s>>] : vs = <<v>>
  <2>1. PICK v \in Denotation[<<"value", s>>] : vs = <<v>>
    BY <1>2
  <2>2. v \in Values(s)
    BY <1>1, <2>1 DEF Values
  <2>3. <<v>> \o <<>> = <<v>> /\ s \o <<>> = s
    BY <1>1, <<v>> \in Seq({v}), ConcatEmptySeq
  <2>4. <<>> \in Seq(Alphabet) /\ <<>> \in MoreItems(<<>>)
    BY EmptySeq DEF MoreItems
  <2> QED BY <1>1, <2>1, <2>2, <2>3, <2>4 DEF AreItems
<1>3. CASE ItemsSplit(s, vs)
  <2>1. PICK c \in Commas(s) : \E v \in Denotation[<<"value", Before(s, c)>>] :
                                \E us \in Denotation[<<"items", After(s, c)>>] : vs = <<v>> \o us
    BY <1>3 DEF ItemsSplit
  <2>2. PICK w \in Seq(Alphabet), r \in Seq(Alphabet) :
          w = Before(s, c) /\ r = After(s, c) /\ s = w \o (<<"comma">> \o r)
    BY <1>1, CommaSplits
  <2>3. PICK v \in Values(w), us \in ItemsIn(r) : vs = <<v>> \o us
    BY <2>1, <2>2 DEF Values, ItemsIn
  <2>4. PICK m \in Seq(Alphabet) : m = <<"comma">> \o r /\ us \in MoreItems(m)
    BY MoreRule
  <2>5. s = w \o m
    BY <2>2, <2>4
  <2>6. AreItems(s, vs)
    BY <2>3, <2>4, <2>5 DEF AreItems
  <2> QED BY <1>1, <2>6
<1> QED BY <1>1, <1>2, <1>3, ItemsOfIs

\* An entry is a key, a colon and a value.
LEMMA EntryRule ==
  ASSUME NEW k \in GoodStrings, NEW w \in Seq(Alphabet), NEW v \in Values(w)
  PROVE  <<Leaf(k), v>> \in EntryIn(Cons(k, Cons(":", w)))
<1> USE DEF Cat, Cons
<1> DEFINE t == <<k>> \o (<<":">> \o w)
<1>1. t \in Seq(Alphabet) /\ Len(w) \in Nat /\ Len(t) = Len(w) + 2
  BY MarkTypes
<1>2. t[1] = k /\ t[2] = ":" /\ \A i \in 1 .. Len(w) : t[2 + i] = w[i]
  BY MarkTypes
<1> HIDE DEF t
<1>3. 2 \in 1 .. Len(t)
  BY <1>1
<1>4. After(t, 2) \in Seq(Alphabet) /\ Len(After(t, 2)) = Len(w)
  BY <1>1, <1>3, Parts
<1>5. \A i \in 1 .. Len(w) : After(t, 2)[i] = w[i]
  BY <1>1, <1>2 DEF After
<1>6. After(t, 2) = w
  BY <1>4, <1>5, SeqEqual
<1>7. w # <<>>
  BY ValueBegins
<1>8. Len(t) >= 3
  BY <1>1, <1>7, EmptySeq
<1>9. v \in Denotation[<<"value", w>>]
  BY DEF Values
<1>10. <<Leaf(t[1]), v>> \in EntryOf(Denotation, t)
  BY <1>2, <1>6, <1>8, <1>9 DEF EntryOf
<1> QED BY <1>1, <1>2, <1>10 DEF EntryIn, t

IsEntry(s, p) ==
  \E k \in GoodStrings, w \in Seq(Alphabet) : \E v \in Values(w) :
    s = Cons(k, Cons(":", w)) /\ p = <<Leaf(k), v>>

LEMMA EntryCases ==
  ASSUME NEW s, NEW p \in EntryIn(s)
  PROVE  s \in Seq(Alphabet) /\ IsEntry(s, p)
<1> USE DEF Cat, Cons
<1>1. s \in Seq(Alphabet) /\ p \in EntryOf(Denotation, s)
  BY DEF EntryIn
<1>2. /\ Len(s) >= 3 /\ s[1] \in GoodStrings /\ s[2] = ":"
      /\ \E v \in Denotation[<<"value", After(s, 2)>>] : p = <<Leaf(s[1]), v>>
  BY <1>1 DEF EntryOf
<1>3. s # <<>> /\ Len(s) \in Nat /\ 2 \in 1 .. Len(s)
  BY <1>1, <1>2, EmptySeq
<1>4. PICK w \in Seq(Alphabet) : w = After(s, 2) /\ Len(w) = Len(s) - 2
  BY <1>1, <1>3, Parts
<1>5. \A i \in 1 .. Len(w) : w[i] = s[2 + i]
  BY <1>1, <1>3, <1>4 DEF After
<1>6. PICK k \in GoodStrings : k = s[1]
  BY <1>2
<1> DEFINE t == <<k>> \o (<<":">> \o w)
<1>7. t \in Seq(Alphabet) /\ Len(w) \in Nat /\ Len(t) = Len(w) + 2
  BY MarkTypes
<1>8. t[1] = k /\ t[2] = ":" /\ \A i \in 1 .. Len(w) : t[2 + i] = w[i]
  BY MarkTypes
<1> HIDE DEF t
<1>9. ASSUME NEW i \in 1 .. Len(s) PROVE t[i] = s[i]
  <2>1. CASE i = 1
    BY <1>6, <1>8, <2>1
  <2>2. CASE i = 2
    BY <1>2, <1>8, <2>2
  <2>3. CASE i > 2
    <3>1. i - 2 \in 1 .. Len(w) /\ 2 + (i - 2) = i
      BY <1>3, <1>4, <2>3
    <3> QED BY <1>5, <1>8, <3>1
  <2> QED BY <1>3, <2>1, <2>2, <2>3
<1>10. t = s
  <2>1. Len(t) = Len(s)
    BY <1>3, <1>4, <1>7
  <2> QED BY <1>1, <1>7, <1>9, <2>1, SeqEqual
<1>11. \E v \in Values(w) : p = <<Leaf(k), v>>
  BY <1>2, <1>4, <1>6 DEF Values
<1> QED BY <1>1, <1>10, <1>11 DEF IsEntry, t

LEMMA EntriesRule ==
  ASSUME NEW w \in Seq(Alphabet), NEW m \in Seq(Alphabet), NEW p \in EntryIn(w), NEW us \in MoreEntries(m)
  PROVE  Cons(p, us) \in EntriesIn(Cat(w, m))
<1> USE DEF Cat, Cons
<1>1. p \in EntryOf(Denotation, w)
  BY DEF EntryIn
<1>2. CASE m = <<>>
  <2>1. us = <<>> /\ w \o m = w
    BY <1>2, ConcatEmptySeq DEF MoreEntries
  <2>2. <<p>> \o <<>> = <<p>>
    BY <<p>> \in Seq({p}), ConcatEmptySeq
  <2>3. <<p>> \in EntriesOf(Denotation, w)
    BY <1>1 DEF EntriesOf
  <2> QED BY <2>1, <2>2, <2>3, PhraseEquations DEF EntriesIn
<1>3. CASE m # <<>>
  <2>1. m[1] = "comma" /\ us \in EntriesIn(Tail(m))
    BY <1>3 DEF MoreEntries
  <2>2. PICK r \in Seq(Alphabet) : r = Tail(m) /\ m = <<"comma">> \o r
    BY <1>3, <2>1, MoreCases
  <2>3. us \in Denotation[<<"entries", r>>]
    BY <2>1, <2>2 DEF EntriesIn
  <2>4. PICK t : t = w \o (<<"comma">> \o r)
    OBVIOUS
  <2>5. t \in Seq(Alphabet) /\ \E c \in Commas(t) : Before(t, c) = w /\ After(t, c) = r
    BY <2>4, CommaFacts
  <2>6. (<<p>> \o us) \in EntriesOf(Denotation, t)
    <3>1. EntriesSplit(t, <<p>> \o us)
      BY <1>1, <2>3, <2>5 DEF EntriesSplit
    <3> QED BY <3>1, EntriesOfIs
  <2> QED BY <2>2, <2>4, <2>5, <2>6, PhraseEquations DEF EntriesIn
<1> QED BY <1>2, <1>3

AreEntries(s, ps) ==
  \E w \in Seq(Alphabet), m \in Seq(Alphabet) : \E p \in EntryIn(w), us \in MoreEntries(m) :
    s = Cat(w, m) /\ ps = Cons(p, us)

LEMMA EntriesCases ==
  ASSUME NEW s, NEW ps \in EntriesIn(s)
  PROVE  /\ s \in Seq(Alphabet)
         /\ AreEntries(s, ps)
<1> USE DEF Cat, Cons
<1>1. s \in Seq(Alphabet) /\ ps \in EntriesOf(Denotation, s)
  BY PhraseEquations DEF EntriesIn
<1>2. CASE \E p \in EntryOf(Denotation, s) : ps = <<p>>
  <2>1. PICK p \in EntryOf(Denotation, s) : ps = <<p>>
    BY <1>2
  <2>2. p \in EntryIn(s)
    BY <1>1, <2>1 DEF EntryIn
  <2>3. <<p>> \o <<>> = <<p>> /\ s \o <<>> = s
    BY <1>1, <<p>> \in Seq({p}), ConcatEmptySeq
  <2>4. <<>> \in Seq(Alphabet) /\ <<>> \in MoreEntries(<<>>)
    BY EmptySeq DEF MoreEntries
  <2> QED BY <1>1, <2>1, <2>2, <2>3, <2>4 DEF AreEntries
<1>3. CASE EntriesSplit(s, ps)
  <2>1. PICK c \in Commas(s) : \E p \in EntryOf(Denotation, Before(s, c)) :
                                \E us \in Denotation[<<"entries", After(s, c)>>] : ps = <<p>> \o us
    BY <1>3 DEF EntriesSplit
  <2>2. PICK w \in Seq(Alphabet), r \in Seq(Alphabet) :
          w = Before(s, c) /\ r = After(s, c) /\ s = w \o (<<"comma">> \o r)
    BY <1>1, CommaSplits
  <2>3. PICK p \in EntryIn(w), us \in EntriesIn(r) : ps = <<p>> \o us
    BY <2>1, <2>2 DEF EntryIn, EntriesIn
  <2>4. PICK m \in Seq(Alphabet) : m = <<"comma">> \o r /\ us \in MoreEntries(m)
    BY MoreRule
  <2>5. s = w \o m
    BY <2>2, <2>4
  <2>6. AreEntries(s, ps)
    BY <2>3, <2>4, <2>5 DEF AreEntries
  <2> QED BY <1>1, <2>6
<1> QED BY <1>1, <1>2, <1>3, EntriesOfIs

LEMMA ItemsBegin ==
  ASSUME NEW s, NEW vs \in ItemsIn(s)
  PROVE  s # <<>> /\ s[1] \in GoodStrings \cup GoodScalars \cup {"[", "lbrace"}
<1> USE DEF Cat, Cons
<1>1. PICK w \in Seq(Alphabet), m \in Seq(Alphabet) : \E v \in Values(w), us \in MoreItems(m) :
        s = w \o m /\ vs = <<v>> \o us
  <2>1. AreItems(s, vs)
    BY ItemsCases
  <2> QED BY <2>1 DEF AreItems
<1>2. w # <<>> /\ w[1] \in GoodStrings \cup GoodScalars \cup {"[", "lbrace"}
  BY <1>1, ValueBegins
<1>3. Len(w) \in Nat \ {0} /\ Len(m) \in Nat /\ Len(w \o m) = Len(w) + Len(m)
  BY <1>2, EmptySeq, ConcatProperties
<1>4. (w \o m)[1] = w[1] /\ w \o m # <<>>
  BY <1>3
<1> QED BY <1>1, <1>2, <1>4

\* The values of texts lie in any set that has the leaves and is closed under
\* lists and dicts.
Closed(D) ==
  /\ \A t \in GoodStrings \cup GoodScalars : Leaf(t) \in D
  /\ \A vs \in Seq(D) : PyList(vs) \in D
  /\ \A ks \in Seq(D), vs \in Seq(D) : PyDict(ks, vs) \in D

Keys == {Leaf(k) : k \in GoodStrings}

Dicts(K, D) == {PyDict(ks, vs) : ks \in Seq(K), vs \in Seq(D)}

LEMMA DictOfType ==
  ASSUME NEW K, NEW D, NEW ps \in Seq(K \X D)
  PROVE  DictOf(ps) \in Dicts(K, D)
<1>1. PICK f \in Seq(1 .. Len(ps)) :
        /\ f = Firsts(ps)[Len(ps)]
        /\ DictOf(ps) = PyDict([n \in 1 .. Len(f) |-> ps[f[n]][1]],
                               [n \in 1 .. Len(f) |-> ps[LastOf(ps, ps[f[n]][1])][2]])
  BY DictOfParts
<1>2. Len(f) \in Nat /\ \A n \in 1 .. Len(f) : f[n] \in 1 .. Len(ps)
  BY ElementOfSeq, LenProperties
<1>3. \A i \in 1 .. Len(ps) : ps[i][1] \in K /\ ps[i][2] \in D
  <2> TAKE i \in 1 .. Len(ps)
  <2>1. ps[i] \in K \X D
    BY ElementOfSeq
  <2> QED BY <2>1
<1>4. \A n \in 1 .. Len(f) : ps[f[n]][1] \in K
  BY <1>2, <1>3
<1>5. \A n \in 1 .. Len(f) : ps[LastOf(ps, ps[f[n]][1])][2] \in D
  <2> TAKE n \in 1 .. Len(f)
  <2>1. \E i \in 1 .. Len(ps) : ps[i][1] = ps[f[n]][1]
    BY <1>2
  <2>2. PICK k : k = ps[f[n]][1]
    OBVIOUS
  <2>3. LastOf(ps, k) \in 1 .. Len(ps)
    BY <2>1, <2>2, LastOfFacts
  <2> QED BY <1>3, <2>2, <2>3
<1>6. PICK ks : ks = [n \in 1 .. Len(f) |-> ps[f[n]][1]]
  OBVIOUS
<1>7. PICK vs : vs = [n \in 1 .. Len(f) |-> ps[LastOf(ps, ps[f[n]][1])][2]]
  OBVIOUS
<1>8. ks \in Seq(K)
  BY <1>2, <1>4, <1>6, IsASeq
<1>9. vs \in Seq(D)
  BY <1>2, <1>5, <1>7, IsASeq
<1>10. DictOf(ps) = PyDict(ks, vs)
  BY <1>1, <1>6, <1>7
<1> QED BY <1>8, <1>9, <1>10 DEF Dicts

LEMMA Typed ==
  ASSUME NEW D, Closed(D), NEW s \in Seq(Alphabet)
  PROVE  Values(s) \subseteq D /\ ItemsIn(s) \subseteq Seq(D) /\ EntriesIn(s) \subseteq Seq(Keys \X D)
<1> USE DEF Cat, Cons, IsListText, IsDictText
<1> DEFINE Good(w) == Values(w) \subseteq D /\ ItemsIn(w) \subseteq Seq(D) /\ EntriesIn(w) \subseteq Seq(Keys \X D)
           T == {n \in Nat : \A w \in Seq(Alphabet) : Len(w) < n => Good(w)}
<1>1. 0 \in T
  OBVIOUS
<1>2. ASSUME NEW n \in T PROVE n + 1 \in T
  <2> SUFFICES ASSUME NEW t \in Seq(Alphabet), Len(t) < n + 1 PROVE Good(t)
    OBVIOUS
  <2>1. n \in Nat /\ Len(t) \in Nat /\ Len(t) <= n
    OBVIOUS
  <2>2. \A w \in Seq(Alphabet) : Len(w) < Len(t) =>
          Values(w) \subseteq D /\ ItemsIn(w) \subseteq Seq(D) /\ EntriesIn(w) \subseteq Seq(Keys \X D)
    <3> TAKE w \in Seq(Alphabet)
    <3>1. Len(w) \in Nat
      OBVIOUS
    <3>2. Len(w) < Len(t) => Len(w) < n
      BY <2>1, <3>1
    <3> QED BY <3>2
  <2> HIDE DEF T, Good
  <2>3. Values(t) \subseteq D
    <3> SUFFICES ASSUME NEW v \in Values(t) PROVE v \in D
      OBVIOUS
    <3>1. CASE \E k \in GoodStrings \cup GoodScalars : t = <<k>> /\ v = Leaf(k)
      BY <3>1 DEF Closed
    <3>2. CASE \E w \in Seq(Alphabet) : \E vs \in AllItems(w) :
                 t = <<"[">> \o (w \o <<"]">>) /\ v = PyList(vs)
      <4>1. PICK w \in Seq(Alphabet) : \E vs \in AllItems(w) :
                 t = <<"[">> \o (w \o <<"]">>) /\ v = PyList(vs)
        BY <3>2
      <4>2. PICK vs \in AllItems(w) : t = <<"[">> \o (w \o <<"]">>) /\ v = PyList(vs)
        BY <4>1
      <4>3. Len(w) < Len(t)
        BY <4>1, MarkTypes, BracketFacts, LenProperties
      <4>4. vs \in Seq(D)
        BY <2>2, <4>3, EmptySeq DEF AllItems
      <4> QED BY <4>2, <4>4 DEF Closed
    <3>3. CASE \E w \in Seq(Alphabet) : \E ps \in AllEntries(w) :
                 t = <<"lbrace">> \o (w \o <<"rbrace">>) /\ v = DictOf(ps)
      <4>1. PICK w \in Seq(Alphabet) : \E ps \in AllEntries(w) :
                 t = <<"lbrace">> \o (w \o <<"rbrace">>) /\ v = DictOf(ps)
        BY <3>3
      <4>2. PICK ps \in AllEntries(w) : t = <<"lbrace">> \o (w \o <<"rbrace">>) /\ v = DictOf(ps)
        BY <4>1
      <4>3. Len(w) < Len(t)
        BY <4>1, MarkTypes, BracketFacts, LenProperties
      <4>4. ps \in Seq(Keys \X D)
        BY <2>2, <4>3, EmptySeq DEF AllEntries
      <4>5. PICK ks \in Seq(Keys), vs \in Seq(D) : DictOf(ps) = PyDict(ks, vs)
        <5>1. DictOf(ps) \in Dicts(Keys, D)
          BY <4>4, DictOfType
        <5> QED BY <5>1 DEF Dicts
      <4>6. ks \in Seq(D)
        <5>1. Keys \subseteq D
          BY DEF Keys, Closed
        <5> QED BY <5>1, SeqMonotonic
      <4> QED BY <4>2, <4>5, <4>6 DEF Closed
    <3> QED BY <3>1, <3>2, <3>3, ValueCases
  <2>4. ASSUME NEW w \in Seq(Alphabet), NEW m \in Seq(Alphabet), t = w \o m, w # <<>>
        PROVE  /\ Values(w) \subseteq D
               /\ MoreItems(m) \subseteq Seq(D) /\ MoreEntries(m) \subseteq Seq(Keys \X D)
    <3>1. /\ Len(w) \in Nat \ {0} /\ Len(m) \in Nat /\ Len(t) = Len(w) + Len(m)
          /\ m # <<>> => Tail(m) \in Seq(Alphabet) /\ Len(Tail(m)) = Len(m) - 1 /\ Len(m) # 0
      BY <2>4, EmptySeq, ConcatProperties, ConsOfTail
    <3>2. Values(w) \subseteq D
      <4>1. CASE m = <<>>
        <5>1. w = t
          BY <2>4, <4>1, ConcatEmptySeq
        <5> QED BY <2>3, <5>1
      <4>2. CASE m # <<>>
        <5>1. Len(w) < Len(t)
          BY <3>1, <4>2
        <5> QED BY <2>2, <5>1
      <4> QED BY <4>1, <4>2
    <3>3. CASE m = <<>>
      BY <3>2, <3>3, EmptySeq DEF MoreItems, MoreEntries
    <3>4. CASE m # <<>>
      <4>1. Tail(m) \in Seq(Alphabet) /\ Len(Tail(m)) < Len(t)
        BY <3>1, <3>4
      <4> QED BY <2>2, <3>2, <3>4, <4>1 DEF MoreItems, MoreEntries
    <3> QED BY <3>3, <3>4
  <2>5. ASSUME NEW S, NEW x \in S, NEW us \in Seq(S) PROVE (<<x>> \o us) \in Seq(S)
    BY ConsParts
  <2>6. ASSUME NEW vs \in ItemsIn(t) PROVE vs \in Seq(D)
    <3>1. AreItems(t, vs)
      BY ItemsCases
    <3>2. PICK w \in Seq(Alphabet), m \in Seq(Alphabet) : \E v \in Values(w), us \in MoreItems(m) :
            t = w \o m /\ vs = <<v>> \o us
      BY <3>1 DEF AreItems
    <3>3. PICK v \in Values(w), us \in MoreItems(m) : t = w \o m /\ vs = <<v>> \o us
      BY <3>2
    <3>4. w # <<>>
      BY ValueBegins
    <3>5. v \in D /\ us \in Seq(D)
      BY <2>4, <3>3, <3>4
    <3> QED BY <3>3, <3>5, ConsParts
  <2>7. ASSUME NEW ps \in EntriesIn(t) PROVE ps \in Seq(Keys \X D)
    <3>1. AreEntries(t, ps)
      BY EntriesCases
    <3>2. PICK w \in Seq(Alphabet), m \in Seq(Alphabet) : \E p \in EntryIn(w), us \in MoreEntries(m) :
            t = w \o m /\ ps = <<p>> \o us
      BY <3>1 DEF AreEntries
    <3>3. PICK p \in EntryIn(w), us \in MoreEntries(m) : t = w \o m /\ ps = <<p>> \o us
      BY <3>2
    <3>4. PICK k \in GoodStrings, u \in Seq(Alphabet) : \E v \in Values(u) :
            w = <<k>> \o (<<":">> \o u) /\ p = <<Leaf(k), v>>
      <4>1. IsEntry(w, p)
        BY EntryCases
      <4> QED BY <4>1 DEF IsEntry
    <3>5. PICK v \in Values(u) : p = <<Leaf(k), v>>
      BY <3>4
    <3>6. /\ w # <<>> /\ Len(w) \in Nat /\ Len(u) \in Nat /\ Len(w) = Len(u) + 2
      <4>0. PICK c \in Alphabet : c = ":"
        BY MarkTypes
      <4>1. PICK q \in Seq(Alphabet) : q = <<c>> \o u /\ Len(q) = Len(u) + 1
        BY ConsParts
      <4>2. k \in Alphabet
        BY MarkTypes
      <4>3. w # <<>> /\ Len(w) = Len(q) + 1
        BY <3>4, <4>0, <4>1, <4>2, ConsParts
      <4> QED BY <4>1, <4>3, LenProperties
    <3>7. Len(u) < Len(t)
      <4>1. Len(t) = Len(w) + Len(m) /\ Len(m) \in Nat
        BY <3>3, ConcatProperties, LenProperties
      <4> QED BY <3>6, <4>1
    <3>8. v \in D /\ Leaf(k) \in Keys
      BY <2>2, <3>7 DEF Keys
    <3>9. us \in Seq(Keys \X D)
      BY <2>4, <3>3, <3>6
    <3>10. p \in Keys \X D
      BY <3>5, <3>8
    <3> QED BY <3>3, <3>9, <3>10, ConsParts
  <2> QED BY <2>3, <2>6, <2>7 DEF Good
<1> HIDE DEF T
<1>3. T = Nat
  <2>1. T \in SUBSET Nat
    BY DEF T
  <2> QED BY <1>1, <1>2, <2>1, NatSetInduction
<1>4. Len(s) + 1 \in T /\ Len(s) < Len(s) + 1
  BY <1>3
<1> QED BY <1>4 DEF T
----------------------------------------------------------------------------
(***************************************************************************)
(* Reading a text from left to right.  A plan is a set of triples: once    *)
(* the value v is read and the text b remains, the document is x.          *)
(***************************************************************************)
Plans(D) == D \X Seq(Alphabet) \X D

\* The documents that r may make of a plan: when a value is still to be read,
\* and when v has just been.
Awaited(g, r, x) ==
  \E a \in Seq(Alphabet), b \in Seq(Alphabet) : \E v \in Values(a) : r = Cat(a, b) /\ <<v, b, x>> \in g
Await(D, g, r) == {x \in D : Awaited(g, r, x)}
Given(D, g, v, r) == {x \in D : <<v, r, x>> \in g}

\* The plan for the whole document.
Start(D) == {t \in Plans(D) : t[2] = <<>> /\ t[3] = t[1]}

\* Within a list whose items so far are l: some more items, its bracket, and
\* then plan g has a list.
ListEnds(l, g, v, r, x) ==
  \E m \in Seq(Alphabet), b \in Seq(Alphabet) : \E us \in MoreItems(m) :
    r = Cat(m, Cons("]", b)) /\ <<PyList(Cat(Append(l, v), us)), b, x>> \in g
InList(D, l, g) == {t \in Plans(D) : ListEnds(l, g, t[1], t[2], t[3])}

\* Within a dict whose pairs so far are ps, at the value of key k.
DictEnds(ps, k, g, v, r, x) ==
  \E m \in Seq(Alphabet), b \in Seq(Alphabet) : \E us \in MoreEntries(m) :
    r = Cat(m, Cons("rbrace", b)) /\ <<DictOf(Cat(Append(ps, <<k, v>>), us)), b, x>> \in g
InDict(D, ps, k, g) == {t \in Plans(D) : DictEnds(ps, k, g, t[1], t[2], t[3])}

\* No token is both a mark and a scalar.
Distinct ==
  {"[", "]", "lbrace", "rbrace", ":", "comma"} \cap (GoodStrings \cup GoodScalars) = {}

LEMMA InListIs ==
  ASSUME NEW D, NEW l, NEW g, NEW v, NEW r, NEW x
  PROVE  <<v, r, x>> \in InList(D, l, g) <=>
           v \in D /\ r \in Seq(Alphabet) /\ x \in D /\ ListEnds(l, g, v, r, x)
<1>1. <<v, r, x>> \in Plans(D) <=> v \in D /\ r \in Seq(Alphabet) /\ x \in D
  BY DEF Plans
<1>2. PICK t : t = <<v, r, x>>
  OBVIOUS
<1>3. t \in InList(D, l, g) <=> t \in Plans(D) /\ ListEnds(l, g, t[1], t[2], t[3])
  BY DEF InList
<1>4. t[1] = v /\ t[2] = r /\ t[3] = x
  BY <1>2
<1> QED BY <1>1, <1>2, <1>3, <1>4

LEMMA InDictIs ==
  ASSUME NEW D, NEW ps, NEW k, NEW g, NEW v, NEW r, NEW x
  PROVE  <<v, r, x>> \in InDict(D, ps, k, g) <=>
           v \in D /\ r \in Seq(Alphabet) /\ x \in D /\ DictEnds(ps, k, g, v, r, x)
<1>1. <<v, r, x>> \in Plans(D) <=> v \in D /\ r \in Seq(Alphabet) /\ x \in D
  BY DEF Plans
<1>2. PICK t : t = <<v, r, x>>
  OBVIOUS
<1>3. t \in InDict(D, ps, k, g) <=> t \in Plans(D) /\ DictEnds(ps, k, g, t[1], t[2], t[3])
  BY DEF InDict
<1>4. t[1] = v /\ t[2] = r /\ t[3] = x
  BY <1>2
<1> QED BY <1>1, <1>2, <1>3, <1>4

LEMMA StartIs ==
  ASSUME NEW D, NEW v, NEW r, NEW x
  PROVE  <<v, r, x>> \in Start(D) <=> v \in D /\ r = <<>> /\ x = v
<1>1. <<>> \in Seq(Alphabet)
  BY EmptySeq
<1>2. <<v, r, x>> \in Plans(D) <=> v \in D /\ r \in Seq(Alphabet) /\ x \in D
  BY DEF Plans
<1>3. PICK t : t = <<v, r, x>>
  OBVIOUS
<1>4. t \in Start(D) <=> t \in Plans(D) /\ t[2] = <<>> /\ t[3] = t[1]
  BY DEF Start
<1>5. t[1] = v /\ t[2] = r /\ t[3] = x
  BY <1>3
<1> QED BY <1>1, <1>2, <1>3, <1>4, <1>5

LEMMA OutsideRest ==
  ASSUME NEW S, NEW t \in S, NEW q \in Seq(S), Cons(t, q) \in Seq(Alphabet)
  PROVE  t \in Alphabet /\ q \in Seq(Alphabet)
<1>1. PICK s \in Seq(Alphabet) : s = Cons(t, q)
  OBVIOUS
<1>2. Cons(t, q) # <<>> /\ Cons(t, q)[1] = t /\ Tail(Cons(t, q)) = q
  BY ConsParts
<1>3. s # <<>> /\ s[1] = t /\ Tail(s) = q
  BY <1>1, <1>2
<1> QED BY <1>3, ConsOfTail

\* A text whose first token begins no value makes nothing of a plan that
\* awaits one.
LEMMA NoValue ==
  ASSUME NEW D, NEW g, NEW S, NEW r \in Seq(S),
         r # <<>> => r[1] \notin GoodStrings \cup GoodScalars \cup {"[", "lbrace"}
  PROVE  Await(D, g, r) = {}
<1>1. ASSUME NEW x, Awaited(g, r, x) PROVE FALSE
  <2>1. PICK a \in Seq(Alphabet), b \in Seq(Alphabet) : \E v \in Values(a) : r = Cat(a, b) /\ <<v, b, x>> \in g
    BY <1>1 DEF Awaited
  <2>2. a # <<>> /\ a[1] \in GoodStrings \cup GoodScalars \cup {"[", "lbrace"}
    BY <2>1, ValueBegins
  <2>3. Cat(a, b)[1] = a[1] /\ Cat(a, b) # <<>>
    BY <2>2, CatFirst
  <2> QED BY <2>1, <2>2, <2>3
<1> QED BY <1>1 DEF Await

LEMMA BracketText ==
  ASSUME NEW w \in Seq(Alphabet), NEW o \in Alphabet, NEW c \in Alphabet
  PROVE  /\ Cat(w, <<c>>) \in Seq(Alphabet) /\ Cons(o, Cat(w, <<c>>)) \in Seq(Alphabet)
         /\ Cons(o, Cat(w, <<c>>)) # <<>> /\ Cons(o, Cat(w, <<c>>))[1] = o
         /\ Tail(Cons(o, Cat(w, <<c>>))) = Cat(w, <<c>>)
<1>1. <<c>> \in Seq(Alphabet)
  OBVIOUS
<1>2. Cat(w, <<c>>) \in Seq(Alphabet)
  BY <1>1, CatType
<1>3. PICK r \in Seq(Alphabet) : r = Cat(w, <<c>>)
  BY <1>2
<1>4. Cons(o, r) \in Seq(Alphabet) /\ Cons(o, r) # <<>> /\ Cons(o, r)[1] = o /\ Tail(Cons(o, r)) = r
  BY ConsParts
<1> QED BY <1>3, <1>4

\* The first token of a value tells what it is.
LEMMA ValueFrom ==
  ASSUME Distinct, NEW a, NEW v \in Values(a)
  PROVE  /\ a \in Seq(Alphabet) /\ a # <<>>
         /\ a[1] \in GoodStrings \cup GoodScalars => a = <<a[1]>> /\ v = Leaf(a[1])
         /\ a[1] = "[" => IsListText(a, v)
         /\ a[1] = "lbrace" => IsDictText(a, v)
<1>1. a \in Seq(Alphabet) /\ a # <<>>
  BY ValueCases, ValueBegins
<1>2. CASE \E t \in GoodStrings \cup GoodScalars : a = <<t>> /\ v = Leaf(t)
  BY <1>1, <1>2 DEF Distinct
<1>3. CASE IsListText(a, v)
  <2>1. PICK w \in Seq(Alphabet) : \E vs \in AllItems(w) : a = Cons("[", Cat(w, <<"]">>)) /\ v = PyList(vs)
    BY <1>3 DEF IsListText
  <2>2. a[1] = "["
    BY <2>1, MarkTypes, BracketText
  <2> QED BY <1>1, <1>3, <2>2 DEF Distinct
<1>4. CASE IsDictText(a, v)
  <2>1. PICK w \in Seq(Alphabet) : \E ps \in AllEntries(w) : a = Cons("lbrace", Cat(w, <<"rbrace">>)) /\ v = DictOf(ps)
    BY <1>4 DEF IsDictText
  <2>2. PICK o \in Alphabet, c \in Alphabet : o = "lbrace" /\ c = "rbrace"
    BY MarkTypes
  <2>3. Cons(o, Cat(w, <<c>>))[1] = o
    BY BracketText
  <2>4. a[1] = "lbrace"
    BY <2>1, <2>2, <2>3
  <2> QED BY <1>1, <1>4, <2>4 DEF Distinct
<1> QED BY <1>2, <1>3, <1>4, ValueCases

\* Reading a first token t.
ReadsFrom(g, t, q, x) ==
  \E u \in Seq(Alphabet), b \in Seq(Alphabet) : \E v \in Values(Cons(t, u)) :
    q = Cat(u, b) /\ <<v, b, x>> \in g

LEMMA FirstToken ==
  ASSUME NEW g, NEW S, NEW q \in Seq(S), NEW t \in S, NEW x, Awaited(g, Cons(t, q), x)
  PROVE  q \in Seq(Alphabet) /\ t \in Alphabet /\ ReadsFrom(g, t, q, x)
<1>1. PICK a \in Seq(Alphabet), b \in Seq(Alphabet) : \E v \in Values(a) : Cons(t, q) = Cat(a, b) /\ <<v, b, x>> \in g
  BY DEF Awaited
<1>2. PICK v \in Values(a) : Cons(t, q) = Cat(a, b) /\ <<v, b, x>> \in g
  BY <1>1
<1>3. q \in Seq(Alphabet) /\ t \in Alphabet
  <2>1. Cons(t, q) \in Seq(Alphabet)
    BY <1>2, CatType
  <2> QED BY <2>1, OutsideRest
<1>4. a # <<>>
  BY ValueBegins
<1>5. a[1] = t /\ Tail(a) \in Seq(Alphabet) /\ a = Cons(t, Tail(a)) /\ q = Cat(Tail(a), b)
  BY <1>2, <1>3, <1>4, ConsSplit
<1>6. PICK u \in Seq(Alphabet) : u = Tail(a)
  BY <1>5
<1>7. v \in Values(Cons(t, u)) /\ q = Cat(u, b)
  BY <1>5, <1>6
<1> QED BY <1>2, <1>3, <1>7 DEF ReadsFrom

LEMMA LeafStep ==
  ASSUME Distinct, NEW D, NEW g \in SUBSET Plans(D), NEW S, NEW q \in Seq(S), NEW t \in S,
         t \in GoodStrings \cup GoodScalars
  PROVE  Await(D, g, Cons(t, q)) = Given(D, g, Leaf(t), q)
<1>1. ASSUME NEW x \in D, Awaited(g, Cons(t, q), x) PROVE <<Leaf(t), q, x>> \in g
  <2>1. t \in Alphabet
    BY MarkTypes
  <2>2. PICK u \in Seq(Alphabet), b \in Seq(Alphabet) : \E v \in Values(Cons(t, u)) :
          q = Cat(u, b) /\ <<v, b, x>> \in g
    <3>1. ReadsFrom(g, t, q, x)
      BY <1>1, FirstToken
    <3> QED BY <3>1 DEF ReadsFrom
  <2>3. PICK v \in Values(Cons(t, u)) : q = Cat(u, b) /\ <<v, b, x>> \in g
    BY <2>2
  <2>4. Cons(t, u)[1] = t /\ Tail(Cons(t, u)) = u
    BY <2>1, ConsParts
  <2>5. Cons(t, u) = <<t>> /\ v = Leaf(t)
    BY <2>4, ValueFrom
  <2>6. Tail(<<t>>) = <<>>
    OBVIOUS
  <2>7. u = <<>>
    BY <2>4, <2>5, <2>6
  <2>8. q = b
    BY <2>3, <2>7, CatEmpty
  <2> QED BY <2>3, <2>5, <2>8
<1>2. ASSUME NEW x \in D, <<Leaf(t), q, x>> \in g PROVE Awaited(g, Cons(t, q), x)
  <2>1. q \in Seq(Alphabet)
    BY <1>2 DEF Plans
  <2>2. <<t>> \in Seq(Alphabet) /\ Leaf(t) \in Values(<<t>>)
    BY MarkTypes, LeafRule
  <2>3. Cons(t, q) = Cat(<<t>>, q)
    BY DEF Cons, Cat
  <2> QED BY <1>2, <2>1, <2>2, <2>3 DEF Awaited
<1> QED BY <1>1, <1>2 DEF Await, Given

\* What follows an opening bracket.
ListOpens(g, q, x) ==
  \E w \in Seq(Alphabet), b \in Seq(Alphabet) : \E vs \in AllItems(w) :
    q = Cat(w, Cons("]", b)) /\ <<PyList(vs), b, x>> \in g
DictOpens(g, q, x) ==
  \E w \in Seq(Alphabet), b \in Seq(Alphabet) : \E ps \in AllEntries(w) :
    q = Cat(w, Cons("rbrace", b)) /\ <<DictOf(ps), b, x>> \in g

LEMMA CloseText ==
  ASSUME NEW w \in Seq(Alphabet), NEW c \in Alphabet, NEW b \in Seq(Alphabet)
  PROVE  /\ Cat(Cat(w, <<c>>), b) = Cat(w, Cons(c, b))
         /\ Cat(w, <<c>>) \in Seq(Alphabet) /\ Cons(c, b) \in Seq(Alphabet)
<1>1. PICK z \in Seq(Alphabet) : z = <<c>> /\ Cat(z, b) = Cons(c, b)
  BY CatOne
<1>2. Cat(Cat(w, z), b) = Cat(w, Cat(z, b)) /\ Cat(w, z) \in Seq(Alphabet) /\ Cat(z, b) \in Seq(Alphabet)
  BY CatCat, CatType
<1> QED BY <1>1, <1>2

LEMMA OpenText ==
  ASSUME NEW w \in Seq(Alphabet), NEW o \in Alphabet, NEW c \in Alphabet, NEW b \in Seq(Alphabet)
  PROVE  Cons(o, Cat(w, Cons(c, b))) = Cat(Cons(o, Cat(w, <<c>>)), b)
<1>1. PICK y \in Seq(Alphabet) : y = Cat(w, <<c>>) /\ Cat(y, b) = Cat(w, Cons(c, b))
  BY CloseText
<1>2. Cat(Cons(o, y), b) = Cons(o, Cat(y, b))
  BY CatCons
<1> QED BY <1>1, <1>2

LEMMA ListFrom ==
  ASSUME Distinct, NEW g, NEW S, NEW q \in Seq(S), NEW x, "[" \in S
  PROVE  Awaited(g, Cons("[", q), x) <=> ListOpens(g, q, x)
<1>1. PICK o \in Alphabet, c \in Alphabet : o = "[" /\ c = "]"
  BY MarkTypes
<1>2. ASSUME Awaited(g, Cons("[", q), x) PROVE ListOpens(g, q, x)
  <2>1. q \in Seq(Alphabet) /\ ReadsFrom(g, o, q, x)
    BY <1>1, <1>2, FirstToken
  <2>2. PICK u \in Seq(Alphabet), b \in Seq(Alphabet) : \E v \in Values(Cons(o, u)) :
          q = Cat(u, b) /\ <<v, b, x>> \in g
    BY <2>1 DEF ReadsFrom
  <2>3. PICK v \in Values(Cons(o, u)) : q = Cat(u, b) /\ <<v, b, x>> \in g
    BY <2>2
  <2>4. Cons(o, u)[1] = o
    BY ConsParts
  <2>5. IsListText(Cons(o, u), v)
    BY <1>1, <2>4, ValueFrom
  <2>6. PICK w \in Seq(Alphabet) : \E vs \in AllItems(w) : Cons(o, u) = Cons("[", Cat(w, <<"]">>)) /\ v = PyList(vs)
    BY <2>5 DEF IsListText
  <2>7. PICK y \in Seq(Alphabet) : y = Cat(w, <<c>>) /\ Cat(y, b) = Cat(w, Cons(c, b))
    BY CloseText
  <2>8. Cons(o, u) = Cons(o, y)
    BY <1>1, <2>6, <2>7
  <2>9. u = y
    BY <2>8, ConsEqual
  <2> QED BY <1>1, <2>3, <2>6, <2>7, <2>9 DEF ListOpens
<1>3. ASSUME ListOpens(g, q, x) PROVE Awaited(g, Cons("[", q), x)
  <2>1. PICK w \in Seq(Alphabet), b \in Seq(Alphabet) : \E vs \in AllItems(w) :
          q = Cat(w, Cons("]", b)) /\ <<PyList(vs), b, x>> \in g
    BY <1>3 DEF ListOpens
  <2>2. PICK vs \in AllItems(w) : q = Cat(w, Cons("]", b)) /\ <<PyList(vs), b, x>> \in g
    BY <2>1
  <2>3. PICK a \in Seq(Alphabet) : a = Cons(o, Cat(w, <<c>>))
    BY BracketText
  <2>4. PyList(vs) \in Values(a)
    BY <1>1, <2>3, ListRule
  <2>5. Cons(o, q) = Cat(a, b)
    BY <1>1, <2>2, <2>3, OpenText
  <2> QED BY <1>1, <2>2, <2>4, <2>5 DEF Awaited
<1> QED BY <1>2, <1>3

LEMMA DictFrom ==
  ASSUME Distinct, NEW g, NEW S, NEW q \in Seq(S), NEW x, "lbrace" \in S
  PROVE  Awaited(g, Cons("lbrace", q), x) <=> DictOpens(g, q, x)
<1>1. PICK o \in Alphabet, c \in Alphabet : o = "lbrace" /\ c = "rbrace"
  BY MarkTypes
<1>2. ASSUME Awaited(g, Cons("lbrace", q), x) PROVE DictOpens(g, q, x)
  <2>1. q \in Seq(Alphabet) /\ ReadsFrom(g, o, q, x)
    BY <1>1, <1>2, FirstToken
  <2>2. PICK u \in Seq(Alphabet), b \in Seq(Alphabet) : \E v \in Values(Cons(o, u)) :
          q = Cat(u, b) /\ <<v, b, x>> \in g
    BY <2>1 DEF ReadsFrom
  <2>3. PICK v \in Values(Cons(o, u)) : q = Cat(u, b) /\ <<v, b, x>> \in g
    BY <2>2
  <2>4. Cons(o, u)[1] = o
    BY ConsParts
  <2>5. IsDictText(Cons(o, u), v)
    BY <1>1, <2>4, ValueFrom
  <2>6. PICK w \in Seq(Alphabet) : \E ps \in AllEntries(w) :
          Cons(o, u) = Cons("lbrace", Cat(w, <<"rbrace">>)) /\ v = DictOf(ps)
    BY <2>5 DEF IsDictText
  <2>7. PICK y \in Seq(Alphabet) : y = Cat(w, <<c>>) /\ Cat(y, b) = Cat(w, Cons(c, b))
    BY CloseText
  <2>8. Cons(o, u) = Cons(o, y)
    BY <1>1, <2>6, <2>7
  <2>9. u = y
    BY <2>8, ConsEqual
  <2> QED BY <1>1, <2>3, <2>6, <2>7, <2>9 DEF DictOpens
<1>3. ASSUME DictOpens(g, q, x) PROVE Awaited(g, Cons("lbrace", q), x)
  <2>1. PICK w \in Seq(Alphabet), b \in Seq(Alphabet) : \E ps \in AllEntries(w) :
          q = Cat(w, Cons("rbrace", b)) /\ <<DictOf(ps), b, x>> \in g
    BY <1>3 DEF DictOpens
  <2>2. PICK ps \in AllEntries(w) : q = Cat(w, Cons("rbrace", b)) /\ <<DictOf(ps), b, x>> \in g
    BY <2>1
  <2>3. PICK a \in Seq(Alphabet) : a = Cons(o, Cat(w, <<c>>))
    BY BracketText
  <2>4. DictOf(ps) \in Values(a)
    BY <1>1, <2>3, DictRule
  <2>5. Cons(o, q) = Cat(a, b)
    BY <1>1, <2>2, <2>3, OpenText
  <2> QED BY <1>1, <2>2, <2>4, <2>5 DEF Awaited
<1> QED BY <1>2, <1>3

\* Some more items and the bracket, or some more entries and the brace: as
\* much as the plan within the list, or the dict, expects.
ItemsThen(l, g, q, x) ==
  \E w \in Seq(Alphabet), b \in Seq(Alphabet) : \E vs \in ItemsIn(w) :
    q = Cat(w, Cons("]", b)) /\ <<PyList(Cat(l, vs)), b, x>> \in g
EntriesThen(ps, g, q, x) ==
  \E w \in Seq(Alphabet), b \in Seq(Alphabet) : \E us \in EntriesIn(w) :
    q = Cat(w, Cons("rbrace", b)) /\ <<DictOf(Cat(ps, us)), b, x>> \in g

LEMMA CatAppend ==
  ASSUME NEW S, NEW l \in Seq(S), NEW v \in S, NEW us \in Seq(S)
  PROVE  Cat(l, Cons(v, us)) = Cat(Append(l, v), us) /\ Append(l, v) \in Seq(S)
<1>1. PICK z \in Seq(S) : z = <<v>>
  BY CatOne
<1>2. Cat(Cat(l, z), us) = Cat(l, Cat(z, us)) /\ Cat(z, us) = Cons(v, us)
  <2>1. Cat(Cat(l, z), us) = Cat(l, Cat(z, us))
    BY CatCat
  <2>2. Cat(z, us) = Cons(v, us)
    BY <1>1 DEF Cat, Cons
  <2> QED BY <2>1, <2>2
<1>3. Append(l, v) = Cat(l, z) /\ Append(l, v) \in Seq(S)
  BY <1>1, AppendIsConcat, AppendProperties DEF Cat
<1> QED BY <1>2, <1>3

LEMMA MoreTyped ==
  ASSUME NEW D, Closed(D), NEW m \in Seq(Alphabet)
  PROVE  /\ MoreItems(m) \subseteq Seq(D) /\ AllItems(m) \subseteq Seq(D)
         /\ MoreEntries(m) \subseteq Seq(Keys \X D) /\ AllEntries(m) \subseteq Seq(Keys \X D)
<1>1. <<>> \in Seq(D) /\ <<>> \in Seq(Keys \X D)
  BY EmptySeq
<1>2. ItemsIn(m) \subseteq Seq(D) /\ EntriesIn(m) \subseteq Seq(Keys \X D)
  BY Typed
<1>3. CASE m = <<>>
  BY <1>1, <1>3 DEF MoreItems, AllItems, MoreEntries, AllEntries
<1>4. CASE m # <<>>
  <2>1. PICK r \in Seq(Alphabet) : r = Tail(m)
    BY <1>4, ConsOfTail
  <2>2. ItemsIn(r) \subseteq Seq(D) /\ EntriesIn(r) \subseteq Seq(Keys \X D)
    BY Typed
  <2> QED BY <1>2, <1>4, <2>1, <2>2 DEF MoreItems, AllItems, MoreEntries, AllEntries
<1> QED BY <1>3, <1>4

LEMMA ItemsThenIs ==
  ASSUME NEW D, Closed(D), NEW g \in SUBSET Plans(D), NEW l \in Seq(D), NEW q, NEW x
  PROVE  Awaited(InList(D, l, g), q, x) <=> ItemsThen(l, g, q, x)
<1>1. ASSUME Awaited(InList(D, l, g), q, x) PROVE ItemsThen(l, g, q, x)
  <2>1. PICK a \in Seq(Alphabet), r \in Seq(Alphabet) : \E v \in Values(a) :
          q = Cat(a, r) /\ <<v, r, x>> \in InList(D, l, g)
    BY <1>1 DEF Awaited
  <2>2. PICK v \in Values(a) : q = Cat(a, r) /\ <<v, r, x>> \in InList(D, l, g)
    BY <2>1
  <2>3. v \in D /\ ListEnds(l, g, v, r, x)
    BY <2>2, InListIs
  <2>4. PICK m \in Seq(Alphabet), b \in Seq(Alphabet) : \E us \in MoreItems(m) :
          r = Cat(m, Cons("]", b)) /\ <<PyList(Cat(Append(l, v), us)), b, x>> \in g
    BY <2>3 DEF ListEnds
  <2>5. PICK us \in MoreItems(m) : r = Cat(m, Cons("]", b)) /\ <<PyList(Cat(Append(l, v), us)), b, x>> \in g
    BY <2>4
  <2>6. PICK y \in Seq(Alphabet) : y = Cons("]", b)
    BY MarkTypes, ConsParts
  <2>7. PICK w \in Seq(Alphabet) : w = Cat(a, m)
    BY CatType
  <2>8. q = Cat(w, y)
    BY <2>2, <2>5, <2>6, <2>7, CatCat
  <2>9. Cons(v, us) \in ItemsIn(w)
    BY <2>7, ItemsRule
  <2>10. us \in Seq(D)
    BY MoreTyped
  <2>11. Cat(l, Cons(v, us)) = Cat(Append(l, v), us)
    BY <2>3, <2>10, CatAppend
  <2> QED BY <2>5, <2>6, <2>8, <2>9, <2>11 DEF ItemsThen
<1>2. ASSUME ItemsThen(l, g, q, x) PROVE Awaited(InList(D, l, g), q, x)
  <2>1. PICK w \in Seq(Alphabet), b \in Seq(Alphabet) : \E vs \in ItemsIn(w) :
          q = Cat(w, Cons("]", b)) /\ <<PyList(Cat(l, vs)), b, x>> \in g
    BY <1>2 DEF ItemsThen
  <2>2. PICK vs \in ItemsIn(w) : q = Cat(w, Cons("]", b)) /\ <<PyList(Cat(l, vs)), b, x>> \in g
    BY <2>1
  <2>3. AreItems(w, vs)
    BY ItemsCases
  <2>4. PICK a \in Seq(Alphabet), m \in Seq(Alphabet) : \E v \in Values(a), us \in MoreItems(m) :
          w = Cat(a, m) /\ vs = Cons(v, us)
    BY <2>3 DEF AreItems
  <2>5. PICK v \in Values(a), us \in MoreItems(m) : w = Cat(a, m) /\ vs = Cons(v, us)
    BY <2>4
  <2>6. v \in D /\ us \in Seq(D)
    BY MoreTyped, Typed
  <2>7. Cat(l, Cons(v, us)) = Cat(Append(l, v), us)
    BY <2>6, CatAppend
  <2>8. PICK y \in Seq(Alphabet) : y = Cons("]", b)
    BY MarkTypes, ConsParts
  <2>9. PICK r \in Seq(Alphabet) : r = Cat(m, y)
    BY CatType
  <2>10. q = Cat(a, r)
    BY <2>2, <2>5, <2>8, <2>9, CatCat
  <2>11. ListEnds(l, g, v, r, x)
    BY <2>2, <2>5, <2>7, <2>8, <2>9 DEF ListEnds
  <2>12. x \in D
    BY <2>2 DEF Plans
  <2>13. <<v, r, x>> \in InList(D, l, g)
    BY <2>6, <2>11, <2>12, InListIs
  <2> QED BY <2>5, <2>10, <2>13 DEF Awaited
<1> QED BY <1>1, <1>2

\* A dict's entries begin with a key, a colon and a value.
LEMMA EntriesThenIs ==
  ASSUME NEW D, Closed(D), NEW g \in SUBSET Plans(D), NEW ps \in Seq(Keys \X D), NEW k \in GoodStrings,
         NEW q \in Seq(Alphabet), NEW x
  PROVE  Awaited(InDict(D, ps, Leaf(k), g), q, x) => EntriesThen(ps, g, Cons(k, Cons(":", q)), x)
<1> SUFFICES ASSUME Awaited(InDict(D, ps, Leaf(k), g), q, x) PROVE EntriesThen(ps, g, Cons(k, Cons(":", q)), x)
  OBVIOUS
<1>1. PICK key : key = Leaf(k)
  OBVIOUS
<1>2. PICK a \in Seq(Alphabet), r \in Seq(Alphabet) : \E v \in Values(a) :
        q = Cat(a, r) /\ <<v, r, x>> \in InDict(D, ps, key, g)
  BY <1>1 DEF Awaited
<1>3. PICK v \in Values(a) : q = Cat(a, r) /\ <<v, r, x>> \in InDict(D, ps, key, g)
  BY <1>2
<1>4. v \in D /\ DictEnds(ps, key, g, v, r, x)
  BY <1>3, InDictIs
<1>5. PICK m \in Seq(Alphabet), b \in Seq(Alphabet) : \E us \in MoreEntries(m) :
        r = Cat(m, Cons("rbrace", b)) /\ <<DictOf(Cat(Append(ps, <<key, v>>), us)), b, x>> \in g
  BY <1>4 DEF DictEnds
<1>6. PICK us \in MoreEntries(m) :
        r = Cat(m, Cons("rbrace", b)) /\ <<DictOf(Cat(Append(ps, <<key, v>>), us)), b, x>> \in g
  BY <1>5
<1>7. PICK y \in Seq(Alphabet) : y = Cons("rbrace", b)
  BY MarkTypes, ConsParts
<1>8. PICK c \in Alphabet : c = ":"
  BY MarkTypes
<1>9. k \in Alphabet
  BY MarkTypes
<1>10. PICK e \in Seq(Alphabet) : e = Cons(c, a) /\ Cat(e, r) = Cons(c, Cat(a, r))
  BY ConsParts, CatCons
<1>11. PICK f \in Seq(Alphabet) : f = Cons(k, e) /\ Cat(f, r) = Cons(k, Cat(e, r))
  BY <1>9, ConsParts, CatCons
<1>12. PICK w \in Seq(Alphabet) : w = Cat(f, m)
  BY CatType
<1>13. Cat(f, r) = Cat(w, y)
  BY <1>6, <1>7, <1>12, CatCat
<1>14. Cons(k, Cons(":", q)) = Cat(w, y)
  BY <1>3, <1>8, <1>10, <1>11, <1>13
<1>15. PICK p \in Keys \X D : p = <<key, v>>
  BY <1>1, <1>4 DEF Keys
<1>16. p \in EntryIn(f)
  BY <1>1, <1>8, <1>10, <1>11, <1>15, EntryRule
<1>17. Cons(p, us) \in EntriesIn(w)
  BY <1>12, <1>16, EntriesRule
<1>18. us \in Seq(Keys \X D)
  BY MoreTyped
<1>19. Cat(ps, Cons(p, us)) = Cat(Append(ps, p), us)
  <2>1. PICK S : S = Keys \X D
    OBVIOUS
  <2>2. ps \in Seq(S) /\ p \in S /\ us \in Seq(S)
    BY <1>18, <2>1
  <2> QED BY <2>2, CatAppend
<1>20. <<DictOf(Cat(ps, Cons(p, us))), b, x>> \in g
  BY <1>6, <1>15, <1>19
<1> QED BY <1>7, <1>14, <1>17, <1>20 DEF EntriesThen

KeyThen(D, ps, g, q, x) ==
  \E k \in GoodStrings, r \in Seq(Alphabet) :
    q = Cons(k, Cons(":", r)) /\ Awaited(InDict(D, ps, Leaf(k), g), r, x)

LEMMA EntriesThenNeeds ==
  ASSUME NEW D, Closed(D), NEW g \in SUBSET Plans(D), NEW ps \in Seq(Keys \X D), NEW q, NEW x,
         EntriesThen(ps, g, q, x)
  PROVE  KeyThen(D, ps, g, q, x)
<1>1. PICK w \in Seq(Alphabet), b \in Seq(Alphabet) : \E vs \in EntriesIn(w) :
        q = Cat(w, Cons("rbrace", b)) /\ <<DictOf(Cat(ps, vs)), b, x>> \in g
  BY DEF EntriesThen
<1>2. PICK vs \in EntriesIn(w) : q = Cat(w, Cons("rbrace", b)) /\ <<DictOf(Cat(ps, vs)), b, x>> \in g
  BY <1>1
<1>3. AreEntries(w, vs)
  BY EntriesCases
<1>4. PICK f \in Seq(Alphabet), m \in Seq(Alphabet) : \E p \in EntryIn(f), us \in MoreEntries(m) :
        w = Cat(f, m) /\ vs = Cons(p, us)
  BY <1>3 DEF AreEntries
<1>5. PICK p \in EntryIn(f), us \in MoreEntries(m) : w = Cat(f, m) /\ vs = Cons(p, us)
  BY <1>4
<1>6. IsEntry(f, p)
  BY EntryCases
<1>7. PICK k \in GoodStrings, a \in Seq(Alphabet) : \E v \in Values(a) :
        f = Cons(k, Cons(":", a)) /\ p = <<Leaf(k), v>>
  BY <1>6 DEF IsEntry
<1>8. PICK v \in Values(a) : f = Cons(k, Cons(":", a)) /\ p = <<Leaf(k), v>>
  BY <1>7
<1>9. PICK key : key = Leaf(k)
  OBVIOUS
<1>10. v \in D /\ us \in Seq(Keys \X D)
  BY MoreTyped, Typed
<1>11. p \in Keys \X D
  BY <1>8, <1>10 DEF Keys
<1>12. Cat(ps, Cons(p, us)) = Cat(Append(ps, p), us)
  <2>1. PICK S : S = Keys \X D
    OBVIOUS
  <2>2. ps \in Seq(S) /\ p \in S /\ us \in Seq(S)
    BY <1>10, <1>11, <2>1
  <2> QED BY <2>2, CatAppend
<1>13. PICK y \in Seq(Alphabet) : y = Cons("rbrace", b)
  BY MarkTypes, ConsParts
<1>14. PICK r \in Seq(Alphabet) : r = Cat(m, y)
  BY CatType
<1>15. <<DictOf(Cat(Append(ps, <<key, v>>), us)), b, x>> \in g
  BY <1>2, <1>5, <1>8, <1>9, <1>12
<1>16. DictEnds(ps, key, g, v, r, x)
  BY <1>13, <1>14, <1>15 DEF DictEnds
<1>17. x \in D
  BY <1>2 DEF Plans
<1>18. <<v, r, x>> \in InDict(D, ps, key, g)
  BY <1>10, <1>16, <1>17, InDictIs
<1>19. PICK z \in Seq(Alphabet) : z = Cat(a, r)
  BY CatType
<1>20. Awaited(InDict(D, ps, key, g), z, x)
  BY <1>8, <1>18, <1>19 DEF Awaited
<1>21. PICK c \in Alphabet : c = ":"
  BY MarkTypes
<1>22. k \in Alphabet
  BY MarkTypes
<1>23. PICK e \in Seq(Alphabet) : e = Cons(c, a) /\ Cat(e, r) = Cons(c, Cat(a, r))
  BY ConsParts, CatCons
<1>24. Cons(k, e) \in Seq(Alphabet) /\ Cat(Cons(k, e), r) = Cons(k, Cat(e, r))
  BY <1>22, ConsParts, CatCons
<1>25. Cat(f, r) = Cons(k, Cons(":", z))
  BY <1>8, <1>19, <1>21, <1>23, <1>24
<1>26. q = Cat(f, r)
  BY <1>2, <1>5, <1>13, <1>14, CatCat
<1> QED BY <1>9, <1>20, <1>25, <1>26 DEF KeyThen

\* Reading a bracket, and the bracket that closes an empty list.
LEMMA ListEmpty ==
  ASSUME Distinct, NEW D, NEW g \in SUBSET Plans(D), NEW S, "[" \in S, "]" \in S, NEW p \in Seq(S)
  PROVE  Await(D, g, Cons("[", Cons("]", p))) = Given(D, g, PyList(<<>>), p)
<1>1. PICK c \in S \cap Alphabet : c = "]"
  BY MarkTypes
<1>2. PICK q \in Seq(S) : q = Cons(c, p) /\ q # <<>> /\ q[1] = c
  BY ConsParts
<1>3. ASSUME NEW x \in D, ListOpens(g, q, x) PROVE <<PyList(<<>>), p, x>> \in g
  <2>1. PICK w \in Seq(Alphabet), b \in Seq(Alphabet) : \E vs \in AllItems(w) :
          q = Cat(w, Cons("]", b)) /\ <<PyList(vs), b, x>> \in g
    BY <1>3 DEF ListOpens
  <2>2. PICK vs \in AllItems(w) : q = Cat(w, Cons("]", b)) /\ <<PyList(vs), b, x>> \in g
    BY <2>1
  <2>3. PICK y \in Seq(Alphabet) : y = Cons(c, b)
    BY ConsParts
  <2>4. q \in Seq(Alphabet)
    BY <1>1, <2>2, <2>3, CatType
  <2>5. p \in Seq(Alphabet)
    BY <1>2, <2>4, OutsideRest
  <2>6. CASE w = <<>>
    <3>1. vs = <<>>
      BY <2>6 DEF AllItems
    <3>2. q = y
      BY <1>1, <2>2, <2>3, <2>6, CatEmpty
    <3>3. Cons(c, p) = Cons(c, b) /\ c \in Alphabet
      BY <1>2, <2>3, <3>2
    <3>4. p = b
      BY <2>5, <3>3, ConsEqual
    <3> QED BY <2>2, <3>1, <3>4
  <2>7. CASE w # <<>>
    <3>1. w[1] \in GoodStrings \cup GoodScalars \cup {"[", "lbrace"}
      BY <2>7, ItemsBegin DEF AllItems
    <3>2. Cat(w, y)[1] = w[1]
      BY <2>7, CatFirst
    <3> QED BY <1>1, <1>2, <2>2, <2>3, <3>1, <3>2 DEF Distinct
  <2> QED BY <2>6, <2>7
<1>4. ASSUME NEW x \in D, <<PyList(<<>>), p, x>> \in g PROVE ListOpens(g, q, x)
  <2>1. p \in Seq(Alphabet)
    BY <1>4 DEF Plans
  <2>2. PICK y \in Seq(Alphabet) : y = Cons(c, p)
    BY <2>1, ConsParts
  <2>3. PICK w \in Seq(Alphabet) : w = <<>>
    BY EmptySeq
  <2>4. q = Cat(w, y)
    BY <1>2, <2>2, <2>3, CatEmpty
  <2>5. PICK vs \in AllItems(w) : vs = <<>>
    BY <2>3 DEF AllItems
  <2> QED BY <1>1, <1>4, <2>1, <2>2, <2>4, <2>5 DEF ListOpens
<1>5. \A x : Awaited(g, Cons("[", q), x) <=> ListOpens(g, q, x)
  BY ListFrom
<1> QED BY <1>1, <1>2, <1>3, <1>4, <1>5 DEF Await, Given

\* Reading the bracket of a list that is not empty.
LEMMA ListFirst ==
  ASSUME Distinct, NEW D, Closed(D), NEW g \in SUBSET Plans(D), NEW S, "[" \in S, NEW q \in Seq(S),
         q # <<>> => q[1] # "]"
  PROVE  Await(D, g, Cons("[", q)) = Await(D, InList(D, <<>>, g), q)
<1>1. PICK l \in Seq(D) : l = <<>>
  BY EmptySeq
<1>2. PICK c \in Alphabet : c = "]"
  BY MarkTypes
<1>3. ASSUME NEW x \in D, ListOpens(g, q, x) PROVE ItemsThen(l, g, q, x)
  <2>1. PICK w \in Seq(Alphabet), b \in Seq(Alphabet) : \E vs \in AllItems(w) :
          q = Cat(w, Cons("]", b)) /\ <<PyList(vs), b, x>> \in g
    BY <1>3 DEF ListOpens
  <2>2. PICK vs \in AllItems(w) : q = Cat(w, Cons("]", b)) /\ <<PyList(vs), b, x>> \in g
    BY <2>1
  <2>3. PICK y \in Seq(Alphabet) : y = Cons(c, b) /\ y # <<>> /\ y[1] = c
    BY ConsParts
  <2>4. w # <<>>
    <3>1. ASSUME w = <<>> PROVE FALSE
      <4>1. q = y
        BY <1>2, <2>2, <2>3, <3>1, CatEmpty
      <4> QED BY <1>2, <2>3, <4>1
    <3> QED BY <3>1
  <2>5. vs \in ItemsIn(w) /\ vs \in Seq(D)
    BY <2>4, Typed DEF AllItems
  <2>6. Cat(l, vs) = vs
    BY <1>1, <2>5, CatEmpty
  <2> QED BY <2>2, <2>5, <2>6 DEF ItemsThen
<1>4. ASSUME NEW x \in D, ItemsThen(l, g, q, x) PROVE ListOpens(g, q, x)
  <2>1. PICK w \in Seq(Alphabet), b \in Seq(Alphabet) : \E vs \in ItemsIn(w) :
          q = Cat(w, Cons("]", b)) /\ <<PyList(Cat(l, vs)), b, x>> \in g
    BY <1>4 DEF ItemsThen
  <2>2. PICK vs \in ItemsIn(w) : q = Cat(w, Cons("]", b)) /\ <<PyList(Cat(l, vs)), b, x>> \in g
    BY <2>1
  <2>3. vs \in AllItems(w) /\ vs \in Seq(D)
    BY ItemsBegin, Typed DEF AllItems
  <2>4. Cat(l, vs) = vs
    BY <1>1, <2>3, CatEmpty
  <2> QED BY <2>2, <2>3, <2>4 DEF ListOpens
<1>5. \A x : Awaited(g, Cons("[", q), x) <=> ListOpens(g, q, x)
  BY ListFrom
<1>6. \A x : Awaited(InList(D, l, g), q, x) <=> ItemsThen(l, g, q, x)
  BY ItemsThenIs
<1>7. \A x \in D : Awaited(g, Cons("[", q), x) <=> Awaited(InList(D, l, g), q, x)
  BY <1>3, <1>4, <1>5, <1>6
<1> QED BY <1>1, <1>7 DEF Await

\* What may follow an item.
LEMMA ListNext ==
  ASSUME Distinct, NEW D, Closed(D), NEW g \in SUBSET Plans(D), NEW l \in Seq(D), NEW v \in D,
         NEW S, NEW t \in S, NEW q \in Seq(S)
  PROVE  Given(D, InList(D, l, g), v, Cons(t, q)) =
           IF t = "]" THEN Given(D, g, PyList(Append(l, v)), q)
           ELSE IF t = "comma" THEN Await(D, InList(D, Append(l, v), g), q)
           ELSE {}
<1>1. PICK j \in Seq(D) : j = Append(l, v)
  BY AppendProperties
<1>2. PICK r \in Seq(S) : r = Cons(t, q) /\ r # <<>> /\ r[1] = t /\ Tail(r) = q
  BY ConsParts
<1>3. PICK c \in Alphabet : c = "]"
  BY MarkTypes
<1>4. PICK comma \in Alphabet : comma = "comma"
  BY MarkTypes
<1>5. ASSUME NEW x \in D, r \in Seq(Alphabet), ListEnds(l, g, v, r, x)
      PROVE  (t = "]" /\ <<PyList(j), q, x>> \in g) \/ (t = "comma" /\ ItemsThen(j, g, q, x))
  <2>1. PICK m \in Seq(Alphabet), b \in Seq(Alphabet) : \E us \in MoreItems(m) :
          r = Cat(m, Cons("]", b)) /\ <<PyList(Cat(Append(l, v), us)), b, x>> \in g
    BY <1>5 DEF ListEnds
  <2>2. PICK us \in MoreItems(m) : r = Cat(m, Cons("]", b)) /\ <<PyList(Cat(j, us)), b, x>> \in g
    BY <1>1, <2>1
  <2>3. PICK y \in Seq(Alphabet) : y = Cons(c, b)
    BY ConsParts
  <2>4. t \in Alphabet /\ q \in Seq(Alphabet)
    BY <1>2, <1>5, OutsideRest
  <2>5. CASE m = <<>>
    <3>1. us = <<>>
      BY <2>5 DEF MoreItems
    <3>2. r = y
      BY <1>3, <2>2, <2>3, <2>5, CatEmpty
    <3>3. Cons(t, q) = Cons(c, b)
      BY <1>2, <2>3, <3>2
    <3>4. t = c /\ q = b
      BY <2>4, <3>3, ConsEqual
    <3>5. Cat(j, us) = j
      BY <3>1, CatEmpty
    <3> QED BY <1>3, <2>2, <3>4, <3>5
  <2>6. CASE m # <<>>
    <3>1. m[1] = "comma" /\ us \in ItemsIn(Tail(m))
      BY <2>6 DEF MoreItems
    <3>2. Cons(t, q) = Cat(m, y)
      BY <1>2, <1>3, <2>2, <2>3
    <3>3. m[1] = t /\ Tail(m) \in Seq(Alphabet) /\ q = Cat(Tail(m), y)
      BY <2>4, <2>6, <3>2, ConsSplit
    <3>4. PICK w \in Seq(Alphabet) : w = Tail(m)
      BY <3>3
    <3> QED BY <1>3, <2>2, <2>3, <3>1, <3>3, <3>4 DEF ItemsThen
  <2> QED BY <2>5, <2>6
<1>6. ASSUME NEW x \in D, t = "]", <<PyList(j), q, x>> \in g PROVE r \in Seq(Alphabet) /\ ListEnds(l, g, v, r, x)
  <2>1. q \in Seq(Alphabet)
    BY <1>6 DEF Plans
  <2>2. PICK y \in Seq(Alphabet) : y = Cons(c, q)
    BY <2>1, ConsParts
  <2>3. PICK w \in Seq(Alphabet) : w = <<>>
    BY EmptySeq
  <2>4. r = Cat(w, y)
    BY <1>2, <1>3, <1>6, <2>2, <2>3, CatEmpty
  <2>5. PICK us \in MoreItems(w) : us = <<>>
    BY <2>3 DEF MoreItems
  <2>6. Cat(j, us) = j
    BY <2>5, CatEmpty
  <2>7. <<PyList(Cat(Append(l, v), us)), q, x>> \in g
    BY <1>1, <1>6, <2>6
  <2> QED BY <1>2, <1>3, <1>6, <2>1, <2>2, <2>4, <2>7 DEF ListEnds
<1>7. ASSUME NEW x \in D, t = "comma", ItemsThen(j, g, q, x) PROVE r \in Seq(Alphabet) /\ ListEnds(l, g, v, r, x)
  <2>1. PICK w \in Seq(Alphabet), b \in Seq(Alphabet) : \E us \in ItemsIn(w) :
          q = Cat(w, Cons("]", b)) /\ <<PyList(Cat(j, us)), b, x>> \in g
    BY <1>7 DEF ItemsThen
  <2>2. PICK us \in ItemsIn(w) : q = Cat(w, Cons("]", b)) /\ <<PyList(Cat(j, us)), b, x>> \in g
    BY <2>1
  <2>3. PICK y \in Seq(Alphabet) : y = Cons(c, b)
    BY ConsParts
  <2>4. PICK m \in Seq(Alphabet) : m = Cons(comma, w)
    BY ConsParts
  <2>5. us \in MoreItems(m)
    BY <1>4, <2>4, MoreRule
  <2>6. Cat(m, y) = Cons(comma, Cat(w, y)) /\ Cat(m, y) \in Seq(Alphabet)
    <3>1. Cat(Cons(comma, w), y) = Cons(comma, Cat(w, y))
      BY CatCons
    <3>2. Cat(m, y) \in Seq(Alphabet)
      BY CatType
    <3> QED BY <2>4, <3>1, <3>2
  <2>7. r = Cat(m, y)
    BY <1>2, <1>3, <1>4, <1>7, <2>2, <2>3, <2>6
  <2> QED BY <1>1, <1>3, <2>2, <2>3, <2>5, <2>6, <2>7 DEF ListEnds
<1>8. \A x : Awaited(InList(D, j, g), q, x) <=> ItemsThen(j, g, q, x)
  BY ItemsThenIs
<1>9. ASSUME NEW x \in D
      PROVE  <<v, r, x>> \in InList(D, l, g) <=>
               (t = "]" /\ <<PyList(j), q, x>> \in g) \/ (t = "comma" /\ Awaited(InList(D, j, g), q, x))
  BY <1>5, <1>6, <1>7, <1>8, InListIs
<1>10. ASSUME t = "]" PROVE Given(D, InList(D, l, g), v, r) = Given(D, g, PyList(j), q)
  <2>1. \A x \in D : <<v, r, x>> \in InList(D, l, g) <=> <<PyList(j), q, x>> \in g
    BY <1>9, <1>10
  <2> QED BY <2>1 DEF Given
<1>11. ASSUME t = "comma" PROVE Given(D, InList(D, l, g), v, r) = Await(D, InList(D, j, g), q)
  <2>1. \A x \in D : <<v, r, x>> \in InList(D, l, g) <=> Awaited(InList(D, j, g), q, x)
    BY <1>9, <1>11
  <2> QED BY <2>1 DEF Await, Given
<1>12. ASSUME t # "]" /\ t # "comma" PROVE Given(D, InList(D, l, g), v, r) = {}
  <2>1. \A x \in D : <<v, r, x>> \notin InList(D, l, g)
    BY <1>9, <1>12
  <2> QED BY <2>1 DEF Given
<1> QED BY <1>1, <1>2, <1>10, <1>11, <1>12

LEMMA ListOver ==
  ASSUME NEW D, NEW g, NEW l, NEW v
  PROVE  Given(D, InList(D, l, g), v, <<>>) = {}
<1>1. ASSUME NEW x, ListEnds(l, g, v, <<>>, x) PROVE FALSE
  <2>1. PICK m \in Seq(Alphabet), b \in Seq(Alphabet) : <<>> = Cat(m, Cons("]", b))
    BY <1>1 DEF ListEnds
  <2>2. PICK y \in Seq(Alphabet) : y = Cons("]", b) /\ y # <<>>
    BY MarkTypes, ConsParts
  <2>3. m # <<>>
    BY <2>1, <2>2, CatEmpty
  <2>4. Cat(m, y) # <<>>
    BY <2>3, CatFirst
  <2> QED BY <2>1, <2>2, <2>4
<1> QED BY <1>1, InListIs DEF Given

\* Reading a brace, and the brace that closes an empty dict.
LEMMA EntriesBegin ==
  ASSUME NEW s, NEW ps \in EntriesIn(s)
  PROVE  s # <<>> /\ s[1] \in GoodStrings
<1>1. AreEntries(s, ps)
  BY EntriesCases
<1>2. PICK f \in Seq(Alphabet), m \in Seq(Alphabet) : \E p \in EntryIn(f) : s = Cat(f, m)
  BY <1>1 DEF AreEntries
<1>3. PICK p \in EntryIn(f) : s = Cat(f, m)
  BY <1>2
<1>4. IsEntry(f, p)
  BY EntryCases
<1>5. PICK k \in GoodStrings, w \in Seq(Alphabet) : f = Cons(k, Cons(":", w))
  BY <1>4 DEF IsEntry
<1>6. PICK r \in Seq(Alphabet) : r = Cons(":", w)
  BY MarkTypes, ConsParts
<1>7. k \in Alphabet
  BY MarkTypes
<1>8. Cons(k, r) # <<>> /\ Cons(k, r)[1] = k
  BY <1>7, ConsParts
<1>9. f # <<>> /\ f[1] = k
  BY <1>5, <1>6, <1>8
<1> QED BY <1>3, <1>9, CatFirst

LEMMA DictEmpty ==
  ASSUME Distinct, NEW D, NEW g \in SUBSET Plans(D), NEW S, "lbrace" \in S, "rbrace" \in S, NEW p \in Seq(S)
  PROVE  Await(D, g, Cons("lbrace", Cons("rbrace", p))) = Given(D, g, PyDict(<<>>, <<>>), p)
<1>1. PICK c \in S \cap Alphabet : c = "rbrace"
  BY MarkTypes
<1>2. PICK q \in Seq(S) : q = Cons(c, p) /\ q # <<>> /\ q[1] = c
  BY ConsParts
<1>3. ASSUME NEW x \in D, DictOpens(g, q, x) PROVE <<DictOf(<<>>), p, x>> \in g
  <2>1. PICK w \in Seq(Alphabet), b \in Seq(Alphabet) : \E vs \in AllEntries(w) :
          q = Cat(w, Cons("rbrace", b)) /\ <<DictOf(vs), b, x>> \in g
    BY <1>3 DEF DictOpens
  <2>2. PICK vs \in AllEntries(w) : q = Cat(w, Cons("rbrace", b)) /\ <<DictOf(vs), b, x>> \in g
    BY <2>1
  <2>3. PICK y \in Seq(Alphabet) : y = Cons(c, b)
    BY ConsParts
  <2>4. q \in Seq(Alphabet)
    BY <1>1, <2>2, <2>3, CatType
  <2>5. p \in Seq(Alphabet)
    BY <1>2, <2>4, OutsideRest
  <2>6. CASE w = <<>>
    <3>1. vs = <<>>
      BY <2>6 DEF AllEntries
    <3>2. q = y
      BY <1>1, <2>2, <2>3, <2>6, CatEmpty
    <3>3. Cons(c, p) = Cons(c, b) /\ c \in Alphabet
      BY <1>2, <2>3, <3>2
    <3>4. p = b
      BY <2>5, <3>3, ConsEqual
    <3> QED BY <2>2, <3>1, <3>4
  <2>7. CASE w # <<>>
    <3>1. w[1] \in GoodStrings
      BY <2>7, EntriesBegin DEF AllEntries
    <3>2. Cat(w, y)[1] = w[1]
      BY <2>7, CatFirst
    <3> QED BY <1>1, <1>2, <2>2, <2>3, <3>1, <3>2 DEF Distinct
  <2> QED BY <2>6, <2>7
<1>4. ASSUME NEW x \in D, <<DictOf(<<>>), p, x>> \in g PROVE DictOpens(g, q, x)
  <2>1. p \in Seq(Alphabet)
    BY <1>4 DEF Plans
  <2>2. PICK y \in Seq(Alphabet) : y = Cons(c, p)
    BY <2>1, ConsParts
  <2>3. PICK w \in Seq(Alphabet) : w = <<>>
    BY EmptySeq
  <2>4. q = Cat(w, y)
    BY <1>2, <2>2, <2>3, CatEmpty
  <2>5. PICK vs \in AllEntries(w) : vs = <<>>
    BY <2>3 DEF AllEntries
  <2> QED BY <1>1, <1>4, <2>1, <2>2, <2>4, <2>5 DEF DictOpens
<1>5. \A x : Awaited(g, Cons("lbrace", q), x) <=> DictOpens(g, q, x)
  BY DictFrom
<1> QED BY <1>1, <1>2, <1>3, <1>4, <1>5, DictOfNothing DEF Await, Given

\* A key and a colon, before the value of an entry.
LEMMA EntryFirst ==
  ASSUME Distinct, NEW D, Closed(D), NEW g \in SUBSET Plans(D), NEW ps \in Seq(Keys \X D),
         NEW S, NEW k \in GoodStrings, k \in S, ":" \in S, NEW q \in Seq(S), NEW x
  PROVE  EntriesThen(ps, g, Cons(k, Cons(":", q)), x) <=> Awaited(InDict(D, ps, Leaf(k), g), q, x)
<1>1. PICK c \in S \cap Alphabet : c = ":"
  BY MarkTypes
<1>2. PICK h \in S \cap Alphabet : h = k
  BY MarkTypes
<1>3. PICK e \in Seq(S) : e = Cons(c, q) /\ e # <<>> /\ e[1] = c /\ Tail(e) = q
  BY ConsParts
<1>4. PICK f \in Seq(S) : f = Cons(h, e) /\ f # <<>> /\ f[1] = h /\ Tail(f) = e
  BY ConsParts
<1>5. ASSUME EntriesThen(ps, g, f, x) PROVE Awaited(InDict(D, ps, Leaf(k), g), q, x)
  <2>1. KeyThen(D, ps, g, f, x)
    BY <1>5, EntriesThenNeeds
  <2>2. PICK i \in GoodStrings, r \in Seq(Alphabet) :
          f = Cons(i, Cons(":", r)) /\ Awaited(InDict(D, ps, Leaf(i), g), r, x)
    BY <2>1 DEF KeyThen
  <2>3. PICK d \in Seq(Alphabet) : d = Cons(c, r) /\ Tail(d) = r
    BY ConsParts
  <2>4. i \in Alphabet
    BY MarkTypes
  <2>5. Cons(i, d)[1] = i /\ Tail(Cons(i, d)) = d
    BY <2>4, ConsParts
  <2>6. h = i /\ e = d
    BY <1>1, <1>4, <2>2, <2>3, <2>5
  <2>7. q = r
    BY <1>3, <2>3, <2>6
  <2> QED BY <1>2, <2>2, <2>6, <2>7
<1>6. ASSUME Awaited(InDict(D, ps, Leaf(k), g), q, x) PROVE EntriesThen(ps, g, f, x)
  <2>1. q \in Seq(Alphabet)
    <3>1. PICK a \in Seq(Alphabet), b \in Seq(Alphabet) : q = Cat(a, b)
      BY <1>6 DEF Awaited
    <3> QED BY <3>1, CatType
  <2>2. EntriesThen(ps, g, Cons(k, Cons(":", q)), x)
    BY <1>6, <2>1, EntriesThenIs
  <2> QED BY <1>1, <1>2, <1>3, <1>4, <2>2
<1> QED BY <1>1, <1>2, <1>3, <1>4, <1>5, <1>6

\* A text that does not begin with a key and a colon has no more entries.
Keyed(S, q) == \E k \in GoodStrings, r \in Seq(S) : q = Cons(k, Cons(":", r))

LEMMA NoEntry ==
  ASSUME NEW D, Closed(D), NEW g \in SUBSET Plans(D), NEW ps \in Seq(Keys \X D),
         NEW S, NEW q \in Seq(S), NEW x, EntriesThen(ps, g, q, x)
  PROVE  Keyed(S, q)
<1>1. KeyThen(D, ps, g, q, x)
  BY EntriesThenNeeds
<1>2. PICK k \in GoodStrings, r \in Seq(Alphabet) : q = Cons(k, Cons(":", r))
  BY <1>1 DEF KeyThen
<1>3. PICK c \in Alphabet : c = ":"
  BY MarkTypes
<1>4. k \in Alphabet
  BY MarkTypes
<1>5. PICK d \in Seq(Alphabet) : d = Cons(c, r) /\ d # <<>> /\ Tail(d) = r
  BY ConsParts
<1>6. Cons(k, d) # <<>> /\ Tail(Cons(k, d)) = d
  BY <1>4, ConsParts
<1>7. q # <<>> /\ Tail(q) = d
  BY <1>2, <1>3, <1>5, <1>6
<1>8. d \in Seq(S)
  BY <1>7, ConsOfTail
<1>9. r \in Seq(S)
  <2>1. PICK z \in Seq(S) : z = d /\ z # <<>> /\ Tail(z) = r
    BY <1>5, <1>8
  <2>2. Tail(z) \in Seq(S)
    BY <2>1, ConsOfTail
  <2> QED BY <2>1, <2>2
<1> QED BY <1>2, <1>9 DEF Keyed

\* Reading the brace of a dict that is not empty.
LEMMA DictFirst ==
  ASSUME Distinct, NEW D, Closed(D), NEW g \in SUBSET Plans(D), NEW S, "lbrace" \in S, NEW q \in Seq(S), NEW x,
         q # <<>> => q[1] # "rbrace"
  PROVE  Awaited(g, Cons("lbrace", q), x) <=> EntriesThen(<<>>, g, q, x)
<1>1. PICK l \in Seq(Keys \X D) : l = <<>>
  BY EmptySeq
<1>2. PICK c \in Alphabet : c = "rbrace"
  BY MarkTypes
<1>3. ASSUME DictOpens(g, q, x) PROVE EntriesThen(l, g, q, x)
  <2>1. PICK w \in Seq(Alphabet), b \in Seq(Alphabet) : \E vs \in AllEntries(w) :
          q = Cat(w, Cons("rbrace", b)) /\ <<DictOf(vs), b, x>> \in g
    BY <1>3 DEF DictOpens
  <2>2. PICK vs \in AllEntries(w) : q = Cat(w, Cons("rbrace", b)) /\ <<DictOf(vs), b, x>> \in g
    BY <2>1
  <2>3. PICK y \in Seq(Alphabet) : y = Cons(c, b) /\ y # <<>> /\ y[1] = c
    BY ConsParts
  <2>4. w # <<>>
    <3>1. ASSUME w = <<>> PROVE FALSE
      <4>1. q = y
        BY <1>2, <2>2, <2>3, <3>1, CatEmpty
      <4> QED BY <1>2, <2>3, <4>1
    <3> QED BY <3>1
  <2>5. vs \in EntriesIn(w) /\ vs \in Seq(Keys \X D)
    BY <2>4, Typed DEF AllEntries
  <2>6. Cat(l, vs) = vs
    <3>1. PICK U : U = Keys \X D
      OBVIOUS
    <3> QED BY <1>1, <2>5, <3>1, CatEmpty
  <2> QED BY <2>2, <2>5, <2>6 DEF EntriesThen
<1>4. ASSUME EntriesThen(l, g, q, x) PROVE DictOpens(g, q, x)
  <2>1. PICK w \in Seq(Alphabet), b \in Seq(Alphabet) : \E vs \in EntriesIn(w) :
          q = Cat(w, Cons("rbrace", b)) /\ <<DictOf(Cat(l, vs)), b, x>> \in g
    BY <1>4 DEF EntriesThen
  <2>2. PICK vs \in EntriesIn(w) : q = Cat(w, Cons("rbrace", b)) /\ <<DictOf(Cat(l, vs)), b, x>> \in g
    BY <2>1
  <2>3. vs \in AllEntries(w) /\ vs \in Seq(Keys \X D)
    BY EntriesBegin, Typed DEF AllEntries
  <2>4. Cat(l, vs) = vs
    <3>1. PICK U : U = Keys \X D
      OBVIOUS
    <3> QED BY <1>1, <2>3, <3>1, CatEmpty
  <2> QED BY <2>2, <2>3, <2>4 DEF DictOpens
<1>5. Awaited(g, Cons("lbrace", q), x) <=> DictOpens(g, q, x)
  BY DictFrom
<1> QED BY <1>1, <1>3, <1>4, <1>5

\* What may follow the value of an entry.
LEMMA DictNext ==
  ASSUME NEW D, Closed(D), NEW g \in SUBSET Plans(D), NEW ps \in Seq(Keys \X D),
         NEW k \in Keys, NEW v \in D, NEW S, NEW t \in S, NEW q \in Seq(S), NEW x \in D
  PROVE  <<v, Cons(t, q), x>> \in InDict(D, ps, k, g) <=>
           \/ t = "rbrace" /\ <<DictOf(Append(ps, <<k, v>>)), q, x>> \in g
           \/ t = "comma" /\ EntriesThen(Append(ps, <<k, v>>), g, q, x)
<1> DEFINE U == Keys \X D
<1>1. PICK j \in Seq(U) : j = Append(ps, <<k, v>>)
  <2>1. PICK p \in U : p = <<k, v>>
    OBVIOUS
  <2> HIDE DEF U
  <2>2. ps \in Seq(U)
    BY DEF U
  <2> QED BY <2>1, <2>2, AppendProperties
<1> HIDE DEF U
<1>2. PICK r \in Seq(S) : r = Cons(t, q) /\ r # <<>> /\ r[1] = t /\ Tail(r) = q
  BY ConsParts
<1>3. PICK c \in Alphabet : c = "rbrace"
  BY MarkTypes
<1>4. PICK comma \in Alphabet : comma = "comma"
  BY MarkTypes
<1>5. ASSUME r \in Seq(Alphabet), DictEnds(ps, k, g, v, r, x)
      PROVE  (t = "rbrace" /\ <<DictOf(j), q, x>> \in g) \/ (t = "comma" /\ EntriesThen(j, g, q, x))
  <2>1. PICK m \in Seq(Alphabet), b \in Seq(Alphabet) : \E us \in MoreEntries(m) :
          r = Cat(m, Cons("rbrace", b)) /\ <<DictOf(Cat(j, us)), b, x>> \in g
    BY <1>1, <1>5 DEF DictEnds
  <2>2. PICK us \in MoreEntries(m) : r = Cat(m, Cons("rbrace", b)) /\ <<DictOf(Cat(j, us)), b, x>> \in g
    BY <2>1
  <2>3. PICK y \in Seq(Alphabet) : y = Cons(c, b)
    BY ConsParts
  <2>4. t \in Alphabet /\ q \in Seq(Alphabet)
    BY <1>2, <1>5, OutsideRest
  <2>5. CASE m = <<>>
    <3>1. us = <<>>
      BY <2>5 DEF MoreEntries
    <3>2. r = y
      BY <1>3, <2>2, <2>3, <2>5, CatEmpty
    <3>3. Cons(t, q) = Cons(c, b)
      BY <1>2, <2>3, <3>2
    <3>4. t = c /\ q = b
      BY <2>4, <3>3, ConsEqual
    <3>5. Cat(j, us) = j
      BY <3>1, CatEmpty
    <3> QED BY <1>3, <2>2, <3>4, <3>5
  <2>6. CASE m # <<>>
    <3>1. m[1] = "comma" /\ us \in EntriesIn(Tail(m))
      BY <2>6 DEF MoreEntries
    <3>2. Cons(t, q) = Cat(m, y)
      BY <1>2, <1>3, <2>2, <2>3
    <3>3. m[1] = t /\ Tail(m) \in Seq(Alphabet) /\ q = Cat(Tail(m), y)
      BY <2>4, <2>6, <3>2, ConsSplit
    <3>4. PICK w \in Seq(Alphabet) : w = Tail(m)
      BY <3>3
    <3> QED BY <1>3, <2>2, <2>3, <3>1, <3>3, <3>4 DEF EntriesThen
  <2> QED BY <2>5, <2>6
<1>6. ASSUME t = "rbrace", <<DictOf(j), q, x>> \in g PROVE r \in Seq(Alphabet) /\ DictEnds(ps, k, g, v, r, x)
  <2>1. q \in Seq(Alphabet)
    BY <1>6 DEF Plans
  <2>2. PICK y \in Seq(Alphabet) : y = Cons(c, q)
    BY <2>1, ConsParts
  <2>3. PICK w \in Seq(Alphabet) : w = <<>>
    BY EmptySeq
  <2>4. r = Cat(w, y)
    BY <1>2, <1>3, <1>6, <2>2, <2>3, CatEmpty
  <2>5. PICK us \in MoreEntries(w) : us = <<>>
    BY <2>3 DEF MoreEntries
  <2>6. Cat(j, us) = j
    BY <2>5, CatEmpty
  <2>7. <<DictOf(Cat(Append(ps, <<k, v>>), us)), q, x>> \in g
    BY <1>1, <1>6, <2>6
  <2> QED BY <1>2, <1>3, <1>6, <2>1, <2>2, <2>4, <2>7 DEF DictEnds
<1>7. ASSUME t = "comma", EntriesThen(j, g, q, x) PROVE r \in Seq(Alphabet) /\ DictEnds(ps, k, g, v, r, x)
  <2>1. PICK w \in Seq(Alphabet), b \in Seq(Alphabet) : \E us \in EntriesIn(w) :
          q = Cat(w, Cons("rbrace", b)) /\ <<DictOf(Cat(j, us)), b, x>> \in g
    BY <1>7 DEF EntriesThen
  <2>2. PICK us \in EntriesIn(w) : q = Cat(w, Cons("rbrace", b)) /\ <<DictOf(Cat(j, us)), b, x>> \in g
    BY <2>1
  <2>3. PICK y \in Seq(Alphabet) : y = Cons(c, b)
    BY ConsParts
  <2>4. PICK m \in Seq(Alphabet) : m = Cons(comma, w)
    BY ConsParts
  <2>5. us \in MoreEntries(m)
    BY <1>4, <2>4, MoreRule
  <2>6. Cat(m, y) = Cons(comma, Cat(w, y)) /\ Cat(m, y) \in Seq(Alphabet)
    <3>1. Cat(Cons(comma, w), y) = Cons(comma, Cat(w, y))
      BY CatCons
    <3>2. Cat(m, y) \in Seq(Alphabet)
      BY CatType
    <3> QED BY <2>4, <3>1, <3>2
  <2>7. r = Cat(m, y)
    BY <1>2, <1>3, <1>4, <1>7, <2>2, <2>3, <2>6
  <2>8. <<DictOf(Cat(Append(ps, <<k, v>>), us)), b, x>> \in g
    BY <1>1, <2>2
  <2> QED BY <1>3, <2>2, <2>3, <2>5, <2>6, <2>7, <2>8 DEF DictEnds
<1> QED BY <1>1, <1>2, <1>5, <1>6, <1>7, InDictIs

LEMMA DictOver ==
  ASSUME NEW D, NEW g, NEW ps, NEW k, NEW v
  PROVE  Given(D, InDict(D, ps, k, g), v, <<>>) = {}
<1>1. ASSUME NEW x, DictEnds(ps, k, g, v, <<>>, x) PROVE FALSE
  <2>1. PICK m \in Seq(Alphabet), b \in Seq(Alphabet) : <<>> = Cat(m, Cons("rbrace", b))
    BY <1>1 DEF DictEnds
  <2>2. PICK y \in Seq(Alphabet) : y = Cons("rbrace", b) /\ y # <<>>
    BY MarkTypes, ConsParts
  <2>3. m # <<>>
    BY <2>1, <2>2, CatEmpty
  <2>4. Cat(m, y) # <<>>
    BY <2>3, CatFirst
  <2> QED BY <2>1, <2>2, <2>4
<1> QED BY <1>1, InDictIs DEF Given

\* A document is what a plan that awaits a value, and nothing more, makes.
LEMMA WholeText ==
  ASSUME NEW D, Closed(D), NEW r
  PROVE  Await(D, Start(D), r) = Values(r)
<1>1. ASSUME NEW x, Awaited(Start(D), r, x) PROVE x \in Values(r)
  <2>1. PICK a \in Seq(Alphabet), b \in Seq(Alphabet) : \E v \in Values(a) : r = Cat(a, b) /\ <<v, b, x>> \in Start(D)
    BY <1>1 DEF Awaited
  <2>2. PICK v \in Values(a) : r = Cat(a, b) /\ <<v, b, x>> \in Start(D)
    BY <2>1
  <2>3. b = <<>> /\ x = v
    BY <2>2, StartIs
  <2> QED BY <2>2, <2>3, CatEmpty
<1>2. ASSUME NEW x \in Values(r) PROVE x \in D /\ Awaited(Start(D), r, x)
  <2>1. r \in Seq(Alphabet)
    BY ValueCases
  <2>2. x \in D
    BY <2>1, Typed
  <2>3. PICK b \in Seq(Alphabet) : b = <<>>
    BY EmptySeq
  <2>4. <<x, b, x>> \in Start(D) /\ r = Cat(r, b)
    BY <2>1, <2>2, <2>3, StartIs, CatEmpty
  <2> QED BY <2>1, <2>2, <2>4 DEF Awaited
<1> QED BY <1>1, <1>2 DEF Await

----------------------------------------------------------------------------
(***************************************************************************)
(* A text denotes one value at most.  More is true: no value is a proper   *)
(* beginning of another, so that reading it from the left decides at which *)
(* token it ends.                                                          *)
(***************************************************************************)
Joined(a, b, t) ==
  /\ Len(t) = Len(a) + Len(b)
  /\ \A i \in 1 .. Len(a) : t[i] = a[i]
  /\ \A i \in 1 .. Len(b) : t[Len(a) + i] = b[i]

LEMMA CatAt ==
  ASSUME NEW S, NEW a \in Seq(S), NEW b \in Seq(S), NEW t, t = Cat(a, b)
  PROVE  Joined(a, b, t)
<1>1. /\ Len(a \o b) = Len(a) + Len(b) /\ Len(a) \in Nat /\ Len(b) \in Nat
      /\ \A i \in 1 .. Len(a) + Len(b) :
           (a \o b)[i] = IF i <= Len(a) THEN a[i] ELSE b[i - Len(a)]
  BY ConcatProperties
<1> DEFINE u == a \o b
<1> HIDE DEF u
<1>2. ASSUME NEW i \in 1 .. Len(a) PROVE u[i] = a[i]
  <2>1. i \in 1 .. Len(a) + Len(b) /\ i <= Len(a)
    BY <1>1
  <2> QED BY <1>1, <2>1 DEF u
<1>3. ASSUME NEW i \in 1 .. Len(b) PROVE u[Len(a) + i] = b[i]
  <2>0. Len(a) + i \in 1 .. Len(a) + Len(b) /\ ~(Len(a) + i <= Len(a)) /\ (Len(a) + i) - Len(a) = i
    <3>1. Len(a) \in Nat /\ Len(b) \in Nat
      OBVIOUS
    <3> DEFINE x == Len(a)
               y == Len(b)
    <3>2. x \in Nat /\ y \in Nat /\ i \in 1 .. y
      BY <3>1
    <3> HIDE DEF x, y
    <3>3. x + i \in 1 .. x + y /\ ~(x + i <= x) /\ (x + i) - x = i
      BY <3>2
    <3> QED BY <3>3 DEF x, y
  <2>1. PICK j \in 1 .. Len(a) + Len(b) : j = Len(a) + i /\ ~(j <= Len(a)) /\ j - Len(a) = i
    BY <2>0, Zenon
  <2> QED BY <1>1, <2>1 DEF u
<1>4. t = u
  BY DEF u, Cat
<1>5. Len(u) = Len(a) + Len(b)
  BY <1>1 DEF u
<1> QED BY <1>2, <1>3, <1>4, <1>5 DEF Joined

\* Of two beginnings of a sequence the longer begins with the shorter.
LEMMA LongerBeginning ==
  ASSUME NEW S, NEW a \in Seq(S), NEW m \in Seq(S), NEW b \in Seq(S), NEW l \in Seq(S),
         Cat(a, m) = Cat(b, l), Len(a) <= Len(b)
  PROVE  \E d \in Seq(S) : b = Cat(a, d) /\ m = Cat(d, l)
<1> DEFINE d == SubSeq(b, Len(a) + 1, Len(b))
<1>1. Len(a) \in Nat /\ Len(b) \in Nat /\ Len(m) \in Nat /\ Len(l) \in Nat
  OBVIOUS
<1>2. PICK k \in Nat : k = Len(b) - Len(a)
  BY <1>1
<1>3. \A i \in Len(a) + 1 .. Len(b) : b[i] \in S
  BY <1>1
<1>4. /\ d \in Seq(S) /\ Len(d) = k
      /\ \A i \in 1 .. k : d[i] = b[Len(a) + i]
  <2>1. Len(a) + 1 \in Int /\ Len(b) \in Int
    BY <1>1
  <2>2. /\ d \in Seq(S) /\ Len(d) = IF Len(a) + 1 <= Len(b) THEN Len(b) - (Len(a) + 1) + 1 ELSE 0
        /\ \A i \in 1 .. Len(b) - (Len(a) + 1) + 1 : d[i] = b[(Len(a) + 1) + i - 1]
    BY <1>3, <2>1, SubSeqProperties
  <2> HIDE DEF d
  <2>3. Len(b) - (Len(a) + 1) + 1 = k /\ \A i \in 1 .. k : (Len(a) + 1) + i - 1 = Len(a) + i
    BY <1>1, <1>2
  <2>4. Len(d) = k
    BY <1>1, <1>2, <2>2, <2>3
  <2> QED BY <2>2, <2>3, <2>4
<1> HIDE DEF d
<1>5. PICK t \in Seq(S) : t = Cat(a, m) /\ t = Cat(b, l)
  BY CatType
<1>6. /\ Len(t) = Len(a) + Len(m) /\ Len(t) = Len(b) + Len(l)
      /\ \A i \in 1 .. Len(a) : t[i] = a[i]
      /\ \A i \in 1 .. Len(b) : t[i] = b[i]
      /\ \A i \in 1 .. Len(m) : t[Len(a) + i] = m[i]
      /\ \A i \in 1 .. Len(l) : t[Len(b) + i] = l[i]
  <2>2. /\ Len(t) = Len(a) + Len(m) /\ \A i \in 1 .. Len(a) : t[i] = a[i]
        /\ \A i \in 1 .. Len(m) : t[Len(a) + i] = m[i]
    <3>1. Joined(a, m, t)
      BY <1>5, CatAt
    <3> QED BY <3>1 DEF Joined
  <2>3. /\ Len(t) = Len(b) + Len(l) /\ \A i \in 1 .. Len(b) : t[i] = b[i]
        /\ \A i \in 1 .. Len(l) : t[Len(b) + i] = l[i]
    <3>1. Joined(b, l, t)
      BY <1>5, CatAt
    <3> QED BY <3>1 DEF Joined
  <2> QED BY <2>2, <2>3
<1>7. b = Cat(a, d)
  <2>1. PICK u \in Seq(S) : u = Cat(a, d)
    BY <1>4, CatType
  <2>2. /\ Len(u) = Len(b) /\ \A i \in 1 .. Len(a) : u[i] = a[i]
        /\ \A i \in 1 .. k : u[Len(a) + i] = d[i]
    <3>1. /\ Len(u) = Len(a) + Len(d) /\ \A i \in 1 .. Len(a) : u[i] = a[i]
          /\ \A i \in 1 .. Len(d) : u[Len(a) + i] = d[i]
      <4>1. Joined(a, d, u)
        BY <1>4, <2>1, CatAt
      <4> QED BY <4>1 DEF Joined
    <3> QED BY <1>1, <1>2, <1>4, <3>1
  <2>3. ASSUME NEW i \in 1 .. Len(b) PROVE b[i] = u[i]
    <3>1. CASE i <= Len(a)
      BY <1>1, <1>6, <2>2, <3>1
    <3>2. CASE i > Len(a)
      <4>1. PICK j \in 1 .. k : i = Len(a) + j
        <5>1. i - Len(a) \in 1 .. k /\ i = Len(a) + (i - Len(a))
          BY <1>1, <1>2, <3>2
        <5> QED BY <5>1
      <4> QED BY <1>4, <2>2, <4>1
    <3> QED BY <1>1, <3>1, <3>2
  <2>4. b = u
    BY <2>2, <2>3, SeqEqual
  <2> QED BY <2>1, <2>4
<1>8. m = Cat(d, l)
  <2>0. Len(m) = k + Len(l)
    <3>1. Len(a) + Len(m) = Len(b) + Len(l)
      BY <1>6
    <3> QED BY <1>1, <1>2, <3>1
  <2>1. PICK u \in Seq(S) : u = Cat(d, l)
    BY <1>4, CatType
  <2>2. /\ Len(u) = Len(m) /\ \A i \in 1 .. k : u[i] = d[i]
        /\ \A i \in 1 .. Len(l) : u[k + i] = l[i]
    <3>1. /\ Len(u) = Len(d) + Len(l) /\ \A i \in 1 .. Len(d) : u[i] = d[i]
          /\ \A i \in 1 .. Len(l) : u[Len(d) + i] = l[i]
      <4>1. Joined(d, l, u)
        BY <1>4, <2>1, CatAt
      <4> QED BY <4>1 DEF Joined
    <3> QED BY <1>4, <2>0, <3>1
  <2>3. ASSUME NEW i \in 1 .. Len(m) PROVE m[i] = u[i]
    <3>1. t[Len(a) + i] = m[i]
      BY <1>6
    <3>2. CASE i <= k
      <4>1. i \in 1 .. k /\ Len(a) + i \in 1 .. Len(b)
        BY <1>1, <1>2, <3>2
      <4> QED BY <1>4, <1>6, <2>2, <3>1, <4>1
    <3>3. CASE i > k
      <4>1. PICK j \in 1 .. Len(l) : i = k + j /\ Len(a) + i = Len(b) + j
        <5>1. i - k \in 1 .. Len(l) /\ i = k + (i - k) /\ Len(a) + i = Len(b) + (i - k)
          BY <1>1, <1>2, <2>0, <3>3
        <5> QED BY <5>1
      <4> QED BY <1>6, <2>2, <3>1, <4>1
    <3> QED BY <1>2, <3>2, <3>3
  <2>4. m = u
    BY <2>2, <2>3, SeqEqual
  <2> QED BY <2>1, <2>4
<1> QED BY <1>4, <1>7, <1>8

\* What lies between the same opening bracket and c in two texts, the one of
\* which begins with the other.
GoesOn(S, p, q, r, c) ==
  \E d \in Seq(S) : /\ q = Cat(p, d) /\ (d = <<>> \/ d[1] = c)
                    /\ d = <<>> => r = <<>>

LEMMA SameBracket ==
  ASSUME NEW S, NEW c \in S, NEW p \in Seq(S), NEW q \in Seq(S), NEW r \in Seq(S),
         Cat(Cat(p, <<c>>), r) = Cat(q, <<c>>)
  PROVE  GoesOn(S, p, q, r, c)
<1>1. PICK o \in Seq(S) : o = <<c>> /\ Len(o) = 1 /\ o[1] = c
  <2>1. <<c>> \in Seq(S) /\ Len(<<c>>) = 1 /\ <<c>>[1] = c
    OBVIOUS
  <2> QED BY <2>1, Zenon
<1>2. PICK e \in Seq(S) : e = Cons(c, r) /\ e # <<>> /\ e[1] = c /\ Tail(e) = r /\ Len(e) = Len(r) + 1
  BY ConsParts
<1>3. Cat(p, e) = Cat(q, o)
  <2>1. Cat(Cat(p, o), r) = Cat(p, Cat(o, r))
    BY CatCat
  <2>2. Cat(o, r) = Cons(c, r)
    BY <1>1, CatOne
  <2> QED BY <1>1, <1>2, <2>1, <2>2
<1>4. Len(p) \in Nat /\ Len(q) \in Nat /\ Len(r) \in Nat
  OBVIOUS
<1>5. Len(p) + (Len(r) + 1) = Len(q) + 1
  <2>1. Len(Cat(p, e)) = Len(p) + Len(e) /\ Len(Cat(q, o)) = Len(q) + 1
    BY <1>1, CatType
  <2> QED BY <1>2, <1>3, <2>1
<1>6. PICK d \in Seq(S) : q = Cat(p, d) /\ e = Cat(d, o)
  <2>1. Len(p) <= Len(q)
    BY <1>4, <1>5
  <2> QED BY <1>3, <2>1, LongerBeginning
<1>7. d # <<>> => d[1] = c
  BY <1>2, <1>6, CatFirst
<1>8. ASSUME d = <<>> PROVE r = <<>>
  <2>1. e = o
    BY <1>6, <1>8, CatEmpty
  <2>2. Len(r) = 0
    BY <1>1, <1>2, <1>4, <2>1
  <2> QED BY <2>2, EmptySeq
<1> QED BY <1>6, <1>7, <1>8 DEF GoesOn

\* A text that goes on after s, of at most n tokens, is no value if s is one.
ValuesEnd(n) ==
  \A s \in Seq(Alphabet), r \in Seq(Alphabet) : Len(Cat(s, r)) <= n =>
    \A v \in Values(s), w \in Values(Cat(s, r)) : r = <<>> /\ v = w

\* The same of the items of a list and of the entries of a dict, unless the
\* text goes on with a comma.
PartsEnd(n) ==
  \A s \in Seq(Alphabet), r \in Seq(Alphabet) :
    Len(Cat(s, r)) <= n /\ (r = <<>> \/ r[1] # "comma") =>
      /\ \A vs \in ItemsIn(s), ws \in ItemsIn(Cat(s, r)) : r = <<>> /\ vs = ws
      /\ \A ps \in EntriesIn(s), qs \in EntriesIn(Cat(s, r)) : r = <<>> /\ ps = qs

\* Two ways to take a value off the same text are one.
LEMMA SplitSame ==
  ASSUME NEW n \in Nat, ValuesEnd(n),
         NEW a \in Seq(Alphabet), NEW m \in Seq(Alphabet), NEW v \in Values(a),
         NEW b \in Seq(Alphabet), NEW l \in Seq(Alphabet), NEW w \in Values(b),
         Cat(a, m) = Cat(b, l), Len(Cat(a, m)) <= n
  PROVE  a = b /\ m = l /\ v = w
<1>1. Len(a) \in Nat /\ Len(b) \in Nat /\ Len(m) \in Nat /\ Len(l) \in Nat
      /\ Len(a) + Len(m) <= n /\ Len(b) + Len(l) <= n
  <2>1. Len(Cat(a, m)) = Len(a) + Len(m) /\ Len(Cat(b, l)) = Len(b) + Len(l)
    BY CatType
  <2> QED BY <2>1
<1>2. Len(a) <= n /\ Len(b) <= n
  BY <1>1
<1>3. CASE Len(a) <= Len(b)
  <2>1. PICK d \in Seq(Alphabet) : b = Cat(a, d) /\ m = Cat(d, l)
    BY <1>3, LongerBeginning
  <2>2. d = <<>> /\ v = w
    BY <1>2, <2>1 DEF ValuesEnd
  <2>3. b = a /\ m = l
    BY <2>1, <2>2, CatEmpty
  <2> QED BY <2>2, <2>3
<1>4. CASE Len(b) <= Len(a)
  <2>1. PICK d \in Seq(Alphabet) : a = Cat(b, d) /\ l = Cat(d, m)
    BY <1>4, LongerBeginning
  <2>2. d = <<>> /\ w = v
    BY <1>2, <2>1 DEF ValuesEnd
  <2>3. b = a /\ m = l
    BY <2>1, <2>2, CatEmpty
  <2> QED BY <2>2, <2>3
<1> QED BY <1>1, <1>3, <1>4

\* What follows an item, and an entry.
LEMMA RestSame ==
  ASSUME NEW n \in Nat, \A j \in Nat : j < n => PartsEnd(j),
         NEW m \in Seq(Alphabet), NEW r \in Seq(Alphabet), Len(Cat(m, r)) <= n,
         r = <<>> \/ r[1] # "comma"
  PROVE  /\ \A vs \in MoreItems(m), ws \in MoreItems(Cat(m, r)) : r = <<>> /\ vs = ws
         /\ \A ps \in MoreEntries(m), qs \in MoreEntries(Cat(m, r)) : r = <<>> /\ ps = qs
<1>1. CASE m = <<>>
  <2>1. Cat(m, r) = r
    BY <1>1, CatEmpty
  <2> QED BY <1>1, <2>1 DEF MoreItems, MoreEntries
<1>2. CASE m # <<>> /\ m[1] # "comma"
  BY <1>2 DEF MoreItems, MoreEntries
<1>3. CASE m # <<>> /\ m[1] = "comma"
  <2>1. PICK c \in Alphabet : c = "comma"
    BY MarkTypes
  <2>2. PICK t \in Seq(Alphabet) : m = Cons(c, t)
    BY <1>3, <2>1, ConsOfTail
  <2>3. PICK q \in Seq(Alphabet) : q = Cat(t, r)
    BY CatType
  <2>4. Cat(m, r) = Cons(c, q)
    BY <2>2, <2>3, CatCons
  <2>5. MoreItems(m) = ItemsIn(t) /\ MoreEntries(m) = EntriesIn(t)
    BY <2>1, <2>2, MoreRule
  <2>6. MoreItems(Cat(m, r)) = ItemsIn(q) /\ MoreEntries(Cat(m, r)) = EntriesIn(q)
    BY <2>1, <2>4, MoreRule
  <2>7. Len(q) \in Nat /\ Len(q) < n
    <3>1. Len(Cons(c, q)) = Len(q) + 1 /\ Len(q) \in Nat
      BY ConsParts
    <3> QED BY <2>4, <3>1
  <2>8. PartsEnd(Len(q))
    BY <2>7
  <2>9. Len(Cat(t, r)) <= Len(q)
    BY <2>3, <2>7
  <2>10. /\ \A vs \in ItemsIn(t), ws \in ItemsIn(q) : r = <<>> /\ vs = ws
         /\ \A ps \in EntriesIn(t), qs \in EntriesIn(q) : r = <<>> /\ ps = qs
    BY <2>3, <2>8, <2>9 DEF PartsEnd
  <2> QED BY <2>5, <2>6, <2>10
<1> QED BY <1>1, <1>2, <1>3

LEMMA ItemsEnd ==
  ASSUME NEW n \in Nat, ValuesEnd(n), \A j \in Nat : j < n => PartsEnd(j),
         NEW s \in Seq(Alphabet), NEW r \in Seq(Alphabet), Len(Cat(s, r)) <= n,
         r = <<>> \/ r[1] # "comma", NEW vs \in ItemsIn(s), NEW ws \in ItemsIn(Cat(s, r))
  PROVE  r = <<>> /\ vs = ws
<1>1. AreItems(s, vs) /\ AreItems(Cat(s, r), ws)
  BY ItemsCases
<1>2. PICK a \in Seq(Alphabet), m \in Seq(Alphabet) :
        \E v \in Values(a), us \in MoreItems(m) : s = Cat(a, m) /\ vs = Cons(v, us)
  BY <1>1 DEF AreItems
<1>3. PICK v \in Values(a), us \in MoreItems(m) : s = Cat(a, m) /\ vs = Cons(v, us)
  BY <1>2
<1>4. PICK b \in Seq(Alphabet), l \in Seq(Alphabet) :
        \E w \in Values(b), xs \in MoreItems(l) : Cat(s, r) = Cat(b, l) /\ ws = Cons(w, xs)
  BY <1>1 DEF AreItems
<1>5. PICK w \in Values(b), xs \in MoreItems(l) : Cat(s, r) = Cat(b, l) /\ ws = Cons(w, xs)
  BY <1>4
<1>6. PICK q \in Seq(Alphabet) : q = Cat(m, r)
  BY CatType
<1>7. Cat(s, r) = Cat(a, q)
  BY <1>3, <1>6, CatCat
<1>8. a = b /\ q = l /\ v = w
  <2>1. Cat(a, q) = Cat(b, l) /\ Len(Cat(a, q)) <= n
    BY <1>5, <1>7
  <2> QED BY <2>1, SplitSame
<1>9. Len(Cat(m, r)) <= n
  <2>1. Len(Cat(a, q)) = Len(a) + Len(q)
    BY CatType
  <2>2. Len(a) \in Nat /\ Len(q) \in Nat
    OBVIOUS
  <2> QED BY <1>6, <1>7, <2>1, <2>2
<1>10. r = <<>> /\ us = xs
  <2>1. xs \in MoreItems(Cat(m, r))
    BY <1>6, <1>8
  <2> QED BY <1>9, <2>1, RestSame
<1> QED BY <1>3, <1>5, <1>8, <1>10

\* Entries begin with a key, a colon and a value.
EntryThen(s, ps) ==
  \E k \in Alphabet, a \in Seq(Alphabet), m \in Seq(Alphabet) :
    \E v \in Values(a), us \in MoreEntries(m) :
      s = Cons(k, Cons(":", Cat(a, m))) /\ ps = Cons(<<Leaf(k), v>>, us)

LEMMA EntryFirstly ==
  ASSUME NEW s, NEW ps, AreEntries(s, ps)
  PROVE  EntryThen(s, ps)
<1>1. PICK f \in Seq(Alphabet), m \in Seq(Alphabet) :
        \E p \in EntryIn(f), us \in MoreEntries(m) : s = Cat(f, m) /\ ps = Cons(p, us)
  BY DEF AreEntries
<1>2. PICK p \in EntryIn(f), us \in MoreEntries(m) : s = Cat(f, m) /\ ps = Cons(p, us)
  BY <1>1
<1>3. IsEntry(f, p)
  BY EntryCases
<1>4. PICK k \in GoodStrings, a \in Seq(Alphabet) : \E v \in Values(a) :
        f = Cons(k, Cons(":", a)) /\ p = <<Leaf(k), v>>
  BY <1>3 DEF IsEntry
<1>5. PICK v \in Values(a) : f = Cons(k, Cons(":", a)) /\ p = <<Leaf(k), v>>
  BY <1>4
<1>6. PICK c \in Alphabet : c = ":" /\ k \in Alphabet
  BY MarkTypes
<1>7. PICK y \in Seq(Alphabet) : y = Cons(c, a)
  BY ConsParts
<1>8. Cat(f, m) = Cons(k, Cons(c, Cat(a, m)))
  <2>1. Cat(Cons(k, y), m) = Cons(k, Cat(y, m))
    BY <1>6, CatCons
  <2>2. Cat(Cons(c, a), m) = Cons(c, Cat(a, m))
    BY CatCons
  <2> QED BY <1>5, <1>6, <1>7, <2>1, <2>2
<1> QED BY <1>2, <1>5, <1>6, <1>8 DEF EntryThen

LEMMA EntriesEnd ==
  ASSUME NEW n \in Nat, ValuesEnd(n), \A j \in Nat : j < n => PartsEnd(j),
         NEW s \in Seq(Alphabet), NEW r \in Seq(Alphabet), Len(Cat(s, r)) <= n,
         r = <<>> \/ r[1] # "comma", NEW ps \in EntriesIn(s), NEW qs \in EntriesIn(Cat(s, r))
  PROVE  r = <<>> /\ ps = qs
<1>1. EntryThen(s, ps) /\ EntryThen(Cat(s, r), qs)
  <2>1. AreEntries(s, ps) /\ AreEntries(Cat(s, r), qs)
    BY EntriesCases
  <2> QED BY <2>1, EntryFirstly
<1>2. PICK k \in Alphabet, a \in Seq(Alphabet), m \in Seq(Alphabet) :
        \E v \in Values(a), us \in MoreEntries(m) :
          s = Cons(k, Cons(":", Cat(a, m))) /\ ps = Cons(<<Leaf(k), v>>, us)
  BY <1>1 DEF EntryThen
<1>3. PICK v \in Values(a), us \in MoreEntries(m) :
        s = Cons(k, Cons(":", Cat(a, m))) /\ ps = Cons(<<Leaf(k), v>>, us)
  BY <1>2
<1>4. PICK h \in Alphabet, b \in Seq(Alphabet), l \in Seq(Alphabet) :
        \E w \in Values(b), xs \in MoreEntries(l) :
          Cat(s, r) = Cons(h, Cons(":", Cat(b, l))) /\ qs = Cons(<<Leaf(h), w>>, xs)
  BY <1>1 DEF EntryThen
<1>5. PICK w \in Values(b), xs \in MoreEntries(l) :
        Cat(s, r) = Cons(h, Cons(":", Cat(b, l))) /\ qs = Cons(<<Leaf(h), w>>, xs)
  BY <1>4
<1>6. PICK q \in Seq(Alphabet) : q = Cat(m, r)
  BY CatType
<1>7. PICK y \in Seq(Alphabet), z \in Seq(Alphabet), x \in Seq(Alphabet) :
        y = Cat(a, m) /\ z = Cat(a, q) /\ x = Cat(b, l)
  BY CatType
<1>8. PICK c \in Alphabet : c = ":"
  BY MarkTypes
<1>9. PICK y1 \in Seq(Alphabet), z1 \in Seq(Alphabet), x1 \in Seq(Alphabet) :
        y1 = Cons(c, y) /\ z1 = Cons(c, z) /\ x1 = Cons(c, x)
  BY ConsParts
<1>10. Cat(s, r) = Cons(k, z1)
  <2>1. Cat(Cons(k, y1), r) = Cons(k, Cat(y1, r))
    BY CatCons
  <2>2. Cat(Cons(c, y), r) = Cons(c, Cat(y, r))
    BY CatCons
  <2>3. Cat(y, r) = z
    BY <1>6, <1>7, CatCat
  <2> QED BY <1>3, <1>7, <1>8, <1>9, <2>1, <2>2, <2>3
<1>11. Cons(k, z1) = Cons(h, x1)
  BY <1>5, <1>7, <1>8, <1>9, <1>10
<1>12. k = h /\ z1 = x1
  BY <1>11, ConsEqual
<1>13. z = x
  <2>1. Cons(c, z) = Cons(c, x)
    BY <1>9, <1>12
  <2> QED BY <2>1, ConsEqual
<1>14. Len(z) <= n /\ Len(q) <= n
  <2>1. Len(Cat(a, q)) = Len(a) + Len(q)
    BY CatType
  <2>2. Len(Cons(k, z1)) = Len(z1) + 1
    BY ConsParts
  <2>3. Len(Cons(c, z)) = Len(z) + 1
    BY ConsParts
  <2>4. /\ Len(a) \in Nat /\ Len(q) \in Nat /\ Len(z) \in Nat
        /\ Len(z) + 1 + 1 <= n /\ Len(z) = Len(a) + Len(q)
    <3>1. Len(a) \in Nat /\ Len(q) \in Nat /\ Len(z) \in Nat
      BY LenProperties
    <3>2. Len(z) + 1 + 1 <= n
      BY <1>9, <1>10, <2>2, <2>3
    <3>3. Len(z) = Len(a) + Len(q)
      BY <1>7, <2>1
    <3> QED BY <3>1, <3>2, <3>3
  <2>5. \A e, f, g \in Nat : g + 1 + 1 <= n /\ g = e + f => g <= n /\ f <= n
    OBVIOUS
  <2> QED BY <2>4, <2>5
<1>15. a = b /\ q = l /\ v = w
  <2>1. Cat(a, q) = Cat(b, l) /\ Len(Cat(a, q)) <= n
    BY <1>7, <1>13, <1>14
  <2> QED BY <2>1, SplitSame
<1>16. r = <<>> /\ us = xs
  <2>1. xs \in MoreEntries(Cat(m, r)) /\ Len(Cat(m, r)) <= n
    BY <1>6, <1>14, <1>15
  <2> QED BY <2>1, RestSame
<1> QED BY <1>3, <1>5, <1>12, <1>15, <1>16

\* Two texts between the same brackets.
SameInside(p, q, r) ==
  /\ \A vs \in AllItems(p), ws \in AllItems(q) : r = <<>> /\ vs = ws
  /\ \A ps \in AllEntries(p), qs \in AllEntries(q) : r = <<>> /\ ps = qs

LEMMA InsideSame ==
  ASSUME NEW n \in Nat, \A j \in Nat : j < n => PartsEnd(j), Distinct,
         NEW o \in Alphabet, NEW c \in {"]", "rbrace"},
         NEW p \in Seq(Alphabet), NEW q \in Seq(Alphabet), NEW r \in Seq(Alphabet),
         Cat(Cons(o, Cat(p, <<c>>)), r) = Cons(o, Cat(q, <<c>>)),
         Len(Cons(o, Cat(q, <<c>>))) <= n
  PROVE  SameInside(p, q, r)
<1> USE DEF SameInside
<1>1. c \in Alphabet /\ c # "comma" /\ c \notin GoodStrings \cup GoodScalars \cup {"[", "lbrace"}
  BY DEF Distinct, Alphabet
<1>2. <<c>> \in Seq(Alphabet) /\ Len(<<c>>) = 1
  BY <1>1
<1>3. PICK y \in Seq(Alphabet), z \in Seq(Alphabet) : y = Cat(p, <<c>>) /\ z = Cat(q, <<c>>)
  BY <1>2, CatType
<1>4. PICK x \in Seq(Alphabet) : x = Cat(y, r)
  BY CatType
<1>5. x = z
  <2>1. Cat(Cons(o, y), r) = Cons(o, Cat(y, r))
    BY CatCons
  <2>2. Cons(o, x) = Cons(o, z)
    BY <1>3, <1>4, <2>1
  <2> QED BY <2>2, ConsEqual
<1>6. Len(q) \in Nat /\ Len(q) < n
  <2>1. Len(Cons(o, z)) = Len(z) + 1
    BY ConsParts
  <2>2. Len(Cat(q, <<c>>)) = Len(q) + 1
    BY <1>2, CatType
  <2>3. Len(q) \in Nat
    OBVIOUS
  <2> QED BY <1>3, <2>1, <2>2, <2>3
<1>7. PICK d \in Seq(Alphabet) : q = Cat(p, d) /\ (d = <<>> \/ d[1] = c) /\ (d = <<>> => r = <<>>)
  <2>1. Cat(Cat(p, <<c>>), r) = Cat(q, <<c>>)
    BY <1>3, <1>4, <1>5
  <2>2. GoesOn(Alphabet, p, q, r, c)
    BY <1>1, <2>1, SameBracket
  <2> QED BY <2>2 DEF GoesOn
<1>8. CASE p = <<>>
  <2>1. q = d
    BY <1>7, <1>8, CatEmpty
  <2>2. q # <<>> => ItemsIn(q) = {} /\ EntriesIn(q) = {}
    BY <1>1, <1>7, <2>1, ItemsBegin, EntriesBegin
  <2> QED BY <1>7, <1>8, <2>1, <2>2 DEF AllItems, AllEntries
<1>9. CASE p # <<>>
  <2>1. q # <<>>
    BY <1>7, <1>9, CatFirst
  <2>2. /\ \A vs \in ItemsIn(p), ws \in ItemsIn(q) : d = <<>> /\ vs = ws
        /\ \A ps \in EntriesIn(p), qs \in EntriesIn(q) : d = <<>> /\ ps = qs
    <3>1. PartsEnd(Len(q)) /\ Len(Cat(p, d)) <= Len(q) /\ (d = <<>> \/ d[1] # "comma")
      BY <1>1, <1>6, <1>7
    <3> QED BY <1>7, <3>1 DEF PartsEnd
  <2> QED BY <1>7, <1>9, <2>1, <2>2 DEF AllItems, AllEntries
<1> QED BY <1>8, <1>9

LEMMA ValuesEndStep ==
  ASSUME NEW n \in Nat, \A j \in Nat : j < n => PartsEnd(j), Distinct
  PROVE  ValuesEnd(n)
<1> SUFFICES ASSUME NEW s \in Seq(Alphabet), NEW r \in Seq(Alphabet), Len(Cat(s, r)) <= n,
                    NEW v \in Values(s), NEW w \in Values(Cat(s, r))
             PROVE  r = <<>> /\ v = w
  BY DEF ValuesEnd
<1>1. PICK t \in Seq(Alphabet) : t = Cat(s, r)
  BY CatType
<1>2. s # <<>> /\ t # <<>> /\ t[1] = s[1] /\ s[1] \in GoodStrings \cup GoodScalars \cup {"[", "lbrace"}
  BY <1>1, ValueBegins, CatFirst
<1>3. CASE s[1] \in GoodStrings \cup GoodScalars
  <2>1. s = <<s[1]>> /\ v = Leaf(s[1]) /\ t = <<s[1]>> /\ w = Leaf(s[1])
    BY <1>1, <1>2, <1>3, ValueFrom
  <2>2. Len(s) = 1 /\ Len(t) = 1 /\ Len(r) \in Nat
    BY <2>1
  <2>3. Len(Cat(s, r)) = Len(s) + Len(r)
    BY CatType
  <2>4. Len(r) = 0
    <3>1. 1 = 1 + Len(r)
      BY <1>1, <2>2, <2>3
    <3> QED BY <2>2, <3>1
  <2> QED BY <2>1, <2>4, EmptySeq
<1>4. CASE s[1] = "["
  <2>1. IsListText(s, v) /\ IsListText(t, w)
    BY <1>1, <1>2, <1>4, ValueFrom
  <2>2. PICK p \in Seq(Alphabet) : \E vs \in AllItems(p) : s = Cons("[", Cat(p, <<"]">>)) /\ v = PyList(vs)
    BY <2>1 DEF IsListText
  <2>3. PICK q \in Seq(Alphabet) : \E ws \in AllItems(q) : t = Cons("[", Cat(q, <<"]">>)) /\ w = PyList(ws)
    BY <2>1 DEF IsListText
  <2>4. PICK o \in Alphabet, c \in {"]", "rbrace"} : o = "[" /\ c = "]"
    BY MarkTypes
  <2>5. Cat(Cons(o, Cat(p, <<c>>)), r) = Cons(o, Cat(q, <<c>>)) /\ Len(Cons(o, Cat(q, <<c>>))) <= n
    BY <1>1, <2>2, <2>3, <2>4
  <2>6. SameInside(p, q, r)
    BY <2>5, InsideSame
  <2> QED BY <2>2, <2>3, <2>6 DEF SameInside
<1>5. CASE s[1] = "lbrace"
  <2>1. IsDictText(s, v) /\ IsDictText(t, w)
    BY <1>1, <1>2, <1>5, ValueFrom
  <2>2. PICK p \in Seq(Alphabet) : \E ps \in AllEntries(p) : s = Cons("lbrace", Cat(p, <<"rbrace">>)) /\ v = DictOf(ps)
    BY <2>1 DEF IsDictText
  <2>3. PICK q \in Seq(Alphabet) : \E qs \in AllEntries(q) : t = Cons("lbrace", Cat(q, <<"rbrace">>)) /\ w = DictOf(qs)
    BY <2>1 DEF IsDictText
  <2>4. PICK o \in Alphabet, c \in {"]", "rbrace"} : o = "lbrace" /\ c = "rbrace"
    BY MarkTypes
  <2>5. Cat(Cons(o, Cat(p, <<c>>)), r) = Cons(o, Cat(q, <<c>>)) /\ Len(Cons(o, Cat(q, <<c>>))) <= n
    BY <1>1, <2>2, <2>3, <2>4
  <2>6. SameInside(p, q, r)
    BY <2>5, InsideSame
  <2> QED BY <2>2, <2>3, <2>6 DEF SameInside
<1> QED BY <1>2, <1>3, <1>4, <1>5

\* No beginning of a value is a value, but the whole of it.
LEMMA OneBeginning ==
  ASSUME Distinct, NEW s \in Seq(Alphabet), NEW r \in Seq(Alphabet),
         NEW v \in Values(s), NEW w \in Values(Cat(s, r))
  PROVE  r = <<>> /\ v = w
<1> DEFINE T == {m \in Nat : \A j \in Nat : j < m => PartsEnd(j)}
<1>1. 0 \in T
  OBVIOUS
<1>2. ASSUME NEW m \in T PROVE m + 1 \in T
  <2>1. ValuesEnd(m)
    BY ValuesEndStep
  <2>2. PartsEnd(m)
    BY <2>1, ItemsEnd, EntriesEnd DEF PartsEnd
  <2>3. ASSUME NEW j \in Nat, j < m + 1 PROVE PartsEnd(j)
    <3>1. j < m \/ j = m
      BY <2>3
    <3> QED BY <2>2, <3>1
  <2> QED BY <2>3
<1>3. T \in SUBSET Nat
  OBVIOUS
<1> HIDE DEF T
<1>4. T = Nat
  BY <1>1, <1>2, <1>3, NatSetInduction
<1>5. PICK n \in Nat : n = Len(Cat(s, r))
  BY CatType
<1>6. \A j \in Nat : j < n => PartsEnd(j)
  BY <1>4 DEF T
<1>7. ValuesEnd(n)
  BY <1>6, ValuesEndStep
<1>8. Len(Cat(s, r)) <= n
  BY <1>5
<1> QED BY <1>7, <1>8 DEF ValuesEnd

(***************************************************************************)
(* A text denotes at most one value, wherever the grammar splits it: which *)
(* comma ends an item is settled by the brackets before it.  So a value    *)
(* that loads returns is the only one it may return (de.rs:852-902).       *)
(***************************************************************************)
THEOREM OneValue ==
  ASSUME Distinct
  PROVE  \A s : \A v, w \in Values(s) : v = w
<1> SUFFICES ASSUME NEW s, NEW v \in Values(s), NEW w \in Values(s) PROVE v = w
  OBVIOUS
<1>1. s \in Seq(Alphabet)
  BY ValueCases
<1>2. Cat(s, <<>>) = s /\ <<>> \in Seq(Alphabet)
  BY <1>1, CatEmpty, EmptySeq
<1> QED BY <1>1, <1>2, OneBeginning

\* Only a scalar's text ends in a scalar.
LEMMA ScalarEnds ==
  ASSUME Distinct, NEW s \in Seq(Alphabet), NEW t \in GoodStrings \cup GoodScalars,
         Values(Append(s, t)) # {}
  PROVE  s = <<>>
<1>1. PICK v : v \in Values(Append(s, t))
  OBVIOUS
<1>2. PICK a : a = Append(s, t)
  OBVIOUS
<1>3. a \in Seq(Alphabet) /\ Len(s) \in Nat /\ Len(a) = Len(s) + 1 /\ a[Len(a)] = t
  BY <1>2 DEF Alphabet
<1>4. CASE \E u \in GoodStrings \cup GoodScalars : a = <<u>>
  <2>1. Len(a) = 1
    BY <1>4
  <2>2. Len(s) = 0
    BY <1>3, <2>1
  <2> QED BY <2>2, EmptySeq
<1>5. ASSUME NEW p \in Seq(Alphabet), NEW b \in Alphabet, NEW c \in Alphabet,
             a = Cons(b, Cat(p, <<c>>))
      PROVE  t = c
  <2>1. a = <<b>> \o (p \o <<c>>)
    BY <1>5 DEF Cons, Cat
  <2>2. Len(<<b>> \o (p \o <<c>>)) = Len(p) + 2 /\ (<<b>> \o (p \o <<c>>))[Len(p) + 2] = c
    OBVIOUS
  <2> QED BY <1>3, <2>1, <2>2
<1>6. \A c \in {"]", "rbrace"} : c \in Alphabet /\ c # t
  BY DEF Distinct, Alphabet
<1>7. ~IsListText(a, v)
  BY <1>5, <1>6, MarkTypes DEF IsListText
<1>8. ~IsDictText(a, v)
  <2>1. PICK o \in Alphabet, c \in Alphabet : o = "lbrace" /\ c = "rbrace"
    BY MarkTypes
  <2> QED BY <1>5, <1>6, <2>1 DEF IsDictText
<1> QED BY <1>1, <1>2, <1>4, <1>7, <1>8, ValueCases

----------------------------------------------------------------------------
(***************************************************************************)
(* The rules once more, for a text that is written from left to right.     *)
(***************************************************************************)
IsValue(s) == Values(s) # {}

LEMMA PhraseIsText ==
  ASSUME NEW s, Values(s) # {} \/ ItemsIn(s) # {} \/ EntriesIn(s) # {}
  PROVE  s \in Seq(Alphabet)
BY DEF Values, ItemsIn, EntriesIn

LEMMA LeafIsValue ==
  ASSUME NEW t \in GoodStrings \cup GoodScalars
  PROVE  IsValue(<<t>>)
BY LeafRule DEF IsValue

LEMMA ValueIsItems ==
  ASSUME NEW s, NEW v \in Values(s)
  PROVE  <<v>> \in ItemsIn(s)
<1>1. s \in Seq(Alphabet) /\ <<>> \in Seq(Alphabet) /\ <<>> \in MoreItems(<<>>)
  BY PhraseIsText, EmptySeq DEF MoreItems
<1>2. Cons(v, <<>>) \in ItemsIn(Cat(s, <<>>))
  BY <1>1, ItemsRule
<1>3. Cat(s, <<>>) = s
  BY <1>1, CatEmpty
<1>4. Cons(v, <<>>) = <<v>>
  <2>1. <<v>> \in Seq({v})
    OBVIOUS
  <2>2. <<v>> \o <<>> = <<v>>
    BY <2>1, ConcatEmptySeq
  <2> QED BY <2>2 DEF Cons
<1> QED BY <1>2, <1>3, <1>4

LEMMA EntryIsEntries ==
  ASSUME NEW s, NEW p \in EntryIn(s)
  PROVE  <<p>> \in EntriesIn(s)
<1>1. s \in Seq(Alphabet) /\ <<>> \in Seq(Alphabet) /\ <<>> \in MoreEntries(<<>>)
  BY EmptySeq DEF EntryIn, MoreEntries
<1>2. Cons(p, <<>>) \in EntriesIn(Cat(s, <<>>))
  BY <1>1, EntriesRule
<1>3. Cat(s, <<>>) = s
  BY <1>1, CatEmpty
<1>4. Cons(p, <<>>) = <<p>>
  <2>1. <<p>> \in Seq({p})
    OBVIOUS
  <2>2. <<p>> \o <<>> = <<p>>
    BY <2>1, ConcatEmptySeq
  <2> QED BY <2>2 DEF Cons
<1> QED BY <1>2, <1>3, <1>4

\* A sequence of whatever things.
IsSequence(vs) == \E E : vs \in Seq(E)

LEMMA AppendCons ==
  ASSUME NEW v, NEW us, IsSequence(us), NEW x
  PROVE  Append(Cons(v, us), x) = Cons(v, Append(us, x)) /\ IsSequence(Cons(v, us))
<1>1. PICK E : us \in Seq(E)
  BY DEF IsSequence
<1>2. PICK F : us \in Seq(F) /\ v \in F /\ x \in F
  <2> DEFINE F == E \cup {v, x}
  <2>1. us \in Seq(F)
    BY <1>1
  <2>2. v \in F /\ x \in F
    OBVIOUS
  <2> HIDE DEF F
  <2> QED BY <2>1, <2>2
<1>3. <<v>> \in Seq(F) /\ <<x>> \in Seq(F) /\ <<v>> \o us \in Seq(F)
  BY <1>2
<1>4. Append(<<v>> \o us, x) = (<<v>> \o us) \o <<x>> /\ Append(us, x) = us \o <<x>>
  BY <1>2, <1>3, AppendIsConcat
<1>5. (<<v>> \o us) \o <<x>> = <<v>> \o (us \o <<x>>)
  BY <1>2, <1>3, ConcatAssociative
<1> QED BY <1>3, <1>4, <1>5 DEF IsSequence, Cons

\* One thing more, after a comma, behind at most n tokens of items or entries.
Grow(n) ==
  \A s, w \in Seq(Alphabet) : Len(s) <= n =>
    /\ \A vs \in ItemsIn(s) :
         IsSequence(vs) /\ \A v \in Values(w) : Append(vs, v) \in ItemsIn(Cat(s, Cons("comma", w)))
    /\ \A ps \in EntriesIn(s) :
         IsSequence(ps) /\ \A p \in EntryIn(w) : Append(ps, p) \in EntriesIn(Cat(s, Cons("comma", w)))

LEMMA GrowMore ==
  ASSUME NEW n \in Nat, \A j \in Nat : j < n => Grow(j)
  PROVE  Grow(n)
<1> SUFFICES ASSUME NEW s \in Seq(Alphabet), NEW w \in Seq(Alphabet), Len(s) <= n
             PROVE  /\ \A vs \in ItemsIn(s) :
                         IsSequence(vs) /\ \A v \in Values(w) :
                           Append(vs, v) \in ItemsIn(Cat(s, Cons("comma", w)))
                    /\ \A ps \in EntriesIn(s) :
                         IsSequence(ps) /\ \A p \in EntryIn(w) :
                           Append(ps, p) \in EntriesIn(Cat(s, Cons("comma", w)))
  BY DEF Grow
<1>1. PICK c \in Seq(Alphabet) : c = Cons("comma", w) /\ MoreItems(c) = ItemsIn(w) /\ MoreEntries(c) = EntriesIn(w)
  BY MoreRule
<1>2. ASSUME NEW a \in Seq(Alphabet), NEW m \in Seq(Alphabet), s = Cat(a, m)
      PROVE  Cat(s, c) = Cat(a, Cat(m, c)) /\ Cat(m, c) \in Seq(Alphabet) /\ Len(m) <= n
  <2>1. Len(a) \in Nat /\ Len(m) \in Nat
    OBVIOUS
  <2>2. Len(Cat(a, m)) = Len(a) + Len(m) /\ Cat(m, c) \in Seq(Alphabet)
    BY CatType
  <2>3. Cat(Cat(a, m), c) = Cat(a, Cat(m, c))
    BY CatCat
  <2> QED BY <1>2, <2>1, <2>2, <2>3
<1>3. ASSUME NEW m \in Seq(Alphabet), Len(m) <= n, m # <<>>, m[1] = "comma"
      PROVE  \E r \in Seq(Alphabet) : \E j \in Nat :
               /\ r = Tail(m) /\ Cat(m, c) = Cons("comma", Cat(r, c)) /\ Cat(r, c) \in Seq(Alphabet)
               /\ j < n /\ Len(r) <= j
  <2>1. PICK r \in Seq(Alphabet) : r = Tail(m) /\ m = Cons("comma", r)
    BY <1>3, MoreCases DEF Cat, Cons
  <2>2. PICK j \in Nat : j = Len(r)
    OBVIOUS
  <2>3. Len(m) = j + 1
    <3>1. Len(Cons("comma", r)) = Len(r) + 1
      BY MarkTypes, ConsParts
    <3> QED BY <2>1, <2>2, <3>1
  <2>4. Cat(Cons("comma", r), c) = Cons("comma", Cat(r, c)) /\ Cat(r, c) \in Seq(Alphabet)
    BY MarkTypes, CatCons, CatType
  <2>5. j < n
    BY <1>3, <2>3
  <2>6. Cat(m, c) = Cons("comma", Cat(r, c))
    BY <2>1, <2>4, Zenon
  <2>7. Len(r) <= j
    BY <2>2
  <2> QED BY <2>1, <2>4, <2>5, <2>6, <2>7
<1>4. ASSUME NEW vs \in ItemsIn(s)
      PROVE  IsSequence(vs) /\ \A x \in Values(w) : Append(vs, x) \in ItemsIn(Cat(s, c))
  <2>1. AreItems(s, vs)
    BY ItemsCases
  <2>2. PICK a \in Seq(Alphabet), m \in Seq(Alphabet) :
          \E v \in Values(a), us \in MoreItems(m) : s = Cat(a, m) /\ vs = Cons(v, us)
    BY <2>1 DEF AreItems
  <2>3. PICK v \in Values(a), us \in MoreItems(m) : s = Cat(a, m) /\ vs = Cons(v, us)
    BY <2>2
  <2>4. PICK d \in Seq(Alphabet) : d = Cat(m, c) /\ Cat(s, c) = Cat(a, d) /\ Len(m) <= n
    BY <1>2, <2>3
  <2>5. IsSequence(us) /\ \A x \in Values(w) : Append(us, x) \in MoreItems(d)
    <3>1. CASE m = <<>>
      <4>1. us = <<>> /\ d = c
        BY <1>1, <2>4, <3>1, CatEmpty DEF MoreItems
      <4>2. IsSequence(<<>>) /\ \A x : Append(<<>>, x) = <<x>>
        BY EmptySeq DEF IsSequence
      <4> QED BY <1>1, <4>1, <4>2, ValueIsItems
    <3>2. CASE m # <<>>
      <4>1. m[1] = "comma" /\ us \in ItemsIn(Tail(m))
        BY <3>2 DEF MoreItems
      <4>2. PICK r \in Seq(Alphabet), j \in Nat :
              /\ r = Tail(m) /\ Cat(m, c) = Cons("comma", Cat(r, c)) /\ Cat(r, c) \in Seq(Alphabet)
              /\ j < n /\ Len(r) <= j
        BY <1>3, <2>4, <3>2, <4>1
      <4>3. Grow(j)
        BY <4>2
      <4>4. IsSequence(us) /\ \A x \in Values(w) : Append(us, x) \in ItemsIn(Cat(r, Cons("comma", w)))
        BY <4>1, <4>2, <4>3 DEF Grow
      <4>5. PICK e \in Seq(Alphabet) : e = Cat(r, c) /\ d = Cons("comma", e)
        BY <2>4, <4>2
      <4>6. MoreItems(d) = ItemsIn(e)
        BY <4>5, MoreRule
      <4> QED BY <1>1, <4>4, <4>5, <4>6
    <3> QED BY <3>1, <3>2
  <2>6. ASSUME NEW x \in Values(w) PROVE Append(vs, x) \in ItemsIn(Cat(s, c))
    <3>1. Cons(v, Append(us, x)) \in ItemsIn(Cat(a, d))
      BY <2>5, ItemsRule
    <3>2. Append(Cons(v, us), x) = Cons(v, Append(us, x))
      BY <2>5, AppendCons
    <3> QED BY <2>3, <2>4, <3>1, <3>2
  <2> QED BY <2>3, <2>5, <2>6, AppendCons
<1>5. ASSUME NEW ps \in EntriesIn(s)
      PROVE  IsSequence(ps) /\ \A x \in EntryIn(w) : Append(ps, x) \in EntriesIn(Cat(s, c))
  <2>1. AreEntries(s, ps)
    BY EntriesCases
  <2>2. PICK a \in Seq(Alphabet), m \in Seq(Alphabet) :
          \E p \in EntryIn(a), us \in MoreEntries(m) : s = Cat(a, m) /\ ps = Cons(p, us)
    BY <2>1 DEF AreEntries
  <2>3. PICK p \in EntryIn(a), us \in MoreEntries(m) : s = Cat(a, m) /\ ps = Cons(p, us)
    BY <2>2
  <2>4. PICK d \in Seq(Alphabet) : d = Cat(m, c) /\ Cat(s, c) = Cat(a, d) /\ Len(m) <= n
    BY <1>2, <2>3
  <2>5. IsSequence(us) /\ \A x \in EntryIn(w) : Append(us, x) \in MoreEntries(d)
    <3>1. CASE m = <<>>
      <4>1. us = <<>> /\ d = c
        BY <1>1, <2>4, <3>1, CatEmpty DEF MoreEntries
      <4>2. IsSequence(<<>>) /\ \A x : Append(<<>>, x) = <<x>>
        BY EmptySeq DEF IsSequence
      <4> QED BY <1>1, <4>1, <4>2, EntryIsEntries
    <3>2. CASE m # <<>>
      <4>1. m[1] = "comma" /\ us \in EntriesIn(Tail(m))
        BY <3>2 DEF MoreEntries
      <4>2. PICK r \in Seq(Alphabet), j \in Nat :
              /\ r = Tail(m) /\ Cat(m, c) = Cons("comma", Cat(r, c)) /\ Cat(r, c) \in Seq(Alphabet)
              /\ j < n /\ Len(r) <= j
        BY <1>3, <2>4, <3>2, <4>1
      <4>3. Grow(j)
        BY <4>2
      <4>4. IsSequence(us) /\ \A x \in EntryIn(w) : Append(us, x) \in EntriesIn(Cat(r, Cons("comma", w)))
        BY <4>1, <4>2, <4>3 DEF Grow
      <4>5. PICK e \in Seq(Alphabet) : e = Cat(r, c) /\ d = Cons("comma", e)
        BY <2>4, <4>2
      <4>6. MoreEntries(d) = EntriesIn(e)
        BY <4>5, MoreRule
      <4> QED BY <1>1, <4>4, <4>5, <4>6
    <3> QED BY <3>1, <3>2
  <2>6. ASSUME NEW x \in EntryIn(w) PROVE Append(ps, x) \in EntriesIn(Cat(s, c))
    <3>1. Cons(p, Append(us, x)) \in EntriesIn(Cat(a, d))
      BY <2>5, EntriesRule
    <3>2. Append(Cons(p, us), x) = Cons(p, Append(us, x))
      BY <2>5, AppendCons
    <3> QED BY <2>3, <2>4, <3>1, <3>2
  <2> QED BY <2>3, <2>5, <2>6, AppendCons
<1> QED BY <1>1, <1>4, <1>5

LEMMA MoreIsPhrase ==
  ASSUME NEW s \in Seq(Alphabet), NEW w \in Seq(Alphabet)
  PROVE  /\ \A vs \in ItemsIn(s), v \in Values(w) : Append(vs, v) \in ItemsIn(Cat(s, Cons("comma", w)))
         /\ \A ps \in EntriesIn(s), p \in EntryIn(w) :
              Append(ps, p) \in EntriesIn(Cat(s, Cons("comma", w)))
<1> DEFINE T == {m \in Nat : \A j \in Nat : j < m => Grow(j)}
<1>1. 0 \in T
  OBVIOUS
<1>2. ASSUME NEW m \in T PROVE m + 1 \in T
  <2>1. Grow(m)
    BY GrowMore
  <2>2. ASSUME NEW j \in Nat, j < m + 1 PROVE Grow(j)
    <3>1. j < m \/ j = m
      BY <2>2
    <3> QED BY <2>1, <3>1
  <2> QED BY <2>2
<1>3. T \in SUBSET Nat
  OBVIOUS
<1> HIDE DEF T
<1>4. T = Nat
  BY <1>1, <1>2, <1>3, NatSetInduction
<1>5. PICK n \in Nat : n = Len(s)
  OBVIOUS
<1>6. Grow(n)
  <2>1. n + 1 \in T /\ n < n + 1
    BY <1>4
  <2> QED BY <2>1 DEF T
<1> QED BY <1>5, <1>6 DEF Grow

\* The same texts, written with \o.
LEMMA OneByOne ==
  ASSUME NEW s \in Seq(Alphabet), NEW w \in Seq(Alphabet), NEW t \in Alphabet, NEW c \in Alphabet
  PROVE  /\ (<<t>> \o s) \o <<c>> = Cons(t, Cat(s, <<c>>))
         /\ (s \o <<c>>) \o w = Cat(s, Cons(c, w))
         /\ <<t, c>> \o w = Cons(t, Cons(c, w))
<1> USE DEF Cat, Cons
<1>1. <<t>> \in Seq(Alphabet) /\ <<c>> \in Seq(Alphabet)
  OBVIOUS
<1>2. (<<t>> \o s) \o <<c>> = <<t>> \o (s \o <<c>>) /\ (s \o <<c>>) \o w = s \o (<<c>> \o w)
  BY <1>1, ConcatAssociative
<1>3. <<t, c>> = <<t>> \o <<c>>
  <2> DEFINE u == <<t>> \o <<c>>
             x == <<t, c>>
  <2>1. /\ u \in Seq(Alphabet) /\ Len(u) = 2 /\ u[1] = t /\ u[2] = c
        /\ x \in Seq(Alphabet) /\ Len(x) = 2 /\ x[1] = t /\ x[2] = c
    OBVIOUS
  <2> HIDE DEF u, x
  <2>2. \A i \in 1 .. 2 : u[i] = x[i]
    BY <2>1
  <2>3. u = x
    BY <2>1, <2>2, SeqEqual
  <2> QED BY <2>3 DEF u, x
<1>4. (<<t>> \o <<c>>) \o w = <<t>> \o (<<c>> \o w)
  BY <1>1, ConcatAssociative
<1> QED BY <1>2, <1>3, <1>4

LEMMA ListWritten ==
  ASSUME NEW s, NEW vs, (s = <<>> /\ vs = <<>>) \/ vs \in ItemsIn(s)
  PROVE  PyList(vs) \in Values((<<"[">> \o s) \o <<"]">>)
<1>1. s \in Seq(Alphabet) /\ vs \in AllItems(s)
  <2>1. CASE s = <<>> /\ vs = <<>>
    BY <2>1, EmptySeq DEF AllItems
  <2>2. CASE vs \in ItemsIn(s)
    <3>1. s \in Seq(Alphabet) /\ s # <<>>
      BY <2>2, PhraseIsText, ItemsBegin
    <3> QED BY <2>2, <3>1 DEF AllItems
  <2> QED BY <2>1, <2>2
<1>2. (<<"[">> \o s) \o <<"]">> = Cons("[", Cat(s, <<"]">>))
  <2>1. PICK t \in Alphabet, c \in Alphabet : t = "[" /\ c = "]"
    BY MarkTypes
  <2>2. (<<t>> \o s) \o <<c>> = Cons(t, Cat(s, <<c>>))
    BY <1>1, OneByOne
  <2> QED BY <2>1, <2>2
<1> QED BY <1>1, <1>2, ListRule

LEMMA DictWritten ==
  ASSUME NEW s, NEW ps, (s = <<>> /\ ps = <<>>) \/ ps \in EntriesIn(s)
  PROVE  DictOf(ps) \in Values((<<"lbrace">> \o s) \o <<"rbrace">>)
<1>1. s \in Seq(Alphabet) /\ ps \in AllEntries(s)
  <2>1. CASE s = <<>> /\ ps = <<>>
    BY <2>1, EmptySeq DEF AllEntries
  <2>2. CASE ps \in EntriesIn(s)
    <3>1. s \in Seq(Alphabet) /\ s # <<>>
      BY <2>2, PhraseIsText, EntriesBegin
    <3> QED BY <2>2, <3>1 DEF AllEntries
  <2> QED BY <2>1, <2>2
<1>2. (<<"lbrace">> \o s) \o <<"rbrace">> = Cons("lbrace", Cat(s, <<"rbrace">>))
  <2>1. PICK t \in Alphabet, c \in Alphabet : t = "lbrace" /\ c = "rbrace"
    BY MarkTypes
  <2>2. (<<t>> \o s) \o <<c>> = Cons(t, Cat(s, <<c>>))
    BY <1>1, OneByOne
  <2> QED BY <2>1, <2>2
<1> QED BY <1>1, <1>2, DictRule

LEMMA ItemWritten ==
  ASSUME NEW s, NEW vs \in ItemsIn(s), NEW w, NEW v \in Values(w)
  PROVE  Append(vs, v) \in ItemsIn((s \o <<"comma">>) \o w)
<1>1. s \in Seq(Alphabet) /\ w \in Seq(Alphabet)
  BY PhraseIsText
<1>2. (s \o <<"comma">>) \o w = Cat(s, Cons("comma", w))
  <2>1. PICK c \in Alphabet : c = "comma"
    BY MarkTypes
  <2>2. (s \o <<c>>) \o w = Cat(s, Cons(c, w))
    BY <1>1, OneByOne
  <2> QED BY <2>1, <2>2
<1> QED BY <1>1, <1>2, MoreIsPhrase

LEMMA EntryIsWritten ==
  ASSUME NEW k \in GoodStrings, NEW w, NEW v \in Values(w)
  PROVE  <<Leaf(k), v>> \in EntryIn(<<k, ":">> \o w)
<1>1. w \in Seq(Alphabet) /\ k \in Alphabet
  BY PhraseIsText, MarkTypes
<1>2. <<k, ":">> \o w = Cons(k, Cons(":", w))
  BY <1>1, MarkTypes, OneByOne, ZenonT(60)
<1>3. <<Leaf(k), v>> \in EntryIn(Cons(k, Cons(":", w)))
  BY <1>1, EntryRule
<1> QED BY <1>2, <1>3

LEMMA FirstEntryWritten ==
  ASSUME NEW k \in GoodStrings, NEW w, NEW v \in Values(w)
  PROVE  <<<<Leaf(k), v>>>> \in EntriesIn(<<k, ":">> \o w)
BY EntryIsWritten, EntryIsEntries

LEMMA EntryWritten ==
  ASSUME NEW s, NEW ps \in EntriesIn(s), NEW k \in GoodStrings, NEW w, NEW v \in Values(w)
  PROVE  Append(ps, <<Leaf(k), v>>) \in EntriesIn((s \o <<"comma">>) \o (<<k, ":">> \o w))
<1>1. PICK e, p : e = <<k, ":">> \o w /\ p = <<Leaf(k), v>> /\ p \in EntryIn(e)
  BY EntryIsWritten
<1>2. s \in Seq(Alphabet) /\ e \in Seq(Alphabet)
  BY <1>1, PhraseIsText DEF EntryIn
<1>3. (s \o <<"comma">>) \o e = Cat(s, Cons("comma", e))
  <2>1. PICK c \in Alphabet : c = "comma"
    BY MarkTypes
  <2>2. (s \o <<c>>) \o e = Cat(s, Cons(c, e))
    BY <1>2, OneByOne
  <2> QED BY <2>1, <2>2
<1>4. Append(ps, p) \in EntriesIn((s \o <<"comma">>) \o e)
  BY <1>1, <1>2, <1>3, MoreIsPhrase
<1> QED BY <1>1, <1>4
----------------------------------------------------------------------------
(***************************************************************************)
(* NoSpace: the tokens of a text, in order, without the whitespace.        *)
(***************************************************************************)
KeptUpTo(g, s, n) ==
  g = [k \in 0 .. n |-> IF k = 0 THEN <<>>
                        ELSE IF s[k] = "ws" THEN g[k - 1]
                        ELSE Append(g[k - 1], s[k])]

LEMMA KeptEquation ==
  ASSUME NEW S, NEW s \in Seq(S)
  PROVE  /\ Kept(s)[0] = <<>>
         /\ \A n \in 1 .. Len(s) :
              Kept(s)[n] = IF s[n] = "ws" THEN Kept(s)[n - 1] ELSE Append(Kept(s)[n - 1], s[n])
<1> DEFINE T == {n \in Nat : \E g : KeptUpTo(g, s, n)}
<1>1. 0 \in T
  <2>1. KeptUpTo([k \in 0 .. 0 |-> <<>>], s, 0)
    BY DEF KeptUpTo
  <2> QED BY <2>1
<1>2. ASSUME NEW n \in T PROVE n + 1 \in T
  <2>1. PICK g : KeptUpTo(g, s, n)
    OBVIOUS
  <2> DEFINE next == IF s[n + 1] = "ws" THEN g[n] ELSE Append(g[n], s[n + 1])
             h == [k \in 0 .. n + 1 |-> IF k <= n THEN g[k] ELSE next]
  <2>2. \A k \in 0 .. n : g[k] = IF k = 0 THEN <<>>
                                  ELSE IF s[k] = "ws" THEN g[k - 1]
                                  ELSE Append(g[k - 1], s[k])
    BY <2>1 DEF KeptUpTo
  <2>3. ASSUME NEW k \in 0 .. n + 1
        PROVE  h[k] = IF k = 0 THEN <<>>
                      ELSE IF s[k] = "ws" THEN h[k - 1]
                      ELSE Append(h[k - 1], s[k])
    <3>1. CASE k \in 0 .. n
      <4>1. k \in Nat /\ k <= n /\ h[k] = g[k]
        BY <3>1
      <4>2. k # 0 => h[k - 1] = g[k - 1]
        BY <3>1
      <4> QED BY <2>2, <3>1, <4>1, <4>2
    <3>2. CASE k = n + 1
      <4>1. n + 1 \in 0 .. n + 1 /\ n \in 0 .. n + 1 /\ ~(n + 1 <= n) /\ n + 1 # 0 /\ (n + 1) - 1 = n
        OBVIOUS
      <4>2. h[n + 1] = next /\ h[n] = g[n]
        BY <4>1
      <4> QED BY <3>2, <4>1, <4>2
    <3> QED BY <3>1, <3>2
  <2>4. h = [k \in 0 .. n + 1 |-> h[k]]
    OBVIOUS
  <2>5. KeptUpTo(h, s, n + 1)
    <3> HIDE DEF h
    <3> QED BY <2>3, <2>4 DEF KeptUpTo
  <2> QED BY <2>5
<1> HIDE DEF T
<1>3. T = Nat
  <2>1. T \in SUBSET Nat
    BY DEF T
  <2> QED BY <1>1, <1>2, <2>1, NatSetInduction
<1>4. Len(s) \in T
  BY <1>3
<1>5. \E g : KeptUpTo(g, s, Len(s))
  BY <1>4 DEF T
<1>6. Kept(s) = CHOOSE g : KeptUpTo(g, s, Len(s))
  BY DEF Kept, KeptUpTo
<1>7. KeptUpTo(Kept(s), s, Len(s))
  BY <1>5, <1>6
<1>8. \A n \in 1 .. Len(s) : n \in 0 .. Len(s) /\ n # 0
  OBVIOUS
<1>9. 0 \in 0 .. Len(s)
  OBVIOUS
<1> QED BY <1>7, <1>8, <1>9 DEF KeptUpTo

\* What NoSpace is made of: tokens of s, and every one but whitespace.
LEMMA NoSpaceType ==
  ASSUME NEW S, NEW s \in Seq(S)
  PROVE  /\ NoSpace(s) \in Seq(S \ {"ws"})
         /\ \A i \in 1 .. Len(s) : s[i] # "ws" => \E j \in 1 .. Len(NoSpace(s)) : NoSpace(s)[j] = s[i]
<1> DEFINE Good(n) ==
             /\ Kept(s)[n] \in Seq(S \ {"ws"})
             /\ \A i \in 1 .. n : s[i] # "ws" => \E j \in 1 .. Len(Kept(s)[n]) : Kept(s)[n][j] = s[i]
           T == {n \in Nat : n <= Len(s) => Good(n)}
<1>1. 0 \in T
  <2>1. Kept(s)[0] = <<>>
    BY KeptEquation
  <2>2. Good(0)
    BY <2>1, EmptySeq
  <2> QED BY <2>2
<1>2. ASSUME NEW n \in T PROVE n + 1 \in T
  <2> SUFFICES ASSUME n + 1 <= Len(s) PROVE Good(n + 1)
    OBVIOUS
  <2>1. n + 1 \in 1 .. Len(s) /\ (n + 1) - 1 = n /\ n <= Len(s) /\ s[n + 1] \in S
    OBVIOUS
  <2> DEFINE k == Kept(s)[n]
             l == Kept(s)[n + 1]
  <2>2. l = IF s[n + 1] = "ws" THEN k ELSE Append(k, s[n + 1])
    BY <2>1, KeptEquation
  <2>3. k \in Seq(S \ {"ws"}) /\ \A i \in 1 .. n : s[i] # "ws" => \E j \in 1 .. Len(k) : k[j] = s[i]
    BY <2>1
  <2> HIDE DEF k, l
  <2>4. l \in Seq(S \ {"ws"})
    BY <2>1, <2>2, <2>3
  <2>5. ASSUME NEW i \in 1 .. n + 1, s[i] # "ws"
        PROVE  \E j \in 1 .. Len(l) : l[j] = s[i]
    <3>1. CASE s[n + 1] = "ws"
      <4>1. i \in 1 .. n
        BY <2>5, <3>1
      <4> QED BY <2>2, <2>3, <2>5, <3>1, <4>1
    <3>2. CASE s[n + 1] # "ws"
      <4>1. /\ l = Append(k, s[n + 1]) /\ Len(l) = Len(k) + 1 /\ Len(k) \in Nat
            /\ l[Len(k) + 1] = s[n + 1] /\ \A j \in 1 .. Len(k) : l[j] = k[j]
        BY <2>1, <2>2, <2>3, <3>2
      <4>2. CASE i = n + 1
        <5>1. Len(k) + 1 \in 1 .. Len(l)
          BY <4>1
        <5> QED BY <4>1, <4>2, <5>1
      <4>3. CASE i # n + 1
        <5>1. i \in 1 .. n
          BY <4>3
        <5>2. PICK j \in 1 .. Len(k) : k[j] = s[i]
          BY <2>3, <2>5, <5>1
        <5>3. j \in 1 .. Len(l) /\ l[j] = s[i]
          BY <4>1, <5>2
        <5> QED BY <5>3
      <4> QED BY <4>2, <4>3
    <3> QED BY <3>1, <3>2
  <2> QED BY <2>4, <2>5 DEF l
<1> HIDE DEF T
<1>3. T = Nat
  <2>1. T \in SUBSET Nat
    BY DEF T
  <2> QED BY <1>1, <1>2, <2>1, NatSetInduction
<1>4. Good(Len(s))
  <2>1. Len(s) \in T /\ Len(s) <= Len(s)
    BY <1>3
  <2> QED BY <2>1 DEF T
<1> QED BY <1>4 DEF NoSpace

\* The whitespace of two texts is removed from each of them.
LEMMA NoSpaceConcat ==
  ASSUME NEW S, NEW s \in Seq(S), NEW t \in Seq(S)
  PROVE  NoSpace(s \o t) = NoSpace(s) \o NoSpace(t)
<1> DEFINE u == s \o t
<1>1. u \in Seq(S) /\ Len(u) = Len(s) + Len(t) /\ Len(s) \in Nat /\ Len(t) \in Nat
  OBVIOUS
<1>2. /\ \A i \in 1 .. Len(s) : u[i] = s[i]
      /\ \A i \in 1 .. Len(t) : u[Len(s) + i] = t[i]
  OBVIOUS
<1> HIDE DEF u
<1>3. /\ Kept(u)[0] = <<>>
      /\ \A n \in 1 .. Len(u) :
           Kept(u)[n] = IF u[n] = "ws" THEN Kept(u)[n - 1] ELSE Append(Kept(u)[n - 1], u[n])
  BY <1>1, KeptEquation
<1>4. /\ Kept(s)[0] = <<>>
      /\ \A n \in 1 .. Len(s) :
           Kept(s)[n] = IF s[n] = "ws" THEN Kept(s)[n - 1] ELSE Append(Kept(s)[n - 1], s[n])
  BY KeptEquation
<1>5. Kept(u)[Len(s)] = NoSpace(s)
  <2> DEFINE T == {n \in Nat : n <= Len(s) => Kept(u)[n] = Kept(s)[n]}
  <2>1. 0 \in T
    BY <1>3, <1>4
  <2>2. ASSUME NEW n \in T PROVE n + 1 \in T
    <3> SUFFICES ASSUME n + 1 <= Len(s) PROVE Kept(u)[n + 1] = Kept(s)[n + 1]
      OBVIOUS
    <3>1. n + 1 \in 1 .. Len(s) /\ n + 1 \in 1 .. Len(u) /\ (n + 1) - 1 = n /\ n <= Len(s)
      BY <1>1
    <3>2. Kept(u)[n] = Kept(s)[n] /\ u[n + 1] = s[n + 1]
      BY <1>2, <3>1
    <3> QED BY <1>3, <1>4, <3>1, <3>2
  <2> HIDE DEF T
  <2>3. T = Nat
    <3>1. T \in SUBSET Nat
      BY DEF T
    <3> QED BY <2>1, <2>2, <3>1, NatSetInduction
  <2>4. Len(s) \in T /\ Len(s) <= Len(s)
    BY <1>1, <2>3
  <2> QED BY <2>4 DEF T, NoSpace
<1>6. /\ Kept(t)[0] = <<>>
      /\ \A n \in 1 .. Len(t) :
           Kept(t)[n] = IF t[n] = "ws" THEN Kept(t)[n - 1] ELSE Append(Kept(t)[n - 1], t[n])
  BY KeptEquation
<1>7. Kept(u)[Len(u)] = NoSpace(s) \o NoSpace(t)
  <2> DEFINE Good(n) == /\ Kept(t)[n] \in Seq(S)
                        /\ Kept(u)[Len(s) + n] = NoSpace(s) \o Kept(t)[n]
             T == {n \in Nat : n <= Len(t) => Good(n)}
  <2>1. NoSpace(s) \in Seq(S)
    BY NoSpaceType, SeqMonotonic, S \ {"ws"} \subseteq S
  <2>2. 0 \in T
    <3>1. Kept(u)[Len(s) + 0] = NoSpace(s) /\ NoSpace(s) \o <<>> = NoSpace(s)
      BY <1>1, <1>5, <2>1
    <3>2. Good(0)
      BY <1>6, <3>1, EmptySeq
    <3> QED BY <3>2
  <2>3. ASSUME NEW n \in T PROVE n + 1 \in T
    <3> SUFFICES ASSUME n + 1 <= Len(t) PROVE Good(n + 1)
      OBVIOUS
    <3>1. /\ n + 1 \in 1 .. Len(t) /\ (n + 1) - 1 = n /\ n <= Len(t)
          /\ Len(s) + (n + 1) \in 1 .. Len(u) /\ (Len(s) + (n + 1)) - 1 = Len(s) + n
      BY <1>1
    <3>2. Good(n)
      BY <3>1
    <3>3. u[Len(s) + (n + 1)] = t[n + 1] /\ t[n + 1] \in S
      BY <1>2, <3>1
    <3>4. PICK x \in Seq(S), k \in Seq(S), a \in S :
            x = NoSpace(s) /\ k = Kept(t)[n] /\ a = t[n + 1]
      BY <2>1, <3>2, <3>3
    <3>5. Kept(t)[n + 1] = IF a = "ws" THEN k ELSE Append(k, a)
      BY <1>6, <3>1, <3>4
    <3>6. Kept(u)[Len(s) + (n + 1)] = IF a = "ws" THEN x \o k ELSE Append(x \o k, a)
      BY <1>3, <3>1, <3>2, <3>3, <3>4
    <3> HIDE DEF T, Good
    <3>7. Append(x \o k, a) = x \o Append(k, a) /\ Append(k, a) \in Seq(S)
      <4>1. x \o k \in Seq(S) /\ Append(k, a) \in Seq(S)
        OBVIOUS
      <4>2. Append(k, a) = k \o <<a>> /\ Append(x \o k, a) = (x \o k) \o <<a>>
        BY <4>1, AppendIsConcat
      <4>3. (x \o k) \o <<a>> = x \o (k \o <<a>>)
        BY ConcatAssociative, SMTT(30)
      <4> QED BY <4>1, <4>2, <4>3
    <3>8. /\ Kept(t)[n + 1] \in Seq(S)
          /\ Kept(u)[Len(s) + (n + 1)] = x \o Kept(t)[n + 1]
      BY <3>5, <3>6, <3>7
    <3> QED BY <3>4, <3>8 DEF Good
  <2> HIDE DEF T
  <2>4. T = Nat
    <3>1. T \in SUBSET Nat
      BY DEF T
    <3> QED BY <2>2, <2>3, <3>1, NatSetInduction
  <2>5. Len(t) \in T /\ Len(t) <= Len(t)
    BY <1>1, <2>4
  <2> QED BY <1>1, <2>5 DEF T, NoSpace
<1> QED BY <1>7 DEF NoSpace, u

LEMMA NoSpaceToken ==
  ASSUME NEW t
  PROVE  NoSpace(<<t>>) = IF t = "ws" THEN <<>> ELSE <<t>>
<1> DEFINE s == <<t>>
<1>1. s \in Seq({t}) /\ Len(s) = 1 /\ s[1] = t
  OBVIOUS
<1> HIDE DEF s
<1>2. 1 \in 1 .. Len(s) /\ 1 - 1 = 0
  BY <1>1
<1>3. Kept(s)[0] = <<>> /\ Kept(s)[1] = IF t = "ws" THEN Kept(s)[0] ELSE Append(Kept(s)[0], t)
  <2>1. /\ Kept(s)[0] = <<>>
        /\ Kept(s)[1] = IF s[1] = "ws" THEN Kept(s)[1 - 1] ELSE Append(Kept(s)[1 - 1], s[1])
    BY <1>1, <1>2, KeptEquation
  <2> QED BY <1>1, <1>2, <2>1
<1>4. Append(<<>>, t) = <<t>>
  OBVIOUS
<1>5. NoSpace(s) = IF t = "ws" THEN <<>> ELSE <<t>>
  BY <1>1, <1>3, <1>4 DEF NoSpace
<1> QED BY <1>5 DEF s
\* What of the text is left at a place, without the whitespace.
Left(s, p) == NoSpace(SubSeq(s, p, Len(s)))

LEMMA LeftOver ==
  ASSUME NEW S, NEW s \in Seq(S), NEW p, p = Len(s) + 1
  PROVE  Left(s, p) = <<>>
<1>1. Len(s) \in Nat
  OBVIOUS
<1>2. SubSeq(s, p, Len(s)) = <<>>
  BY <1>1
<1>3. Kept(<<>>)[0] = <<>>
  <2>1. <<>> \in Seq({})
    BY EmptySeq
  <2> QED BY <2>1, KeptEquation
<1>4. Len(<<>>) = 0
  OBVIOUS
<1> QED BY <1>2, <1>3, <1>4 DEF Left, NoSpace

LEMMA LeftWhole ==
  ASSUME NEW S, NEW s \in Seq(S)
  PROVE  Left(s, 1) = NoSpace(s)
<1>1. SubSeq(s, 1, Len(s)) = s
  OBVIOUS
<1> QED BY <1>1 DEF Left

LEMMA LeftAt ==
  ASSUME NEW S, NEW s \in Seq(S), NEW p \in 1 .. Len(s)
  PROVE  /\ Left(s, p) = IF s[p] = "ws" THEN Left(s, p + 1) ELSE Cons(s[p], Left(s, p + 1))
         /\ Left(s, p + 1) \in Seq(S) /\ s[p] \in S
<1>1. Len(s) \in Nat /\ p \in Nat /\ p >= 1 /\ p <= Len(s)
  OBVIOUS
<1>2. PICK n \in Nat : n = Len(s)
  BY <1>1
<1>3. PICK t \in S : t = s[p]
  BY ElementOfSeq
<1>4. PICK r \in Seq(S) : r = SubSeq(s, p + 1, n) /\ Len(r) = n - p /\ \A i \in 1 .. n - p : r[i] = s[p + i]
  <2>1. SubSeq(s, p + 1, n) \in Seq(S) /\ Len(SubSeq(s, p + 1, n)) = n - p
    BY <1>1, <1>2
  <2>2. \A i \in 1 .. n - p : SubSeq(s, p + 1, n)[i] = s[p + i]
    BY <1>1, <1>2
  <2> QED BY <2>1, <2>2
<1>5. PICK u \in Seq(S) : u = SubSeq(s, p, n) /\ Len(u) = n - p + 1 /\ \A i \in 1 .. n - p + 1 : u[i] = s[p + i - 1]
  <2>1. SubSeq(s, p, n) \in Seq(S) /\ Len(SubSeq(s, p, n)) = n - p + 1
    BY <1>1, <1>2
  <2>2. \A i \in 1 .. n - p + 1 : SubSeq(s, p, n)[i] = s[p + i - 1]
    <3>1. p \in 1 .. Len(s) + 1 /\ n \in p - 1 .. Len(s)
      BY <1>1, <1>2
    <3> QED BY <3>1, SubSeqProperties
  <2> QED BY <2>1, <2>2
<1>6. PICK c \in Seq(S) : c = <<t>> \o r /\ Len(c) = n - p + 1
  <2>1. (<<t>> \o r) \in Seq(S) /\ Len(<<t>> \o r) = Len(r) + 1
    BY ConsParts DEF Cons
  <2> QED BY <1>1, <1>2, <1>4, <2>1
<1>7. u = c
  <2>1. c[1] = t /\ \A i \in 1 .. n - p : c[i + 1] = r[i]
    <3>1. PICK h \in Seq(S) : h = <<t>> /\ Len(h) = 1 /\ h[1] = t
      <4>1. <<t>> \in Seq(S) /\ Len(<<t>>) = 1 /\ <<t>>[1] = t
        OBVIOUS
      <4> QED BY <4>1
    <3>2. \A i \in 1 .. Len(h) : (h \o r)[i] = h[i]
      BY ConcatProperties
    <3>3. \A i \in 1 .. Len(r) : (h \o r)[Len(h) + i] = r[i]
      BY ConcatProperties
    <3>4. Len(r) = n - p /\ c = h \o r
      BY <1>1, <1>2, <1>4, <1>6, <3>1
    <3>5. c[1] = t
      BY <3>1, <3>2, <3>4
    <3>6. ASSUME NEW i \in 1 .. n - p PROVE c[i + 1] = r[i]
      <4>1. i + 1 = 1 + i
        OBVIOUS
      <4> QED BY <3>1, <3>3, <3>4, <4>1
    <3> QED BY <3>5, <3>6
  <2>2. ASSUME NEW i \in 1 .. n - p + 1 PROVE u[i] = c[i]
    <3>1. CASE i = 1
      BY <1>1, <1>2, <1>3, <1>5, <2>1, <3>1
    <3>2. CASE i # 1
      <4>1. PICK j \in 1 .. n - p : i = j + 1
        <5>1. i - 1 \in 1 .. n - p /\ i = (i - 1) + 1
          BY <1>1, <1>2, <3>2
        <5> QED BY <5>1
      <4>2. p + i - 1 = p + j
        BY <1>1, <1>2, <4>1
      <4> QED BY <1>4, <1>5, <2>1, <4>1, <4>2
    <3> QED BY <3>1, <3>2
  <2> QED BY <1>5, <1>6, <2>2, SeqEqual
<1>8. NoSpace(r) \in Seq(S)
  <2>1. NoSpace(r) \in Seq(S \ {"ws"})
    BY NoSpaceType
  <2>2. S \ {"ws"} \subseteq S
    OBVIOUS
  <2> QED BY <2>1, <2>2, SeqMonotonic
<1>9. PICK k \in Seq(S) : k = NoSpace(r)
  BY <1>8
<1>10. <<t>> \in Seq(S)
  OBVIOUS
<1>11. NoSpace(c) = NoSpace(<<t>>) \o k
  BY <1>6, <1>9, <1>10, NoSpaceConcat
<1>12. NoSpace(c) = IF t = "ws" THEN k ELSE Cons(t, k)
  <2>1. CASE t = "ws"
    <3>1. NoSpace(<<t>>) = <<>>
      BY <2>1, NoSpaceToken
    <3>2. (<<>> \o k) = k
      BY ConcatEmptySeq
    <3> QED BY <1>11, <2>1, <3>1, <3>2
  <2>2. CASE t # "ws"
    <3>1. NoSpace(<<t>>) = <<t>>
      BY <2>2, NoSpaceToken
    <3> QED BY <1>11, <2>2, <3>1 DEF Cons
  <2> QED BY <2>1, <2>2
<1>13. Left(s, p) = NoSpace(c) /\ Left(s, p + 1) = k
  BY <1>2, <1>4, <1>5, <1>7, <1>9 DEF Left
<1> QED BY <1>3, <1>12, <1>13

LEMMA LeftType ==
  ASSUME NEW S, NEW s \in Seq(S), NEW p \in 1 .. Len(s) + 1
  PROVE  Left(s, p) \in Seq(S)
<1>1. CASE p = Len(s) + 1
  BY <1>1, LeftOver, EmptySeq
<1>2. CASE p # Len(s) + 1
  <2>1. Len(s) \in Nat
    OBVIOUS
  <2>2. PICK j \in Nat : p = j + 1 /\ j \in 0 .. Len(s) - 1
    <3>1. p = (p - 1) + 1 /\ p - 1 \in 0 .. Len(s) - 1
      BY <1>2, <2>1
    <3> QED BY <3>1
  <2>3. p \in 1 .. Len(s)
    BY <1>2, <2>1
  <2>4. s[p] \in S /\ Left(s, p + 1) \in Seq(S)
    BY <2>3, LeftAt
  <2>5. PICK t \in S, r \in Seq(S) : t = s[p] /\ r = Left(s, p + 1)
    BY <2>4
  <2>6. Left(s, p) = IF t = "ws" THEN r ELSE Cons(t, r)
    BY <2>3, <2>5, LeftAt
  <2>7. Cons(t, r) \in Seq(S)
    BY ConsParts
  <2> QED BY <2>6, <2>7
<1> QED BY <1>1, <1>2

\* Whitespace that is skipped leaves as much.
LEMMA LeftSkips ==
  ASSUME NEW S, NEW s \in Seq(S), NEW p \in 1 .. Len(s) + 1, NEW q \in p .. Len(s) + 1,
         \A i \in p .. q - 1 : s[i] = "ws"
  PROVE  Left(s, q) = Left(s, p)
<1> DEFINE T == {n \in Nat : p + n <= q => Left(s, p + n) = Left(s, p)}
<1>1. 0 \in T
  OBVIOUS
<1>2. ASSUME NEW n \in T PROVE n + 1 \in T
  <2>1. CASE p + (n + 1) <= q
    <3>1. Len(s) \in Nat
      OBVIOUS
    <3>2. PICK j \in 1 .. Len(s) : j = p + n /\ j \in p .. q - 1 /\ j + 1 = p + (n + 1)
      <4>1. p + n \in 1 .. Len(s) /\ p + n \in p .. q - 1 /\ (p + n) + 1 = p + (n + 1)
        BY <2>1, <3>1
      <4> QED BY <4>1
    <3>3. Left(s, j) = Left(s, p)
      BY <3>2
    <3>4. Left(s, j) = Left(s, j + 1)
      BY <3>2, LeftAt
    <3> QED BY <3>2, <3>3, <3>4
  <2>2. CASE ~(p + (n + 1) <= q)
    BY <2>2
  <2> QED BY <2>1, <2>2
<1> HIDE DEF T
<1>3. T = Nat
  <2>1. T \in SUBSET Nat
    BY DEF T
  <2> QED BY <1>1, <1>2, <2>1, NatSetInduction
<1>4. Len(s) \in Nat
  OBVIOUS
<1>5. PICK n \in Nat : q = p + n
  <2>1. q - p \in Nat /\ q = p + (q - p)
    BY <1>4
  <2> QED BY <2>1
<1>6. n \in T
  BY <1>3
<1> QED BY <1>5, <1>6 DEF T
=============================================================================
