--------------------------- MODULE AgreementProofs ---------------------------
(***************************************************************************)
(* Theorems about the two implementations of Deserialization: that the     *)
(* theorems of ParserProofs hold of both, that the two agree, and that     *)
(* loads reads JSON and nothing else.                                      *)
(***************************************************************************)
EXTENDS Agreement, Reading, JsonProofs, NaturalFacts, SequenceTheorems, TLAPS

Proved == INSTANCE ParserProofs WITH
  Any <- PyAny, String <- {Leaf(t) : t \in Strings},
  BuildingList <- Seq(PyAny), Map <- PyDicts,
  EmptyList <- PyEmptyList, ExtendList <- PyExtendList, FinishList <- PyFinishList,
  EmptyMap <- PyEmptyMap, ExtendMap <- PyExtendMap, FinishMap <- PyFinishMap,
  ParseStr <- PyParseStr, ParseScalar <- PyParseScalar

----------------------------------------------------------------------------
(***************************************************************************)
(* PyValues is the function that its equation describes, and PyAny is      *)
(* closed under the constructors: a value inside another is of a smaller   *)
(* height, and the values of a sequence, being finitely many, are all of   *)
(* some height.                                                            *)
(***************************************************************************)
Leaves == {Leaf(t) : t \in Strings \cup Scalars}
Above(S) ==
  S \cup {PyList(vs) : vs \in Seq(S)}
    \cup {PyDict(ks, vs) : ks \in Seq(S), vs \in Seq(S)}
    \cup {Hooked(d) : d \in S}

\* The values of height at most n, as a function up to n.
ValuesUpTo(g, n) == g = [k \in 0 .. n |-> IF k = 0 THEN Leaves ELSE Above(g[k - 1])]

LEMMA ValuesUpToExists == \A n \in Nat : \E g : ValuesUpTo(g, n)
<1> DEFINE T == {n \in Nat : \E g : ValuesUpTo(g, n)}
<1>1. 0 \in T
  <2>1. ValuesUpTo([k \in 0 .. 0 |-> Leaves], 0)
    BY DEF ValuesUpTo
  <2> QED BY <2>1
<1>2. ASSUME NEW n \in T PROVE n + 1 \in T
  <2>1. PICK g : ValuesUpTo(g, n)
    OBVIOUS
  <2> DEFINE h == [k \in 0 .. n + 1 |-> IF k <= n THEN g[k] ELSE Above(g[n])]
  <2>2. \A k \in 0 .. n : g[k] = IF k = 0 THEN Leaves ELSE Above(g[k - 1])
    BY <2>1 DEF ValuesUpTo
  <2>3. ASSUME NEW k \in 0 .. n + 1
        PROVE  h[k] = IF k = 0 THEN Leaves ELSE Above(h[k - 1])
    <3>1. CASE k \in 0 .. n
      BY <2>2, <3>1
    <3>2. CASE k = n + 1
      <4>1. n + 1 \in 0 .. n + 1 /\ n \in 0 .. n + 1 /\ ~(n + 1 <= n) /\ n + 1 # 0 /\ (n + 1) - 1 = n
        OBVIOUS
      <4>2. h[n + 1] = Above(g[n]) /\ h[n] = g[n]
        BY <4>1
      <4> QED BY <3>2, <4>1, <4>2
    <3> QED BY <3>1, <3>2
  <2>4. h = [k \in 0 .. n + 1 |-> h[k]]
    OBVIOUS
  <2>5. ValuesUpTo(h, n + 1)
    <3> HIDE DEF h
    <3> QED BY <2>3, <2>4 DEF ValuesUpTo
  <2> QED BY <2>5
<1> HIDE DEF T
<1>3. T = Nat
  <2>1. T \in SUBSET Nat
    BY DEF T
  <2> QED BY <1>1, <1>2, <2>1, NatSetInduction
<1> QED BY <1>3 DEF T

LEMMA ValuesUpToUnique ==
  ASSUME NEW m \in Nat, NEW n \in Nat, m <= n, NEW g, NEW h, ValuesUpTo(g, m), ValuesUpTo(h, n)
  PROVE  \A k \in 0 .. m : g[k] = h[k]
<1> DEFINE T == {k \in Nat : k <= m => g[k] = h[k]}
<1>1. 0 \in T
  <2>1. 0 \in 0 .. m /\ 0 \in 0 .. n
    OBVIOUS
  <2>2. g[0] = Leaves /\ h[0] = Leaves
    BY <2>1 DEF ValuesUpTo
  <2> QED BY <2>2
<1>2. ASSUME NEW k \in T PROVE k + 1 \in T
  <2>1. CASE k + 1 <= m
    <3>1. k + 1 \in 0 .. m /\ k + 1 \in 0 .. n /\ k + 1 # 0 /\ (k + 1) - 1 = k
      BY <2>1
    <3>2. g[k + 1] = Above(g[k]) /\ h[k + 1] = Above(h[k])
      BY <3>1 DEF ValuesUpTo
    <3> QED BY <3>1, <3>2
  <2>2. CASE ~(k + 1 <= m)
    BY <2>2
  <2> QED BY <2>1, <2>2
<1> HIDE DEF T
<1>3. T = Nat
  <2>1. T \in SUBSET Nat
    BY DEF T
  <2> QED BY <1>1, <1>2, <2>1, NatSetInduction
<1> QED BY <1>3 DEF T

LEMMA PyValuesEquation ==
  /\ PyValues[0] = Leaves
  /\ \A n \in Nat : PyValues[n + 1] = Above(PyValues[n])
<1> DEFINE Eq(f) == f = [n \in Nat |-> IF n = 0 THEN Leaves ELSE Above(f[n - 1])]
           f0 == [n \in Nat |-> (CHOOSE g : ValuesUpTo(g, n))[n]]
<1>1. \A n \in Nat : ValuesUpTo(CHOOSE g : ValuesUpTo(g, n), n)
  BY ValuesUpToExists
<1>2. f0[0] = Leaves
  <2>1. ValuesUpTo(CHOOSE g : ValuesUpTo(g, 0), 0)
    BY <1>1
  <2>2. (CHOOSE g : ValuesUpTo(g, 0))[0] = Leaves
    BY <2>1 DEF ValuesUpTo
  <2> QED BY <2>2
<1>3. ASSUME NEW n \in Nat, n # 0 PROVE f0[n] = Above(f0[n - 1])
  <2> DEFINE g == CHOOSE x : ValuesUpTo(x, n)
             h == CHOOSE x : ValuesUpTo(x, n - 1)
  <2>1. n - 1 \in Nat /\ n - 1 <= n /\ n \in 0 .. n /\ n - 1 \in 0 .. n - 1
    BY <1>3
  <2>2. ValuesUpTo(g, n) /\ ValuesUpTo(h, n - 1)
    BY <1>1, <2>1
  <2>3. f0[n] = g[n] /\ f0[n - 1] = h[n - 1]
    BY <2>1
  <2> HIDE DEF f0, g, h
  <2>4. g[n] = Above(g[n - 1])
    BY <1>3, <2>1, <2>2 DEF ValuesUpTo
  <2>5. h[n - 1] = g[n - 1]
    BY <2>1, <2>2, ValuesUpToUnique
  <2> QED BY <2>3, <2>4, <2>5
<1>4. Eq(f0)
  <2>1. f0 = [n \in Nat |-> f0[n]]
    OBVIOUS
  <2> HIDE DEF f0
  <2> QED BY <1>2, <1>3, <2>1
<1>5. PyValues = CHOOSE f : Eq(f)
  BY DEF PyValues, Above, Leaves
<1> HIDE DEF f0
<1>6. Eq(PyValues)
  <2>1. \E f : Eq(f)
    BY <1>4
  <2> HIDE DEF Eq
  <2> QED BY <1>5, <2>1
<1>7. ASSUME NEW n \in Nat PROVE PyValues[n + 1] = Above(PyValues[n])
  <2>1. n + 1 \in Nat /\ n + 1 # 0 /\ (n + 1) - 1 = n
    OBVIOUS
  <2> QED BY <1>6, <2>1
<1> QED BY <1>6, <1>7

LEMMA PyValuesGrow ==
  ASSUME NEW m \in Nat, NEW n \in Nat, m <= n
  PROVE  PyValues[m] \subseteq PyValues[n]
<1> DEFINE T == {k \in Nat : m <= k => PyValues[m] \subseteq PyValues[k]}
<1>1. 0 \in T
  OBVIOUS
<1>2. ASSUME NEW k \in T PROVE k + 1 \in T
  <2>1. PyValues[k] \subseteq PyValues[k + 1]
    BY PyValuesEquation DEF Above
  <2>2. CASE m <= k
    BY <2>1, <2>2
  <2>3. CASE ~(m <= k)
    <3>1. m <= k + 1 => m = k + 1
      BY <2>3
    <3> QED BY <3>1
  <2> QED BY <2>2, <2>3
<1> HIDE DEF T
<1>3. T = Nat
  <2>1. T \in SUBSET Nat
    BY DEF T
  <2> QED BY <1>1, <1>2, <2>1, NatSetInduction
<1> QED BY <1>3 DEF T

LEMMA OneHeight ==
  ASSUME NEW vs \in Seq(PyAny)
  PROVE  \E n \in Nat : vs \in Seq(PyValues[n])
<1> DEFINE Upto(k, n) == \A i \in 1 .. k : i \in 1 .. Len(vs) => vs[i] \in PyValues[n]
           T == {k \in Nat : \E n \in Nat : Upto(k, n)}
<1>1. 0 \in T
  OBVIOUS
<1>2. ASSUME NEW k \in T PROVE k + 1 \in T
  <2>1. PICK n \in Nat : Upto(k, n)
    OBVIOUS
  <2>2. PICK h \in Nat : k + 1 \in 1 .. Len(vs) => vs[k + 1] \in PyValues[h]
    BY DEF PyAny
  <2>3. PICK b \in Nat : n <= b /\ h <= b
    <3>1. n <= n + h /\ h <= n + h /\ n + h \in Nat
      OBVIOUS
    <3> QED BY <3>1
  <2>4. PyValues[n] \subseteq PyValues[b] /\ PyValues[h] \subseteq PyValues[b]
    BY <2>3, PyValuesGrow
  <2>5. Upto(k + 1, b)
    <3> SUFFICES ASSUME NEW i \in 1 .. k + 1, i \in 1 .. Len(vs)
                 PROVE  vs[i] \in PyValues[b]
      OBVIOUS
    <3>1. i \in 1 .. k \/ i = k + 1
      OBVIOUS
    <3> QED BY <2>1, <2>2, <2>4, <3>1
  <2> QED BY <2>5
<1> HIDE DEF T
<1>3. T = Nat
  <2>1. T \in SUBSET Nat
    BY DEF T
  <2> QED BY <1>1, <1>2, <2>1, NatSetInduction
<1>4. PICK n \in Nat : Upto(Len(vs), n)
  <2>1. Len(vs) \in T
    BY <1>3
  <2> QED BY <2>1 DEF T
<1>5. vs \in Seq(PyValues[n])
  <2>1. vs = [i \in 1 .. Len(vs) |-> vs[i]] /\ Len(vs) \in Nat
    OBVIOUS
  <2>2. \A i \in 1 .. Len(vs) : vs[i] \in PyValues[n]
    BY <1>4
  <2> QED BY <2>1, <2>2, IsASeq
<1> QED BY <1>5

LEMMA AboveHas ==
  ASSUME NEW S
  PROVE  /\ \A vs \in Seq(S) : PyList(vs) \in Above(S)
         /\ \A ks, vs \in Seq(S) : PyDict(ks, vs) \in Above(S)
         /\ \A d \in S : Hooked(d) \in Above(S)
BY DEF Above

LEMMA PyAnyClosed ==
  /\ Leaves \subseteq PyAny
  /\ \A vs \in Seq(PyAny) : PyList(vs) \in PyAny
  /\ \A ks, vs \in Seq(PyAny) : PyDict(ks, vs) \in PyAny
  /\ \A d \in PyAny : Hooked(d) \in PyAny
<1>1. \A n \in Nat : PyValues[n] \subseteq PyAny
  BY DEF PyAny
<1>2. Leaves \subseteq PyAny
  BY <1>1, PyValuesEquation
<1>3. ASSUME NEW vs \in Seq(PyAny) PROVE PyList(vs) \in PyAny
  <2>1. PICK n \in Nat : vs \in Seq(PyValues[n])
    BY OneHeight
  <2>2. PyList(vs) \in PyValues[n + 1]
    BY <2>1, PyValuesEquation, AboveHas
  <2> QED BY <1>1, <2>2
<1>4. ASSUME NEW ks \in Seq(PyAny), NEW vs \in Seq(PyAny) PROVE PyDict(ks, vs) \in PyAny
  <2>1. PICK m \in Nat : ks \in Seq(PyValues[m])
    BY OneHeight
  <2>2. PICK n \in Nat : vs \in Seq(PyValues[n])
    BY OneHeight
  <2>3. PICK b \in Nat : m <= b /\ n <= b
    <3>1. m <= m + n /\ n <= m + n /\ m + n \in Nat
      OBVIOUS
    <3> QED BY <3>1
  <2>4. PyValues[m] \subseteq PyValues[b] /\ PyValues[n] \subseteq PyValues[b]
    BY <2>3, PyValuesGrow
  <2>5. ks \in Seq(PyValues[b]) /\ vs \in Seq(PyValues[b])
    BY <2>1, <2>2, <2>4
  <2>6. PyDict(ks, vs) \in Above(PyValues[b])
    BY <2>5, AboveHas
  <2>7. PyDict(ks, vs) \in PyValues[b + 1]
    BY <2>6, PyValuesEquation
  <2> QED BY <1>1, <2>7
<1>5. ASSUME NEW d \in PyAny PROVE Hooked(d) \in PyAny
  <2>1. PICK n \in Nat : d \in PyValues[n]
    BY DEF PyAny
  <2>2. Hooked(d) \in PyValues[n + 1]
    BY <2>1, PyValuesEquation, AboveHas
  <2> QED BY <1>1, <2>2
<1> QED BY <1>2, <1>3, <1>4, <1>5
----------------------------------------------------------------------------
\* PyDeserialization keeps to the signatures of the trait.
LEMMA PyDictsHas ==
  \A ks, vs \in Seq(PyAny) : PyDict(ks, vs) \in PyDicts
<1>1. ASSUME NEW A
      PROVE  \A ks, vs \in A : PyDict(ks, vs) \in {PyDict(k, v) : k \in A, v \in A}
  OBVIOUS
<1> QED BY <1>1 DEF PyDicts

LEMMA PyExtendMapType ==
  ASSUME NEW m \in PyDicts, NEW k \in PyAny, NEW v \in PyAny
  PROVE  PyExtendMap(m, k, v) \subseteq Proved!Returns(PyDicts)
<1>1. PICK ks \in Seq(PyAny), vs \in Seq(PyAny) : m = PyDict(ks, vs)
  BY DEF PyDicts
<1> DEFINE set == [i \in DOMAIN vs |-> IF ks[i] = k THEN v ELSE vs[i]]
<1>2. [m EXCEPT !.items = [i \in DOMAIN m.items |-> IF m.keys[i] = k THEN v ELSE @[i]]]
      = PyDict(ks, set)
  <2>1. m = [type |-> "dict", keys |-> ks, items |-> vs]
    BY <1>1 DEF PyDict
  <2>2. m.keys = ks /\ m.items = vs
    BY <2>1
  <2>3. \A x : [m EXCEPT !.items = x] = PyDict(ks, x)
    BY <2>1 DEF PyDict
  <2>4. [i \in DOMAIN m.items |-> IF m.keys[i] = k THEN v ELSE m.items[i]] = set
    BY <2>2
  <2> QED BY <2>3, <2>4
<1>3. set \in Seq(PyAny)
  <2>1. Len(vs) \in Nat /\ DOMAIN vs = 1 .. Len(vs) /\ \A i \in 1 .. Len(vs) : vs[i] \in PyAny
    OBVIOUS
  <2>2. set = [i \in 1 .. Len(vs) |-> set[i]] /\ \A i \in 1 .. Len(vs) : set[i] \in PyAny
    BY <2>1
  <2> HIDE DEF set
  <2> QED BY <2>1, <2>2, IsASeq
<1>4. m.keys = ks /\ m.items = vs
  BY <1>1 DEF PyDict
<1>5. Append(ks, k) \in Seq(PyAny) /\ Append(vs, v) \in Seq(PyAny)
  OBVIOUS
<1>6. PyDict(ks, set) \in PyDicts /\ PyDict(Append(ks, k), Append(vs, v)) \in PyDicts
  BY <1>3, <1>5, PyDictsHas
<1> HIDE DEF set
<1>7. \A r \in PyExtendMap(m, k, v) :
        \/ r = Proved!Ok(PyDict(ks, set))
        \/ r = Proved!Ok(PyDict(Append(ks, k), Append(vs, v)))
        \/ r = Proved!Err("Custom")
  <2> HIDE DEF PyDict
  <2> QED BY <1>2, <1>4 DEF PyExtendMap, Ok, Err, Proved!Ok, Proved!Err
<1>8. /\ \A d \in PyDicts : Proved!Ok(d) \in Proved!Returns(PyDicts)
      /\ Proved!Err("Custom") \in Proved!Returns(PyDicts)
  BY DEF Proved!Ok, Proved!Err, Proved!Returns, Proved!Failures, Proved!ParseErrors
<1> QED BY <1>6, <1>7, <1>8

LEMMA PyIsDeserialization ==
  /\ {Leaf(t) : t \in Strings} \subseteq PyAny
  /\ PyEmptyList \in Seq(PyAny)
  /\ PyEmptyMap \in PyDicts
  /\ \A l \in Seq(PyAny), v \in PyAny : PyExtendList(l, v) \in Seq(PyAny)
  /\ \A l \in Seq(PyAny) : PyFinishList(l) \subseteq Proved!Returns(PyAny)
  /\ \A m \in PyDicts, k \in {Leaf(t) : t \in Strings}, v \in PyAny :
       PyExtendMap(m, k, v) \subseteq Proved!Returns(PyDicts)
  /\ \A m \in PyDicts : PyFinishMap(m) \subseteq Proved!Returns(PyAny)
  /\ \A t \in Strings : PyParseStr(t) \subseteq Proved!Returns({Leaf(u) : u \in Strings})
  /\ \A t \in Scalars : PyParseScalar(t) \subseteq Proved!Returns(PyAny)
<1>1. {Leaf(t) : t \in Strings} \subseteq PyAny /\ \A t \in Scalars : Leaf(t) \in PyAny
  BY PyAnyClosed DEF Leaves
<1>2. \A T : \A v \in T : Proved!Ok(v) \in Proved!Returns(T)
  BY DEF Proved!Ok, Proved!Returns
<1>3. \A T : \A e \in {"Custom", "Lex", "InvalidNumber"} : Proved!Err(e) \in Proved!Returns(T)
  BY DEF Proved!Err, Proved!Returns, Proved!Failures, Proved!ParseErrors
<1>4. \A m \in PyDicts : m \in PyAny
  BY PyAnyClosed DEF PyDicts
<1>5. PyEmptyList \in Seq(PyAny)
      /\ \A l \in Seq(PyAny), v \in PyAny : PyExtendList(l, v) \in Seq(PyAny)
  BY DEF PyEmptyList, PyExtendList
<1>6. PyEmptyMap \in PyDicts
  <2>1. <<>> \in Seq(PyAny)
    OBVIOUS
  <2> QED BY <2>1, PyDictsHas DEF PyEmptyMap
<1>7. \A l \in Seq(PyAny) : PyFinishList(l) \subseteq Proved!Returns(PyAny)
  <2> SUFFICES ASSUME NEW l \in Seq(PyAny), NEW r \in PyFinishList(l)
               PROVE  r \in Proved!Returns(PyAny)
    OBVIOUS
  <2>1. r = Proved!Ok(PyList(l)) \/ r = Proved!Err("Custom")
    BY DEF PyFinishList, Ok, Err, Proved!Ok, Proved!Err
  <2> QED BY <1>2, <1>3, <2>1, PyAnyClosed
<1>8. \A m \in PyDicts : PyFinishMap(m) \subseteq Proved!Returns(PyAny)
  <2> SUFFICES ASSUME NEW m \in PyDicts, NEW r \in PyFinishMap(m)
               PROVE  r \in Proved!Returns(PyAny)
    OBVIOUS
  <2>1. r = Proved!Ok(m) \/ r = Proved!Ok(Hooked(m)) \/ r = Proved!Err("Custom")
    BY DEF PyFinishMap, Ok, Err, Proved!Ok, Proved!Err
  <2> QED BY <1>2, <1>3, <1>4, <2>1, PyAnyClosed
<1>9. \A t \in Strings : PyParseStr(t) \subseteq Proved!Returns({Leaf(u) : u \in Strings})
  <2> SUFFICES ASSUME NEW t \in Strings, NEW r \in PyParseStr(t)
               PROVE  r \in Proved!Returns({Leaf(u) : u \in Strings})
    OBVIOUS
  <2>1. r = Proved!Ok(Leaf(t)) \/ \E e \in {"Custom", "Lex"} : r = Proved!Err(e)
    BY DEF PyParseStr, Ok, Err, Proved!Ok, Proved!Err
  <2> QED BY <1>2, <1>3, <2>1
<1>10. \A t \in Scalars : PyParseScalar(t) \subseteq Proved!Returns(PyAny)
  <2> SUFFICES ASSUME NEW t \in Scalars, NEW r \in PyParseScalar(t)
               PROVE  r \in Proved!Returns(PyAny)
    OBVIOUS
  <2>1. r = Proved!Ok(Leaf(t)) \/ \E e \in {"Custom", "Lex", "InvalidNumber"} : r = Proved!Err(e)
    BY DEF PyParseScalar, Ok, Err, Proved!Ok, Proved!Err
  <2> QED BY <1>1, <1>2, <1>3, <2>1
<1> QED BY <1>1, <1>5, <1>6, <1>7, <1>8, <1>9, <1>10, PyExtendMapType

\* What the instance of ParserProofs and the module itself call by one name is
\* one and the same.
LEMMA SameParser ==
  /\ Init <=> Proved!Init
  /\ Next <=> Proved!Next
  /\ vars = Proved!vars
  /\ TypeOK <=> Proved!TypeOK
  /\ StackMirrorsBrackets <=> Proved!StackMirrorsBrackets
  /\ DepthLimitExact <=> Proved!DepthLimitExact
<1>1. Init <=> Proved!Init
  BY DEF Init, Proved!Init, SkipWs, Proved!SkipWs, Peek, Proved!Peek, WS,
         Proved!WS, Eof, Proved!Eof, Thunk, Proved!Thunk, DoneFrame,
         Proved!DoneFrame, Running, Proved!Running
<1>2. vars = Proved!vars
  BY DEF vars, Proved!vars
<1>3. Next <=> Proved!Next
  BY DEF Ok, Proved!Ok, Err, Proved!Err, Thunk, Proved!Thunk, Running,
         Proved!Running, ListFrame, Proved!ListFrame, MapFrame,
         Proved!MapFrame, DoneFrame, Proved!DoneFrame, Failures,
         Proved!Failures, Returns, Proved!Returns, Containers,
         Proved!Containers, Frames, Proved!Frames, NoLimit, Proved!NoLimit,
         WS, Proved!WS, Eof, Proved!Eof, Punctuation, Proved!Punctuation,
         Tokens, Proved!Tokens, ParseErrors, Proved!ParseErrors, Peek,
         Proved!Peek, SkipWs, Proved!SkipWs, Yield, Proved!Yield,
         FinishListAt, Proved!FinishListAt, FinishMapAt, Proved!FinishMapAt,
         Top, Proved!Top, Pop, Proved!Pop, ParseList, Proved!ParseList,
         ParseKey, Proved!ParseKey, ParseMap, Proved!ParseMap, DepthExceeded,
         Proved!DepthExceeded, Push, Proved!Push, TooDeep, Proved!TooDeep,
         ParseAny, Proved!ParseAny, Resume, Proved!Resume, ContinueList,
         Proved!ContinueList, ContinueMap, Proved!ContinueMap, Finish,
         Proved!Finish, Fail, Proved!Fail, Returned, Proved!Returned, Init,
         Proved!Init, Iterate, Proved!Iterate, Next, Proved!Next, vars,
         Proved!vars
<1>4. TypeOK <=> Proved!TypeOK
  BY DEF TypeOK, Proved!TypeOK, Tokens, Proved!Tokens, Punctuation,
         Proved!Punctuation, WS, Proved!WS, Frames, Proved!Frames, Containers,
         Proved!Containers, DoneFrame, Proved!DoneFrame, Failures,
         Proved!Failures, ParseErrors, Proved!ParseErrors, Returns,
         Proved!Returns, Err, Proved!Err, Running, Proved!Running
<1>5. \A n : Unclosed(n) = Proved!Unclosed(n)
  BY Zenon DEF Unclosed, Proved!Unclosed, Cardinality, Proved!Cardinality
<1>6. /\ StackMirrorsBrackets <=> Proved!StackMirrorsBrackets
      /\ DepthLimitExact <=> Proved!DepthLimitExact
  BY <1>5 DEF StackMirrorsBrackets, Proved!StackMirrorsBrackets, DepthLimitExact,
              Proved!DepthLimitExact, Running, Proved!Running, Err, Proved!Err,
              NoLimit, Proved!NoLimit
<1> QED BY <1>1, <1>2, <1>3, <1>4, <1>6

\* The tokens are those of the instance of ParserProofs.
LEMMA PyIsParser ==
  /\ Inputs \subseteq Seq(Proved!Tokens)
  /\ Limits \subseteq Nat
  /\ Proved!Eof \notin Proved!Tokens
  /\ Proved!Punctuation \cap (Strings \cup Scalars \cup Others) = {}
  /\ Proved!WS \notin Strings \cup Scalars \cup Others
  /\ Strings \cap Scalars = {}
  /\ Others \cap (Strings \cup Scalars) = {}
BY PyTokensAssumption DEF Tokens, Proved!Tokens, Punctuation, Proved!Punctuation,
   WS, Proved!WS, Eof, Proved!Eof

\* loads: the theorems about the parser hold of it, whatever Python and the
\* hook do.
THEOREM LoadsCorrect ==
  Spec => [](TypeOK /\ StackMirrorsBrackets /\ DepthLimitExact) /\ Progress
<1>2. Proved!Spec => []Proved!TypeOK
  BY PyIsParser, PyIsDeserialization, Proved!TypeCorrect
<1>3. Proved!Spec => []Proved!StackMirrorsBrackets
  BY PyIsParser, PyIsDeserialization, Proved!StackCorrect
<1>4. Proved!Spec => []Proved!DepthLimitExact
  BY PyIsParser, PyIsDeserialization, Proved!DepthLimitCorrect
<1>5. Proved!Spec => Proved!Progress
  BY PyIsParser, PyIsDeserialization, Proved!ProgressCorrect
<1>6. [Next]_vars => [Proved!Next]_Proved!vars
  BY SameParser DEF vars, Proved!vars
<1>7. Spec => Proved!Spec
  BY <1>6, SameParser, PTL DEF Spec, Proved!Spec
<1> DEFINE Consumes == /\ pos' >= pos
                       /\ pos' = pos => (result' # Running \/ last'.tag = "Err")
<1>8. [/\ pos' >= pos
       /\ pos' = pos => (result' # Proved!Running \/ last'.tag = "Err")]_Proved!vars
      => [Consumes]_vars
  BY DEF vars, Proved!vars, Running, Proved!Running
<1>9. Proved!Progress => Progress
  BY <1>8, PTL DEF Progress, Proved!Progress
<1> QED BY <1>2, <1>3, <1>4, <1>5, <1>7, <1>9, SameParser, PTL
----------------------------------------------------------------------------
\* The same of the validating parser, whose types are all the unit type.
ProvedV == INSTANCE ParserProofs WITH
  pos <- vpos, stack <- vstack, last <- vlast,
  finished <- vfinished, result <- vresult,
  Any <- V!UnitType, String <- V!UnitType,
  BuildingList <- V!UnitType, Map <- V!UnitType,
  EmptyList <- V!Unit, ExtendList <- V!UnitExtendList, FinishList <- V!UnitFinish,
  EmptyMap <- V!Unit, ExtendMap <- V!UnitExtendMap, FinishMap <- V!UnitFinish,
  ParseStr <- V!UnitParseStr, ParseScalar <- V!UnitParseScalar

LEMMA UnitIsDeserialization ==
  /\ V!UnitType \subseteq V!UnitType
  /\ V!Unit \in V!UnitType
  /\ \A l \in V!UnitType, v \in V!UnitType : V!UnitExtendList(l, v) \in V!UnitType
  /\ \A l \in V!UnitType : V!UnitFinish(l) \subseteq ProvedV!Returns(V!UnitType)
  /\ \A m \in V!UnitType, k \in V!UnitType, v \in V!UnitType :
       V!UnitExtendMap(m, k, v) \subseteq ProvedV!Returns(V!UnitType)
  /\ \A t \in Strings : V!UnitParseStr(t) \subseteq ProvedV!Returns(V!UnitType)
  /\ \A t \in Scalars : V!UnitParseScalar(t) \subseteq ProvedV!Returns(V!UnitType)
<1>1. /\ V!UnitOk \in ProvedV!Returns(V!UnitType)
      /\ \A e \in {"Lex", "InvalidUtf8", "InvalidNumber"} :
           V!UnitErr(e) \in ProvedV!Returns(V!UnitType)
  BY DEF V!UnitOk, V!UnitErr, V!UnitType, ProvedV!Returns, ProvedV!Failures,
         ProvedV!ParseErrors
<1>2. \A t : V!UnitParseStr(t) \subseteq ProvedV!Returns(V!UnitType)
  BY <1>1 DEF V!UnitParseStr
<1>3. \A t : V!UnitParseScalar(t) \subseteq ProvedV!Returns(V!UnitType)
  BY <1>1 DEF V!UnitParseScalar
<1> QED BY <1>1, <1>2, <1>3
        DEF V!UnitType, V!UnitExtendList, V!UnitFinish, V!UnitExtendMap

LEMMA SameValidator ==
  /\ Validator!Init <=> ProvedV!Init
  /\ Validator!Next <=> ProvedV!Next
  /\ Validator!TypeOK <=> ProvedV!TypeOK
<1>1. Validator!Init <=> ProvedV!Init
  BY DEF Validator!Init, ProvedV!Init, Validator!SkipWs, ProvedV!SkipWs,
         Validator!Peek, ProvedV!Peek, Validator!WS, ProvedV!WS,
         Validator!Eof, ProvedV!Eof, Validator!Thunk, ProvedV!Thunk,
         Validator!DoneFrame, ProvedV!DoneFrame, Validator!Running,
         ProvedV!Running
<1>2. Validator!Next <=> ProvedV!Next
  BY DEF Validator!Ok, ProvedV!Ok, Validator!Err, ProvedV!Err,
         Validator!Thunk, ProvedV!Thunk, Validator!Running, ProvedV!Running,
         Validator!ListFrame, ProvedV!ListFrame, Validator!MapFrame,
         ProvedV!MapFrame, Validator!DoneFrame, ProvedV!DoneFrame,
         Validator!Failures, ProvedV!Failures, Validator!Returns,
         ProvedV!Returns, Validator!Containers, ProvedV!Containers,
         Validator!Frames, ProvedV!Frames, Validator!NoLimit, ProvedV!NoLimit,
         Validator!WS, ProvedV!WS, Validator!Eof, ProvedV!Eof,
         Validator!Punctuation, ProvedV!Punctuation, Validator!Tokens,
         ProvedV!Tokens, Validator!ParseErrors, ProvedV!ParseErrors,
         Validator!Peek, ProvedV!Peek, Validator!SkipWs, ProvedV!SkipWs,
         Validator!Yield, ProvedV!Yield, Validator!FinishListAt,
         ProvedV!FinishListAt, Validator!FinishMapAt, ProvedV!FinishMapAt,
         Validator!Top, ProvedV!Top, Validator!Pop, ProvedV!Pop,
         Validator!ParseList, ProvedV!ParseList, Validator!ParseKey,
         ProvedV!ParseKey, Validator!ParseMap, ProvedV!ParseMap,
         Validator!DepthExceeded, ProvedV!DepthExceeded, Validator!Push,
         ProvedV!Push, Validator!TooDeep, ProvedV!TooDeep, Validator!ParseAny,
         ProvedV!ParseAny, Validator!Resume, ProvedV!Resume,
         Validator!ContinueList, ProvedV!ContinueList, Validator!ContinueMap,
         ProvedV!ContinueMap, Validator!Finish, ProvedV!Finish,
         Validator!Fail, ProvedV!Fail, Validator!Returned, ProvedV!Returned,
         Validator!Init, ProvedV!Init, Validator!Iterate, ProvedV!Iterate,
         Validator!Next, ProvedV!Next, Validator!vars, ProvedV!vars
<1>3. Validator!TypeOK <=> ProvedV!TypeOK
  BY DEF Validator!TypeOK, ProvedV!TypeOK, Validator!Tokens, ProvedV!Tokens,
         Validator!Punctuation, ProvedV!Punctuation, Validator!WS, ProvedV!WS,
         Validator!Frames, ProvedV!Frames, Validator!Containers,
         ProvedV!Containers, Validator!DoneFrame, ProvedV!DoneFrame,
         Validator!Failures, ProvedV!Failures, Validator!ParseErrors,
         ProvedV!ParseErrors, Validator!Returns, ProvedV!Returns,
         Validator!Err, ProvedV!Err, Validator!Running, ProvedV!Running
<1> QED BY <1>1, <1>2, <1>3, SMTT(30)

\* Fragment's validation is type correct in every state.
THEOREM ValidationCorrect == Validator!Spec => []Validator!TypeOK
<1>1. /\ Inputs \subseteq Seq(ProvedV!Tokens)
      /\ Limits \subseteq Nat
      /\ ProvedV!Eof \notin ProvedV!Tokens
      /\ ProvedV!Punctuation \cap (Strings \cup Scalars \cup Others) = {}
      /\ ProvedV!WS \notin Strings \cup Scalars \cup Others
      /\ Strings \cap Scalars = {}
      /\ Others \cap (Strings \cup Scalars) = {}
  BY PyTokensAssumption DEF Tokens, ProvedV!Tokens, Punctuation, ProvedV!Punctuation,
     WS, ProvedV!WS, Eof, ProvedV!Eof
<1>2. ProvedV!Spec => []ProvedV!TypeOK
  BY <1>1, UnitIsDeserialization, ProvedV!TypeCorrect
<1>3. [Validator!Next]_Validator!vars => [ProvedV!Next]_ProvedV!vars
  BY SameValidator DEF Validator!vars, ProvedV!vars
<1>4. Validator!Spec => ProvedV!Spec
  BY <1>3, SameValidator, PTL DEF Validator!Spec, ProvedV!Spec
<1> QED BY <1>2, <1>4, SameValidator, PTL
----------------------------------------------------------------------------
(***************************************************************************)
(* Agreement.  Where Python raises nothing, what the two parsers put in    *)
(* last_any is of one kind: as long as loads has met no int that is too    *)
(* long, they stand at the same place with the same thunks waiting.        *)
(***************************************************************************)
Matches(r, u) ==
  \/ r.tag = "Ok" /\ u.tag = "Ok"
  \/ /\ r.tag = "Err" /\ u.tag = "Err"
     /\ r.err = u.err \/ (r.err = "Custom" /\ u.err = "InvalidUtf8")
  \/ r.tag = "Thunk" /\ u.tag = "Thunk" /\ r.op.op = u.op.op

LEMMA SameStrings ==
  ASSUME NEW t, NEW r \in PyParseStr(t), NEW u \in V!UnitParseStr(t)
  PROVE  Matches(r, u) /\ r.tag \in {"Ok", "Err"} /\ (r.tag = "Ok" <=> u.tag = "Ok")
<1>1. \/ r.tag = "Ok" /\ t \notin LexErrors \cup NotUtf8
      \/ r.tag = "Err" /\ r.err = "Lex" /\ t \in LexErrors
      \/ r.tag = "Err" /\ r.err = "Custom" /\ t \in NotUtf8 \ LexErrors
  BY DEF PyParseStr
<1>2. \/ u.tag = "Ok" /\ t \notin LexErrors \cup NotUtf8
      \/ u.tag = "Err" /\ u.err = "Lex" /\ t \in LexErrors
      \/ u.tag = "Err" /\ u.err = "InvalidUtf8" /\ t \in NotUtf8 \ LexErrors
  BY DEF V!UnitParseStr, V!UnitOk, V!UnitErr
<1> QED BY <1>1, <1>2 DEF Matches

LEMMA SameScalars ==
  ASSUME NEW t, NEW r \in PyParseScalar(t), NEW u \in V!UnitParseScalar(t)
  PROVE  Matches(r, u) \/ (t \in TooManyDigits /\ r = Err("Custom"))
<1>1. \/ r.tag = "Ok" /\ t \notin LexErrors \cup Infinite
      \/ r.tag = "Err" /\ r.err = "Lex" /\ t \in LexErrors
      \/ r.tag = "Err" /\ r.err = "InvalidNumber" /\ t \in Infinite \ LexErrors
      \/ r = Err("Custom") /\ t \in TooManyDigits
  BY DEF PyParseScalar, Err
<1>2. \/ u.tag = "Ok" /\ t \notin LexErrors \cup Infinite
      \/ u.tag = "Err" /\ u.err = "Lex" /\ t \in LexErrors
      \/ u.tag = "Err" /\ u.err = "InvalidNumber" /\ t \in Infinite \ LexErrors
  BY DEF V!UnitParseScalar, V!UnitOk, V!UnitErr
<1> QED BY <1>1, <1>2 DEF Matches

LEMMA SameContainers ==
  ASSUME ~Raises
  PROVE  /\ \A l, c : \A r \in PyFinishList(l), u \in V!UnitFinish(c) : Matches(r, u)
         /\ \A m, c : \A r \in PyFinishMap(m), u \in V!UnitFinish(c) : Matches(r, u)
         /\ \A m, k, v : \A r \in PyExtendMap(m, k, v) : r.tag = "Ok"
         /\ \A m, k, v : \A u \in V!UnitExtendMap(m, k, v) : u.tag = "Ok"
<1>1. \A l, c : \A r \in PyFinishList(l), u \in V!UnitFinish(c) : Matches(r, u)
  BY DEF PyFinishList, V!UnitFinish, V!UnitOk, Matches
<1>2. \A m, c : \A r \in PyFinishMap(m), u \in V!UnitFinish(c) : Matches(r, u)
  BY DEF PyFinishMap, V!UnitFinish, V!UnitOk, Matches
<1>3. \A m, k, v : \A r \in PyExtendMap(m, k, v) : r.tag = "Ok"
  BY DEF PyExtendMap
<1>4. \A m, k, v : \A u \in V!UnitExtendMap(m, k, v) : u.tag = "Ok"
  BY DEF V!UnitExtendMap, V!UnitOk
<1> QED BY <1>1, <1>2, <1>3, <1>4

\* The calls read one text, in one way.
LEMMA SameCursor ==
  /\ \A p : Validator!Peek(p) = Peek(p)
  /\ \A p : Validator!SkipWs(p) = SkipWs(p)
  /\ Validator!Eof = Eof
  /\ Validator!Running = Running
<1>1. \A p : Validator!Peek(p) = Peek(p)
  BY DEF Peek, Validator!Peek, Eof, Validator!Eof
<1>2. \A p : Validator!SkipWs(p) = SkipWs(p)
  BY <1>1 DEF SkipWs, Validator!SkipWs, WS, Validator!WS
<1> QED BY <1>1, <1>2 DEF Eof, Validator!Eof, Running, Validator!Running

\* The two functions leave the same behind.
Together == pos' = vpos' /\ Matches(last', vlast')

\* What each of the functions yields, of one kind at one place.
LEMMA SameYields ==
  /\ \A p, r, u : Yield(p, r) /\ Validator!Yield(p, u) /\ Matches(r, u) => Together
  /\ \A e : Matches(Err(e), Validator!Err(e))
  /\ \A l, c : Matches(Thunk(ListFrame(l)), Validator!Thunk(Validator!ListFrame(c)))
  /\ \A m, k, c, n :
       Matches(Thunk(MapFrame(m, k)), Validator!Thunk(Validator!MapFrame(c, n)))
BY DEF Yield, Validator!Yield, Together, Matches, Err, Validator!Err, Thunk, Validator!Thunk,
       ListFrame, Validator!ListFrame, MapFrame, Validator!MapFrame

LEMMA SameFinishes ==
  ASSUME ~Raises
  PROVE  /\ \A p, l, c : FinishListAt(p, l) /\ Validator!FinishListAt(p, c) => Together
         /\ \A p, m, c : FinishMapAt(p, m) /\ Validator!FinishMapAt(p, c) => Together
BY SameContainers DEF FinishListAt, Validator!FinishListAt, FinishMapAt,
                      Validator!FinishMapAt, Together

LEMMA SameKeys ==
  ASSUME NEW p, NEW m, NEW c, ParseKey(p, m), Validator!ParseKey(p, c)
  PROVE  Together
<1> DEFINE q == SkipWs(p + 1)
<1>1. PICK r \in PyParseStr(input[p]) :
        \/ r.tag = "Err" /\ Yield(p + 1, r)
        \/ r.tag = "Ok" /\ Peek(q) # ":" /\ Yield(q, Err("ExpectedMapItem"))
        \/ /\ r.tag = "Ok"
           /\ Peek(q) = ":"
           /\ Yield(SkipWs(q + 1), Thunk(MapFrame(m, r.value)))
  BY DEF ParseKey
<1>2. PICK u \in V!UnitParseStr(input[p]) :
        \/ u.tag = "Err" /\ Validator!Yield(p + 1, u)
        \/ u.tag = "Ok" /\ Peek(q) # ":" /\ Validator!Yield(q, Validator!Err("ExpectedMapItem"))
        \/ /\ u.tag = "Ok"
           /\ Peek(q) = ":"
           /\ Validator!Yield(SkipWs(q + 1), Validator!Thunk(Validator!MapFrame(c, u.value)))
  BY SameCursor DEF Validator!ParseKey
<1>3. Matches(r, u) /\ r.tag \in {"Ok", "Err"} /\ (r.tag = "Ok" <=> u.tag = "Ok")
  BY SameStrings
<1> HIDE DEF q
<1> QED BY <1>1, <1>2, <1>3, SameYields

LEMMA SameLists ==
  ASSUME ~Raises, NEW p, ParseList(p), Validator!ParseList(p)
  PROVE  Together
<1> DEFINE q == SkipWs(p)
<1>1. \/ Peek(q) = Eof /\ Yield(q, Err("Eof"))
      \/ Peek(q) = "]" /\ FinishListAt(q + 1, PyEmptyList)
      \/ Peek(q) \notin {Eof, "]"} /\ Yield(q, Thunk(ListFrame(PyEmptyList)))
  BY DEF ParseList
<1>2. \/ Peek(q) = Eof /\ Validator!Yield(q, Validator!Err("Eof"))
      \/ Peek(q) = "]" /\ Validator!FinishListAt(q + 1, V!Unit)
      \/ /\ Peek(q) \notin {Eof, "]"}
         /\ Validator!Yield(q, Validator!Thunk(Validator!ListFrame(V!Unit)))
  BY SameCursor DEF Validator!ParseList
<1>3. Eof # "]"
  BY DEF Eof
<1> HIDE DEF q
<1> QED BY <1>1, <1>2, <1>3, SameYields, SameFinishes

LEMMA SameMaps ==
  ASSUME ~Raises, NEW p, ParseMap(p), Validator!ParseMap(p)
  PROVE  Together
<1> DEFINE q == SkipWs(p)
<1>1. \/ Peek(q) = Eof /\ Yield(q, Err("Eof"))
      \/ Peek(q) = "rbrace" /\ FinishMapAt(q + 1, PyEmptyMap)
      \/ Peek(q) \in Strings /\ ParseKey(q, PyEmptyMap)
      \/ Peek(q) \notin {Eof, "rbrace"} \cup Strings /\ Yield(q + 1, Err("ExpectedMapItem"))
  BY DEF ParseMap
<1>2. \/ Peek(q) = Eof /\ Validator!Yield(q, Validator!Err("Eof"))
      \/ Peek(q) = "rbrace" /\ Validator!FinishMapAt(q + 1, V!Unit)
      \/ Peek(q) \in Strings /\ Validator!ParseKey(q, V!Unit)
      \/ /\ Peek(q) \notin {Eof, "rbrace"} \cup Strings
         /\ Validator!Yield(q + 1, Validator!Err("ExpectedMapItem"))
  BY SameCursor DEF Validator!ParseMap
<1>3. Eof # "rbrace" /\ Eof \notin Strings /\ "rbrace" \notin Strings
  BY PyTokensAssumption DEF Eof, Tokens, Punctuation
<1> HIDE DEF q
<1> QED BY <1>1, <1>2, <1>3, SameYields, SameFinishes, SameKeys
----------------------------------------------------------------------------
\* The same thunks wait.
SameFrames ==
  /\ Len(stack) = Len(vstack)
  /\ \A i \in 1 .. Len(stack) : stack[i].op = vstack[i].op

InStep ==
  /\ result = Running /\ vresult = Running
  /\ pos = vpos
  /\ SameFrames
  /\ Matches(last, vlast)

\* create_number has just refused an int that loads cannot hold.
AtLongInt ==
  /\ last = Err("Custom")
  /\ pos > 1 /\ input[pos - 1] \in TooManyDigits

Decided == result # Running /\ vresult # Running /\ SameVerdict

\* FragmentAgreesWithLoads speaks of calls that have returned; before that the
\* two are in step, or loads is about to return what it met.
AgreementInv ==
  InStep \/ (result = Running /\ AtLongInt) \/ Decided \/ StoppedAtLongInt

LEMMA SamePush ==
  ASSUME TypeOK, Validator!TypeOK, InStep, Push, Validator!Push
  PROVE  SameFrames' /\ Len(stack') = Len(vstack')
<1>1. /\ stack \in Seq(Frames) /\ vstack \in Seq(Validator!Frames)
      /\ last.op \in Frames /\ vlast.op \in Validator!Frames
  BY DEF TypeOK, Validator!TypeOK, Push, Validator!Push, Failures, Validator!Failures
<1>2. /\ stack' = Append(stack, last.op) /\ vstack' = Append(vstack, vlast.op)
      /\ last.tag = "Thunk"
  BY DEF Push, Validator!Push
<1>3. last.op.op = vlast.op.op /\ SameFrames
  BY <1>2 DEF InStep, Matches
<1>4. /\ Len(stack') = Len(stack) + 1 /\ stack'[Len(stack) + 1] = last.op
      /\ \A i \in 1 .. Len(stack) : stack'[i] = stack[i]
  BY <1>1, <1>2
<1>5. /\ Len(vstack') = Len(vstack) + 1 /\ vstack'[Len(vstack) + 1] = vlast.op
      /\ \A i \in 1 .. Len(vstack) : vstack'[i] = vstack[i]
  BY <1>1, <1>2
<1>6. Len(stack) = Len(vstack) /\ Len(stack) \in Nat
  BY <1>1, <1>3 DEF SameFrames
<1>7. ASSUME NEW i \in 1 .. Len(stack') PROVE stack'[i].op = vstack'[i].op
  <2>1. CASE i = Len(stack) + 1
    BY <1>3, <1>4, <1>5, <1>6, <2>1
  <2>2. CASE i \in 1 .. Len(stack)
    BY <1>3, <1>4, <1>5, <1>6, <2>2 DEF SameFrames
  <2> QED BY <1>4, <1>6, <2>1, <2>2
<1> QED BY <1>4, <1>5, <1>6, <1>7 DEF SameFrames

LEMMA SamePop ==
  ASSUME TypeOK, Validator!TypeOK, InStep, NEW op, Resume(op),
         NEW vop, Validator!Resume(vop)
  PROVE  op = vop /\ SameFrames'
<1>1. /\ stack \in Seq(Frames) /\ vstack \in Seq(Validator!Frames)
      /\ stack # <<>> /\ Len(stack) = Len(vstack)
      /\ \A i \in 1 .. Len(stack) : stack[i].op = vstack[i].op
  BY DEF TypeOK, Validator!TypeOK, InStep, SameFrames, Resume
<1> DEFINE n == Len(stack) - 1
<1>2. Len(stack) \in Nat \ {0}
  BY <1>1, EmptySeq
<1>3. n \in Nat /\ n <= Len(stack) /\ Len(stack) \in 1 .. Len(stack)
  BY <1>2
<1>4. stack' = SubSeq(stack, 1, n) /\ vstack' = SubSeq(vstack, 1, n)
  BY <1>1 DEF Resume, Pop, Validator!Resume, Validator!Pop
<1>5. stack[Len(stack)].op = op /\ vstack[Len(stack)].op = vop
  BY <1>1 DEF Resume, Top, Validator!Resume, Validator!Top
<1> HIDE DEF n
<1>6. /\ Len(stack') = n /\ \A i \in 1 .. n : stack'[i] = stack[i]
      /\ Len(vstack') = n /\ \A i \in 1 .. n : vstack'[i] = vstack[i]
  BY <1>1, <1>3, <1>4
<1>7. SameFrames'
  <2>1. \A i \in 1 .. n : i \in 1 .. Len(stack)
    BY <1>2, <1>3
  <2> QED BY <1>1, <1>6, <2>1 DEF SameFrames
<1> QED BY <1>1, <1>3, <1>5, <1>7

LEMMA SameItems ==
  ASSUME ~Raises, InStep, ContinueList, Validator!ContinueList
  PROVE  Together
<1> DEFINE q == SkipWs(pos)
           l == PyExtendList(Top.list, last.value)
           c == V!UnitExtendList(Validator!Top.list, vlast.value)
<1>1. \/ Peek(q) = Eof /\ Yield(q, Err("Eof"))
      \/ Peek(q) = "]" /\ FinishListAt(q + 1, l)
      \/ Peek(q) = "comma" /\ Yield(SkipWs(q + 1), Thunk(ListFrame(l)))
      \/ Peek(q) \notin {Eof, "]", "comma"} /\ Yield(q + 1, Err("ExpectedListItem"))
  BY DEF ContinueList
<1>2. \/ Peek(q) = Eof /\ Validator!Yield(q, Validator!Err("Eof"))
      \/ Peek(q) = "]" /\ Validator!FinishListAt(q + 1, c)
      \/ /\ Peek(q) = "comma"
         /\ Validator!Yield(SkipWs(q + 1), Validator!Thunk(Validator!ListFrame(c)))
      \/ /\ Peek(q) \notin {Eof, "]", "comma"}
         /\ Validator!Yield(q + 1, Validator!Err("ExpectedListItem"))
  BY SameCursor DEF Validator!ContinueList, InStep
<1>3. Eof # "]" /\ Eof # "comma"
  BY DEF Eof
<1> HIDE DEF q, l, c
<1> QED BY <1>1, <1>2, <1>3, SameYields, SameFinishes

LEMMA SameEntries ==
  ASSUME ~Raises, InStep, ContinueMap, Validator!ContinueMap
  PROVE  Together
<1> DEFINE q == SkipWs(pos)
           k == SkipWs(q + 1)
<1>1. PICK r \in PyExtendMap(Top.dict, Top.key, last.value) :
        \/ r.tag = "Err"
        \/ Peek(q) = Eof /\ Yield(q, Err("Eof"))
        \/ Peek(q) = "rbrace" /\ FinishMapAt(q + 1, r.value)
        \/ Peek(q) = "comma" /\ Peek(k) \in Strings /\ ParseKey(k, r.value)
        \/ Peek(q) = "comma" /\ Peek(k) \notin Strings /\ Yield(k, Err("ExpectedMapItem"))
        \/ Peek(q) \notin {Eof, "rbrace", "comma"} /\ Yield(q + 1, Err("ExpectedMapItem"))
  BY DEF ContinueMap
<1>2. PICK u \in V!UnitExtendMap(Validator!Top.dict, Validator!Top.key, vlast.value) :
        \/ u.tag = "Err"
        \/ Peek(q) = Eof /\ Validator!Yield(q, Validator!Err("Eof"))
        \/ Peek(q) = "rbrace" /\ Validator!FinishMapAt(q + 1, u.value)
        \/ /\ Peek(q) = "comma" /\ Peek(k) \in Strings
           /\ Validator!ParseKey(k, u.value)
        \/ /\ Peek(q) = "comma" /\ Peek(k) \notin Strings
           /\ Validator!Yield(k, Validator!Err("ExpectedMapItem"))
        \/ /\ Peek(q) \notin {Eof, "rbrace", "comma"}
           /\ Validator!Yield(q + 1, Validator!Err("ExpectedMapItem"))
  BY SameCursor DEF Validator!ContinueMap, InStep
<1>3. r.tag = "Ok" /\ u.tag = "Ok"
  BY SameContainers
<1>4. Eof # "rbrace" /\ Eof # "comma"
  BY DEF Eof
<1> HIDE DEF q, k
<1> QED BY <1>1, <1>2, <1>3, <1>4, SameYields, SameFinishes, SameKeys

LEMMA SameValues ==
  ASSUME ~Raises, TypeOK, InStep, ParseAny, Validator!ParseAny
  PROVE  Together \/ AtLongInt'
<1>1. \/ Peek(pos) = Eof /\ Yield(pos, Err("Eof"))
      \/ /\ Peek(pos) \in Scalars
         /\ \E r \in PyParseScalar(input[pos]) : Yield(pos + 1, r)
      \/ /\ Peek(pos) \in Strings
         /\ \E r \in PyParseStr(input[pos]) : Yield(pos + 1, r)
      \/ Peek(pos) = "[" /\ ParseList(pos + 1)
      \/ Peek(pos) = "lbrace" /\ ParseMap(pos + 1)
      \/ /\ Peek(pos) \notin {Eof, "[", "lbrace"} \cup Scalars \cup Strings
         /\ Yield(pos, Err("ExpectedAny"))
  BY DEF ParseAny
<1>2. \/ Peek(pos) = Eof /\ Validator!Yield(pos, Validator!Err("Eof"))
      \/ /\ Peek(pos) \in Scalars
         /\ \E u \in V!UnitParseScalar(input[pos]) : Validator!Yield(pos + 1, u)
      \/ /\ Peek(pos) \in Strings
         /\ \E u \in V!UnitParseStr(input[pos]) : Validator!Yield(pos + 1, u)
      \/ Peek(pos) = "[" /\ Validator!ParseList(pos + 1)
      \/ Peek(pos) = "lbrace" /\ Validator!ParseMap(pos + 1)
      \/ /\ Peek(pos) \notin {Eof, "[", "lbrace"} \cup Scalars \cup Strings
         /\ Validator!Yield(pos, Validator!Err("ExpectedAny"))
  BY SameCursor DEF Validator!ParseAny, InStep
<1>3. /\ Strings \cap Scalars = {} /\ Eof \notin Scalars \cup Strings \cup {"[", "lbrace"}
      /\ {"[", "lbrace"} \cap (Scalars \cup Strings) = {}
  BY PyTokensAssumption DEF Eof, Tokens, Punctuation
<1>4. CASE Peek(pos) \in Scalars
  <2>1. PICK r \in PyParseScalar(input[pos]) : Yield(pos + 1, r)
    BY <1>1, <1>3, <1>4
  <2>2. PICK u \in V!UnitParseScalar(input[pos]) : Validator!Yield(pos + 1, u)
    BY <1>2, <1>3, <1>4
  <2>3. CASE Matches(r, u)
    BY <2>1, <2>2, <2>3, SameYields
  <2>4. CASE input[pos] \in TooManyDigits /\ r = Err("Custom")
    <3>1. pos' = pos + 1 /\ last' = Err("Custom") /\ input' = input
      BY <2>1, <2>4 DEF Yield, ParseAny
    <3>2. pos \in Nat /\ pos >= 1
      BY DEF TypeOK
    <3>3. pos' > 1 /\ pos' - 1 = pos
      BY <3>1, <3>2
    <3> QED BY <2>4, <3>1, <3>3 DEF AtLongInt, Err
  <2> QED BY <2>3, <2>4, SameScalars
<1>5. CASE Peek(pos) \in Strings
  <2>1. PICK r \in PyParseStr(input[pos]) : Yield(pos + 1, r)
    BY <1>1, <1>3, <1>5
  <2>2. PICK u \in V!UnitParseStr(input[pos]) : Validator!Yield(pos + 1, u)
    BY <1>2, <1>3, <1>5
  <2> QED BY <2>1, <2>2, SameYields, SameStrings
<1>6. CASE Peek(pos) \notin Scalars \cup Strings
  BY <1>1, <1>2, <1>3, <1>6, SameYields, SameLists, SameMaps
<1> QED BY <1>4, <1>5, <1>6

LEMMA InStepStep ==
  ASSUME ~Raises, TypeOK, Validator!TypeOK, InStep, Next, Validator!Next
  PROVE  AgreementInv'
<1>1. /\ result = Running /\ vresult = Running /\ pos = vpos
      /\ Matches(last, vlast) /\ Validator!Running = Running
  BY SameCursor DEF InStep
<1>2. last.tag = vlast.tag
  BY <1>1 DEF Matches
<1>3. ASSUME UNCHANGED <<result, vresult>>, SameFrames', Together
      PROVE  InStep'
  BY <1>1, <1>3 DEF InStep, Together, Running
<1>4. CASE last.tag = "Thunk"
  <2>1. TooDeep \/ ParseAny
    BY <1>1, <1>4 DEF Next, Iterate, Returned, ContinueList, ContinueMap, Finish, Resume, Fail
  <2>2. Validator!TooDeep \/ Validator!ParseAny
    BY <1>1, <1>2, <1>4 DEF Validator!Next, Validator!Iterate, Validator!Returned,
       Validator!ContinueList, Validator!ContinueMap, Validator!Finish,
       Validator!Resume, Validator!Fail
  <2>3. Push /\ Validator!Push
    BY <2>1, <2>2 DEF TooDeep, ParseAny, Validator!TooDeep, Validator!ParseAny
  <2>4. SameFrames' /\ Len(stack') = Len(vstack')
    BY <2>3, SamePush
  <2>5. DepthExceeded(stack') <=> Validator!DepthExceeded(vstack')
    BY <2>4 DEF DepthExceeded, Validator!DepthExceeded, NoLimit, Validator!NoLimit
  <2>6. CASE TooDeep
    <3>1. Validator!TooDeep
      BY <2>2, <2>5, <2>6 DEF TooDeep, Validator!ParseAny
    <3>2. /\ result' = Err("DepthLimitExceeded") /\ vresult' = Err("DepthLimitExceeded")
          /\ pos' = vpos'
      BY <1>1, <2>6, <3>1 DEF TooDeep, Validator!TooDeep, Err, Validator!Err
    <3> QED BY <3>2 DEF AgreementInv, Decided, SameVerdict, Err, Running
  <2>7. CASE ParseAny
    <3>1. Validator!ParseAny
      BY <2>2, <2>5, <2>7 DEF ParseAny, Validator!TooDeep
    <3>2. UNCHANGED <<result, vresult>>
      BY <2>7, <3>1 DEF ParseAny, Validator!ParseAny
    <3>3. Together \/ AtLongInt'
      BY <2>7, <3>1, SameValues
    <3> QED BY <1>1, <1>3, <2>4, <3>2, <3>3 DEF AgreementInv, Running
  <2> QED BY <2>1, <2>6, <2>7
<1>5. CASE last.tag = "Ok"
  <2>1. ContinueList \/ ContinueMap \/ Finish
    BY <1>1, <1>5 DEF Next, Iterate, Returned, TooDeep, ParseAny, Push, Fail
  <2>2. Validator!ContinueList \/ Validator!ContinueMap \/ Validator!Finish
    BY <1>1, <1>2, <1>5 DEF Validator!Next, Validator!Iterate, Validator!Returned,
       Validator!TooDeep, Validator!ParseAny, Validator!Push, Validator!Fail
  <2>3. PICK op \in {"ParsingList", "ParsingMap", "Done"} : Resume(op)
    BY <2>1 DEF ContinueList, ContinueMap, Finish
  <2>4. PICK vop \in {"ParsingList", "ParsingMap", "Done"} : Validator!Resume(vop)
    BY <2>2 DEF Validator!ContinueList, Validator!ContinueMap, Validator!Finish
  <2>5. op = vop /\ SameFrames'
    BY <2>3, <2>4, SamePop
  <2>6. Top.op = op /\ Validator!Top.op = op
    BY <2>3, <2>4, <2>5 DEF Resume, Validator!Resume
  <2>7. CASE ContinueList
    <3>1. Validator!ContinueList
      BY <2>2, <2>6, <2>7 DEF ContinueList, Resume, Validator!ContinueMap, Validator!Finish,
         Validator!Resume
    <3>2. UNCHANGED <<result, vresult>>
      BY <2>7, <3>1 DEF ContinueList, Validator!ContinueList
    <3> QED BY <1>3, <2>5, <2>7, <3>1, <3>2, SameItems DEF AgreementInv
  <2>8. CASE ContinueMap
    <3>1. Validator!ContinueMap
      BY <2>2, <2>6, <2>8 DEF ContinueMap, Resume, Validator!ContinueList, Validator!Finish,
         Validator!Resume
    <3>2. UNCHANGED <<result, vresult>>
      BY <2>8, <3>1 DEF ContinueMap, Validator!ContinueMap
    <3> QED BY <1>3, <2>5, <2>8, <3>1, <3>2, SameEntries DEF AgreementInv
  <2>9. CASE Finish
    <3>1. Validator!Finish
      BY <2>2, <2>6, <2>9 DEF Finish, Resume, Validator!ContinueList, Validator!ContinueMap,
         Validator!Resume
    <3>2. pos' = SkipWs(pos) /\ vpos' = SkipWs(pos)
      BY <1>1, <2>9, <3>1, SameCursor DEF Finish, Validator!Finish
    <3>3. /\ input' = input
          /\ \/ Peek(SkipWs(pos)) = Eof /\ result' = Ok(last.value)
             \/ Peek(SkipWs(pos)) # Eof /\ result' = Err("ExpectedEof")
      BY <2>9 DEF Finish, Resume
    <3>4. \/ Peek(SkipWs(pos)) = Eof /\ vresult' = Validator!Ok(vlast.value)
          \/ Peek(SkipWs(pos)) # Eof /\ vresult' = Validator!Err("ExpectedEof")
      BY <3>1, <3>2, SameCursor DEF Validator!Finish
    <3> QED BY <3>2, <3>3, <3>4 DEF AgreementInv, Decided, SameVerdict, Ok, Err, Validator!Ok,
            Validator!Err, Running
  <2> QED BY <2>1, <2>7, <2>8, <2>9
<1>6. CASE last.tag = "Err"
  <2>1. Fail
    BY <1>1, <1>6 DEF Next, Iterate, Returned, TooDeep, ParseAny, Push, ContinueList,
       ContinueMap, Finish, Resume
  <2>2. Validator!Fail
    BY <1>1, <1>2, <1>6 DEF Validator!Next, Validator!Iterate, Validator!Returned,
       Validator!TooDeep, Validator!ParseAny, Validator!Push, Validator!ContinueList,
       Validator!ContinueMap, Validator!Finish, Validator!Resume
  <2>3. result' = last /\ vresult' = vlast /\ pos' = vpos'
    BY <1>1, <2>1, <2>2 DEF Fail, Validator!Fail
  <2>4. SameVerdict'
    BY <1>1, <1>6, <2>3 DEF SameVerdict, Matches
  <2>5. result' # Running /\ vresult' # Running
    <3>1. Running.tag = "Running"
      BY DEF Running
    <3>2. last.tag # Running.tag /\ vlast.tag # Running.tag
      BY <1>2, <1>6, <3>1
    <3> QED BY <2>3, <3>2
  <2> QED BY <2>4, <2>5 DEF AgreementInv, Decided, Running
<1> QED BY <1>1, <1>4, <1>5, <1>6 DEF Matches

LEMMA StepAgreement ==
  ASSUME ~Raises, TypeOK, Validator!TypeOK, AgreementInv, [ANext]_agreementVars
  PROVE  AgreementInv'
<1>1. CASE ANext /\ InStep
  BY <1>1, InStepStep DEF ANext
<1>2. CASE ANext /\ result = Running /\ AtLongInt
  <2>1. Fail
    BY <1>2 DEF ANext, AtLongInt, Err, Next, Iterate, Returned, TooDeep, ParseAny, Push,
       ContinueList, ContinueMap, Finish, Resume
  <2> QED BY <1>2, <2>1 DEF Fail, AtLongInt, AgreementInv, StoppedAtLongInt, Err
<1>3. CASE ANext /\ (Decided \/ StoppedAtLongInt)
  <2>1. result # Running
    BY <1>3 DEF Decided, StoppedAtLongInt, Err, Running
  <2>2. UNCHANGED vars
    BY <1>3, <2>1 DEF ANext, Next, Iterate, Returned, TooDeep, ParseAny, Push, ContinueList,
       ContinueMap, Finish, Resume, Fail
  <2>3. CASE StoppedAtLongInt
    BY <2>2, <2>3 DEF StoppedAtLongInt, AgreementInv, vars, Err
  <2>4. CASE Decided
    <3>1. vresult # Validator!Running
      BY <2>4, SameCursor DEF Decided
    <3>2. UNCHANGED Validator!vars
      BY <1>3, <3>1 DEF ANext, Validator!Next, Validator!Iterate, Validator!Returned,
         Validator!TooDeep, Validator!ParseAny, Validator!Push, Validator!ContinueList,
         Validator!ContinueMap, Validator!Finish, Validator!Resume, Validator!Fail
    <3> QED BY <2>2, <2>4, <3>2
            DEF Decided, SameVerdict, AgreementInv, vars, Validator!vars, Running
  <2> QED BY <1>3, <2>3, <2>4
<1>4. CASE UNCHANGED agreementVars
  BY <1>4 DEF agreementVars, AgreementInv, InStep, SameFrames, Matches, AtLongInt, Decided,
     SameVerdict, StoppedAtLongInt, Running, Err
<1> QED BY <1>1, <1>2, <1>3, <1>4 DEF AgreementInv

LEMMA InitAgreement == AInit => AgreementInv /\ Validator!Init
BY SameCursor DEF AInit, Init, AgreementInv, InStep, SameFrames, Matches, Thunk, DoneFrame,
   Validator!Init, Validator!Thunk, Validator!DoneFrame, Running

\* Fragment accepts exactly the texts that loads accepts, and stops at the same
\* place of the others, but for the ints that are too long for Python: for every
\* text and every limit, when Python itself raises nothing.
THEOREM AgreementCorrect ==
  ASSUME ~Raises
  PROVE  ASpec => []FragmentAgreesWithLoads
<1>1. ASpec => Spec
  <2>1. AInit => Init
    BY DEF AInit
  <2>2. [ANext]_agreementVars => [Next]_vars
    BY DEF ANext, agreementVars, vars
  <2> QED BY <2>1, <2>2, PTL DEF ASpec, Spec
<1>2. ASpec => Validator!Spec
  <2>1. AInit => Validator!Init
    BY InitAgreement
  <2>2. [ANext]_agreementVars => [Validator!Next]_Validator!vars
    BY DEF ANext, agreementVars, Validator!vars
  <2> QED BY <2>1, <2>2, PTL DEF ASpec, Validator!Spec
<1>3. AInit => AgreementInv
  BY InitAgreement
<1>4. TypeOK /\ Validator!TypeOK /\ AgreementInv /\ [ANext]_agreementVars => AgreementInv'
  BY StepAgreement
<1>5. AgreementInv => FragmentAgreesWithLoads
  BY DEF AgreementInv, InStep, Decided, FragmentAgreesWithLoads
<1>6. Spec => []TypeOK
  BY LoadsCorrect, PTL
<1>7. Validator!Spec => []Validator!TypeOK
  BY ValidationCorrect, PTL
<1> QED BY <1>1, <1>2, <1>3, <1>4, <1>5, <1>6, <1>7, PTL DEF ASpec
----------------------------------------------------------------------------
(***************************************************************************)
(* loads and the grammar.  Every thunk that waits is a plan, what is left  *)
(* of the document once the value it waits for is known, and the plans of  *)
(* the stack, one inside the other, make of the input that is left what    *)
(* the grammar makes of the whole: the parser is right when it gives the   *)
(* newest plan the value it awaits, and refuses what no plan can use.      *)
(***************************************************************************)
LEMMA PyAnyIsClosed == Closed(PyAny)
<1>1. GoodStrings \cup GoodScalars \subseteq Strings \cup Scalars
  BY GoodTokensAssumption
<1> QED BY <1>1, PyAnyClosed DEF Closed, Leaves

LEMMA MarksDistinct == Distinct
<1>1. GoodStrings \subseteq Strings /\ GoodScalars \subseteq Scalars
  BY GoodTokensAssumption
<1>2. Punctuation \cap (Strings \cup Scalars) = {}
  BY PyTokensAssumption
<1> QED BY <1>1, <1>2 DEF Distinct, Punctuation

\* With a hook, a dict may have been replaced in the value that was built.
Plain(u, w) == Hook \/ u = w

\* h is the plan of thunk f when the one below it has plan g.
ListShadow(f, g, h) == \E l \in Seq(PyAny) : Plain(l, f.list) /\ h = InList(PyAny, l, g)
MapShadow(f, g, h) ==
  f.key \in Keys /\ \E ps \in Seq(Keys \X PyAny) : Plain(DictOf(ps), f.dict) /\ h = InDict(PyAny, ps, f.key, g)
Shadow(f, g, h) ==
  \/ f.op = "ParsingList" /\ ListShadow(f, g, h)
  \/ f.op = "ParsingMap" /\ MapShadow(f, g, h)

\* G holds the plans of the thunks fs, and g is the last of them.
Planned(fs, G) ==
  /\ Len(fs) >= 1 /\ Len(G) = Len(fs)
  /\ G[1] = Start(PyAny)
  /\ \A i \in 2 .. Len(fs) : Shadow(fs[i], G[i - 1], G[i])
Expect(fs, g) == \E G \in Seq(SUBSET Plans(PyAny)) : Planned(fs, G) /\ g = G[Len(fs)]

LEMMA ExpectDone ==
  /\ \A f : Expect(<<f>>, Start(PyAny))
  /\ \A fs, g : Len(fs) = 1 /\ Expect(fs, g) => g = Start(PyAny)
<1>1. ASSUME NEW f PROVE Expect(<<f>>, Start(PyAny))
  <2>1. PICK g \in SUBSET Plans(PyAny) : g = Start(PyAny)
    BY DEF Start
  <2>2. <<g>> \in Seq(SUBSET Plans(PyAny)) /\ Len(<<g>>) = 1 /\ <<g>>[1] = g /\ Len(<<f>>) = 1
    OBVIOUS
  <2>3. PICK G \in Seq(SUBSET Plans(PyAny)) : Len(G) = 1 /\ G[1] = g
    BY <2>2
  <2>4. Planned(<<f>>, G)
    BY <2>1, <2>2, <2>3 DEF Planned
  <2> QED BY <2>1, <2>2, <2>3, <2>4 DEF Expect
<1>2. ASSUME NEW fs, NEW g, Len(fs) = 1, Expect(fs, g) PROVE g = Start(PyAny)
  BY <1>2 DEF Expect, Planned
<1> QED BY <1>1, <1>2

LEMMA AppendParts ==
  ASSUME NEW S, NEW s \in Seq(S), NEW e \in S, NEW n, n = Len(s)
  PROVE  /\ Append(s, e) \in Seq(S) /\ Len(Append(s, e)) = n + 1 /\ Append(s, e)[n + 1] = e
         /\ \A i \in 1 .. n : Append(s, e)[i] = s[i]
BY AppendProperties

LEMMA ExpectPush ==
  ASSUME NEW E, NEW fs \in Seq(E), NEW f, NEW g, NEW h \in SUBSET Plans(PyAny),
         Expect(fs, g), Shadow(f, g, h)
  PROVE  Expect(Append(fs, f), h)
<1> DEFINE F == E \cup {f}
<1>0. fs \in Seq(F) /\ f \in F
  BY SeqMonotonic
<1> HIDE DEF F
<1>1. PICK G \in Seq(SUBSET Plans(PyAny)) : Planned(fs, G) /\ g = G[Len(fs)]
  BY DEF Expect
<1>2. PICK n \in Nat : n = Len(fs) /\ n >= 1 /\ Len(G) = n
  BY <1>1 DEF Planned
<1>3. PICK gs \in Seq(F) : gs = Append(fs, f) /\ Len(gs) = n + 1 /\ gs[n + 1] = f /\ \A i \in 1 .. n : gs[i] = fs[i]
  <2>1. /\ Append(fs, f) \in Seq(F) /\ Len(Append(fs, f)) = n + 1 /\ Append(fs, f)[n + 1] = f
        /\ \A i \in 1 .. n : Append(fs, f)[i] = fs[i]
    BY <1>0, <1>2, AppendParts
  <2> QED BY <2>1
<1>4. PICK H \in Seq(SUBSET Plans(PyAny)) :
        H = Append(G, h) /\ Len(H) = n + 1 /\ H[n + 1] = h /\ \A i \in 1 .. n : H[i] = G[i]
  <2>1. PICK P : P = SUBSET Plans(PyAny)
    OBVIOUS
  <2>2. G \in Seq(P) /\ h \in P /\ Len(G) = n
    BY <1>2, <2>1
  <2>3. /\ Append(G, h) \in Seq(P) /\ Len(Append(G, h)) = n + 1 /\ Append(G, h)[n + 1] = h
        /\ \A i \in 1 .. n : Append(G, h)[i] = G[i]
    BY <2>2, AppendParts
  <2> QED BY <2>1, <2>3
<1>5. ASSUME NEW i \in 2 .. n + 1 PROVE Shadow(gs[i], H[i - 1], H[i])
  <2>1. CASE i = n + 1
    <3>1. i - 1 = n /\ n \in 1 .. n
      BY <1>2, <2>1
    <3> QED BY <1>1, <1>2, <1>3, <1>4, <2>1, <3>1
  <2>2. CASE i # n + 1
    <3>1. i \in 2 .. n
      BY <2>2
    <3>2. i \in 1 .. n /\ i - 1 \in 1 .. n
      BY <3>1
    <3>3. Shadow(fs[i], G[i - 1], G[i])
      BY <1>1, <1>2, <3>1 DEF Planned
    <3> QED BY <1>3, <1>4, <3>2, <3>3
  <2> QED BY <2>1, <2>2
<1>6. H[1] = Start(PyAny)
  BY <1>1, <1>2, <1>4 DEF Planned
<1>7. Planned(gs, H)
  BY <1>2, <1>3, <1>4, <1>5, <1>6 DEF Planned
<1> QED BY <1>3, <1>4, <1>7 DEF Expect

Beneath(fs, h) ==
  \E g \in SUBSET Plans(PyAny) :
    Expect(SubSeq(fs, 1, Len(fs) - 1), g) /\ Shadow(fs[Len(fs)], g, h)

LEMMA ExpectPop ==
  ASSUME NEW F, NEW fs \in Seq(F), NEW h, Expect(fs, h), Len(fs) # 1
  PROVE  Beneath(fs, h)
<1>1. PICK G \in Seq(SUBSET Plans(PyAny)) : Planned(fs, G) /\ h = G[Len(fs)]
  BY DEF Expect
<1>2. PICK n \in Nat : Len(fs) = n + 1 /\ n >= 1 /\ Len(G) = n + 1
  <2>1. Len(fs) \in Nat /\ Len(fs) >= 1 /\ Len(G) = Len(fs)
    BY <1>1 DEF Planned
  <2>2. Len(fs) - 1 \in Nat /\ Len(fs) = (Len(fs) - 1) + 1 /\ Len(fs) - 1 >= 1
    BY <2>1
  <2> QED BY <2>1, <2>2
<1>3. PICK gs : gs = SubSeq(fs, 1, n) /\ Len(gs) = n /\ \A i \in 1 .. n : gs[i] = fs[i]
  <2>1. SubSeq(fs, 1, n) \in Seq(F) /\ Len(SubSeq(fs, 1, n)) = n
    BY <1>2
  <2>2. \A i \in 1 .. n : SubSeq(fs, 1, n)[i] = fs[i]
    BY <1>2
  <2> QED BY <2>1, <2>2
<1>4. PICK H \in Seq(SUBSET Plans(PyAny)) : H = SubSeq(G, 1, n) /\ Len(H) = n /\ \A i \in 1 .. n : H[i] = G[i]
  <2>1. PICK P : P = SUBSET Plans(PyAny)
    OBVIOUS
  <2>2. G \in Seq(P)
    BY <2>1
  <2>3. SubSeq(G, 1, n) \in Seq(P) /\ Len(SubSeq(G, 1, n)) = n
    BY <1>2, <2>2
  <2>4. \A i \in 1 .. n : SubSeq(G, 1, n)[i] = G[i]
    BY <1>2, <2>2
  <2> QED BY <2>1, <2>3, <2>4
<1>5. ASSUME NEW i \in 2 .. n PROVE Shadow(gs[i], H[i - 1], H[i])
  <2>1. i \in 2 .. Len(fs) /\ i \in 1 .. n /\ i - 1 \in 1 .. n
    BY <1>2
  <2>2. Shadow(fs[i], G[i - 1], G[i])
    BY <1>1, <2>1 DEF Planned
  <2> QED BY <1>3, <1>4, <2>1, <2>2
<1>6. H[1] = Start(PyAny)
  <2>1. 1 \in 1 .. n
    BY <1>2
  <2> QED BY <1>1, <1>4, <2>1 DEF Planned
<1>7. Planned(gs, H)
  BY <1>2, <1>3, <1>4, <1>5, <1>6 DEF Planned
<1>8. PICK g \in SUBSET Plans(PyAny) : g = H[n]
  <2>1. n \in 1 .. Len(H)
    BY <1>2, <1>4
  <2> QED BY <2>1, ElementOfSeq
<1>9. Expect(gs, g)
  BY <1>3, <1>7, <1>8 DEF Expect
<1>10. Shadow(fs[n + 1], g, h)
  <2>1. n + 1 \in 2 .. Len(fs) /\ (n + 1) - 1 = n /\ n \in 1 .. n
    BY <1>2
  <2>2. Shadow(fs[n + 1], G[n], G[n + 1])
    BY <1>1, <2>1 DEF Planned
  <2> QED BY <1>1, <1>2, <1>4, <1>8, <2>1, <2>2
<1>11. Len(fs) - 1 = n
  BY <1>2
<1> QED BY <1>2, <1>3, <1>9, <1>10, <1>11 DEF Beneath

\* What r, the result of an iteration that left the cursor at p with the thunks
\* fs waiting, says of the document s.
Document(s) == Values(NoSpace(s))
ReadsThunk(s, p, fs, f) ==
  /\ p <= Len(s) => s[p] # "ws"
  /\ \E g \in SUBSET Plans(PyAny) : Expect(Append(fs, f), g) /\ Document(s) = Await(PyAny, g, Left(s, p))
ReadsValue(s, p, fs, w) ==
  \E g \in SUBSET Plans(PyAny), v \in PyAny :
    Expect(fs, g) /\ Plain(v, w) /\ Document(s) = Given(PyAny, g, v, Left(s, p))
ReadsError(s, r) == (r = Err("Custom") /\ (Raises \/ HoldsLongInt(s))) \/ Document(s) = {}
Reads(s, p, fs, r) ==
  /\ r.tag = "Thunk" => ReadsThunk(s, p, fs, r.op)
  /\ r.tag = "Ok" => ReadsValue(s, p, fs, r.value)
  /\ r.tag = "Err" => ReadsError(s, r)

LEMMA ReadsResult ==
  ASSUME NEW s, NEW p, NEW fs, NEW x
  PROVE  /\ ReadsThunk(s, p, fs, x) => Reads(s, p, fs, Thunk(x))
         /\ ReadsValue(s, p, fs, x) => Reads(s, p, fs, Ok(x))
         /\ Document(s) = {} => Reads(s, p, fs, Err(x))
         /\ Raises \/ HoldsLongInt(s) => Reads(s, p, fs, Err("Custom"))
BY DEF Reads, ReadsError, Thunk, Ok, Err

\* The input at the cursor.
LEMMA AtCursor ==
  ASSUME input \in Seq(Tokens), NEW q \in 1 .. Len(input) + 1, Peek(q) # WS
  PROVE  /\ Peek(q) = Eof => Left(input, q) = <<>>
         /\ Peek(q) # Eof => /\ input[q] = Peek(q) /\ Peek(q) \in Tokens
                             /\ Left(input, q) = Cons(Peek(q), Left(input, q + 1))
                             /\ q + 1 \in 1 .. Len(input) + 1
                             /\ Left(input, q + 1) \in Seq(Tokens)
<1>1. Len(input) \in Nat /\ q \in Nat
  OBVIOUS
<1>2. CASE q = Len(input) + 1
  <2>1. Peek(q) = Eof
    BY <1>1, <1>2 DEF Peek
  <2> QED BY <1>2, <2>1, LeftOver
<1>3. CASE q # Len(input) + 1
  <2>1. q \in 1 .. Len(input) /\ q + 1 \in 1 .. Len(input) + 1
    BY <1>1, <1>3
  <2>2. Peek(q) = input[q]
    BY <2>1 DEF Peek
  <2>3. input[q] \in Tokens /\ input[q] # "ws"
    BY <2>1, <2>2, ElementOfSeq DEF WS
  <2>4. Peek(q) # Eof
    BY <2>2, <2>3, PyTokensAssumption
  <2>5. Left(input, q) = Cons(input[q], Left(input, q + 1)) /\ Left(input, q + 1) \in Seq(Tokens)
    BY <2>1, <2>3, LeftAt
  <2> QED BY <2>1, <2>2, <2>3, <2>4, <2>5
<1> QED BY <1>2, <1>3

LEMMA SkipStops ==
  ASSUME input \in Seq(Tokens), NEW p \in 1 .. Len(input) + 1
  PROVE  /\ SkipWs(p) \in 1 .. Len(input) + 1
         /\ Peek(SkipWs(p)) # WS
         /\ Left(input, SkipWs(p)) = Left(input, p)
<1> DEFINE Stops == {q \in p .. Len(input) + 1 : Peek(q) # WS}
<1>1. Len(input) + 1 \in Stops
  BY PyTokensAssumption DEF Peek, Tokens, WS
<1>2. PICK q \in Stops : \A r \in Stops : q <= r
  <2>1. Stops \in SUBSET Nat /\ Stops # {}
    BY <1>1
  <2> QED BY <2>1, LeastElement
<1>3. \A i \in p .. q - 1 : input[i] = WS
  BY <1>2 DEF Peek
<1>4. \E r \in p .. Len(input) + 1 : Peek(r) # WS /\ \A i \in p .. r - 1 : input[i] = WS
  BY <1>3
<1>5. PICK r : r = SkipWs(p) /\ r \in p .. Len(input) + 1 /\ Peek(r) # WS /\ \A i \in p .. r - 1 : input[i] = WS
  BY <1>4 DEF SkipWs
<1>6. r \in 1 .. Len(input) + 1
  BY <1>5
<1>7. Left(input, r) = Left(input, p)
  BY <1>5, LeftSkips DEF WS
<1> QED BY <1>5, <1>6, <1>7

\* A list or a dict is finished.
LEMMA ReadsFinishedList ==
  ASSUME NEW fs, NEW g \in SUBSET Plans(PyAny), Expect(fs, g), NEW p, NEW l \in Seq(PyAny), NEW w, Plain(l, w),
         Document(input) = Given(PyAny, g, PyList(l), Left(input, p)), FinishListAt(p, w)
  PROVE  Reads(input, pos', fs, last')
<1>1. pos' = p /\ last' \in PyFinishList(w)
  BY DEF FinishListAt
<1>2. last' = Ok(PyList(w)) \/ (last' = Err("Custom") /\ Raises)
  BY <1>1 DEF PyFinishList, Ok, Err
<1>3. PyList(l) \in PyAny
  BY PyAnyClosed
<1>4. Plain(PyList(l), PyList(w))
  BY Zenon DEF Plain
<1>5. ReadsValue(input, p, fs, PyList(w))
  BY <1>3, <1>4 DEF ReadsValue
<1> QED BY <1>1, <1>2, <1>5, ReadsResult

LEMMA ReadsFinishedMap ==
  ASSUME NEW fs, NEW g \in SUBSET Plans(PyAny), Expect(fs, g), NEW p, NEW d \in PyAny, NEW w, Plain(d, w),
         Document(input) = Given(PyAny, g, d, Left(input, p)), FinishMapAt(p, w)
  PROVE  Reads(input, pos', fs, last')
<1>1. pos' = p /\ last' \in PyFinishMap(w)
  BY DEF FinishMapAt
<1>2. last' = Ok(w) \/ (last' = Ok(Hooked(w)) /\ Hook) \/ (last' = Err("Custom") /\ Raises)
  BY <1>1 DEF PyFinishMap, Ok, Err
<1>3. ReadsValue(input, p, fs, w)
  BY DEF ReadsValue
<1>4. ASSUME Hook PROVE ReadsValue(input, p, fs, Hooked(w))
  <2>1. Plain(d, Hooked(w))
    BY <1>4 DEF Plain
  <2> QED BY <2>1 DEF ReadsValue
<1> QED BY <1>1, <1>2, <1>3, <1>4, ReadsResult

LEMMA PlansWithin ==
  /\ \A l, g : InList(PyAny, l, g) \in SUBSET Plans(PyAny)
  /\ \A ps, k, g : InDict(PyAny, ps, k, g) \in SUBSET Plans(PyAny)
<1>1. ASSUME NEW l, NEW g PROVE InList(PyAny, l, g) \subseteq Plans(PyAny)
  BY DEF InList
<1>2. ASSUME NEW ps, NEW k, NEW g PROVE InDict(PyAny, ps, k, g) \subseteq Plans(PyAny)
  BY DEF InDict
<1> QED BY <1>1, <1>2

\* A value is awaited within a list, or at a key of a dict.
LEMMA AwaitsItem ==
  ASSUME NEW E, NEW fs \in Seq(E), NEW g, Expect(fs, g), NEW p, Peek(p) # WS,
         NEW l \in Seq(PyAny), NEW w, Plain(l, w),
         Document(input) = Await(PyAny, InList(PyAny, l, g), Left(input, p))
  PROVE  Reads(input, p, fs, Thunk(ListFrame(w)))
<1>1. PICK f : f = ListFrame(w)
  OBVIOUS
<1>2. f.op = "ParsingList" /\ f.list = w
  BY <1>1 DEF ListFrame
<1>3. PICK h \in SUBSET Plans(PyAny) : h = InList(PyAny, l, g)
  BY PlansWithin
<1>4. Shadow(f, g, h)
  BY <1>2, <1>3 DEF Shadow, ListShadow
<1>5. Expect(Append(fs, f), h)
  BY <1>4, ExpectPush
<1>6. ReadsThunk(input, p, fs, f)
  BY <1>3, <1>5 DEF ReadsThunk, Peek, WS
<1> QED BY <1>1, <1>6, ReadsResult

LEMMA AwaitsEntry ==
  ASSUME NEW E, NEW fs \in Seq(E), NEW g, Expect(fs, g), NEW p, Peek(p) # WS,
         NEW ps \in Seq(Keys \X PyAny), NEW k \in Keys, NEW w, Plain(DictOf(ps), w),
         Document(input) = Await(PyAny, InDict(PyAny, ps, k, g), Left(input, p))
  PROVE  Reads(input, p, fs, Thunk(MapFrame(w, k)))
<1>1. PICK f : f = MapFrame(w, k)
  OBVIOUS
<1>2. f.op = "ParsingMap" /\ f.dict = w /\ f.key = k
  BY <1>1 DEF MapFrame
<1>3. PICK h \in SUBSET Plans(PyAny) : h = InDict(PyAny, ps, k, g)
  BY PlansWithin
<1>4. Shadow(f, g, h)
  BY <1>2, <1>3 DEF Shadow, MapShadow
<1>5. Expect(Append(fs, f), h)
  BY <1>4, ExpectPush
<1>6. ReadsThunk(input, p, fs, f)
  BY <1>3, <1>5 DEF ReadsThunk, Peek, WS
<1> QED BY <1>1, <1>6, ReadsResult

LEMMA MarksAreTokens == "[" \in Tokens /\ "]" \in Tokens /\ "lbrace" \in Tokens /\ "rbrace" \in Tokens
                   /\ ":" \in Tokens /\ "comma" \in Tokens
BY DEF Tokens, Punctuation

LEMMA ReadsList ==
  ASSUME input \in Seq(Tokens), NEW p \in 1 .. Len(input) + 1, NEW E, NEW fs \in Seq(E),
         NEW g \in SUBSET Plans(PyAny), Expect(fs, g),
         Document(input) = Await(PyAny, g, Cons("[", Left(input, p))), ParseList(p)
  PROVE  Reads(input, pos', fs, last')
<1>1. PICK q \in 1 .. Len(input) + 1 : q = SkipWs(p) /\ Peek(q) # WS /\ Left(input, q) = Left(input, p)
  BY SkipStops
<1>2. PICK r \in Seq(Tokens) : r = Left(input, q)
  BY LeftType
<1>3. Document(input) = Await(PyAny, g, Cons("[", r))
  BY <1>1, <1>2
<1>4. PICK l \in Seq(PyAny) : l = <<>>
  BY EmptySeq
<1>5. Plain(l, l)
  BY DEF Plain
<1>6. PICK h \in SUBSET Plans(PyAny) : h = InList(PyAny, l, g)
  BY PlansWithin
<1>7. ASSUME r # <<>> => r[1] # "]" PROVE Document(input) = Await(PyAny, h, r)
  <2>1. Await(PyAny, g, Cons("[", r)) = Await(PyAny, InList(PyAny, <<>>, g), r)
    BY <1>7, MarksDistinct, PyAnyIsClosed, MarksAreTokens, ListFirst
  <2> QED BY <1>3, <1>4, <1>6, <2>1
<1>8. CASE Peek(q) = Eof /\ Yield(q, Err("Eof"))
  <2>1. r = <<>>
    BY <1>1, <1>2, <1>8, AtCursor
  <2>2. Await(PyAny, h, r) = {}
    BY <2>1, NoValue
  <2>3. pos' = q /\ last' = Err("Eof")
    BY <1>8 DEF Yield
  <2> QED BY <1>7, <2>1, <2>2, <2>3, ReadsResult
<1>9. CASE Peek(q) = "]" /\ FinishListAt(q + 1, PyEmptyList)
  <2>1. PICK z \in Seq(Tokens) : z = Left(input, q + 1) /\ r = Cons("]", z)
    <3>1. "]" # Eof
      BY PyTokensAssumption, MarksAreTokens
    <3> QED BY <1>1, <1>2, <1>9, <3>1, AtCursor
  <2>2. Document(input) = Given(PyAny, g, PyList(<<>>), z)
    BY <1>3, <2>1, MarksDistinct, MarksAreTokens, ListEmpty
  <2>3. FinishListAt(q + 1, l)
    BY <1>4, <1>9 DEF PyEmptyList
  <2> QED BY <1>4, <1>5, <2>1, <2>2, <2>3, ReadsFinishedList
<1>10. CASE Peek(q) \notin {Eof, "]"} /\ Yield(q, Thunk(ListFrame(PyEmptyList)))
  <2>1. r # <<>> /\ r[1] = Peek(q)
    <3>1. PICK t \in Tokens, z \in Seq(Tokens) : t = Peek(q) /\ r = Cons(t, z)
      BY <1>1, <1>2, <1>10, AtCursor
    <3> QED BY <3>1, ConsParts
  <2>2. Document(input) = Await(PyAny, InList(PyAny, l, g), Left(input, q))
    BY <1>2, <1>6, <1>7, <1>10, <2>1
  <2>3. Reads(input, q, fs, Thunk(ListFrame(l)))
    BY <1>1, <1>5, <2>2, AwaitsItem
  <2>4. pos' = q /\ last' = Thunk(ListFrame(l))
    BY <1>4, <1>10 DEF Yield, PyEmptyList
  <2> QED BY <2>3, <2>4
<1> QED BY <1>1, <1>8, <1>9, <1>10 DEF ParseList

\* The documents that some entries, a brace and plan g make.
Entries(ps, g, r) == {x \in PyAny : EntriesThen(ps, g, r, x)}

LEMMA NoEntries ==
  ASSUME NEW g \in SUBSET Plans(PyAny), NEW ps \in Seq(Keys \X PyAny), NEW r \in Seq(Tokens),
         r # <<>> => r[1] \notin GoodStrings \/ (Tail(r) # <<>> => Tail(r)[1] # ":")
  PROVE  Entries(ps, g, r) = {}
<1>1. ASSUME NEW x, EntriesThen(ps, g, r, x) PROVE FALSE
  <2>1. Keyed(Tokens, r)
    BY <1>1, PyAnyIsClosed, NoEntry
  <2>2. PICK k \in GoodStrings, z \in Seq(Tokens) : r = Cons(k, Cons(":", z))
    BY <2>1 DEF Keyed
  <2>3. k \in Tokens
    BY GoodTokensAssumption DEF Tokens
  <2>4. PICK y \in Seq(Tokens) : y = Cons(":", z) /\ y # <<>> /\ y[1] = ":"
    BY MarksAreTokens, ConsParts
  <2>5. Cons(k, y) # <<>> /\ Cons(k, y)[1] = k /\ Tail(Cons(k, y)) = y
    BY <2>3, ConsParts
  <2> QED BY <2>2, <2>4, <2>5
<1> QED BY <1>1 DEF Entries

LEMMA ReadsKey ==
  ASSUME input \in Seq(Tokens), NEW p \in 1 .. Len(input) + 1, Peek(p) \in Strings, NEW E, NEW fs \in Seq(E),
         NEW g \in SUBSET Plans(PyAny), Expect(fs, g), NEW ps \in Seq(Keys \X PyAny), NEW m, Plain(DictOf(ps), m),
         Document(input) = Entries(ps, g, Left(input, p)), ParseKey(p, m)
  PROVE  Reads(input, pos', fs, last')
<1>1. PICK t \in Tokens, z \in Seq(Tokens) :
        t = input[p] /\ t \in Strings /\ z = Left(input, p + 1) /\ Left(input, p) = Cons(t, z)
        /\ p + 1 \in 1 .. Len(input) + 1
  <2>1. Peek(p) # Eof /\ Peek(p) # WS
    BY PyTokensAssumption DEF Tokens
  <2> QED BY <2>1, AtCursor
<1>2. PICK r \in Seq(Tokens) : r = Cons(t, z) /\ r # <<>> /\ r[1] = t /\ Tail(r) = z
  BY ConsParts
<1>3. Document(input) = Entries(ps, g, r)
  BY <1>1, <1>2
<1>4. PICK c \in 1 .. Len(input) + 1 : c = SkipWs(p + 1) /\ Peek(c) # WS /\ Left(input, c) = z
  BY <1>1, SkipStops
<1>5. PICK k \in PyParseStr(t) :
        \/ k.tag = "Err" /\ Yield(p + 1, k)
        \/ k.tag = "Ok" /\ Peek(c) # ":" /\ Yield(c, Err("ExpectedMapItem"))
        \/ k.tag = "Ok" /\ Peek(c) = ":" /\ Yield(SkipWs(c + 1), Thunk(MapFrame(m, k.value)))
  BY <1>1, <1>4 DEF ParseKey
<1>6. \/ t \notin GoodStrings /\ k.tag = "Err" /\ \E e : k = Err(e)
      \/ t \in GoodStrings /\ k.tag = "Ok" /\ k.value = Leaf(t)
  BY <1>1, GoodTokensAssumption DEF PyParseStr, Ok, Err
<1>7. CASE k.tag = "Err" /\ Yield(p + 1, k)
  <2>1. Document(input) = {}
    BY <1>2, <1>3, <1>6, <1>7, NoEntries
  <2>2. last' = k
    BY <1>7 DEF Yield
  <2> QED BY <1>6, <1>7, <2>1, <2>2, ReadsResult
<1>8. CASE k.tag = "Ok" /\ Peek(c) # ":" /\ Yield(c, Err("ExpectedMapItem"))
  <2>1. z # <<>> => z[1] # ":"
    <3>1. CASE Peek(c) = Eof
      BY <1>4, <3>1, AtCursor
    <3>2. CASE Peek(c) # Eof
      <4>1. PICK h \in Tokens, y \in Seq(Tokens) : h = Peek(c) /\ z = Cons(h, y)
        BY <1>4, <3>2, AtCursor
      <4>2. Cons(h, y)[1] = h
        BY ConsParts
      <4> QED BY <1>8, <4>1, <4>2
    <3> QED BY <3>1, <3>2
  <2>2. Document(input) = {}
    BY <1>2, <1>3, <2>1, NoEntries
  <2>3. last' = Err("ExpectedMapItem")
    BY <1>8 DEF Yield
  <2> QED BY <2>2, <2>3, ReadsResult
<1>9. CASE k.tag = "Ok" /\ Peek(c) = ":" /\ Yield(SkipWs(c + 1), Thunk(MapFrame(m, k.value)))
  <2>1. PICK y \in Seq(Tokens) : y = Left(input, c + 1) /\ z = Cons(":", y) /\ c + 1 \in 1 .. Len(input) + 1
    <3>1. ":" # Eof
      BY PyTokensAssumption, MarksAreTokens
    <3> QED BY <1>4, <1>9, <3>1, AtCursor
  <2>2. PICK q \in 1 .. Len(input) + 1 : q = SkipWs(c + 1) /\ Peek(q) # WS /\ Left(input, q) = y
    BY <2>1, SkipStops
  <2>3. t \in GoodStrings /\ k.value = Leaf(t)
    BY <1>6, <1>9
  <2>4. PICK key \in Keys : key = Leaf(t)
    BY <2>3 DEF Keys
  <2>5. r = Cons(t, Cons(":", y))
    BY <1>2, <2>1
  <2>6. \A x : EntriesThen(ps, g, Cons(t, Cons(":", y)), x) <=> Awaited(InDict(PyAny, ps, Leaf(t), g), y, x)
    BY <2>3, MarksDistinct, PyAnyIsClosed, MarksAreTokens, EntryFirst
  <2>7. Document(input) = Await(PyAny, InDict(PyAny, ps, key, g), Left(input, q))
    BY <1>3, <2>2, <2>4, <2>5, <2>6 DEF Entries, Await
  <2>8. Reads(input, q, fs, Thunk(MapFrame(m, key)))
    BY <2>2, <2>7, AwaitsEntry
  <2>9. pos' = q /\ last' = Thunk(MapFrame(m, key))
    BY <1>9, <2>2, <2>3, <2>4 DEF Yield
  <2> QED BY <2>8, <2>9
<1> QED BY <1>5, <1>7, <1>8, <1>9

LEMMA ReadsMap ==
  ASSUME input \in Seq(Tokens), NEW p \in 1 .. Len(input) + 1, NEW E, NEW fs \in Seq(E),
         NEW g \in SUBSET Plans(PyAny), Expect(fs, g),
         Document(input) = Await(PyAny, g, Cons("lbrace", Left(input, p))), ParseMap(p)
  PROVE  Reads(input, pos', fs, last')
<1>1. PICK q \in 1 .. Len(input) + 1 : q = SkipWs(p) /\ Peek(q) # WS /\ Left(input, q) = Left(input, p)
  BY SkipStops
<1>2. PICK r \in Seq(Tokens) : r = Left(input, q)
  BY LeftType
<1>3. Document(input) = Await(PyAny, g, Cons("lbrace", r))
  BY <1>1, <1>2
<1>4. PICK ps \in Seq(Keys \X PyAny) : ps = <<>>
  BY EmptySeq
<1>5. DictOf(ps) = PyEmptyMap /\ Plain(DictOf(ps), PyEmptyMap)
  BY <1>4, DictOfNothing DEF Plain, PyEmptyMap
<1>6. ASSUME r # <<>> => r[1] # "rbrace" PROVE Document(input) = Entries(ps, g, r)
  <2>1. \A x : Awaited(g, Cons("lbrace", r), x) <=> EntriesThen(<<>>, g, r, x)
    BY <1>6, MarksDistinct, PyAnyIsClosed, MarksAreTokens, DictFirst
  <2> QED BY <1>3, <1>4, <2>1 DEF Await, Entries
<1>7. CASE Peek(q) = Eof /\ Yield(q, Err("Eof"))
  <2>1. r = <<>>
    BY <1>1, <1>2, <1>7, AtCursor
  <2>2. Entries(ps, g, r) = {}
    BY <2>1, NoEntries
  <2>3. last' = Err("Eof")
    BY <1>7 DEF Yield
  <2> QED BY <1>6, <2>1, <2>2, <2>3, ReadsResult
<1>8. CASE Peek(q) = "rbrace" /\ FinishMapAt(q + 1, PyEmptyMap)
  <2>1. PICK z \in Seq(Tokens) : z = Left(input, q + 1) /\ r = Cons("rbrace", z)
    <3>1. "rbrace" # Eof
      BY PyTokensAssumption, MarksAreTokens
    <3> QED BY <1>1, <1>2, <1>8, <3>1, AtCursor
  <2>2. Document(input) = Given(PyAny, g, PyDict(<<>>, <<>>), z)
    BY <1>3, <2>1, MarksDistinct, MarksAreTokens, DictEmpty
  <2>3. PICK d \in PyAny : d = PyEmptyMap /\ Plain(d, PyEmptyMap)
    <3>1. <<>> \in Seq(PyAny)
      BY EmptySeq
    <3> QED BY <1>5, <3>1, PyAnyClosed DEF PyEmptyMap
  <2>4. Document(input) = Given(PyAny, g, d, Left(input, q + 1))
    BY <2>1, <2>2, <2>3 DEF PyEmptyMap
  <2> QED BY <1>8, <2>3, <2>4, ReadsFinishedMap
<1>9. ASSUME Peek(q) \notin {Eof, "rbrace"} PROVE r # <<>> /\ r[1] = Peek(q) /\ r[1] # "rbrace" /\ Peek(q) \in Tokens
  <2>1. PICK t \in Tokens, z \in Seq(Tokens) : t = Peek(q) /\ r = Cons(t, z)
    BY <1>1, <1>2, <1>9, AtCursor
  <2> QED BY <1>9, <2>1, ConsParts
<1>10. CASE Peek(q) \in Strings /\ ParseKey(q, PyEmptyMap)
  <2>1. Peek(q) \notin {Eof, "rbrace"}
    BY <1>10, PyTokensAssumption DEF Tokens, Punctuation
  <2>2. Document(input) = Entries(ps, g, Left(input, q))
    BY <1>2, <1>6, <1>9, <2>1
  <2> QED BY <1>5, <1>10, <2>2, ReadsKey
<1>11. CASE Peek(q) \notin {Eof, "rbrace"} \cup Strings /\ Yield(q + 1, Err("ExpectedMapItem"))
  <2>1. r[1] \notin GoodStrings
    BY <1>9, <1>11, GoodTokensAssumption
  <2>2. Document(input) = {}
    BY <1>6, <1>9, <1>11, <2>1, NoEntries
  <2>3. last' = Err("ExpectedMapItem")
    BY <1>11 DEF Yield
  <2> QED BY <2>2, <2>3, ReadsResult
<1> QED BY <1>1, <1>7, <1>8, <1>10, <1>11 DEF ParseMap

LEMMA ReadsAny ==
  ASSUME TypeOK, ReadsThunk(input, pos, stack, last.op), ParseAny
  PROVE  Reads(input, pos', stack', last')
<1>1. input \in Seq(Tokens) /\ pos \in 1 .. Len(input) + 1 /\ stack \in Seq(Frames)
  BY DEF TypeOK
<1>2. PICK fs : fs = stack' /\ fs = Append(stack, last.op)
  BY DEF ParseAny, Push
<1>3. PICK E : fs \in Seq(E)
  <2>1. PICK E : E = Frames \cup {last.op}
    OBVIOUS
  <2>2. stack \in Seq(E) /\ last.op \in E
    BY <1>1, <2>1, SeqMonotonic
  <2>3. Append(stack, last.op) \in Seq(E)
    BY <2>2, AppendProperties
  <2> QED BY <1>2, <2>3
<1>4. PICK g \in SUBSET Plans(PyAny) : Expect(fs, g) /\ Document(input) = Await(PyAny, g, Left(input, pos))
  BY <1>2 DEF ReadsThunk
<1>5. Peek(pos) # WS
  BY PyTokensAssumption DEF ReadsThunk, Peek, WS, Tokens
<1>6. PICK r \in Seq(Tokens) : r = Left(input, pos)
  BY <1>1, LeftType
<1>7. CASE Peek(pos) = Eof /\ Yield(pos, Err("Eof"))
  <2>1. r = <<>>
    BY <1>1, <1>5, <1>6, <1>7, AtCursor
  <2>2. Await(PyAny, g, r) = {}
    BY <2>1, NoValue
  <2>3. last' = Err("Eof")
    BY <1>7 DEF Yield
  <2> QED BY <1>2, <1>4, <1>6, <2>2, <2>3, ReadsResult
<1>8. ASSUME Peek(pos) # Eof
      PROVE  /\ pos + 1 \in 1 .. Len(input) + 1 /\ input[pos] = Peek(pos)
             /\ \E t \in Tokens, z \in Seq(Tokens) :
                  t = Peek(pos) /\ z = Left(input, pos + 1) /\ r = Cons(t, z) /\ r # <<>> /\ r[1] = t
  <2>1. PICK t \in Tokens, z \in Seq(Tokens) : t = Peek(pos) /\ z = Left(input, pos + 1) /\ r = Cons(t, z)
    BY <1>1, <1>5, <1>6, <1>8, AtCursor
  <2>2. Cons(t, z) # <<>> /\ Cons(t, z)[1] = t
    BY ConsParts
  <2> QED BY <1>1, <1>5, <1>8, <2>1, <2>2, AtCursor
<1>9. ASSUME NEW k, k.tag \in {"Ok", "Err"}, Peek(pos) \in Strings \cup Scalars, Yield(pos + 1, k),
             \/ Peek(pos) \notin GoodStrings \cup GoodScalars /\ \E e : k = Err(e)
             \/ Peek(pos) \in GoodStrings \cup GoodScalars /\ k = Ok(Leaf(Peek(pos)))
             \/ Peek(pos) \in TooManyDigits /\ k = Err("Custom")
      PROVE  Reads(input, pos', fs, last')
  <2>1. Peek(pos) # Eof /\ Peek(pos) \notin {"[", "lbrace"}
    BY <1>9, PyTokensAssumption DEF Tokens, Punctuation
  <2>2. PICK t \in Tokens, z \in Seq(Tokens) :
          t = Peek(pos) /\ z = Left(input, pos + 1) /\ r = Cons(t, z) /\ r # <<>> /\ r[1] = t
    BY <1>8, <2>1
  <2>3. pos' = pos + 1 /\ last' = k
    BY <1>9 DEF Yield
  <2>4. CASE Peek(pos) \notin GoodStrings \cup GoodScalars /\ \E e : k = Err(e)
    <3>1. Await(PyAny, g, r) = {}
      BY <2>1, <2>2, <2>4, NoValue
    <3> QED BY <1>4, <1>6, <2>3, <2>4, <3>1, ReadsResult
  <2>5. CASE Peek(pos) \in GoodStrings \cup GoodScalars /\ k = Ok(Leaf(Peek(pos)))
    <3>1. Await(PyAny, g, r) = Given(PyAny, g, Leaf(t), z)
      BY <2>2, <2>5, MarksDistinct, LeafStep
    <3>2. PICK v \in PyAny : v = Leaf(t) /\ Plain(v, v)
      BY <2>2, <2>5, PyAnyIsClosed DEF Closed, Plain
    <3>3. ReadsValue(input, pos + 1, fs, v)
      BY <1>4, <1>6, <2>2, <3>1, <3>2 DEF ReadsValue
    <3> QED BY <2>2, <2>3, <2>5, <3>2, <3>3, ReadsResult
  <2>6. CASE Peek(pos) \in TooManyDigits /\ k = Err("Custom")
    <3>1. pos \in DOMAIN input /\ input[pos] \in TooManyDigits
      BY <1>1, <1>8, <2>1, <2>6
    <3>2. HoldsLongInt(input)
      BY <3>1 DEF HoldsLongInt
    <3> QED BY <2>3, <2>6, <3>2, ReadsResult
  <2> QED BY <1>9, <2>4, <2>5, <2>6
<1>10. CASE Peek(pos) \in Scalars /\ \E k \in PyParseScalar(input[pos]) : Yield(pos + 1, k)
  <2>1. PICK k \in PyParseScalar(input[pos]) : Yield(pos + 1, k)
    BY <1>10
  <2>2. Peek(pos) # Eof
    BY <1>10, PyTokensAssumption DEF Tokens
  <2>3. PICK t : t = input[pos] /\ t = Peek(pos)
    BY <1>8, <2>2
  <2>4. \/ t \notin GoodScalars /\ k.tag = "Err" /\ \E e : k = Err(e)
        \/ t \in GoodScalars /\ k.tag = "Ok" /\ k = Ok(Leaf(t))
        \/ t \in TooManyDigits /\ k.tag = "Err" /\ k = Err("Custom")
    BY <1>10, <2>1, <2>3, GoodTokensAssumption DEF PyParseScalar, Ok, Err
  <2>5. t \notin GoodStrings
    BY <1>10, <2>3, PyTokensAssumption, GoodTokensAssumption
  <2> QED BY <1>2, <1>9, <1>10, <2>1, <2>3, <2>4, <2>5
<1>11. CASE Peek(pos) \in Strings /\ \E k \in PyParseStr(input[pos]) : Yield(pos + 1, k)
  <2>1. PICK k \in PyParseStr(input[pos]) : Yield(pos + 1, k)
    BY <1>11
  <2>2. Peek(pos) # Eof
    BY <1>11, PyTokensAssumption DEF Tokens
  <2>3. PICK t : t = input[pos] /\ t = Peek(pos)
    BY <1>8, <2>2
  <2>4. \/ t \notin GoodStrings /\ k.tag = "Err" /\ \E e : k = Err(e)
        \/ t \in GoodStrings /\ k.tag = "Ok" /\ k = Ok(Leaf(t))
    BY <1>11, <2>1, <2>3, GoodTokensAssumption DEF PyParseStr, Ok, Err
  <2>5. t \notin GoodScalars
    BY <1>11, <2>3, PyTokensAssumption, GoodTokensAssumption
  <2> QED BY <1>2, <1>9, <1>11, <2>1, <2>3, <2>4, <2>5
<1>12. CASE Peek(pos) = "[" /\ ParseList(pos + 1)
  <2>1. Peek(pos) # Eof
    BY <1>12, PyTokensAssumption, MarksAreTokens
  <2>2. r = Cons("[", Left(input, pos + 1)) /\ pos + 1 \in 1 .. Len(input) + 1
    BY <1>8, <1>12, <2>1
  <2> QED BY <1>1, <1>2, <1>3, <1>4, <1>6, <1>12, <2>2, ReadsList
<1>13. CASE Peek(pos) = "lbrace" /\ ParseMap(pos + 1)
  <2>1. Peek(pos) # Eof
    BY <1>13, PyTokensAssumption, MarksAreTokens
  <2>2. r = Cons("lbrace", Left(input, pos + 1)) /\ pos + 1 \in 1 .. Len(input) + 1
    BY <1>8, <1>13, <2>1
  <2> QED BY <1>1, <1>2, <1>3, <1>4, <1>6, <1>13, <2>2, ReadsMap
<1>14. CASE /\ Peek(pos) \notin {Eof, "[", "lbrace"} \cup Scalars \cup Strings
            /\ Yield(pos, Err("ExpectedAny"))
  <2>1. r[1] = Peek(pos) /\ r[1] \notin GoodStrings \cup GoodScalars \cup {"[", "lbrace"}
    BY <1>8, <1>14, GoodTokensAssumption
  <2>2. Await(PyAny, g, r) = {}
    BY <2>1, NoValue
  <2>3. last' = Err("ExpectedAny")
    BY <1>14 DEF Yield
  <2> QED BY <1>2, <1>4, <1>6, <2>2, <2>3, ReadsResult
<1> QED BY <1>7, <1>10, <1>11, <1>12, <1>13, <1>14 DEF ParseAny

\* Setting an item is what one more entry denotes.
LEMMA ReadsExtend ==
  ASSUME NEW ps \in Seq(Keys \X PyAny), NEW k \in Keys, NEW v \in PyAny, NEW m, NEW w,
         Plain(DictOf(ps), m), Plain(v, w), NEW r \in PyExtendMap(m, k, w)
  PROVE  \/ r = Err("Custom") /\ Raises
         \/ \E x : r = Ok(x) /\ Plain(DictOf(Append(ps, <<k, v>>)), x)
<1>1. r = Ok(SetItem(m, k, w)) \/ (r = Err("Custom") /\ Raises)
  BY Zenon DEF PyExtendMap, SetItem, Ok, Err
<1>2. DictOf(Append(ps, <<k, v>>)) = SetItem(DictOf(ps), k, v)
  <2>1. PICK U : U = Keys \X PyAny
    OBVIOUS
  <2>2. ps \in Seq(U) /\ <<k, v>> \in U
    BY <2>1
  <2> QED BY <2>2, DictOfAppend
<1>3. Plain(DictOf(Append(ps, <<k, v>>)), SetItem(m, k, w))
  <2>1. CASE Hook
    BY <2>1 DEF Plain
  <2>2. CASE ~Hook
    BY <1>2, <2>2, Zenon DEF Plain
  <2> QED BY <2>1, <2>2
<1> QED BY <1>1, <1>3


\* The newest thunk, and the plans of the others.
Resumed(op, h) ==
  \E g \in SUBSET Plans(PyAny) :
    /\ Expect(stack', g)
    /\ op = "ParsingList" => ListShadow(Top, g, h)
    /\ op = "ParsingMap" => MapShadow(Top, g, h)

LEMMA ResumedPlan ==
  ASSUME TypeOK, NEW op \in {"ParsingList", "ParsingMap"}, Resume(op), NEW h, Expect(stack, h)
  PROVE  Resumed(op, h) /\ stack' \in Seq(Frames)
<1>1. PICK fs \in Seq(Frames) : fs = stack
  BY DEF TypeOK
<1>2. fs # <<>> /\ Top = fs[Len(fs)] /\ Top.op = op /\ stack' = SubSeq(fs, 1, Len(fs) - 1)
  BY <1>1 DEF Resume, Top, Pop
<1>3. Len(fs) # 1
  <2>1. \A i \in 1 .. Len(fs) : fs[i].op = "Done" <=> i = 1
    BY <1>1 DEF TypeOK
  <2>2. Len(fs) \in 1 .. Len(fs)
    BY <1>2
  <2>3. fs[Len(fs)].op # "Done"
    BY <1>2
  <2> QED BY <2>1, <2>2, <2>3
<1>4. Beneath(fs, h)
  BY <1>1, <1>3, ExpectPop
<1>5. PICK g \in SUBSET Plans(PyAny) : Expect(stack', g) /\ Shadow(Top, g, h)
  BY <1>2, <1>4 DEF Beneath
<1>6. Resumed(op, h)
  BY <1>2, <1>5 DEF Resumed, Shadow
<1>7. stack' \in Seq(Frames)
  <2>1. Len(fs) \in Nat \ {0}
    BY <1>2
  <2>2. SubSeq(fs, 1, Len(fs) - 1) \in Seq(Frames)
    BY <2>1
  <2> QED BY <1>2, <2>2
<1> QED BY <1>6, <1>7

LEMMA ReadsNextItem ==
  ASSUME TypeOK, ReadsValue(input, pos, stack, last.value), ContinueList
  PROVE  Reads(input, pos', stack', last')
<1>1. input \in Seq(Tokens) /\ pos \in 1 .. Len(input) + 1
  BY DEF TypeOK
<1>2. PICK h \in SUBSET Plans(PyAny), v \in PyAny :
        Expect(stack, h) /\ Plain(v, last.value) /\ Document(input) = Given(PyAny, h, v, Left(input, pos))
  BY DEF ReadsValue
<1>3. Resumed("ParsingList", h) /\ stack' \in Seq(Frames)
  BY <1>2, ResumedPlan DEF ContinueList
<1>4. PICK fs \in Seq(Frames) : fs = stack'
  BY <1>3
<1>5. PICK g \in SUBSET Plans(PyAny) : Expect(fs, g) /\ ListShadow(Top, g, h)
  BY <1>3, <1>4 DEF Resumed
<1>6. PICK l \in Seq(PyAny) : Plain(l, Top.list) /\ h = InList(PyAny, l, g)
  BY <1>5 DEF ListShadow
<1>7. PICK j \in Seq(PyAny) : j = Append(l, v)
  BY AppendProperties
<1>8. PICK w : w = PyExtendList(Top.list, last.value) /\ Plain(j, w)
  <2>1. Plain(j, Append(Top.list, last.value))
    BY <1>2, <1>6, <1>7, Zenon DEF Plain
  <2> QED BY <2>1 DEF PyExtendList
<1>9. PICK q \in 1 .. Len(input) + 1 : q = SkipWs(pos) /\ Peek(q) # WS /\ Left(input, q) = Left(input, pos)
  BY <1>1, SkipStops
<1>10. PICK r \in Seq(Tokens) : r = Left(input, q)
  BY <1>1, LeftType
<1>11. Document(input) = Given(PyAny, InList(PyAny, l, g), v, r)
  BY <1>2, <1>6, <1>9, <1>10
<1>12. \/ Peek(q) = Eof /\ Yield(q, Err("Eof"))
       \/ Peek(q) = "]" /\ FinishListAt(q + 1, w)
       \/ Peek(q) = "comma" /\ Yield(SkipWs(q + 1), Thunk(ListFrame(w)))
       \/ Peek(q) \notin {Eof, "]", "comma"} /\ Yield(q + 1, Err("ExpectedListItem"))
  BY <1>8, <1>9 DEF ContinueList
<1>13. CASE Peek(q) = Eof /\ Yield(q, Err("Eof"))
  <2>1. r = <<>>
    BY <1>1, <1>9, <1>10, <1>13, AtCursor
  <2>2. Document(input) = {}
    BY <1>11, <2>1, ListOver
  <2>3. last' = Err("Eof")
    BY <1>13 DEF Yield
  <2> QED BY <2>2, <2>3, ReadsResult
<1>14. ASSUME Peek(q) # Eof
       PROVE  \E z \in Seq(Tokens) :
                /\ z = Left(input, q + 1) /\ q + 1 \in 1 .. Len(input) + 1
                /\ Document(input) = IF Peek(q) = "]" THEN Given(PyAny, g, PyList(j), z)
                                     ELSE IF Peek(q) = "comma" THEN Await(PyAny, InList(PyAny, j, g), z)
                                     ELSE {}
  <2>1. PICK t \in Tokens, z \in Seq(Tokens) :
          t = Peek(q) /\ z = Left(input, q + 1) /\ r = Cons(t, z) /\ q + 1 \in 1 .. Len(input) + 1
    BY <1>1, <1>9, <1>10, <1>14, AtCursor
  <2>2. Given(PyAny, InList(PyAny, l, g), v, Cons(t, z)) =
          IF t = "]" THEN Given(PyAny, g, PyList(Append(l, v)), z)
          ELSE IF t = "comma" THEN Await(PyAny, InList(PyAny, Append(l, v), g), z)
          ELSE {}
    BY MarksDistinct, PyAnyIsClosed, ListNext
  <2> QED BY <1>7, <1>11, <2>1, <2>2
<1>15. "]" # Eof /\ "comma" # Eof
  BY PyTokensAssumption, MarksAreTokens
<1>16. CASE Peek(q) = "]" /\ FinishListAt(q + 1, w)
  <2>1. Document(input) = Given(PyAny, g, PyList(j), Left(input, q + 1))
    BY <1>14, <1>15, <1>16
  <2> QED BY <1>4, <1>5, <1>8, <1>16, <2>1, ReadsFinishedList
<1>17. CASE Peek(q) = "comma" /\ Yield(SkipWs(q + 1), Thunk(ListFrame(w)))
  <2>1. q + 1 \in 1 .. Len(input) + 1 /\ Document(input) = Await(PyAny, InList(PyAny, j, g), Left(input, q + 1))
    BY <1>14, <1>15, <1>17
  <2>2. PICK p : p = SkipWs(q + 1) /\ Peek(p) # WS /\ Left(input, p) = Left(input, q + 1)
    BY <1>1, <2>1, SkipStops
  <2>3. Reads(input, p, fs, Thunk(ListFrame(w)))
    BY <1>5, <1>8, <2>1, <2>2, AwaitsItem
  <2>4. pos' = p /\ last' = Thunk(ListFrame(w))
    BY <1>17, <2>2 DEF Yield
  <2> QED BY <1>4, <2>3, <2>4
<1>18. CASE Peek(q) \notin {Eof, "]", "comma"} /\ Yield(q + 1, Err("ExpectedListItem"))
  <2>1. Document(input) = {}
    BY <1>14, <1>18
  <2>2. last' = Err("ExpectedListItem")
    BY <1>18 DEF Yield
  <2> QED BY <2>1, <2>2, ReadsResult
<1> QED BY <1>12, <1>13, <1>16, <1>17, <1>18

LEMMA ReadsNextEntry ==
  ASSUME TypeOK, ReadsValue(input, pos, stack, last.value), ContinueMap
  PROVE  Reads(input, pos', stack', last')
<1>1. input \in Seq(Tokens) /\ pos \in 1 .. Len(input) + 1
  BY DEF TypeOK
<1>2. PICK h \in SUBSET Plans(PyAny), v \in PyAny :
        Expect(stack, h) /\ Plain(v, last.value) /\ Document(input) = Given(PyAny, h, v, Left(input, pos))
  BY DEF ReadsValue
<1>3. Resumed("ParsingMap", h) /\ stack' \in Seq(Frames)
  BY <1>2, ResumedPlan DEF ContinueMap
<1>4. PICK fs \in Seq(Frames) : fs = stack'
  BY <1>3
<1>5. PICK g \in SUBSET Plans(PyAny) : Expect(fs, g) /\ MapShadow(Top, g, h)
  BY <1>3, <1>4 DEF Resumed
<1>6. PICK key \in Keys : key = Top.key
  BY <1>5 DEF MapShadow
<1>7. PICK ps \in Seq(Keys \X PyAny) : Plain(DictOf(ps), Top.dict) /\ h = InDict(PyAny, ps, key, g)
  BY <1>5, <1>6 DEF MapShadow
<1>8. PICK es \in Seq(Keys \X PyAny) : es = Append(ps, <<key, v>>)
  <2>1. PICK U : U = Keys \X PyAny
    OBVIOUS
  <2>2. PICK e \in U : e = <<key, v>>
    BY <2>1
  <2>3. ps \in Seq(U)
    BY <2>1
  <2>4. Append(ps, e) \in Seq(U)
    BY <2>3, AppendProperties
  <2> QED BY <2>1, <2>2, <2>4
<1>9. PICK q \in 1 .. Len(input) + 1 : q = SkipWs(pos) /\ Peek(q) # WS /\ Left(input, q) = Left(input, pos)
  BY <1>1, SkipStops
<1>10. PICK r \in Seq(Tokens) : r = Left(input, q)
  BY <1>1, LeftType
<1>11. Document(input) = Given(PyAny, InDict(PyAny, ps, key, g), v, r)
  BY <1>2, <1>7, <1>9, <1>10
<1>12. PICK k : k = SkipWs(q + 1)
  OBVIOUS
<1>13. PICK m \in PyExtendMap(Top.dict, Top.key, last.value) :
         \/ m.tag = "Err" /\ Yield(pos, m)
         \/ /\ m.tag = "Ok"
            /\ \/ Peek(q) = Eof /\ Yield(q, Err("Eof"))
               \/ Peek(q) = "rbrace" /\ FinishMapAt(q + 1, m.value)
               \/ Peek(q) = "comma" /\ Peek(k) \in Strings /\ ParseKey(k, m.value)
               \/ Peek(q) = "comma" /\ Peek(k) \notin Strings /\ Yield(k, Err("ExpectedMapItem"))
               \/ Peek(q) \notin {Eof, "rbrace", "comma"} /\ Yield(q + 1, Err("ExpectedMapItem"))
  BY <1>9, <1>12 DEF ContinueMap
<1>14. \/ m = Err("Custom") /\ Raises
       \/ \E x : m = Ok(x) /\ Plain(DictOf(es), x)
  <2>1. PICK m0, w0 : m0 = Top.dict /\ w0 = last.value
    OBVIOUS
  <2>2. m \in PyExtendMap(m0, key, w0) /\ Plain(DictOf(ps), m0) /\ Plain(v, w0)
    BY <1>2, <1>6, <1>7, <2>1
  <2>3. \/ m = Err("Custom") /\ Raises
        \/ \E x : m = Ok(x) /\ Plain(DictOf(Append(ps, <<key, v>>)), x)
    BY <2>2, ReadsExtend
  <2> QED BY <1>8, <2>3, Zenon
<1>15. CASE m.tag = "Err" /\ Yield(pos, m)
  <2>1. m = Err("Custom") /\ Raises
    BY <1>14, <1>15 DEF Ok
  <2>2. last' = m
    BY <1>15 DEF Yield
  <2> QED BY <2>1, <2>2, ReadsResult
<1>16. PICK w : w = m.value
  OBVIOUS
<1>17. m.tag = "Ok" => Plain(DictOf(es), w)
  BY <1>14, <1>16 DEF Ok, Err
<1>18. CASE m.tag = "Ok" /\ Peek(q) = Eof /\ Yield(q, Err("Eof"))
  <2>1. r = <<>>
    BY <1>1, <1>9, <1>10, <1>18, AtCursor
  <2>2. Document(input) = {}
    BY <1>11, <2>1, DictOver
  <2>3. last' = Err("Eof")
    BY <1>18 DEF Yield
  <2> QED BY <2>2, <2>3, ReadsResult
<1>19. ASSUME Peek(q) # Eof
       PROVE  /\ q + 1 \in 1 .. Len(input) + 1
              /\ Peek(q) = "rbrace" => Document(input) = Given(PyAny, g, DictOf(es), Left(input, q + 1))
              /\ Peek(q) = "comma" => Document(input) = Entries(es, g, Left(input, q + 1))
              /\ Peek(q) \notin {"rbrace", "comma"} => Document(input) = {}
  <2>1. PICK t \in Tokens, z \in Seq(Tokens) :
          t = Peek(q) /\ z = Left(input, q + 1) /\ r = Cons(t, z) /\ q + 1 \in 1 .. Len(input) + 1
    BY <1>1, <1>9, <1>10, <1>19, AtCursor
  <2>2. ASSUME NEW x \in PyAny
        PROVE  <<v, r, x>> \in InDict(PyAny, ps, key, g) <=>
                 (t = "rbrace" /\ <<DictOf(es), z, x>> \in g) \/ (t = "comma" /\ EntriesThen(es, g, z, x))
    <3>1. <<v, Cons(t, z), x>> \in InDict(PyAny, ps, key, g) <=>
            \/ t = "rbrace" /\ <<DictOf(Append(ps, <<key, v>>)), z, x>> \in g
            \/ t = "comma" /\ EntriesThen(Append(ps, <<key, v>>), g, z, x)
      BY PyAnyIsClosed, DictNext
    <3> QED BY <1>8, <2>1, <3>1, Zenon
  <2>3. ASSUME t = "rbrace" PROVE Document(input) = Given(PyAny, g, DictOf(es), z)
    BY <1>11, <2>2, <2>3 DEF Given
  <2>4. ASSUME t = "comma" PROVE Document(input) = Entries(es, g, z)
    BY <1>11, <2>2, <2>4 DEF Given, Entries
  <2>5. ASSUME t \notin {"rbrace", "comma"} PROVE Document(input) = {}
    BY <1>11, <2>2, <2>5 DEF Given
  <2> QED BY <2>1, <2>3, <2>4, <2>5
<1>20. "rbrace" # Eof /\ "comma" # Eof
  BY PyTokensAssumption, MarksAreTokens
<1>21. CASE m.tag = "Ok" /\ Peek(q) = "rbrace" /\ FinishMapAt(q + 1, m.value)
  <2>1. Document(input) = Given(PyAny, g, DictOf(es), Left(input, q + 1))
    BY <1>19, <1>20, <1>21
  <2>2. PICK d \in PyAny : d = DictOf(es)
    <3>1. Keys \subseteq PyAny
      BY GoodTokensAssumption, PyAnyClosed DEF Keys, Leaves
    <3>2. DictOf(es) \in Dicts(Keys, PyAny)
      BY DictOfType
    <3>3. PICK ks \in Seq(Keys), vs \in Seq(PyAny) : DictOf(es) = PyDict(ks, vs)
      BY <3>2 DEF Dicts
    <3>4. ks \in Seq(PyAny)
      BY <3>1, SeqMonotonic
    <3> QED BY <3>3, <3>4, PyAnyClosed
  <2> QED BY <1>4, <1>5, <1>16, <1>17, <1>21, <2>1, <2>2, ReadsFinishedMap
<1>22. ASSUME Peek(q) = "comma"
       PROVE  k \in 1 .. Len(input) + 1 /\ Peek(k) # WS /\ Document(input) = Entries(es, g, Left(input, k))
  <2>1. q + 1 \in 1 .. Len(input) + 1 /\ Document(input) = Entries(es, g, Left(input, q + 1))
    BY <1>19, <1>20, <1>22
  <2>2. SkipWs(q + 1) \in 1 .. Len(input) + 1 /\ Peek(SkipWs(q + 1)) # WS /\ Left(input, SkipWs(q + 1)) = Left(input, q + 1)
    BY <1>1, <2>1, SkipStops
  <2> QED BY <1>12, <2>1, <2>2
<1>23. CASE m.tag = "Ok" /\ Peek(q) = "comma" /\ Peek(k) \in Strings /\ ParseKey(k, m.value)
  BY <1>1, <1>4, <1>5, <1>16, <1>17, <1>22, <1>23, ReadsKey
<1>24. CASE m.tag = "Ok" /\ Peek(q) = "comma" /\ Peek(k) \notin Strings /\ Yield(k, Err("ExpectedMapItem"))
  <2>1. PICK z \in Seq(Tokens) : z = Left(input, k)
    BY <1>1, <1>22, <1>24, LeftType
  <2>2. z # <<>> => z[1] \notin GoodStrings
    <3>1. CASE Peek(k) = Eof
      BY <1>1, <1>22, <1>24, <2>1, <3>1, AtCursor
    <3>2. CASE Peek(k) # Eof
      <4>1. PICK c \in Tokens, y \in Seq(Tokens) : c = Peek(k) /\ z = Cons(c, y)
        BY <1>1, <1>22, <1>24, <2>1, <3>2, AtCursor
      <4>2. Cons(c, y)[1] = c
        BY ConsParts
      <4> QED BY <1>24, <4>1, <4>2, GoodTokensAssumption
    <3> QED BY <3>1, <3>2
  <2>3. Entries(es, g, z) = {}
    BY <2>2, NoEntries
  <2>4. last' = Err("ExpectedMapItem")
    BY <1>24 DEF Yield
  <2> QED BY <1>22, <1>24, <2>1, <2>3, <2>4, ReadsResult
<1>25. CASE m.tag = "Ok" /\ Peek(q) \notin {Eof, "rbrace", "comma"} /\ Yield(q + 1, Err("ExpectedMapItem"))
  <2>1. Document(input) = {}
    BY <1>19, <1>25
  <2>2. last' = Err("ExpectedMapItem")
    BY <1>25 DEF Yield
  <2> QED BY <2>1, <2>2, ReadsResult
<1> QED BY <1>13, <1>15, <1>18, <1>21, <1>23, <1>24, <1>25

\* The last iteration: the value of the whole document.
LEMMA ReadsFinish ==
  ASSUME TypeOK, ReadsValue(input, pos, stack, last.value), Finish
  PROVE  ReadsJson'
<1>1. input \in Seq(Tokens) /\ pos \in 1 .. Len(input) + 1 /\ input' = input
  BY DEF TypeOK, Finish, Resume
<1>2. PICK g \in SUBSET Plans(PyAny), v \in PyAny :
        Expect(stack, g) /\ Plain(v, last.value) /\ Document(input) = Given(PyAny, g, v, Left(input, pos))
  BY DEF ReadsValue
<1>3. Len(stack) = 1
  <2>1. stack # <<>> /\ stack[Len(stack)].op = "Done" /\ stack \in Seq(Frames)
    BY DEF Finish, Resume, Top, TypeOK
  <2>2. Len(stack) \in 1 .. Len(stack)
    BY <2>1
  <2> QED BY <2>1, <2>2 DEF TypeOK
<1>4. g = Start(PyAny)
  BY <1>2, <1>3, ExpectDone
<1>5. PICK q \in 1 .. Len(input) + 1 : q = SkipWs(pos) /\ Peek(q) # WS /\ Left(input, q) = Left(input, pos)
  BY <1>1, SkipStops
<1>6. PICK r \in Seq(Tokens) : r = Left(input, q)
  BY <1>1, LeftType
<1>7. Document(input) = Given(PyAny, Start(PyAny), v, r)
  BY <1>2, <1>4, <1>5, <1>6
<1>8. Document(input) = IF r = <<>> THEN {v} ELSE {}
  <2>1. \A x : <<v, r, x>> \in Start(PyAny) <=> v \in PyAny /\ r = <<>> /\ x = v
    BY StartIs
  <2> QED BY <1>7, <2>1 DEF Given
<1>9. \/ Peek(q) = Eof /\ result' = Ok(last.value)
      \/ Peek(q) # Eof /\ result' = Err("ExpectedEof")
  BY <1>1, <1>5 DEF Finish, Peek
<1>10. CASE Peek(q) = Eof /\ result' = Ok(last.value)
  <2>1. r = <<>>
    BY <1>1, <1>5, <1>6, <1>10, AtCursor
  <2>2. Document(input) = {v}
    BY <1>8, <2>1
  <2>3. Hook \/ v = last.value
    BY <1>2, Zenon DEF Plain
  <2>4. result'.tag = "Ok" /\ result'.value = last.value
    BY <1>10 DEF Ok
  <2>5. Values(NoSpace(input')) = {v}
    BY <1>1, <2>2 DEF Document
  <2> QED BY <2>3, <2>4, <2>5 DEF ReadsJson
<1>11. CASE Peek(q) # Eof /\ result' = Err("ExpectedEof")
  <2>1. PICK t \in Tokens, z \in Seq(Tokens) : r = Cons(t, z)
    BY <1>1, <1>5, <1>6, <1>11, AtCursor
  <2>2. r # <<>>
    BY <2>1, ConsParts
  <2>3. Values(NoSpace(input')) = {}
    BY <1>1, <1>8, <2>2 DEF Document
  <2>4. result'.tag = "Err"
    BY <1>11 DEF Err
  <2> QED BY <2>3, <2>4 DEF ReadsJson
<1> QED BY <1>9, <1>10, <1>11

\* While the loop runs, what the iteration left says what the document is.
ReadInv == (result = Running => Reads(input, pos, stack, last)) /\ ReadsJson

LEMMA RunningReadsNothing == result = Running => ReadsJson
BY DEF ReadsJson, Running

LEMMA InitReadInv == TypeOK /\ Init => ReadInv
<1> SUFFICES ASSUME TypeOK, Init PROVE ReadInv
  OBVIOUS
<1>1. input \in Seq(Tokens) /\ pos = SkipWs(1) /\ stack = <<>> /\ last = Thunk(DoneFrame) /\ result = Running
  BY DEF TypeOK, Init
<1>2. 1 \in 1 .. Len(input) + 1
  BY <1>1
<1>3. pos \in 1 .. Len(input) + 1 /\ Peek(pos) # WS /\ Left(input, pos) = Left(input, 1)
  BY <1>1, <1>2, SkipStops
<1>4. Left(input, pos) = NoSpace(input)
  BY <1>1, <1>3, LeftWhole
<1>5. Document(input) = Await(PyAny, Start(PyAny), Left(input, pos))
  <2>1. PICK r : r = NoSpace(input)
    OBVIOUS
  <2>2. Await(PyAny, Start(PyAny), r) = Values(r)
    BY PyAnyIsClosed, WholeText
  <2> QED BY <1>4, <2>1, <2>2 DEF Document
<1>6. PICK f : f = DoneFrame
  OBVIOUS
<1>7. Append(stack, f) = <<f>>
  BY <1>1
<1>8. Expect(Append(stack, f), Start(PyAny))
  BY <1>7, ExpectDone
<1>9. PICK g \in SUBSET Plans(PyAny) : g = Start(PyAny)
  BY DEF Start
<1>10. ReadsThunk(input, pos, stack, f)
  BY <1>3, <1>5, <1>8, <1>9 DEF ReadsThunk, Peek, WS
<1>11. Reads(input, pos, stack, Thunk(f))
  BY <1>10, ReadsResult
<1> QED BY <1>1, <1>6, <1>11, RunningReadsNothing DEF ReadInv

LEMMA StepReadInv == TypeOK /\ ReadInv /\ [Next]_vars => ReadInv'
<1> SUFFICES ASSUME TypeOK, ReadInv, [Next]_vars PROVE ReadInv'
  OBVIOUS
<1>1. ASSUME result = Running
      PROVE  /\ last.tag = "Thunk" => ReadsThunk(input, pos, stack, last.op)
             /\ last.tag = "Ok" => ReadsValue(input, pos, stack, last.value)
             /\ last.tag = "Err" => ReadsError(input, last)
  BY <1>1 DEF ReadInv, Reads
<1>2. ASSUME input' = input, result' = result, result = Running, Reads(input, pos', stack', last')
      PROVE  ReadInv'
  <2>1. ReadsJson'
    BY <1>2 DEF ReadsJson, Running
  <2> QED BY <1>2, <2>1 DEF ReadInv
<1>3. ASSUME input' = input, ReadsJson', result'.tag \in {"Ok", "Err"} PROVE ReadInv'
  BY <1>3 DEF ReadInv, Running
<1>4. CASE TooDeep
  <2>1. input' = input /\ result' = Err("DepthLimitExceeded")
    BY <1>4 DEF TooDeep
  <2>2. ReadsJson' /\ result'.tag = "Err"
    BY <2>1 DEF ReadsJson, Err
  <2> QED BY <1>3, <2>1, <2>2
<1>5. CASE ParseAny
  <2>1. input' = input /\ result' = result /\ result = Running /\ last.tag = "Thunk"
    BY <1>5 DEF ParseAny, Push
  <2> QED BY <1>1, <1>2, <1>5, <2>1, ReadsAny
<1>6. CASE ContinueList
  <2>1. input' = input /\ result' = result /\ result = Running /\ last.tag = "Ok"
    BY <1>6 DEF ContinueList, Resume
  <2> QED BY <1>1, <1>2, <1>6, <2>1, ReadsNextItem
<1>7. CASE ContinueMap
  <2>1. input' = input /\ result' = result /\ result = Running /\ last.tag = "Ok"
    BY <1>7 DEF ContinueMap, Resume
  <2> QED BY <1>1, <1>2, <1>7, <2>1, ReadsNextEntry
<1>8. CASE Finish
  <2>1. input' = input /\ result = Running /\ last.tag = "Ok"
    BY <1>8 DEF Finish, Resume
  <2>2. result'.tag \in {"Ok", "Err"}
    BY <1>8 DEF Finish, Ok, Err
  <2> QED BY <1>1, <1>3, <1>8, <2>1, <2>2, ReadsFinish
<1>9. CASE Fail
  <2>1. input' = input /\ result = Running /\ last.tag = "Err" /\ result' = last
    BY <1>9 DEF Fail
  <2>2. ReadsJson'
    BY <1>1, <2>1 DEF ReadsError, Document, ReadsJson
  <2> QED BY <1>3, <2>1, <2>2
<1>10. CASE UNCHANGED vars
  BY <1>10 DEF vars, ReadInv, ReadsJson
<1> QED BY <1>4, <1>5, <1>6, <1>7, <1>8, <1>9, <1>10 DEF Next, Iterate, Returned
----------------------------------------------------------------------------
(***************************************************************************)
(* The depth of a text: where the grammar counts the brackets of the text  *)
(* without its whitespace, the parser's invariant counts those of the      *)
(* document.                                                               *)
(***************************************************************************)
Opens == {"[", "lbrace"}
Closes == {"]", "rbrace"}

\* The lemmas of ParserProofs that are needed here.
LEMMA ProvedPlaces ==
  ASSUME NEW s, NEW S, NEW p \in Nat \ {0}
  PROVE  /\ Proved!Cardinality(Proved!Places(s, p - 1, S)) \in Nat
         /\ s[p] \in S => Proved!Cardinality(Proved!Places(s, p, S))
                          = Proved!Cardinality(Proved!Places(s, p - 1, S)) + 1
         /\ s[p] \notin S => Proved!Cardinality(Proved!Places(s, p, S))
                             = Proved!Cardinality(Proved!Places(s, p - 1, S))
         /\ Proved!Cardinality(Proved!Places(s, 0, S)) = 0
BY PyIsParser, PyIsDeserialization, Proved!OneMorePlace, Proved!NoPlace

LEMMA ProvedUnclosed ==
  /\ Proved!Unclosed(0) = 0
  /\ \A p \in Nat \ {0} :
       /\ Proved!Unclosed(p - 1) \in Int
       /\ input[p] \in Opens => Proved!Unclosed(p) = Proved!Unclosed(p - 1) + 1
       /\ input[p] \in Closes => Proved!Unclosed(p) = Proved!Unclosed(p - 1) - 1
       /\ input[p] \notin Opens \cup Closes => Proved!Unclosed(p) = Proved!Unclosed(p - 1)
<1>1. Proved!Brackets = Opens \cup Closes
  BY DEF Opens, Closes, Proved!Brackets
<1> QED BY <1>1, PyIsParser, PyIsDeserialization, Proved!UnclosedNothing, Proved!UnclosedBracket
        DEF Opens, Closes

LEMMA SameCardinality == \A S : Finite!Cardinality(S) = Proved!Cardinality(S)
BY Zenon DEF Finite!Cardinality, Proved!Cardinality

LEMMA OpenPlaces ==
  ASSUME NEW T, NEW u \in Seq(T)
  PROVE  Open(u) = Proved!Cardinality(Proved!Places(u, Len(u), Opens))
                   - Proved!Cardinality(Proved!Places(u, Len(u), Closes))
<1>1. DOMAIN u = 1 .. Len(u)
  OBVIOUS
<1>2. \A S : Count(u, S) = Finite!Cardinality(Proved!Places(u, Len(u), S))
  BY <1>1 DEF Count, Proved!Places
<1> QED BY <1>2, SameCardinality DEF Open, Opens, Closes

\* One more token adds or takes away what it opens or closes.
Opened(k, t) == IF t \in Opens THEN k + 1 ELSE IF t \in Closes THEN k - 1 ELSE k

LEMMA OpenNothing == Open(<<>>) = 0
<1>1. <<>> \in Seq({}) /\ Len(<<>>) = 0
  OBVIOUS
<1>2. PICK u \in Seq({}) : u = <<>> /\ Len(u) = 0
  BY <1>1
<1>3. PICK p : p = 1 /\ p \in Nat \ {0}
  OBVIOUS
<1>4. Proved!Cardinality(Proved!Places(u, 0, Opens)) = 0
  BY <1>3, ProvedPlaces
<1>5. Proved!Cardinality(Proved!Places(u, 0, Closes)) = 0
  BY <1>3, ProvedPlaces
<1>6. Open(u) = Proved!Cardinality(Proved!Places(u, Len(u), Opens))
                - Proved!Cardinality(Proved!Places(u, Len(u), Closes))
  BY OpenPlaces
<1> QED BY <1>2, <1>4, <1>5, <1>6

LEMMA OpenAppend ==
  ASSUME NEW T, NEW u \in Seq(T), NEW t \in T
  PROVE  Open(u) \in Int /\ Open(Append(u, t)) = Opened(Open(u), t)
<1>2. PICK n \in Nat : n = Len(u)
  OBVIOUS
<1>1. PICK v \in Seq(T) : v = Append(u, t)
  BY <1>2, AppendParts
<1>3. Len(v) = n + 1 /\ v[n + 1] = t /\ \A i \in 1 .. n : v[i] = u[i]
  BY <1>1, <1>2, AppendParts
<1>4. \A S : Proved!Places(v, n, S) = Proved!Places(u, n, S)
  BY <1>3 DEF Proved!Places
<1> DEFINE C(w, k, S) == Proved!Cardinality(Proved!Places(w, k, S))
<1>5. ASSUME NEW S
      PROVE  /\ C(u, n, S) \in Int
             /\ t \in S => C(v, n + 1, S) = C(u, n, S) + 1
             /\ t \notin S => C(v, n + 1, S) = C(u, n, S)
  <2>1. PICK p \in Nat \ {0} : p = n + 1 /\ p - 1 = n
    BY <1>2
  <2>2. /\ C(v, p - 1, S) \in Nat
        /\ v[p] \in S => C(v, p, S) = C(v, p - 1, S) + 1
        /\ v[p] \notin S => C(v, p, S) = C(v, p - 1, S)
    BY ProvedPlaces
  <2> QED BY <1>3, <1>4, <2>1, <2>2
<1>6. Open(u) = C(u, n, Opens) - C(u, n, Closes)
  BY <1>2, OpenPlaces
<1>7. Open(v) = C(v, n + 1, Opens) - C(v, n + 1, Closes)
  BY <1>3, OpenPlaces
<1>8. ~(t \in Opens /\ t \in Closes)
  BY DEF Opens, Closes
<1> HIDE DEF C
<1>9. /\ C(u, n, Opens) \in Int /\ C(u, n, Closes) \in Int
      /\ t \in Opens => C(v, n + 1, Opens) = C(u, n, Opens) + 1
      /\ t \notin Opens => C(v, n + 1, Opens) = C(u, n, Opens)
      /\ t \in Closes => C(v, n + 1, Closes) = C(u, n, Closes) + 1
      /\ t \notin Closes => C(v, n + 1, Closes) = C(u, n, Closes)
  BY <1>5
<1> QED BY <1>1, <1>6, <1>7, <1>8, <1>9 DEF Opened

\* The brackets open in the document are those open in what is kept of it.
LEMMA OpenKept ==
  ASSUME NEW S, input \in Seq(S), NEW n \in 0 .. Len(input)
  PROVE  /\ Kept(input)[n] \in Seq(S)
         /\ Open(Kept(input)[n]) = Proved!Unclosed(n)
         /\ Proved!Unclosed(n) \in Int /\ Proved!Unclosed(n) <= n
<1> DEFINE Good(m) == /\ Kept(input)[m] \in Seq(S)
                      /\ Open(Kept(input)[m]) = Proved!Unclosed(m)
                      /\ Proved!Unclosed(m) \in Int /\ Proved!Unclosed(m) <= m
           D == {m \in Nat : m <= Len(input) => Good(m)}
<1>1. 0 \in D
  <2>1. Kept(input)[0] = <<>>
    BY KeptEquation
  <2>2. Kept(input)[0] \in Seq(S) /\ Open(Kept(input)[0]) = 0
    BY <2>1, OpenNothing
  <2>3. Proved!Unclosed(0) = 0
    BY ProvedUnclosed
  <2> QED BY <2>2, <2>3
<1>2. ASSUME NEW m \in D PROVE m + 1 \in D
  <2> SUFFICES ASSUME m + 1 <= Len(input) PROVE Good(m + 1)
    OBVIOUS
  <2>1. m \in Nat /\ Len(input) \in Nat /\ Good(m)
    OBVIOUS
  <2> HIDE DEF D
  <2>2. PICK p \in Nat \ {0} : p = m + 1 /\ p - 1 = m /\ p \in 1 .. Len(input)
    BY <2>1
  <2>3. PICK t \in S : t = input[p]
    BY <2>2
  <2>4. PICK k \in Seq(S) : k = Kept(input)[m]
    BY <2>1
  <2>5. Kept(input)[p] = IF t = "ws" THEN k ELSE Append(k, t)
    BY <2>2, <2>3, <2>4, KeptEquation
  <2>6. Kept(input)[p] \in Seq(S)
    BY <2>5
  <2>7. Proved!Unclosed(p) = Opened(Proved!Unclosed(m), t)
    BY <2>2, <2>3, ProvedUnclosed DEF Opened
  <2>8. Open(Kept(input)[p]) = Opened(Open(k), t)
    <3>1. CASE t = "ws"
      BY <2>5, <3>1 DEF Opened, Opens, Closes
    <3>2. CASE t # "ws"
      BY <2>5, <3>2, OpenAppend
    <3> QED BY <3>1, <3>2
  <2>9. Opened(Proved!Unclosed(m), t) \in Int /\ Opened(Proved!Unclosed(m), t) <= m + 1
    BY <2>1 DEF Opened
  <2> QED BY <2>1, <2>2, <2>4, <2>6, <2>7, <2>8, <2>9
<1> HIDE DEF Good
<1>3. D = Nat
  BY <1>1, <1>2, NatSetInduction
<1>4. Good(n)
  BY <1>3
<1> QED BY <1>4 DEF Good

\* What is kept of the first n tokens stands at the beginning of what is kept.
Extends(a, b) == Len(a) <= Len(b) /\ \A i \in 1 .. Len(a) : b[i] = a[i]

LEMMA KeptGrows ==
  ASSUME NEW S, input \in Seq(S), NEW n \in 0 .. Len(input)
  PROVE  Extends(Kept(input)[n], NoSpace(input))
<1> DEFINE D == {d \in Nat : n + d <= Len(input) => Extends(Kept(input)[n], Kept(input)[n + d])}
<1>1. 0 \in D
  <2>1. Kept(input)[n] \in Seq(S)
    BY OpenKept
  <2> QED BY <2>1 DEF Extends
<1>2. ASSUME NEW d \in D PROVE d + 1 \in D
  <2> SUFFICES ASSUME n + (d + 1) <= Len(input) PROVE Extends(Kept(input)[n], Kept(input)[n + (d + 1)])
    OBVIOUS
  <2>1. d \in Nat /\ n \in Nat /\ Len(input) \in Nat /\ Extends(Kept(input)[n], Kept(input)[n + d])
    OBVIOUS
  <2> HIDE DEF D
  <2>2. PICK p \in 1 .. Len(input) : p = n + (d + 1) /\ p - 1 = n + d /\ p - 1 \in 0 .. Len(input)
    BY <2>1
  <2>3. PICK t \in S : t = input[p]
    OBVIOUS
  <2>4. PICK k \in Seq(S) : k = Kept(input)[p - 1]
    BY <2>2, OpenKept
  <2>5. PICK a \in Seq(S) : a = Kept(input)[n]
    BY OpenKept
  <2>6. Kept(input)[p] = IF t = "ws" THEN k ELSE Append(k, t)
    BY <2>3, <2>4, KeptEquation
  <2>7. Extends(a, k)
    BY <2>1, <2>2, <2>4, <2>5
  <2>8. PICK m \in Nat : m = Len(k)
    OBVIOUS
  <2>9. Extends(a, Append(k, t))
    <3>1. Len(Append(k, t)) = m + 1 /\ \A i \in 1 .. m : Append(k, t)[i] = k[i]
      BY <2>8, AppendParts
    <3> QED BY <2>7, <2>8, <3>1 DEF Extends
  <2> QED BY <2>2, <2>5, <2>6, <2>7, <2>9
<1>3. D = Nat
  BY <1>1, <1>2, NatSetInduction
<1>4. PICK d \in Nat : d = Len(input) - n /\ n + d = Len(input)
  OBVIOUS
<1>5. Extends(Kept(input)[n], Kept(input)[n + d])
  <2>1. d \in D
    <3> HIDE DEF D
    <3> QED BY <1>3
  <2>2. n + d <= Len(input)
    BY <1>4
  <2> QED BY <2>1, <2>2
<1> QED BY <1>4, <1>5 DEF NoSpace

\* Where the token at i stands in the text without whitespace, and what is
\* before it there.
Place(i) == Len(Kept(input)[i - 1]) + 1

LEMMA KeptAt ==
  ASSUME NEW S, input \in Seq(S), NEW i \in 1 .. Len(input), input[i] # "ws"
  PROVE  /\ Place(i) \in 1 .. Len(NoSpace(input))
         /\ NoSpace(input)[Place(i)] = input[i]
         /\ SubSeq(NoSpace(input), 1, Place(i) - 1) = Kept(input)[i - 1]
<1>1. PICK t \in Seq(S) : t = NoSpace(input)
  <2>1. NoSpace(input) \in Seq(S)
    BY OpenKept DEF NoSpace
  <2> QED BY <2>1
<1>2. PICK k \in Seq(S) : k = Kept(input)[i - 1]
  BY OpenKept
<1>3. PICK e \in S : e = input[i]
  OBVIOUS
<1>4. PICK n \in Nat : n = Len(k)
  OBVIOUS
<1>5. Kept(input)[i] = Append(k, e)
  BY <1>2, <1>3, KeptEquation
<1>6. Extends(Append(k, e), t)
  <2>1. i \in 0 .. Len(input)
    OBVIOUS
  <2> QED BY <1>1, <1>5, <2>1, KeptGrows
<1>7. Len(Append(k, e)) = n + 1 /\ Append(k, e)[n + 1] = e /\ \A j \in 1 .. n : Append(k, e)[j] = k[j]
  BY <1>4, AppendParts
<1>8. n + 1 <= Len(t) /\ t[n + 1] = e /\ \A j \in 1 .. n : t[j] = k[j]
  <2>1. \A j \in 1 .. n + 1 : t[j] = Append(k, e)[j]
    BY <1>6, <1>7 DEF Extends
  <2> QED BY <1>4, <1>6, <1>7, <2>1, SMTT(30) DEF Extends
<1>9. SubSeq(t, 1, n) = k
  <2>1. SubSeq(t, 1, n) \in Seq(S) /\ Len(SubSeq(t, 1, n)) = n /\ \A j \in 1 .. n : SubSeq(t, 1, n)[j] = t[j]
    BY <1>4, <1>8
  <2> QED BY <1>4, <1>8, <2>1, SeqEqual
<1>10. Place(i) = n + 1
  BY <1>2, <1>4 DEF Place
<1> QED BY <1>1, <1>2, <1>3, <1>4, <1>8, <1>9, <1>10

LEMMA KeptFrom ==
  ASSUME NEW S, input \in Seq(S), NEW j \in 1 .. Len(NoSpace(input))
  PROVE  \E i \in 1 .. Len(input) : input[i] # "ws" /\ Place(i) = j
<1> DEFINE D == {n \in Nat : n <= Len(input) =>
                   \A p \in 1 .. Len(Kept(input)[n]) : \E i \in 1 .. n : input[i] # "ws" /\ Place(i) = p}
<1>1. 0 \in D
  BY KeptEquation
<1>2. ASSUME NEW n \in D PROVE n + 1 \in D
  <2> SUFFICES ASSUME n + 1 <= Len(input), NEW p \in 1 .. Len(Kept(input)[n + 1])
               PROVE  \E i \in 1 .. n + 1 : input[i] # "ws" /\ Place(i) = p
    OBVIOUS
  <2>1. n \in Nat /\ Len(input) \in Nat
        /\ \A q \in 1 .. Len(Kept(input)[n]) : \E i \in 1 .. n : input[i] # "ws" /\ Place(i) = q
    OBVIOUS
  <2> HIDE DEF D
  <2>2. PICK m \in 1 .. Len(input) : m = n + 1 /\ m - 1 = n /\ n \in 0 .. Len(input)
    BY <2>1
  <2>3. PICK k \in Seq(S) : k = Kept(input)[n]
    BY <2>2, OpenKept
  <2>4. PICK t \in S : t = input[m]
    OBVIOUS
  <2>5. Kept(input)[m] = IF t = "ws" THEN k ELSE Append(k, t)
    BY <2>2, <2>3, <2>4, KeptEquation
  <2>6. CASE t = "ws" \/ p <= Len(k)
    <3>1. p \in 1 .. Len(k)
      BY <2>2, <2>5, <2>6
    <3> QED BY <2>1, <2>3, <3>1
  <2>7. CASE t # "ws" /\ ~(p <= Len(k))
    <3>1. Len(Append(k, t)) = Len(k) + 1
      OBVIOUS
    <3>2. p = Len(k) + 1
      BY <2>2, <2>5, <2>7, <3>1
    <3>3. Place(m) = p /\ input[m] # "ws"
      BY <2>2, <2>3, <2>4, <2>7, <3>2 DEF Place
    <3> QED BY <2>2, <3>3
  <2> QED BY <2>6, <2>7
<1>3. D = Nat
  BY <1>1, <1>2, NatSetInduction
<1>4. \A p \in 1 .. Len(Kept(input)[Len(input)]) : \E i \in 1 .. Len(input) : input[i] # "ws" /\ Place(i) = p
  <2>1. Len(input) \in D
    BY <1>3
  <2> QED BY <2>1
<1> QED BY <1>4 DEF NoSpace

\* The greatest of a set of ints that has a bound.
LEMMA MaxOf ==
  ASSUME NEW N \in SUBSET Int, 0 \in N, NEW b \in Nat, \A y \in N : y <= b
  PROVE  Finite!Max(N) \in N /\ \A y \in N : y <= Finite!Max(N)
<1> DEFINE Bounds == {x \in Nat : \A y \in N : y <= x}
<1>1. PICK x \in Bounds : \A y \in Bounds : x <= y
  <2>1. b \in Bounds /\ Bounds \in SUBSET Nat
    OBVIOUS
  <2> QED BY <2>1, LeastElement
<1>2. x \in Nat /\ \A y \in N : y <= x
  OBVIOUS
<1>3. x \in N
  <2> SUFFICES ASSUME x \notin N PROVE FALSE
    OBVIOUS
  <2>1. x # 0
    OBVIOUS
  <2>2. \A y \in N : y <= x - 1
    BY <1>2
  <2>3. x - 1 \in Bounds
    BY <1>2, <2>1, <2>2
  <2> QED BY <1>1, <1>2, <2>3
<1>4. \E z \in N : \A y \in N : z >= y
  BY <1>2, <1>3
<1>5. Finite!Max(N) \in N /\ \A y \in N : Finite!Max(N) >= y
  BY <1>4 DEF Finite!Max
<1> QED BY <1>5

\* The depth of the text is how deep its tokens stand in the document.
LEMMA NestingMeans ==
  ASSUME input \in Seq(Tokens)
  PROVE  /\ Nesting(NoSpace(input)) \in Int
         /\ \A d \in Nat : Proved!Shallow(1, Len(input) + 1, d - 1) => Nesting(NoSpace(input)) <= d
         /\ \A d \in Nat : Proved!Deep(d) => Nesting(NoSpace(input)) > d
<1> DEFINE t == NoSpace(input)
           Level(j) == 1 + Open(SubSeq(t, 1, j - 1))
           Values2 == {Level(j) : j \in {n \in DOMAIN t : t[n] \notin {"]", "rbrace"}}}
           N == {0} \cup Values2
<1>1. DOMAIN t = 1 .. Len(t)
  <2>1. t \in Seq(Tokens)
    BY OpenKept DEF NoSpace
  <2> QED BY <2>1
<1>2. \A i : Proved!Stands(i) <=> input[i] # "ws" /\ input[i] \notin {"]", "rbrace"}
  BY DEF Proved!Stands, Proved!WS
<1>3. ASSUME NEW i \in 1 .. Len(input), Proved!Stands(i)
      PROVE  1 + Proved!Unclosed(i - 1) \in Values2
  <2>1. /\ Place(i) \in 1 .. Len(t) /\ t[Place(i)] = input[i]
        /\ SubSeq(t, 1, Place(i) - 1) = Kept(input)[i - 1]
    BY <1>2, <1>3, KeptAt
  <2>2. Open(Kept(input)[i - 1]) = Proved!Unclosed(i - 1)
    <3>1. i - 1 \in 0 .. Len(input)
      OBVIOUS
    <3> QED BY <3>1, OpenKept
  <2>3. PICK j \in DOMAIN t : j = Place(i)
    BY <1>1, <2>1
  <2> HIDE DEF t
  <2>4. Level(j) = 1 + Proved!Unclosed(i - 1) /\ t[j] \notin {"]", "rbrace"}
    BY <1>2, <1>3, <2>1, <2>2, <2>3
  <2> QED BY <2>4
<1>4. ASSUME NEW j \in DOMAIN t, t[j] \notin {"]", "rbrace"}
      PROVE  \E i \in 1 .. Len(input) : Proved!Stands(i) /\ Level(j) = 1 + Proved!Unclosed(i - 1)
  <2>1. PICK i \in 1 .. Len(input) : input[i] # "ws" /\ Place(i) = j
    BY <1>1, KeptFrom
  <2>2. t[j] = input[i] /\ SubSeq(t, 1, j - 1) = Kept(input)[i - 1]
    BY <2>1, KeptAt
  <2>3. Open(Kept(input)[i - 1]) = Proved!Unclosed(i - 1)
    <3>1. i - 1 \in 0 .. Len(input)
      OBVIOUS
    <3> QED BY <3>1, OpenKept
  <2>4. Proved!Stands(i)
    BY <1>2, <1>4, <2>1, <2>2
  <2> HIDE DEF t
  <2>5. Level(j) = 1 + Proved!Unclosed(i - 1)
    BY <2>2, <2>3
  <2> QED BY <2>4, <2>5
<1>5. \A i \in 1 .. Len(input) : Proved!Unclosed(i - 1) \in Int /\ Proved!Unclosed(i - 1) <= i - 1
  <2> SUFFICES ASSUME NEW i \in 1 .. Len(input)
               PROVE  Proved!Unclosed(i - 1) \in Int /\ Proved!Unclosed(i - 1) <= i - 1
    OBVIOUS
  <2>1. i - 1 \in 0 .. Len(input)
    OBVIOUS
  <2> QED BY <2>1, OpenKept
<1>6. Nesting(t) = Finite!Max(N)
  BY DEF Nesting
<1> HIDE DEF t, Level
<1>7. \A y \in Values2 : \E i \in 1 .. Len(input) : Proved!Stands(i) /\ y = 1 + Proved!Unclosed(i - 1)
  BY <1>4
<1> HIDE DEF Values2
<1>8. Finite!Max(N) \in N /\ \A y \in N : y <= Finite!Max(N)
  <2>1. N \in SUBSET Int /\ 0 \in N
    BY <1>5, <1>7
  <2>2. PICK b \in Nat : b = Len(input)
    OBVIOUS
  <2>3. \A y \in N : y <= b
    BY <1>5, <1>7, <2>2
  <2> QED BY <2>1, <2>3, MaxOf
<1>9. N \in SUBSET Int
  BY <1>5, <1>7
<1>10. ASSUME NEW d \in Nat, Proved!Shallow(1, Len(input) + 1, d - 1)
       PROVE  Finite!Max(N) <= d
  <2>1. \A i \in 1 .. Len(input) : Proved!Stands(i) => Proved!Unclosed(i - 1) <= d - 1
    BY <1>10 DEF Proved!Shallow
  <2>2. \A y \in N : y <= d
    BY <1>5, <1>7, <2>1
  <2> QED BY <1>8, <2>2
<1>11. ASSUME NEW d \in Nat, Proved!Deep(d) PROVE Finite!Max(N) > d
  <2>1. PICK i \in 1 .. Len(input) : Proved!Stands(i) /\ Proved!Unclosed(i - 1) >= d
    BY <1>11 DEF Proved!Deep
  <2>2. 1 + Proved!Unclosed(i - 1) \in N /\ Proved!Unclosed(i - 1) \in Int
    BY <1>3, <1>5, <2>1
  <2>3. PICK u \in Int : u = Proved!Unclosed(i - 1)
    BY <2>2
  <2>4. PICK x \in Int : x = Finite!Max(N)
    BY <1>8, <1>9
  <2>5. 1 + u <= x
    BY <1>8, <2>2, <2>3, <2>4
  <2> QED BY <2>1, <2>3, <2>4, <2>5
<1>12. Finite!Max(N) \in Int
  BY <1>8, <1>9
<1> QED BY <1>6, <1>10, <1>11, <1>12 DEF t

\* A brace that closes nothing begins no value.
LEMMA NoBrace ==
  ASSUME TypeOK, ReadsThunk(input, pos, stack, last.op), Peek(pos) = "rbrace"
  PROVE  Document(input) = {}
<1>1. input \in Seq(Tokens) /\ pos \in 1 .. Len(input) + 1
  BY DEF TypeOK
<1>2. PICK g \in SUBSET Plans(PyAny) : Document(input) = Await(PyAny, g, Left(input, pos))
  BY DEF ReadsThunk
<1>3. Peek(pos) # WS /\ Peek(pos) # Eof
  BY DEF WS, Eof
<1>4. PICK t \in Tokens, z \in Seq(Tokens) : t = "rbrace" /\ Left(input, pos) = Cons(t, z)
  BY <1>1, <1>3, AtCursor
<1>5. PICK r \in Seq(Tokens) : r = Left(input, pos) /\ r[1] = t
  BY <1>4, ConsParts
<1>6. t \notin GoodStrings \cup GoodScalars \cup {"[", "lbrace"}
  BY <1>4, PyTokensAssumption, GoodTokensAssumption DEF Punctuation
<1>7. Await(PyAny, g, r) = {}
  BY <1>5, <1>6, NoValue
<1> QED BY <1>2, <1>5, <1>7

\* A document that was refused for its depth before such a brace is not JSON.
BraceInv == result = Err("DepthLimitExceeded") /\ Peek(pos) = "rbrace" => Document(input) = {}

LoadInv == Proved!IInv /\ Proved!NestInv /\ ReadInv /\ BraceInv

LEMMA LoadInvType == LoadInv => TypeOK
BY SameParser DEF LoadInv, Proved!IInv

LEMMA InitLoadInv == Init => LoadInv
<1> SUFFICES ASSUME Init PROVE LoadInv
  OBVIOUS
<1>1. Proved!IInv /\ Proved!NestInv
  BY SameParser, PyIsParser, PyIsDeserialization, Proved!InitIInv, Proved!InitNestInv
<1>2. TypeOK
  BY <1>1, SameParser DEF Proved!IInv
<1>3. BraceInv
  BY DEF Init, Running, Err, BraceInv
<1> QED BY <1>1, <1>2, <1>3, InitReadInv DEF LoadInv

LEMMA StepLoadInv == LoadInv /\ [Next]_vars => LoadInv'
<1> SUFFICES ASSUME LoadInv, [Next]_vars PROVE LoadInv'
  OBVIOUS
<1>1. TypeOK /\ ReadInv /\ BraceInv /\ Proved!IInv /\ Proved!NestInv
  BY LoadInvType DEF LoadInv
<1>2. [Proved!Next]_Proved!vars
  BY SameParser DEF vars, Proved!vars
<1>3. (Proved!IInv)' /\ (Proved!NestInv)'
  BY <1>1, <1>2, PyIsParser, PyIsDeserialization, Proved!StepIInv, Proved!StepNestInv
<1>4. BraceInv'
  <2>1. CASE TooDeep
    <3>1. result = Running /\ last.tag = "Thunk" /\ UNCHANGED <<input, pos>>
      BY <2>1 DEF TooDeep, Push
    <3>2. ReadsThunk(input, pos, stack, last.op)
      BY <1>1, <3>1 DEF ReadInv, Reads
    <3>3. Peek(pos) = "rbrace" => Document(input) = {}
      BY <1>1, <3>2, NoBrace
    <3> QED BY <3>1, <3>3 DEF BraceInv, Peek
  <2>2. CASE ParseAny \/ ContinueList \/ ContinueMap
    <3>1. result' = Running
      BY <2>2 DEF ParseAny, Push, ContinueList, ContinueMap, Resume
    <3> QED BY <3>1 DEF BraceInv, Running, Err
  <2>3. CASE Finish
    BY <2>3 DEF Finish, BraceInv, Ok, Err
  <2>4. CASE Fail
    <3>1. result' = last /\ last \in Failures
      BY <1>1, <2>4 DEF Fail, TypeOK, Failures
    <3>2. result' # Err("DepthLimitExceeded")
      BY <3>1 DEF Failures, ParseErrors, Err
    <3> QED BY <3>2 DEF BraceInv, Err
  <2>5. CASE UNCHANGED vars
    BY <1>1, <2>5 DEF vars, BraceInv, Peek
  <2> QED BY <2>1, <2>2, <2>3, <2>4, <2>5 DEF Next, Iterate, Returned
<1> QED BY <1>1, <1>3, <1>4, StepReadInv DEF LoadInv

LEMMA LoadInvMeans == LoadInv => ReadsJson /\ DepthIsNesting
<1> SUFFICES ASSUME LoadInv PROVE DepthIsNesting
  BY DEF LoadInv, ReadInv
<1>1. input \in Seq(Tokens) /\ limit \in Nat
  BY LoadInvType, PyTokensAssumption DEF TypeOK
<1>2. PICK n \in Int : n = Nesting(NoSpace(input))
  BY <1>1, NestingMeans
<1>3. /\ result.tag = "Ok" /\ limit # NoLimit => Proved!Shallow(1, Len(input) + 1, limit - 1)
      /\ result = Err("DepthLimitExceeded") =>
           limit # NoLimit /\ (Proved!Deep(limit) \/ Proved!Peek(pos) = "rbrace")
  BY DEF LoadInv, Proved!NestInv, NoLimit, Proved!NoLimit, Err, Proved!Err
<1>4. Proved!Peek(pos) = Peek(pos)
  BY DEF Peek, Proved!Peek, Eof, Proved!Eof
<1>5. result.tag = "Ok" => limit = NoLimit \/ n <= limit
  BY <1>1, <1>2, <1>3, NestingMeans
<1>6. result = Err("DepthLimitExceeded") => limit # NoLimit /\ (n > limit \/ Values(NoSpace(input)) = {})
  <2> SUFFICES ASSUME result = Err("DepthLimitExceeded")
               PROVE  limit # NoLimit /\ (n > limit \/ Values(NoSpace(input)) = {})
    OBVIOUS
  <2>1. CASE Proved!Deep(limit)
    BY <1>1, <1>2, <1>3, <2>1, NestingMeans
  <2>2. CASE Peek(pos) = "rbrace"
    <3>1. Document(input) = {}
      BY <2>2 DEF LoadInv, BraceInv
    <3> QED BY <1>3, <3>1 DEF Document
  <2> QED BY <1>3, <1>4, <2>1, <2>2
<1> QED BY <1>2, <1>5, <1>6 DEF DepthIsNesting

\* A text that loads accepts is JSON, with the value returned when no hook
\* replaced a dict, and a text that is JSON is refused only for its depth, for an
\* int too long for Python or by a Python that raises: for every set of tokens
\* and every input.
THEOREM ReadsJsonCorrect == Spec => []ReadsJson
<1>1. LoadInv => ReadsJson
  BY LoadInvMeans
<1> QED BY <1>1, InitLoadInv, StepLoadInv, PTL DEF Spec

\* depth_limit bounds the nesting of the whole text, whatever the text and the
\* limit: what is accepted nests no deeper, and JSON is refused for its depth
\* only when it nests deeper.
THEOREM DepthCorrect == Spec => []DepthIsNesting
<1>1. LoadInv => DepthIsNesting
  BY LoadInvMeans
<1> QED BY <1>1, InitLoadInv, StepLoadInv, PTL DEF Spec
==============================================================================
