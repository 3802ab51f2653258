------------------------------ MODULE PyParser ------------------------------
(***************************************************************************)
(* The parser over PyDeserialization: what loads, loadb and load run.      *)
(***************************************************************************)
EXTENDS PyDeserialization

CONSTANTS Inputs, Limits, Strings, Scalars, Others

VARIABLES input, limit, pos, stack, last, finished, result

\* Bound<PyAny>: the values a document can denote, with any dict replaced.
PyValues[n \in Nat] ==
  IF n = 0 THEN {Leaf(t) : t \in Strings \cup Scalars}
  ELSE LET below == PyValues[n - 1] IN
       below
       \cup {PyList(vs) : vs \in Seq(below)}
       \cup {PyDict(ks, vs) : ks \in Seq(below), vs \in Seq(below)}
       \cup {Hooked(d) : d \in below}
PyAny == UNION {PyValues[n] : n \in Nat}
PyDicts == {PyDict(ks, vs) : ks \in Seq(PyAny), vs \in Seq(PyAny)}

INSTANCE Parser WITH
  Any <- PyAny,
  String <- {Leaf(t) : t \in Strings},
  BuildingList <- Seq(PyAny),
  Map <- PyDicts,
  EmptyList <- PyEmptyList,
  ExtendList <- PyExtendList,
  FinishList <- PyFinishList,
  EmptyMap <- PyEmptyMap,
  ExtendMap <- PyExtendMap,
  FinishMap <- PyFinishMap,
  ParseStr <- PyParseStr,
  ParseScalar <- PyParseScalar

\* Which token begins what, as in Parser.
ASSUME PyTokensAssumption ==
  /\ Inputs \subseteq Seq(Tokens)
  /\ Limits \subseteq Nat
  /\ Eof \notin Tokens
  /\ Punctuation \cap (Strings \cup Scalars \cup Others) = {}
  /\ WS \notin Strings \cup Scalars \cup Others
  /\ Strings \cap Scalars = {}
  /\ Others \cap (Strings \cup Scalars) = {}
=============================================================================
