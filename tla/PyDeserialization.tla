-------------------------- MODULE PyDeserialization --------------------------
(***************************************************************************)
(* impl Deserialization for PyDeserialization (src/src/de.rs): the values  *)
(* that loads builds.  A value is a record of its type (the token, for a   *)
(* string or a scalar), its keys and its items.                            *)
(*                                                                         *)
(* The Python API and the object hook can raise at any call: a result set  *)
(* then holds Err("Custom") beside the successful result.                  *)
(***************************************************************************)
EXTENDS Sequences, Naturals

CONSTANTS
  LexErrors,   \* tokens that parse_str or parse_number rejects
  NotUtf8,     \* strings the lexer accepts whose bytes are not UTF-8
  Infinite,    \* floats that overflow to infinity
  TooManyDigits,  \* ints for which PyLong_FromString returns null
  Hook,        \* whether the call has an object_hook
  Raises       \* whether the Python API and the hook may raise

LOCAL Ok(v) == [tag |-> "Ok", value |-> v]
LOCAL Err(e) == [tag |-> "Err", err |-> e]
LOCAL Raised == IF Raises THEN {Err("Custom")} ELSE {}

Leaf(t) == [type |-> t, keys |-> <<>>, items |-> <<>>]
PyList(vs) == [type |-> "list", keys |-> <<>>, items |-> vs]
PyDict(ks, vs) == [type |-> "dict", keys |-> ks, items |-> vs]

\* What an object_hook returns for d, when it does not return d.
Hooked(d) == [type |-> "hooked", keys |-> <<>>, items |-> <<d>>]

\* parse_str, then PyString::from_bytes.
PyParseStr(t) ==
  IF t \in LexErrors THEN {Err("Lex")}
  ELSE IF t \in NotUtf8 THEN {Err("Custom")}
  ELSE {Ok(Leaf(t))}

\* parse_number, then create_number; create_null and create_bool cannot fail.
PyParseScalar(t) ==
  IF t \in LexErrors THEN {Err("Lex")}
  ELSE IF t \in Infinite THEN {Err("InvalidNumber")}
  ELSE IF t \in TooManyDigits THEN {Err("Custom")}
  ELSE {Ok(Leaf(t))}

PyEmptyList == <<>>

PyExtendList(l, v) == Append(l, v)

PyFinishList(l) == {Ok(PyList(l))} \cup Raised

PyEmptyMap == PyDict(<<>>, <<>>)

\* set_item that keeps the first value of a repeated key.
SetDefault(m, k, v) ==
  IF \E i \in DOMAIN m.keys : m.keys[i] = k
  THEN {Ok(m)}
  ELSE {Ok(PyDict(Append(m.keys, k), Append(m.items, v)))}

\* set_item: a key that is there keeps its place and takes the new value.
PyExtendMap(m, k, v) ==
  LET set == IF \E i \in DOMAIN m.keys : m.keys[i] = k
             THEN [m EXCEPT !.items = [i \in DOMAIN m.items |->
                                         IF m.keys[i] = k THEN v ELSE @[i]]]
             ELSE PyDict(Append(m.keys, k), Append(m.items, v))
  IN {Ok(set)} \cup Raised

\* Without a hook the dict itself; with one, whatever it returns or raises.
PyFinishMap(m) ==
  IF Hook THEN {Ok(m), Ok(Hooked(m))} \cup Raised ELSE {Ok(m)}
============================================================================
