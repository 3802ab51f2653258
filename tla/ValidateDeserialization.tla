----------------------- MODULE ValidateDeserialization -----------------------
(***************************************************************************)
(* impl Deserialization for ValidateDeserialization (src/src/de.rs):       *)
(* Fragment validates its text by parsing it to nothing.  Every associated *)
(* type is the unit type, and only strings and numbers can be rejected.    *)
(***************************************************************************)
LOCAL INSTANCE Sequences

CONSTANTS
  LexErrors,   \* tokens that parse_str or parse_number rejects
  NotUtf8,     \* strings the lexer accepts whose bytes are not UTF-8
  Infinite     \* floats that overflow to infinity

Unit == "()"
UnitType == {Unit}

UnitOk == [tag |-> "Ok", value |-> Unit]
UnitErr(e) == [tag |-> "Err", err |-> e]

\* parse_str, then str::from_utf8.
UnitParseStr(t) ==
  IF t \in LexErrors THEN {UnitErr("Lex")}
  ELSE IF t \in NotUtf8 THEN {UnitErr("InvalidUtf8")}
  ELSE {UnitOk}

\* Without the check for a finite float.
UnitParseScalarInfinite(t) == IF t \in LexErrors THEN {UnitErr("Lex")} ELSE {UnitOk}

\* parse_number, then create_number: an int is taken whatever its length.
UnitParseScalar(t) ==
  IF t \in LexErrors THEN {UnitErr("Lex")}
  ELSE IF t \in Infinite THEN {UnitErr("InvalidNumber")}
  ELSE {UnitOk}

UnitExtendList(l, v) == Unit
UnitExtendMap(m, k, v) == {UnitOk}
UnitFinish(c) == {UnitOk}
==============================================================================
