---------------------------- MODULE StringWriter ----------------------------
(***************************************************************************)
(* string_to_json (src/src/ser.rs): the JSON string for a Python str, of   *)
(* which s are the bytes.                                                  *)
(***************************************************************************)
EXTENDS StrScan, SequencesExt

\* HEX_MAP.
HexMap(n) == IF n < 10 THEN 48 + n ELSE 87 + n

\* An escape for the backslash only.
EscapedBackslashOnly(b) ==
  IF b = Backslash THEN <<Backslash, b>>
  ELSE IF b >= Space THEN <<b>>
  ELSE <<Backslash, 117, 48, 48, HexMap(b \div 16), HexMap(b % 16)>>

Escaped(b) ==
  IF b \in {Backslash, Quote} THEN <<Backslash, b>>
  ELSE IF b >= Space THEN <<b>>
  ELSE <<Backslash, 117, 48, 48, HexMap(b \div 16), HexMap(b % 16)>>

StringToJson(s) ==
  LET n == StrFindSpecialByte(s) IN
  <<Quote>> \o SubSeq(s, 1, n)
  \o FlattenSeq([i \in 1 .. Len(s) - n |-> Escaped(s[n + i])])
  \o <<Quote>>
=============================================================================
