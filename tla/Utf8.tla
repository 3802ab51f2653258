-------------------------------- MODULE Utf8 --------------------------------
(***************************************************************************)
(* UTF-8 as Rust's standard library and CPython implement it: bytes are    *)
(* numbers, a character is its code point.                                 *)
(***************************************************************************)
EXTENDS Integers, Sequences

Byte == 0 .. 255
Leading == 55296 .. 56319        \* 0xD800..=0xDBFF
Trailing == 56320 .. 57343       \* 0xDC00..=0xDFFF
MaxCodePoint == 1114111          \* char::MAX
IsScalarValue(c) == c \in 0 .. MaxCodePoint /\ c \notin Leading \cup Trailing

\* char::encode_utf8.
EncodeUtf8(c) ==
  LET continuation(n) == 128 + ((c \div n) % 64) IN
  IF c < 128 THEN <<c>>
  ELSE IF c < 2048 THEN <<192 + (c \div 64), continuation(1)>>
  ELSE IF c < 65536 THEN <<224 + (c \div 4096), continuation(64), continuation(1)>>
  ELSE <<240 + (c \div 262144), continuation(4096), continuation(64), continuation(1)>>

\* The code point that s encodes, if s is the encoding of a character.
CodePoint(s) ==
  CASE Len(s) = 1 -> s[1]
    [] Len(s) = 2 -> (s[1] - 192) * 64 + (s[2] - 128)
    [] Len(s) = 3 -> (s[1] - 224) * 4096 + (s[2] - 128) * 64 + (s[3] - 128)
    [] OTHER -> (s[1] - 240) * 262144 + (s[2] - 128) * 4096 + (s[3] - 128) * 64 + (s[4] - 128)

IsCharacter(s) == IsScalarValue(CodePoint(s)) /\ s = EncodeUtf8(CodePoint(s))

\* str::from_utf8 succeeds: s is cut into characters, first to last.
ValidUtf8(s) ==
  LET valid[i \in 1 .. Len(s) + 1] ==
        \/ i = Len(s) + 1
        \/ \E j \in i .. i + 3 : j <= Len(s) /\ IsCharacter(SubSeq(s, i, j)) /\ valid[j + 1]
  IN valid[1]
=============================================================================
