------------------------------ MODULE IntWriter ------------------------------
(***************************************************************************)
(* int_to_json with both of its intparse modules (src/src/ser.rs): an int  *)
(* is extracted into a machine integer and printed, and one that is too    *)
(* wide is printed by Python.  The widths are constants.                   *)
(***************************************************************************)
EXTENDS PyInt

CONSTANTS
  ByteBits,      \* the width of a byte
  NativeBytes    \* how many of them PyLong_AsNativeBytes is given: an i128

\* What a build is compiled with, which depends on the version of Python.
Builds == {"native_bytes", "long_long"}

Wrap(v, bits) == ((v + Power(2, bits - 1)) % Power(2, bits)) - Power(2, bits - 1)

\* The least int of too many digits is below the machine integers.
ASSUME WidthAssumption ==
  /\ {ByteBits, NativeBytes, LongBits, MaxStrDigits} \subseteq Nat \ {0}
  /\ \A bits \in {ByteBits * NativeBytes, LongBits} : ~Fits(-Power(10, MaxStrDigits), bits)

\* How many bytes v needs; as many as its absolute value and one are enough.
Size(v) ==
  CHOOSE n \in 1 .. (IF v < 0 THEN -v ELSE v) + 1 :
    Fits(v, ByteBits * n) /\ \A m \in 1 .. n - 1 : ~Fits(v, ByteBits * m)

\* PyLong_AsNativeBytes: the bytes that v needs, and those of its bytes that
\* the buffer has room for, as i128::from_ne_bytes reads them.
AsNativeBytes(v) == [size |-> Size(v), value |-> Wrap(v, ByteBits * NativeBytes)]

\* PyLong_AsLongLong: -1 may be the value, or the sign of an error.
AsLongLong(v) ==
  IF Fits(v, LongBits) THEN [value |-> v, occurred |-> FALSE] ELSE [value |-> -1, occurred |-> TRUE]

\* A comparison that is off by one.
TryWriteIntOffByOne(v, build) ==
  IF build = "native_bytes"
  THEN LET r == AsNativeBytes(v) IN IF r.size > NativeBytes + 1 THEN <<>> ELSE Decimal(r.value)
  ELSE LET r == AsLongLong(v) IN IF r.value = -1 /\ r.occurred THEN <<>> ELSE Decimal(r.value)

\* try_write_int: nothing is written if it fails.  For an int,
\* PyLong_AsNativeBytes has no error to return.
TryWriteInt(v, build) ==
  IF build = "native_bytes"
  THEN LET r == AsNativeBytes(v) IN IF r.size > NativeBytes THEN <<>> ELSE Decimal(r.value)
  ELSE LET r == AsLongLong(v) IN IF r.value = -1 /\ r.occurred THEN <<>> ELSE Decimal(r.value)

\* tp_repr of int.
Repr(v) == IF TooLong(Decimal(v)) THEN <<>> ELSE Decimal(v)

\* int_to_json: what is written, or nothing if Python raises a ValueError.
IntToJson(v, build) ==
  LET written == TryWriteInt(v, build) IN IF written = <<>> THEN Repr(v) ELSE written
=============================================================================
