-------------------------------- MODULE PyInt --------------------------------
(***************************************************************************)
(* Ints as Rust's standard library and CPython convert them, with the      *)
(* widths of the machine integers as constants.                            *)
(***************************************************************************)
EXTENDS Integers, Sequences

CONSTANTS
  LongBits,      \* the width of i64 and u64
  MaxStrDigits   \* int-max-str-digits

Minus == 45
Zero == 48

Power(b, n) ==
  LET power[k \in Nat] == IF k = 0 THEN 1 ELSE b * power[k - 1] IN power[n]

Fits(v, bits) == v >= -Power(2, bits - 1) /\ v < Power(2, bits - 1)
FitsUnsigned(v, bits) == v >= 0 /\ v < Power(2, bits)

\* The value of a text of digits, and the text of a value.
Natural(digits) ==
  LET value[n \in 0 .. Len(digits)] ==
        IF n = 0 THEN 0 ELSE 10 * value[n - 1] + digits[n] - Zero
  IN value[Len(digits)]

Numeral[n \in Nat] ==
  IF n < 10 THEN <<Zero + n>> ELSE Append(Numeral[n \div 10], Zero + (n % 10))

Decimal(v) == IF v < 0 THEN <<Minus>> \o Numeral[-v] ELSE Numeral[v]

\* Python converts no int of more digits, in either direction.
TooLong(text) ==
  LET digits == IF text[1] = Minus THEN Tail(text) ELSE text IN Len(digits) > MaxStrDigits
=============================================================================
