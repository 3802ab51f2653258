---------------------------- MODULE StringGrammar ----------------------------
(***************************************************************************)
(* The reference for strings: RFC 8259 over code points and UTF-16 units.  *)
(* It models no code.  A string ends at the first quote that an even run   *)
(* of backslashes precedes; what is before it must be UTF-8, free of       *)
(* control characters and made of characters and escapes; and the UTF-16   *)
(* units that these denote, all together, must be well-formed.             *)
(***************************************************************************)
LOCAL INSTANCE Utf8
LOCAL INSTANCE Sequences
LOCAL INSTANCE FiniteSetsExt
LOCAL INSTANCE SequencesExt

CONSTANT SignedEscapes   \* whether the first hexadecimal digit may be a plus

Digits == <<48, 49, 50, 51, 52, 53, 54, 55, 56, 57, 97, 98, 99, 100, 101, 102>>
Capitals == <<65, 66, 67, 68, 69, 70>>
DigitValues(b) ==
  {n \in 0 .. 15 : b = Digits[n + 1] \/ (n >= 10 /\ b = Capitals[n - 9])}

\* The units that the four characters w denote after \u: none or one.
UnitsOf(w) ==
  {4096 * n[1] + 256 * n[2] + 16 * n[3] + n[4] :
     n \in {<<a, b, c, d>> :
              a \in DigitValues(w[1]) \cup (IF SignedEscapes /\ w[1] = 43 THEN {0} ELSE {}),
              b \in DigitValues(w[2]), c \in DigitValues(w[3]), d \in DigitValues(w[4])}}

Utf16(c) ==
  IF c < 65536 THEN <<c>> ELSE <<55296 + ((c - 65536) \div 1024), 56320 + ((c - 65536) % 1024)>>

\* The characters that valid UTF-8 encodes.
Characters(s) ==
  LET from[i \in 1 .. Len(s) + 1] ==
        IF i > Len(s) THEN <<>>
        ELSE LET j == CHOOSE j \in i .. i + 3 : j <= Len(s) /\ IsCharacter(SubSeq(s, i, j))
             IN <<CodePoint(SubSeq(s, i, j))>> \o from[j + 1]
  IN from[1]

Utf16Of(cs) == FlattenSeq([i \in DOMAIN cs |-> Utf16(cs[i])])

ShortForms == {<<34, 34>>, <<92, 92>>, <<47, 47>>, <<98, 8>>, <<102, 12>>,
               <<110, 10>>, <<114, 13>>, <<116, 9>>}

\* The units that a body of characters denotes: none or one sequence.
Denotes(cs) ==
  LET Has(i, n) == cs[i] = 92 /\ i + n - 1 <= Len(cs)
      from[i \in 1 .. Len(cs) + 1] ==
        LET Then(n, units) == {units \o rest : rest \in from[i + n]} IN
        IF i > Len(cs) THEN {<<>>}
        ELSE IF cs[i] # 92 THEN Then(1, Utf16(cs[i]))
        ELSE UNION {Then(2, <<e[2]>>) : e \in {f \in ShortForms : Has(i, 2) /\ cs[i + 1] = f[1]}}
             \cup (IF ~(Has(i, 6) /\ cs[i + 1] = 117) THEN {}
                   ELSE UNION {Then(6, <<u>>) : u \in UnitsOf(SubSeq(cs, i + 2, i + 5))})
  IN from[1]

WellFormed(units) ==
  \A i \in DOMAIN units :
    /\ units[i] \in Leading => i < Len(units) /\ units[i + 1] \in Trailing
    /\ units[i] \in Trailing => i > 1 /\ units[i - 1] \in Leading

\* How many backslashes precede position q of s without a gap.
Backslashes(s, q) ==
  Max({n \in 0 .. q - 1 : \A i \in q - n .. q - 1 : s[i] = 92})

\* Where the closing quote of s is: nowhere or at one place.
Closings(s) ==
  LET quotes == {q \in DOMAIN s : s[q] = 34 /\ Backslashes(s, q) % 2 = 0} IN
  IF quotes = {} THEN {} ELSE {Min(quotes)}

\* The units of the string whose body is s: none or one sequence.
BodyUnits(s) ==
  IF ~ValidUtf8(s) \/ \E i \in DOMAIN s : s[i] < 32 THEN {}
  ELSE {units \in Denotes(Characters(s)) : WellFormed(units)}

\* The string that s begins with: none or one.
Meanings(s) ==
  UNION {{[end |-> q, units |-> u] : u \in BodyUnits(SubSeq(s, 1, q - 1))} : q \in Closings(s)}
=============================================================================
