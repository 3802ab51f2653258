---------------------------- MODULE NumberProofs ----------------------------
(***************************************************************************)
(* Theorems about NumberLexer and Numbers, for every document.             *)
(***************************************************************************)
EXTENDS Numbers, NaturalFacts, SequenceTheorems, TLAPS

(***************************************************************************)
(* The inductive invariant: what is known of the bytes behind the cursor   *)
(* in every phase but the first.                                           *)
(***************************************************************************)
DigitsOnly ==
  /\ pos > 1 /\ input[pos - 1] \in Digit
  /\ \A i \in 1 .. pos - 1 : input[i] \in Digit \/ (i = 1 /\ input[i] = Minus)

Consumed ==
  /\ \A i \in 1 .. pos - 1 : input[i] \in NumberByte
  /\ isFloat <=> \E i \in 1 .. pos - 1 : input[i] \in {Dot} \cup Exponents
  /\ ~isFloat => DigitsOnly

Flags ==
  /\ phase \in {"sign", "integer", "point"} => ~isFloat
  /\ phase \in {"fraction", "exponent"} => isFloat

IInv ==
  /\ TypeOK
  /\ phase = "sign" => pos = 1 \/ result # Running
  /\ phase = "sign" => Len(input) > 0 /\ input[1] \in Digit \cup {Minus}
  /\ Flags
  /\ phase # "sign" /\ (result = Running \/ phase = "create") => Consumed

LEMMA InitIInv == Init => IInv
<1> SUFFICES ASSUME Init PROVE IInv
  OBVIOUS
<1>0. input \in Inputs
  BY DEF Init
<1>1. input \in Seq(Byte) /\ Len(input) > 0 /\ input[1] \in Digit \cup {Minus} /\ Len(input) \in Nat
  BY <1>0, InputsAssumption, LenProperties
<1>2. isFloat \in BOOLEAN /\ ~isFloat
  BY DEF Init
<1>3. TypeOK
  BY <1>1, <1>2 DEF Init, TypeOK, Tests
<1> QED BY <1>1, <1>2, <1>3 DEF Init, IInv, Flags

\* A byte that is there is no Eof.
LEMMA PeekInside ==
  ASSUME input \in Seq(Byte), NEW p \in Nat \ {0}, Peek(p) # Eof
  PROVE  p <= Len(input) /\ Peek(p) = input[p]
BY LenProperties DEF Peek

LEMMA Bytes ==
  /\ Digit \subseteq NumberByte /\ Eof \notin NumberByte /\ Minus \in NumberByte
  /\ \A b \in Digit : b # Minus /\ b # Plus /\ b \notin {Dot} \cup Exponents
  /\ Minus \notin {Dot} \cup Exponents
BY DEF NumberByte, Digit, Eof, Minus, Plus, Dot, Exponents

\* The cursor advances over the bytes from pos to p - 1.
LEMMA AdvancePreserves ==
  ASSUME IInv, result = Running,
         NEW p \in Nat, p >= pos, p > 1, p <= Len(input) + 1,
         NEW ph \in (Loops \cup Tests) \ {"sign"}, NEW float \in BOOLEAN,
         Advance(p, ph, float),
         \A i \in pos .. p - 1 : input[i] \in NumberByte,
         float <=> isFloat \/ \E i \in pos .. p - 1 : input[i] \in {Dot} \cup Exponents,
         ~float => /\ input[p - 1] \in Digit
                   /\ \A i \in pos .. p - 1 : input[i] \in Digit \/ (i = 1 /\ input[i] = Minus),
         ph \in {"integer", "point"} => ~float,
         ph \in {"fraction", "exponent"} => float
  PROVE  IInv'
<1>1. /\ pos' = p /\ phase' = ph /\ isFloat' = float /\ UNCHANGED <<input, result>>
      /\ pos \in Nat \ {0} /\ Len(input) \in Nat
  BY LenProperties DEF Advance, IInv, TypeOK
<1>2. TypeOK'
  BY <1>1 DEF IInv, TypeOK
<1>3. Flags'
  BY <1>1 DEF Flags
<1>4. \A i \in 1 .. p - 1 : i \in 1 .. pos - 1 \/ i \in pos .. p - 1
  BY <1>1
<1>5. \A i \in 1 .. pos - 1 : i \in 1 .. p - 1
  BY <1>1
<1>6. \A i \in pos .. p - 1 : i \in 1 .. p - 1
  BY <1>1
<1>7. phase = "sign" => ~isFloat /\ \A i \in 1 .. pos - 1 : FALSE
  BY <1>1 DEF IInv, Flags
<1>8. phase # "sign" => Consumed
  BY DEF IInv
<1>9. \A i \in 1 .. p - 1 : input[i] \in NumberByte
  BY <1>4, <1>7, <1>8 DEF Consumed
<1>10. float <=> \E i \in 1 .. p - 1 : input[i] \in {Dot} \cup Exponents
  BY <1>4, <1>5, <1>6, <1>7, <1>8 DEF Consumed
<1>11. ~float => \A i \in 1 .. p - 1 : input[i] \in Digit \/ (i = 1 /\ input[i] = Minus)
  BY <1>4, <1>7, <1>8 DEF Consumed, DigitsOnly
<1>12. Consumed'
  BY <1>1, <1>9, <1>10, <1>11 DEF Consumed, DigitsOnly
<1> QED BY <1>1, <1>2, <1>3, <1>12 DEF IInv

\* Errors leave the cursor inside the document.
LEMMA ReturnErr ==
  ASSUME IInv, NEW p \in Nat \ {0}, p <= Len(input) + 1, phase # "create",
         NEW e \in NumberErrors, Return(p, Err(e))
  PROVE  IInv'
<1>1. pos' = p /\ result' = Err(e) /\ result' # Running /\ UNCHANGED <<input, phase, isFloat>>
  BY DEF Return, Err, Running
<1>2. TypeOK'
  BY <1>1 DEF IInv, TypeOK
<1>3. Flags'
  BY <1>1 DEF IInv, Flags
<1> QED BY <1>1, <1>2, <1>3 DEF IInv

\* A byte is read behind those from pos to p - 1, and it has to be a digit.
LEMMA ReadDigitPreserves ==
  ASSUME IInv, result = Running, phase # "create",
         NEW p \in Nat \ {0}, p >= pos, p <= Len(input) + 1,
         NEW ph \in (Loops \cup Tests) \ {"sign"}, NEW float \in BOOLEAN,
         ReadDigit(p, ph, float),
         \A i \in pos .. p - 1 : input[i] \in NumberByte,
         float <=> isFloat \/ \E i \in pos .. p - 1 : input[i] \in {Dot} \cup Exponents,
         ~float => \A i \in pos .. p - 1 : input[i] \in Digit \/ (i = 1 /\ input[i] = Minus),
         ph \in {"integer", "point"} => ~float,
         ph \in {"fraction", "exponent"} => float
  PROVE  IInv'
<1>1. input \in Seq(Byte) /\ Len(input) \in Nat /\ pos \in Nat \ {0}
  BY LenProperties DEF IInv, TypeOK
<1>2. Peek(p) # Eof => p <= Len(input) /\ Peek(p) = input[p]
  BY <1>1, PeekInside
<1>3. CASE Peek(p) \in Digit /\ Advance(p + 1, ph, float)
  <2>1. p <= Len(input) /\ input[p] \in Digit /\ input[p] \in NumberByte
        /\ input[p] \notin {Dot} \cup Exponents
    BY <1>2, <1>3, Bytes
  <2>2. (p + 1) - 1 = p /\ p + 1 \in Nat /\ p + 1 >= pos /\ p + 1 > 1 /\ p + 1 <= Len(input) + 1
    BY <1>1, <2>1
  <2>3. \A i \in pos .. (p + 1) - 1 : i \in pos .. p - 1 \/ i = p
    BY <1>1
  <2>4. \A i \in pos .. p - 1 : i \in pos .. (p + 1) - 1
    BY <1>1
  <2>5. \A i \in pos .. (p + 1) - 1 : input[i] \in NumberByte
    BY <2>1, <2>3
  <2>6. float <=> isFloat \/ \E i \in pos .. (p + 1) - 1 : input[i] \in {Dot} \cup Exponents
    BY <2>1, <2>3, <2>4
  <2>7. ~float => /\ input[(p + 1) - 1] \in Digit
                  /\ \A i \in pos .. (p + 1) - 1 : input[i] \in Digit \/ (i = 1 /\ input[i] = Minus)
    BY <2>1, <2>2, <2>3
  <2> QED BY <1>3, <2>2, <2>5, <2>6, <2>7, AdvancePreserves
<1>4. CASE Peek(p) = Eof /\ Return(p, Err("Eof"))
  BY <1>4, ReturnErr DEF NumberErrors
<1>5. CASE Peek(p) \notin Digit \cup {Eof} /\ Return(p + 1, Err("ExpectedDigit"))
  BY <1>1, <1>2, <1>5, ReturnErr DEF NumberErrors
<1> QED BY <1>3, <1>4, <1>5 DEF ReadDigit
\* A step to another phase that consumes nothing.
LEMMA StayPreserves ==
  ASSUME IInv, result = Running, phase # "sign",
         NEW ph \in (Loops \cup Tests) \ {"sign"},
         Advance(pos, ph, isFloat),
         ph \in {"integer", "point"} => ~isFloat,
         ph \in {"fraction", "exponent"} => isFloat
  PROVE  IInv'
<1>1. pos' = pos /\ phase' = ph /\ isFloat' = isFloat /\ UNCHANGED <<input, result>>
  BY DEF Advance
<1>2. TypeOK'
  BY <1>1 DEF IInv, TypeOK
<1>3. Flags'
  BY <1>1 DEF Flags
<1>4. Consumed'
  BY <1>1 DEF IInv, Consumed, DigitsOnly
<1> QED BY <1>1, <1>2, <1>3, <1>4 DEF IInv
----------------------------------------------------------------------------
(***************************************************************************)
(* The steps.                                                              *)
(***************************************************************************)
\* What every step finds.
LEMMA Found ==
  ASSUME IInv
  PROVE  /\ input \in Seq(Byte) /\ Len(input) \in Nat
         /\ pos \in Nat \ {0} /\ pos <= Len(input) + 1 /\ isFloat \in BOOLEAN
         /\ \A p \in Nat \ {0} : Peek(p) # Eof => p <= Len(input) /\ Peek(p) = input[p]
BY LenProperties, PeekInside DEF IInv, TypeOK

LEMMA SignPreserves ==
  ASSUME IInv, Sign PROVE IInv'
<1> DEFINE first == IF Peek(1) = Minus THEN 2 ELSE 1
           ph == IF Peek(first) = Zero THEN "point" ELSE "integer"
<1>1. result = Running /\ phase = "sign" /\ ReadDigit(first, ph, FALSE)
  BY DEF Sign, In
<1>2. pos = 1 /\ Len(input) > 0 /\ ~isFloat
  BY <1>1 DEF IInv, Flags
<1>3. first \in Nat \ {0} /\ first >= pos /\ first <= Len(input) + 1
  BY <1>2, Found
<1>4. Peek(1) = Minus => input[1] = Minus
  BY Found, Bytes
<1>5. \A i \in pos .. first - 1 : i = 1 /\ input[i] = Minus
  BY <1>2, <1>4
<1>6. ph \in (Loops \cup Tests) \ {"sign"} /\ ph \notin {"fraction", "exponent"}
  BY DEF Loops, Tests
<1>7. \A i \in pos .. first - 1 : input[i] \in NumberByte /\ input[i] \notin {Dot} \cup Exponents
  BY <1>5, Bytes
<1> HIDE DEF first, ph
<1> QED BY <1>1, <1>2, <1>3, <1>5, <1>6, <1>7, ReadDigitPreserves

LEMMA LoopPreserves ==
  ASSUME IInv, SkipDigit \/ EndDigits PROVE IInv'
<1>1. CASE SkipDigit
  <2>1. PICK ph \in Loops : In(ph) /\ Peek(pos) \in Digit /\ Advance(pos + 1, ph, isFloat)
    BY <1>1 DEF SkipDigit
  <2>2. result = Running /\ phase = ph /\ ph \in (Loops \cup Tests) \ {"sign"}
    BY <2>1 DEF In, Loops
  <2>3. Peek(pos) # Eof
    BY <2>1, Bytes
  <2>4. /\ pos <= Len(input) /\ input[pos] \in Digit /\ input[pos] \in NumberByte
        /\ input[pos] \notin {Dot} \cup Exponents
    BY <2>1, <2>3, Found, Bytes
  <2>5. /\ pos + 1 \in Nat /\ pos + 1 >= pos /\ pos + 1 > 1 /\ pos + 1 <= Len(input) + 1
        /\ (pos + 1) - 1 = pos /\ \A i \in pos .. (pos + 1) - 1 : i = pos
    BY <2>4, Found
  <2>6. /\ ph \in {"integer", "point"} => ~isFloat
        /\ ph \in {"fraction", "exponent"} => isFloat
    BY <2>2 DEF IInv, Flags
  <2>7. /\ \A i \in pos .. (pos + 1) - 1 : input[i] \in NumberByte /\ input[i] \in Digit
        /\ isFloat <=> isFloat \/ \E i \in pos .. (pos + 1) - 1 : input[i] \in {Dot} \cup Exponents
    BY <2>4, <2>5
  <2> QED BY <2>1, <2>2, <2>4, <2>5, <2>6, <2>7, Found, AdvancePreserves
<1>2. CASE EndDigits
  <2>1. PICK ph \in Loops : In(ph) /\ Advance(pos, After[ph], isFloat)
    BY <1>2 DEF EndDigits
  <2>2. result = Running /\ phase # "sign"
    BY <2>1 DEF In, Loops
  <2>3. After[ph] \in (Loops \cup Tests) \ {"sign"} /\ After[ph] \notin {"fraction", "exponent"}
        /\ (After[ph] \in {"integer", "point"} => ~isFloat)
    BY <2>1 DEF After, Loops, Tests, In, IInv, Flags
  <2> QED BY <2>1, <2>2, <2>3, StayPreserves
<1> QED BY <1>1, <1>2

\* A point and the first digit of the fraction.
LEMMA PointPreserves ==
  ASSUME IInv, Point PROVE IInv'
<1>1. result = Running /\ phase = "point" /\ Peek(pos) = Dot /\ ReadDigit(pos + 1, "fraction", TRUE)
  BY DEF Point, In
<1>2. Dot # Eof /\ Dot \in NumberByte
  BY DEF Dot, Eof, NumberByte
<1>3. pos <= Len(input) /\ input[pos] = Dot
  BY <1>1, <1>2, Found
<1>4. /\ pos + 1 \in Nat \ {0} /\ pos + 1 >= pos /\ pos + 1 <= Len(input) + 1
      /\ pos \in pos .. (pos + 1) - 1 /\ \A i \in pos .. (pos + 1) - 1 : i = pos
  BY <1>3, Found
<1>5. /\ \A i \in pos .. (pos + 1) - 1 : input[i] \in NumberByte
      /\ \E i \in pos .. (pos + 1) - 1 : input[i] \in {Dot} \cup Exponents
  BY <1>2, <1>3, <1>4
<1>6. "fraction" \in (Loops \cup Tests) \ {"sign"} /\ "fraction" \notin {"integer", "point"}
  BY DEF Loops
<1> QED BY <1>1, <1>4, <1>5, <1>6, ReadDigitPreserves

\* An exponent, its sign and its first digit.
LEMMA LetterPreserves ==
  ASSUME IInv, Letter PROVE IInv'
<1> DEFINE digit == IF Peek(pos + 1) \in {Minus, Plus} THEN pos + 2 ELSE pos + 1
<1>1. /\ result = Running /\ phase = "letter" /\ Peek(pos) \in Exponents
      /\ ReadDigit(digit, "exponent", TRUE)
  BY DEF Letter, In
<1>2. Eof \notin Exponents /\ Exponents \subseteq NumberByte /\ Eof \notin {Minus, Plus}
      /\ {Minus, Plus} \subseteq NumberByte
  BY DEF Exponents, Eof, Minus, Plus, NumberByte
<1>3. pos <= Len(input) /\ input[pos] \in Exponents
  BY <1>1, <1>2, Found
<1>4. Peek(pos + 1) \in {Minus, Plus} => pos + 1 <= Len(input) /\ input[pos + 1] \in NumberByte
  <2>1. pos + 1 \in Nat \ {0}
    BY Found
  <2> QED BY <1>2, <2>1, Found
<1>5. /\ digit \in Nat \ {0} /\ digit >= pos /\ digit <= Len(input) + 1
      /\ pos \in pos .. digit - 1
      /\ \A i \in pos .. digit - 1 : i = pos \/ (i = pos + 1 /\ Peek(pos + 1) \in {Minus, Plus})
  BY <1>3, <1>4, Found, SMTT(30)
<1> HIDE DEF digit
<1>6. /\ \A i \in pos .. digit - 1 : input[i] \in NumberByte
      /\ \E i \in pos .. digit - 1 : input[i] \in {Dot} \cup Exponents
  BY <1>2, <1>3, <1>4, <1>5
<1>7. "exponent" \in (Loops \cup Tests) \ {"sign"} /\ "exponent" \notin {"integer", "point"}
  BY DEF Loops
<1> QED BY <1>1, <1>5, <1>6, <1>7, ReadDigitPreserves

LEMMA StepIInv == IInv /\ [Next]_vars => IInv'
<1> SUFFICES ASSUME IInv, [Next]_vars PROVE IInv'
  OBVIOUS
<1>1. CASE Sign \/ SkipDigit \/ EndDigits \/ Point \/ Letter
  BY <1>1, SignPreserves, LoopPreserves, PointPreserves, LetterPreserves
<1>2. CASE NoPoint
  <2>1. result = Running /\ phase = "point" /\ Advance(pos, "letter", isFloat)
    BY <1>2 DEF NoPoint, In
  <2>2. "letter" \in (Loops \cup Tests) \ {"sign"}
    BY DEF Tests
  <2> QED BY <2>1, <2>2, StayPreserves
<1>3. CASE NoLetter
  <2>1. result = Running /\ phase = "letter" /\ Advance(pos, "create", isFloat)
    BY <1>3 DEF NoLetter, In
  <2>2. "create" \in (Loops \cup Tests) \ {"sign"}
    BY DEF Tests
  <2> QED BY <2>1, <2>2, StayPreserves
<1>4. CASE CreateNumber
  <2>1. phase = "create" /\ UNCHANGED <<input, pos, phase, isFloat>>
    BY <1>4 DEF CreateNumber, In, Return
  <2>2. \/ result'.tag = "Ok"
        \/ \E e \in NumberErrors : result' = Err(e)
    <3>1. result' \in {CreateFloat(SubSeq(input, 1, pos - 1)), CreateInt(SubSeq(input, 1, pos - 1))}
      BY <1>4 DEF CreateNumber, Return
    <3>2. \A text : \/ CreateFloat(text).tag = "Ok"
                   \/ CreateFloat(text) = Err("InvalidNumber")
      BY DEF CreateFloat, Ok
    <3>3. \A text : \/ CreateInt(text).tag = "Ok"
                   \/ CreateInt(text) = Err("ValueError")
      BY DEF CreateInt, Ok
    <3> QED BY <3>1, <3>2, <3>3 DEF NumberErrors
  <2>3. TypeOK'
    BY <2>1, <2>2 DEF IInv, TypeOK
  <2>4. Consumed'
    BY <2>1 DEF IInv, Consumed, DigitsOnly
  <2> QED BY <2>1, <2>3, <2>4 DEF IInv, Flags
<1>5. CASE UNCHANGED vars
  BY <1>5 DEF vars, IInv, TypeOK, Flags, Consumed, DigitsOnly
<1> QED BY <1>1, <1>2, <1>3, <1>4, <1>5 DEF Next, Iterate, Returned

LEMMA IInvCorrect == Spec => []IInv
<1> QED BY InitIInv, StepIInv, PTL DEF Spec

\* The cursor stays inside the document, whatever the document is: no skip and
\* no slice of parse_number panics (de.rs:547-611).
THEOREM TypeCorrect == Spec => []TypeOK
<1>1. IInv => TypeOK
  BY DEF IInv
<1> QED BY <1>1, IInvCorrect, PTL

\* What the SAFETY comments of parse_number and create_number, and the comment
\* of the trait on is_float, take for granted (de.rs:606-607, 266-269,
\* 158-159) holds for every document.
THEOREM SafeToCreateCorrect == Spec => []SafeToCreate
<1>1. IInv => SafeToCreate
  BY DEF IInv, SafeToCreate, Consumed, DigitsOnly
<1> QED BY <1>1, IInvCorrect, PTL
----------------------------------------------------------------------------
(***************************************************************************)
(* Termination.                                                            *)
(***************************************************************************)
Forward ==
  /\ pos' >= pos /\ Rank[phase'] >= Rank[phase]
  /\ pos' > pos \/ Rank[phase'] > Rank[phase]

LEMMA ReadDigitAdvances ==
  ASSUME IInv, NEW p \in Nat, p >= pos, NEW ph \in Loops \cup Tests, NEW float,
         Rank[ph] >= Rank[phase], ReadDigit(p, ph, float)
  PROVE  Forward \/ UNCHANGED <<pos, phase, isFloat>>
<1>1. pos \in Nat /\ Rank[phase] \in Nat /\ Rank[ph] \in Nat
  BY Found DEF IInv, TypeOK, Rank, Loops, Tests
<1>2. CASE Advance(p + 1, ph, float)
  BY <1>1, <1>2 DEF Advance, Forward
<1>3. CASE pos' \in {p, p + 1} /\ UNCHANGED <<phase, isFloat>>
  BY <1>1, <1>3 DEF Forward
<1> QED BY <1>2, <1>3 DEF ReadDigit, Return

LEMMA IterateAdvances ==
  ASSUME IInv, Iterate PROVE Forward \/ UNCHANGED <<pos, phase, isFloat>>
<1>1. pos \in Nat /\ pos + 1 \in Nat /\ pos + 2 \in Nat /\ pos + 1 >= pos /\ pos + 2 >= pos
  BY Found
<1>2. CASE Sign
  <2> DEFINE first == IF Peek(1) = Minus THEN 2 ELSE 1
             ph == IF Peek(first) = Zero THEN "point" ELSE "integer"
  <2>1. result = Running /\ phase = "sign" /\ ReadDigit(first, ph, FALSE)
    BY <1>2 DEF Sign, In
  <2>2. pos = 1 /\ first \in Nat /\ first >= pos
    BY <2>1 DEF IInv
  <2>3. ph \in Loops \cup Tests /\ Rank[ph] >= Rank[phase]
    BY <2>1 DEF Loops, Tests, Rank
  <2> HIDE DEF first, ph
  <2> QED BY <2>1, <2>2, <2>3, ReadDigitAdvances
<1>3. CASE SkipDigit
  <2>1. pos' = pos + 1 /\ phase' = phase
    BY <1>3 DEF SkipDigit, In, Advance
  <2>2. Rank[phase] \in Nat
    BY DEF IInv, TypeOK, Rank, Loops, Tests
  <2> QED BY <1>1, <2>1, <2>2 DEF Forward
<1>4. CASE EndDigits \/ NoPoint \/ NoLetter
  <2>1. pos' = pos /\ Rank[phase'] > Rank[phase] /\ Rank[phase'] >= Rank[phase]
    BY <1>4 DEF EndDigits, NoPoint, NoLetter, In, Advance, After, Rank, Loops
  <2> QED BY <1>1, <2>1 DEF Forward
<1>5. CASE Point
  <2>1. phase = "point" /\ ReadDigit(pos + 1, "fraction", TRUE)
    BY <1>5 DEF Point, In
  <2>2. "fraction" \in Loops \cup Tests /\ Rank["fraction"] >= Rank[phase]
    BY <2>1 DEF Loops, Rank
  <2> QED BY <1>1, <2>1, <2>2, ReadDigitAdvances
<1>6. CASE Letter
  <2> DEFINE digit == IF Peek(pos + 1) \in {Minus, Plus} THEN pos + 2 ELSE pos + 1
  <2>1. phase = "letter" /\ ReadDigit(digit, "exponent", TRUE)
    BY <1>6 DEF Letter, In
  <2>2. "exponent" \in Loops \cup Tests /\ Rank["exponent"] >= Rank[phase]
    BY <2>1 DEF Loops, Rank
  <2>3. digit \in Nat /\ digit >= pos
    BY <1>1
  <2> HIDE DEF digit
  <2> QED BY <2>1, <2>2, <2>3, ReadDigitAdvances
<1>7. CASE CreateNumber
  BY <1>7 DEF CreateNumber, Return
<1> QED BY <1>2, <1>3, <1>4, <1>5, <1>6, <1>7 DEF Iterate

\* No step of parse_number goes back, in the document or in the function, and
\* the document is finite: the call returns (de.rs:547-611).
THEOREM ProgressCorrect == Spec => Progress
<1>1. IInv /\ [Next]_vars => [Forward]_<<pos, phase, isFloat>>
  BY IterateAdvances DEF Next, Returned, vars
<1> QED BY <1>1, IInvCorrect, PTL DEF Spec, Progress, Forward
----------------------------------------------------------------------------
(***************************************************************************)
(* The grammar, by the indices of the bytes: a number that ends at n has   *)
(* its digits up to b, its fraction up to c and its exponent up to n.      *)
(***************************************************************************)
First(s) == IF s[1] = Minus THEN 2 ELSE 1
DigitsAt(s, i, j) == i <= j /\ \A k \in i .. j : s[k] \in Digit
IntegerAt(s, b) == DigitsAt(s, First(s), b) /\ (s[First(s)] = Zero => b = First(s))
FractionAt(s, b, c) == c = b \/ (s[b + 1] = Dot /\ DigitsAt(s, b + 2, c))
ExponentAt(s, c, n) ==
  \/ n = c
  \/ /\ s[c + 1] \in Exponents
     /\ DigitsAt(s, c + 2, n) \/ (s[c + 2] \in {Minus, Plus} /\ DigitsAt(s, c + 3, n))
NumberAt(s, n) ==
  \E b, c \in 1 .. n : IntegerAt(s, b) /\ b <= c /\ FractionAt(s, b, c) /\ ExponentAt(s, c, n)

LEMMA Slice ==
  ASSUME NEW s \in Seq(Byte), NEW i \in 1 .. Len(s) + 1, NEW j \in 0 .. Len(s)
  PROVE  /\ SubSeq(s, i, j) \in Seq(Byte)
         /\ Len(SubSeq(s, i, j)) = IF i <= j THEN j - i + 1 ELSE 0
         /\ \A k \in 1 .. j - i + 1 : SubSeq(s, i, j)[k] = s[i + k - 1]
         /\ SubSeq(s, i, j) = <<>> <=> j < i
<1>1. Len(s) \in Nat /\ i \in Int /\ j \in Int
  OBVIOUS
<1>2. \A k \in i .. j : s[k] \in Byte
  <2>1. \A k \in i .. j : k \in 1 .. Len(s)
    BY <1>1
  <2> QED BY <2>1
<1>3. /\ SubSeq(s, i, j) \in Seq(Byte)
      /\ Len(SubSeq(s, i, j)) = IF i <= j THEN j - i + 1 ELSE 0
      /\ \A k \in 1 .. j - i + 1 : SubSeq(s, i, j)[k] = s[i + k - 1]
  BY <1>1, <1>2, SubSeqProperties, SMTT(30)
<1>4. SubSeq(s, i, j) = <<>> <=> Len(SubSeq(s, i, j)) = 0
  BY <1>3, EmptySeq
<1> QED BY <1>1, <1>3, <1>4

LEMMA DigitsOfSlice ==
  ASSUME NEW s \in Seq(Byte), NEW i \in 1 .. Len(s) + 1, NEW j \in 0 .. Len(s)
  PROVE  Digits(SubSeq(s, i, j)) <=> DigitsAt(s, i, j)
<1> DEFINE t == SubSeq(s, i, j)
<1>1. /\ Len(t) = IF i <= j THEN j - i + 1 ELSE 0
      /\ \A k \in 1 .. j - i + 1 : t[k] = s[i + k - 1]
      /\ i \in Int /\ j \in Int
  BY Slice
<1> HIDE DEF t
<1>2. ASSUME Digits(t) PROVE DigitsAt(s, i, j)
  <2>1. i <= j /\ Len(t) = j - i + 1
    BY <1>1, <1>2 DEF Digits
  <2>2. ASSUME NEW k \in i .. j PROVE s[k] \in Digit
    <3>1. k - i + 1 \in 1 .. Len(t) /\ i + (k - i + 1) - 1 = k
      BY <1>1, <2>1
    <3>2. t[k - i + 1] = s[k]
      BY <1>1, <2>1, <3>1
    <3> QED BY <1>2, <3>1, <3>2 DEF Digits
  <2> QED BY <2>1, <2>2 DEF DigitsAt
<1>3. ASSUME DigitsAt(s, i, j) PROVE Digits(t)
  <2>1. i <= j /\ Len(t) = j - i + 1
    BY <1>1, <1>3 DEF DigitsAt
  <2>2. ASSUME NEW k \in 1 .. Len(t) PROVE t[k] \in Digit
    <3>1. i + k - 1 \in i .. j /\ k \in 1 .. j - i + 1
      BY <1>1, <2>1
    <3> QED BY <1>1, <1>3, <3>1 DEF DigitsAt
  <2> QED BY <1>1, <2>1, <2>2 DEF Digits
<1> QED BY <1>2, <1>3 DEF t

LEMMA FractionOfSlice ==
  ASSUME NEW s \in Seq(Byte), NEW b \in 0 .. Len(s), NEW c \in b .. Len(s)
  PROVE  IsFraction(SubSeq(s, b + 1, c)) <=> FractionAt(s, b, c)
<1> DEFINE t == SubSeq(s, b + 1, c)
<1>1. Len(s) \in Nat /\ b + 1 \in 1 .. Len(s) + 1 /\ c \in 0 .. Len(s)
  OBVIOUS
<1>2. /\ t = <<>> <=> c = b
      /\ c # b => t[1] = s[b + 1]
  <2>1. /\ t = <<>> <=> c < b + 1
        /\ \A k \in 1 .. c - (b + 1) + 1 : t[k] = s[(b + 1) + k - 1]
    BY <1>1, Slice
  <2>2. c # b => 1 \in 1 .. c - (b + 1) + 1 /\ (b + 1) + 1 - 1 = b + 1
    BY <1>1
  <2> HIDE DEF t
  <2>3. c < b + 1 <=> c = b
    BY <1>1
  <2> QED BY <2>1, <2>2, <2>3
<1>3. CASE c = b
  <2> HIDE DEF t
  <2>1. IsFraction(t) /\ FractionAt(s, b, c)
    BY <1>2, <1>3 DEF IsFraction, FractionAt
  <2> QED BY <2>1 DEF t
<1>4. CASE c # b
  <2>1. b + 1 \in 1 .. Len(s) /\ c \in b + 1 .. Len(s) /\ b + 2 \in 1 .. Len(s) + 1
        /\ (b + 1) + 1 = b + 2
    BY <1>1, <1>4
  <2>2. Tail(t) = SubSeq(s, b + 2, c)
    BY <2>1, HeadTailOfSubSeq
  <2>3. Digits(Tail(t)) <=> DigitsAt(s, b + 2, c)
    BY <1>1, <2>1, <2>2, DigitsOfSlice
  <2> HIDE DEF t
  <2>4. IsFraction(t) <=> FractionAt(s, b, c)
    BY <1>2, <1>4, <2>3 DEF IsFraction, FractionAt
  <2> QED BY <2>4 DEF t
<1> QED BY <1>3, <1>4

LEMMA ExponentOfSlice ==
  ASSUME NEW s \in Seq(Byte), NEW c \in 0 .. Len(s)
  PROVE  IsExponent(SubSeq(s, c + 1, Len(s))) <=> ExponentAt(s, c, Len(s))
<1> DEFINE n == Len(s)
           t == SubSeq(s, c + 1, n)
<1>1. n \in Nat /\ c + 1 \in 1 .. n + 1 /\ n \in 0 .. n /\ c \in Nat /\ c <= n
  OBVIOUS
<1>2. /\ t = <<>> <=> n = c
      /\ Len(t) = n - c
      /\ \A k \in 1 .. n - c : t[k] = s[c + k]
      /\ t \in Seq(Byte)
  <2>1. /\ t = <<>> <=> n < c + 1
        /\ Len(t) = IF c + 1 <= n THEN n - (c + 1) + 1 ELSE 0
        /\ \A k \in 1 .. n - (c + 1) + 1 : t[k] = s[(c + 1) + k - 1]
        /\ t \in Seq(Byte)
    BY <1>1, Slice
  <2>2. \A k \in 1 .. n - c : (c + 1) + k - 1 = c + k
    BY <1>1
  <2>3. n - (c + 1) + 1 = n - c /\ (n < c + 1 <=> n = c)
    BY <1>1
  <2> HIDE DEF t, n
  <2> QED BY <1>1, <2>1, <2>2, <2>3
<1>3. CASE n = c
  <2> HIDE DEF t, n
  <2>1. IsExponent(t) /\ ExponentAt(s, c, n)
    BY <1>2, <1>3 DEF IsExponent, ExponentAt
  <2> QED BY <2>1 DEF t, n
<1>4. CASE n # c
  <2>1. /\ c + 1 \in 1 .. n /\ n \in c + 1 .. n /\ c + 2 \in 1 .. n + 1 /\ (c + 1) + 1 = c + 2
        /\ 1 \in 1 .. n - c /\ t[1] = s[c + 1]
    <3> HIDE DEF t, n
    <3>1. /\ c + 1 \in 1 .. n /\ n \in c + 1 .. n /\ c + 2 \in 1 .. n + 1 /\ (c + 1) + 1 = c + 2
          /\ 1 \in 1 .. n - c
      BY <1>1, <1>4
    <3>2. t[1] = s[c + 1]
      BY <1>2, <3>1
    <3> QED BY <3>1, <3>2
  <2>2. Tail(t) = SubSeq(s, c + 2, n)
    BY <2>1, HeadTailOfSubSeq
  <2>3. Digits(Tail(t)) <=> DigitsAt(s, c + 2, n)
    BY <1>1, <2>1, <2>2, DigitsOfSlice
  <2>4. ASSUME n > c + 1
        PROVE  /\ t[2] = s[c + 2]
               /\ Digits(SubSeq(t, 3, Len(t))) <=> DigitsAt(s, c + 3, n)
    <3>1. /\ 2 \in 1 .. n - c /\ 3 \in 1 .. Len(t) + 1 /\ Len(t) \in 0 .. Len(t)
          /\ c + 3 \in Nat
      BY <1>1, <1>2, <2>4
    <3>2. Digits(SubSeq(t, 3, Len(t))) <=> DigitsAt(t, 3, n - c)
      BY <1>2, <3>1, DigitsOfSlice
    <3>3. ASSUME DigitsAt(t, 3, n - c) PROVE DigitsAt(s, c + 3, n)
      <4>1. \A k \in c + 3 .. n : k - c \in 3 .. n - c /\ k - c \in 1 .. n - c /\ c + (k - c) = k
        BY <1>1
      <4>2. \A k \in c + 3 .. n : t[k - c] = s[k] /\ t[k - c] \in Digit
        BY <1>2, <3>3, <4>1 DEF DigitsAt
      <4> QED BY <1>1, <3>3, <4>2 DEF DigitsAt
    <3>4. ASSUME DigitsAt(s, c + 3, n) PROVE DigitsAt(t, 3, n - c)
      <4>1. \A k \in 3 .. n - c : k \in 1 .. n - c /\ c + k \in c + 3 .. n
        BY <1>1
      <4>2. \A k \in 3 .. n - c : t[k] = s[c + k] /\ s[c + k] \in Digit
        BY <1>2, <3>4, <4>1 DEF DigitsAt
      <4> QED BY <1>1, <3>4, <4>2 DEF DigitsAt
    <3> QED BY <1>2, <3>1, <3>2, <3>3, <3>4
  <2>5. Len(t) > 1 <=> n > c + 1
    BY <1>1, <1>2
  <2>6. DigitsAt(s, c + 3, n) => n > c + 1
    BY <1>1 DEF DigitsAt
  <2> HIDE DEF t, n
  <2>7. IsExponent(t) <=> ExponentAt(s, c, n)
    BY <1>2, <1>4, <2>1, <2>3, <2>4, <2>5, <2>6 DEF IsExponent, ExponentAt
  <2> QED BY <2>7 DEF t, n
<1> QED BY <1>3, <1>4

LEMMA NumberBytes ==
  ASSUME NEW s \in Seq(Byte)
  PROVE  IsNumber(s) <=> NumberAt(s, Len(s))
<1> DEFINE n == Len(s)
<1>1. n \in Nat
  OBVIOUS
<1>2. ASSUME NEW a \in {1, 2}, NEW b \in 1 .. n, a = First(s)
      PROVE  IsInteger(SubSeq(s, a, b)) <=> IntegerAt(s, b)
  <2> DEFINE t == SubSeq(s, a, b)
  <2>1. a \in 1 .. n + 1 /\ b \in 0 .. n
    BY <1>1
  <2>2. Digits(t) <=> DigitsAt(s, a, b)
    BY <2>1, DigitsOfSlice
  <2>3. a <= b => Len(t) = b - a + 1 /\ t[1] = s[a]
    <3>1. Len(t) = IF a <= b THEN b - a + 1 ELSE 0
      BY <2>1, Slice
    <3>2. \A k \in 1 .. b - a + 1 : t[k] = s[a + k - 1]
      BY <2>1, Slice
    <3>3. a <= b => 1 \in 1 .. b - a + 1 /\ a + 1 - 1 = a
      BY <1>1
    <3> HIDE DEF t
    <3> QED BY <3>1, <3>2, <3>3
  <2>4. DigitsAt(s, a, b) => a <= b
    BY DEF DigitsAt
  <2> HIDE DEF t
  <2>5. IsInteger(t) <=> IntegerAt(s, b)
    <3>1. a <= b => (Len(t) = 1 <=> b = a)
      BY <1>1, <2>3
    <3> QED BY <1>2, <2>2, <2>3, <2>4, <3>1 DEF IsInteger, IntegerAt
  <2> QED BY <2>5 DEF t
<1>3. ASSUME NEW b \in 1 .. n, NEW c \in 1 .. n, b <= c
      PROVE  /\ IsFraction(SubSeq(s, b + 1, c)) <=> FractionAt(s, b, c)
             /\ IsExponent(SubSeq(s, c + 1, n)) <=> ExponentAt(s, c, n)
  <2>1. b \in 0 .. n /\ c \in b .. n /\ c \in 0 .. n
    BY <1>1, <1>3
  <2> QED BY <2>1, FractionOfSlice, ExponentOfSlice
<1>4. ASSUME NEW a \in {1, 2}, NEW b \in 1 .. n, a = 2 => n > 1 /\ s[1] = Minus,
             IsInteger(SubSeq(s, a, b))
      PROVE  a = First(s)
  <2>1. CASE a = 2
    BY <1>4, <2>1 DEF First
  <2>2. CASE a = 1
    <3>1. DigitsAt(s, 1, b)
      BY <1>1, <1>4, <2>2, DigitsOfSlice DEF IsInteger
    <3>2. s[1] \in Digit
      BY <1>1, <3>1 DEF DigitsAt
    <3> QED BY <2>2, <3>2 DEF First, Digit, Minus
  <2> QED BY <2>1, <2>2
<1>5. ASSUME NEW b \in 1 .. n, IntegerAt(s, b)
      PROVE  First(s) \in {1, 2} /\ (First(s) = 2 => n > 1 /\ s[1] = Minus)
  BY <1>1, <1>5 DEF IntegerAt, DigitsAt, First
<1>6. ASSUME IsNumber(s) PROVE NumberAt(s, n)
  <2>1. PICK a \in {1, 2}, b \in 1 .. n, c \in 1 .. n :
          /\ a = 2 => n > 1 /\ s[1] = Minus
          /\ IsInteger(SubSeq(s, a, b))
          /\ b <= c /\ IsFraction(SubSeq(s, b + 1, c)) /\ IsExponent(SubSeq(s, c + 1, n))
    BY <1>6 DEF IsNumber
  <2>2. a = First(s)
    BY <2>1, <1>4
  <2> QED BY <1>2, <1>3, <2>1, <2>2 DEF NumberAt
<1>7. ASSUME NumberAt(s, n) PROVE IsNumber(s)
  <2>1. PICK b \in 1 .. n, c \in 1 .. n :
          IntegerAt(s, b) /\ b <= c /\ FractionAt(s, b, c) /\ ExponentAt(s, c, n)
    BY <1>7 DEF NumberAt
  <2>2. PICK a \in {1, 2} : a = First(s)
    BY <1>5, <2>1
  <2>3. IsInteger(SubSeq(s, a, b)) /\ IsFraction(SubSeq(s, b + 1, c)) /\ IsExponent(SubSeq(s, c + 1, n))
    BY <1>2, <1>3, <2>1, <2>2
  <2> QED BY <1>5, <2>1, <2>2, <2>3 DEF IsNumber
<1> QED BY <1>6, <1>7
----------------------------------------------------------------------------
(***************************************************************************)
(* How a number goes on: what its next byte can be, once it has a sign, an *)
(* integer, a point and so on up to n.                                     *)
(***************************************************************************)
LEMMA NumberBegins ==
  ASSUME NEW s, NEW m \in Nat, NumberAt(s, m)
  PROVE  /\ m >= 1 /\ s[1] \in Digit \cup {Minus}
         /\ s[1] = Minus => m > 1 /\ s[2] \in Digit
<1>1. PICK b \in 1 .. m : DigitsAt(s, First(s), b)
  BY DEF NumberAt, IntegerAt
<1>2. First(s) <= b /\ s[First(s)] \in Digit
  <2>1. First(s) \in Nat
    BY DEF First
  <2>2. First(s) \in First(s) .. b
    BY <1>1, <2>1 DEF DigitsAt
  <2> QED BY <1>1, <2>2 DEF DigitsAt
<1> QED BY <1>2 DEF First

\* The integer of a number ends before its point and before its exponent.
LEMMA IntegerEnds ==
  ASSUME NEW s, NEW m \in Nat, NEW b \in Nat, NEW d \in Nat, NEW c \in Nat,
         IntegerAt(s, b), b < m, s[b + 1] \in {Dot} \cup Exponents,
         IntegerAt(s, d), d <= c, c <= m, FractionAt(s, d, c), ExponentAt(s, c, m)
  PROVE  d = b
<1>1. First(s) \in Nat /\ First(s) <= b /\ First(s) <= d
  BY DEF First, IntegerAt, DigitsAt
<1>2. s[b + 1] \notin Digit
  BY Bytes
<1>3. ~(b < d)
  <2>1. b < d => b + 1 \in First(s) .. d
    BY <1>1
  <2> QED BY <1>2, <2>1 DEF IntegerAt, DigitsAt
<1>4. ~(d < b)
  <2> SUFFICES ASSUME d < b PROVE FALSE
    OBVIOUS
  <2>1. d + 1 \in First(s) .. b
    BY <1>1
  <2>2. s[d + 1] \in Digit
    BY <2>1 DEF IntegerAt, DigitsAt
  <2>3. s[d + 1] \notin {Dot} \cup Exponents
    BY <2>2, Bytes
  <2>4. c = d /\ m # c
    BY <2>3 DEF FractionAt
  <2> QED BY <2>3, <2>4 DEF ExponentAt
<1> QED BY <1>3, <1>4

\* The fraction of a number ends before its exponent.
LEMMA FractionEnds ==
  ASSUME NEW s, NEW m \in Nat, NEW b \in Nat, NEW c \in Nat, NEW d \in Nat,
         b <= c, FractionAt(s, b, c), c < m, s[c + 1] \in Exponents,
         b <= d, d <= m, FractionAt(s, b, d), ExponentAt(s, d, m)
  PROVE  d = c
<1>1. s[c + 1] \notin Digit /\ s[c + 1] # Dot
  BY Bytes DEF Dot, Exponents
<1>2. ~(c < d)
  <2> SUFFICES ASSUME c < d PROVE FALSE
    OBVIOUS
  <2>1. s[b + 1] = Dot /\ DigitsAt(s, b + 2, d)
    BY DEF FractionAt
  <2>2. c # b
    BY <1>1, <2>1
  <2>3. b + 2 <= c
    BY <2>2 DEF FractionAt, DigitsAt
  <2>4. c + 1 \in b + 2 .. d
    BY <2>3
  <2> QED BY <1>1, <2>1, <2>4 DEF DigitsAt
<1>3. ~(d < c)
  <2> SUFFICES ASSUME d < c PROVE FALSE
    OBVIOUS
  <2>1. s[b + 1] = Dot /\ DigitsAt(s, b + 2, c)
    BY DEF FractionAt
  <2>2. s[d + 1] \in Exponents
    BY DEF ExponentAt
  <2>3. d # b
    BY <2>1, <2>2 DEF Dot, Exponents
  <2>4. b + 2 <= d
    BY <2>3 DEF FractionAt, DigitsAt
  <2>5. d + 1 \in b + 2 .. c
    BY <2>4
  <2>6. s[d + 1] \in Digit
    BY <2>1, <2>5 DEF DigitsAt
  <2> QED BY <2>2, <2>6, Bytes
<1> QED BY <1>2, <1>3

LEMMA AfterInteger ==
  ASSUME NEW s, NEW m \in Nat, NumberAt(s, m), NEW n \in Nat, n < m, IntegerAt(s, n)
  PROVE  /\ s[n + 1] \in Digit \cup {Dot} \cup Exponents
         /\ s[First(s)] = Zero => s[n + 1] \notin Digit
<1>1. PICK b \in 1 .. m, c \in 1 .. m :
        IntegerAt(s, b) /\ b <= c /\ FractionAt(s, b, c) /\ ExponentAt(s, c, m)
  BY DEF NumberAt
<1>2. First(s) \in Nat /\ First(s) <= n /\ First(s) <= b
  BY <1>1 DEF First, IntegerAt, DigitsAt
<1>3. CASE n < b
  <2>1. n + 1 \in First(s) .. b
    BY <1>2, <1>3
  <2>2. s[n + 1] \in Digit
    BY <1>1, <2>1 DEF IntegerAt, DigitsAt
  <2>3. s[First(s)] # Zero
    BY <1>1, <1>2, <1>3 DEF IntegerAt
  <2> QED BY <2>2, <2>3
<1>4. CASE n = b
  <2>1. s[n + 1] \in {Dot} \cup Exponents
    BY <1>1, <1>4 DEF FractionAt, ExponentAt
  <2> QED BY <2>1, Bytes
<1>5. ~(b < n)
  <2> SUFFICES ASSUME b < n PROVE FALSE
    OBVIOUS
  <2>1. b + 1 \in First(s) .. n /\ b < m
    BY <1>2
  <2>2. s[b + 1] \in Digit
    BY <2>1 DEF IntegerAt, DigitsAt
  <2>3. s[b + 1] \in {Dot} \cup Exponents
    BY <1>1, <2>1 DEF FractionAt, ExponentAt
  <2> QED BY <2>2, <2>3, Bytes
<1> QED BY <1>3, <1>4, <1>5

LEMMA AfterPoint ==
  ASSUME NEW s, NEW m \in Nat, NumberAt(s, m), NEW b \in Nat, b < m, IntegerAt(s, b), s[b + 1] = Dot
  PROVE  /\ b + 1 < m /\ s[b + 2] \in Digit
         /\ \A n \in Nat : n < m /\ DigitsAt(s, b + 2, n) => s[n + 1] \in Digit \cup Exponents
<1>1. PICK d \in 1 .. m, c \in 1 .. m :
        IntegerAt(s, d) /\ d <= c /\ FractionAt(s, d, c) /\ ExponentAt(s, c, m)
  BY DEF NumberAt
<1>2. d = b
  BY <1>1, IntegerEnds
<1>3. c # b
  <2>1. Dot \notin Exponents
    BY DEF Dot, Exponents
  <2> QED BY <1>1, <1>2, <2>1 DEF ExponentAt
<1>4. DigitsAt(s, b + 2, c)
  BY <1>1, <1>2, <1>3 DEF FractionAt
<1>5. b + 2 <= c /\ b + 1 < m /\ s[b + 2] \in Digit
  BY <1>4 DEF DigitsAt
<1>6. ASSUME NEW n \in Nat, n < m, DigitsAt(s, b + 2, n)
      PROVE  s[n + 1] \in Digit \cup Exponents
  <2>1. b + 2 <= n
    BY <1>6 DEF DigitsAt
  <2>2. CASE n < c
    <3>1. n + 1 \in b + 2 .. c
      BY <2>1, <2>2
    <3> QED BY <1>4, <3>1 DEF DigitsAt
  <2>3. CASE n = c
    BY <1>1, <1>6, <2>3 DEF ExponentAt
  <2>4. ~(c < n)
    <3> SUFFICES ASSUME c < n PROVE FALSE
      OBVIOUS
    <3>1. c + 1 \in b + 2 .. n /\ c < m
      BY <1>5, <1>6
    <3>2. s[c + 1] \in Digit /\ s[c + 1] \in Exponents
      BY <1>1, <1>6, <3>1 DEF DigitsAt, ExponentAt
    <3> QED BY <3>2, Bytes
  <2> QED BY <2>2, <2>3, <2>4
<1> QED BY <1>5, <1>6

LEMMA AfterLetter ==
  ASSUME NEW s, NEW m \in Nat, NumberAt(s, m), NEW b \in Nat, NEW c \in Nat, b <= c, c < m,
         IntegerAt(s, b), FractionAt(s, b, c), s[c + 1] \in Exponents
  PROVE  /\ c + 1 < m /\ s[c + 2] \in Digit \cup {Minus, Plus}
         /\ s[c + 2] \in {Minus, Plus} => c + 2 < m /\ s[c + 3] \in Digit
         /\ \A n \in Nat, d \in {c + 2, c + 3} :
              n < m /\ DigitsAt(s, d, n) /\ (d = c + 3 => s[c + 2] \in {Minus, Plus})
                => s[n + 1] \in Digit
<1>1. PICK e \in 1 .. m, f \in 1 .. m :
        IntegerAt(s, e) /\ e <= f /\ FractionAt(s, e, f) /\ ExponentAt(s, f, m)
  BY DEF NumberAt
<1>2. b < m /\ s[b + 1] \in {Dot} \cup Exponents
  BY DEF FractionAt
<1>3. e = b
  BY <1>1, <1>2, IntegerEnds
<1>4. f = c
  BY <1>1, <1>3, FractionEnds
<1>5. DigitsAt(s, c + 2, m) \/ (s[c + 2] \in {Minus, Plus} /\ DigitsAt(s, c + 3, m))
  BY <1>1, <1>4 DEF ExponentAt
<1>6. CASE DigitsAt(s, c + 2, m)
  <2>1. c + 2 <= m /\ c + 2 \in c + 2 .. m
    BY <1>6 DEF DigitsAt
  <2>2. s[c + 2] \in Digit /\ s[c + 2] \notin {Minus, Plus}
    BY <1>6, <2>1, Bytes DEF DigitsAt
  <2>3. ASSUME NEW n \in Nat, n < m, DigitsAt(s, c + 2, n) PROVE s[n + 1] \in Digit
    <3>1. n + 1 \in c + 2 .. m
      BY <2>3 DEF DigitsAt
    <3> QED BY <1>6, <3>1 DEF DigitsAt
  <2> QED BY <2>1, <2>2, <2>3
<1>7. CASE s[c + 2] \in {Minus, Plus} /\ DigitsAt(s, c + 3, m)
  <2>1. c + 3 <= m /\ c + 3 \in c + 3 .. m
    BY <1>7 DEF DigitsAt
  <2>2. s[c + 3] \in Digit /\ s[c + 2] \notin Digit
    BY <1>7, <2>1, Bytes DEF DigitsAt
  <2>3. ASSUME NEW n \in Nat, DigitsAt(s, c + 2, n) PROVE FALSE
    <3>1. c + 2 \in c + 2 .. n
      BY <2>3 DEF DigitsAt
    <3> QED BY <2>2, <2>3, <3>1 DEF DigitsAt
  <2>4. ASSUME NEW n \in Nat, n < m, DigitsAt(s, c + 3, n) PROVE s[n + 1] \in Digit
    <3>1. n + 1 \in c + 3 .. m
      BY <2>4 DEF DigitsAt
    <3> QED BY <1>7, <3>1 DEF DigitsAt
  <2> QED BY <1>7, <2>1, <2>2, <2>3, <2>4
<1> QED BY <1>5, <1>6, <1>7
----------------------------------------------------------------------------
(***************************************************************************)
(* Texts that begin alike.                                                 *)
(***************************************************************************)
Agree(u, s, n) == \A i \in 1 .. n : u[i] = s[i]

LEMMA AgreeAt ==
  ASSUME NEW u, NEW s, NEW n \in Nat, Agree(u, s, n)
  PROVE  /\ \A i \in Nat \ {0}, j \in Nat : j <= n => (DigitsAt(s, i, j) <=> DigitsAt(u, i, j))
         /\ \A b \in 1 .. n : IntegerAt(s, b) <=> IntegerAt(u, b)
         /\ \A b, c \in 1 .. n : b <= c => (FractionAt(s, b, c) <=> FractionAt(u, b, c))
         /\ NumberAt(s, n) <=> NumberAt(u, n)
<1>1. ASSUME NEW i \in Nat \ {0}, NEW j \in Nat, j <= n
      PROVE  DigitsAt(s, i, j) <=> DigitsAt(u, i, j)
  <2>1. \A k \in i .. j : k \in 1 .. n
    BY <1>1
  <2>2. \A k \in i .. j : s[k] = u[k]
    BY <2>1 DEF Agree
  <2> QED BY <2>2 DEF DigitsAt
<1>2. ASSUME NEW b \in 1 .. n PROVE IntegerAt(s, b) <=> IntegerAt(u, b)
  <2>1. First(s) = First(u) /\ First(s) \in Nat \ {0}
    BY <1>2 DEF First, Agree
  <2>2. DigitsAt(s, First(s), b) <=> DigitsAt(u, First(s), b)
    BY <1>1, <2>1
  <2>3. DigitsAt(s, First(s), b) => s[First(s)] = u[First(s)]
    BY <2>1 DEF Agree, DigitsAt
  <2> QED BY <2>1, <2>2, <2>3 DEF IntegerAt
<1>3. ASSUME NEW b \in 1 .. n, NEW c \in 1 .. n, b <= c
      PROVE  FractionAt(s, b, c) <=> FractionAt(u, b, c)
  <2>1. c # b => s[b + 1] = u[b + 1]
    BY <1>3 DEF Agree
  <2>2. DigitsAt(s, b + 2, c) <=> DigitsAt(u, b + 2, c)
    BY <1>1
  <2> QED BY <2>1, <2>2 DEF FractionAt
<1>4. ASSUME NEW c \in 1 .. n PROVE ExponentAt(s, c, n) <=> ExponentAt(u, c, n)
  <2>1. /\ DigitsAt(s, c + 2, n) <=> DigitsAt(u, c + 2, n)
        /\ DigitsAt(s, c + 3, n) <=> DigitsAt(u, c + 3, n)
    BY <1>1
  <2>2. DigitsAt(s, c + 2, n) => s[c + 1] = u[c + 1]
    BY <1>4 DEF Agree, DigitsAt
  <2>3. DigitsAt(s, c + 3, n) => s[c + 1] = u[c + 1] /\ s[c + 2] = u[c + 2]
    BY <1>4 DEF Agree, DigitsAt
  <2> QED BY <2>1, <2>2, <2>3 DEF ExponentAt
<1>5. NumberAt(s, n) <=> NumberAt(u, n)
  BY <1>2, <1>3, <1>4 DEF NumberAt
<1> QED BY <1>1, <1>2, <1>3, <1>5

\* The first n bytes of s are a number, or can be continued to one.
LEMMA Prefixes ==
  ASSUME NEW s \in Seq(Byte), NEW n \in 0 .. Len(s)
  PROVE  /\ IsNumber(SubSeq(s, 1, n)) <=> NumberAt(s, n)
         /\ (\A u : Agree(u, s, n) /\ u[n + 1] = Zero => NumberAt(u, n + 1))
              => Viable(SubSeq(s, 1, n))
         /\ Viable(SubSeq(s, 1, n))
              => \E u : \E m \in {n, n + 1} : Agree(u, s, n) /\ NumberAt(u, m)
<1> DEFINE t == SubSeq(s, 1, n)
           w == Append(t, Zero)
<1>1. n \in Nat /\ t \in Seq(Byte) /\ Len(t) = n /\ Agree(t, s, n)
  <2>1. n \in Nat /\ 1 \in 1 .. Len(s) + 1
    OBVIOUS
  <2>2. /\ t \in Seq(Byte) /\ Len(t) = IF 1 <= n THEN n - 1 + 1 ELSE 0
        /\ \A k \in 1 .. n - 1 + 1 : t[k] = s[1 + k - 1]
    BY <2>1, Slice
  <2>3. n - 1 + 1 = n /\ \A k \in 1 .. n : 1 + k - 1 = k
    BY <2>1
  <2> HIDE DEF t
  <2> QED BY <2>1, <2>2, <2>3 DEF Agree
<1> HIDE DEF t
<1>2. /\ w \in Seq(Byte) /\ Len(w) = n + 1 /\ w[n + 1] = Zero
      /\ \A i \in 1 .. n : w[i] = t[i]
  BY <1>1 DEF Byte, Zero
<1>3. Agree(w, s, n)
  BY <1>1, <1>2 DEF Agree
<1>4. IsNumber(t) <=> NumberAt(s, n)
  BY <1>1, AgreeAt, NumberBytes
<1> HIDE DEF w
<1>5. IsNumber(w) <=> NumberAt(w, n + 1)
  BY <1>2, NumberBytes
<1>6. Viable(t) <=> NumberAt(s, n) \/ NumberAt(w, n + 1)
  BY <1>4, <1>5 DEF Viable, w
<1>7. ASSUME \A u : Agree(u, s, n) /\ u[n + 1] = Zero => NumberAt(u, n + 1)
      PROVE  Viable(t)
  BY <1>2, <1>3, <1>6, <1>7
<1>8. ASSUME Viable(t)
      PROVE  \E u : \E m \in {n, n + 1} : Agree(u, s, n) /\ NumberAt(u, m)
  <2>1. Agree(s, s, n)
    BY DEF Agree
  <2> QED BY <1>3, <1>6, <1>8, <2>1
<1> QED BY <1>4, <1>7, <1>8 DEF t
----------------------------------------------------------------------------
(***************************************************************************)
(* The texts at which parse_number insists on a digit: a minus, a point    *)
(* or the beginning of an exponent is the last byte.                       *)
(***************************************************************************)
Mantissa(s, b, c) ==
  b \in Nat \ {0} /\ c \in Nat /\ b <= c /\ IntegerAt(s, b) /\ FractionAt(s, b, c)

NeedsDigit(s, n) ==
  \/ n = 1 /\ s[1] = Minus
  \/ \E b \in Nat \ {0} : n = b + 1 /\ IntegerAt(s, b) /\ s[b + 1] = Dot
  \/ \E b, c \in Nat : n = c + 1 /\ Mantissa(s, b, c) /\ s[c + 1] \in Exponents
                       /\ (n < Len(s) => s[n + 1] \notin {Minus, Plus})
  \/ \E b, c \in Nat : n = c + 2 /\ Mantissa(s, b, c) /\ s[c + 1] \in Exponents
                       /\ s[c + 2] \in {Minus, Plus}

\* They can be continued: a zero completes them.
LEMMA ZeroCompletes ==
  ASSUME NEW s \in Seq(Byte), NEW n \in Nat, NeedsDigit(s, n),
         NEW u, Agree(u, s, n), u[n + 1] = Zero
  PROVE  NumberAt(u, n + 1)
<1>1. Zero \in Digit /\ DigitsAt(u, n + 1, n + 1)
  BY DEF Zero, Digit, DigitsAt
<1>2. CASE n = 1 /\ s[1] = Minus
  <2>1. First(u) = 2 /\ IntegerAt(u, 2)
    BY <1>1, <1>2 DEF First, IntegerAt, Agree
  <2>2. FractionAt(u, 2, 2) /\ ExponentAt(u, 2, 2)
    BY DEF FractionAt, ExponentAt
  <2> QED BY <1>2, <2>1, <2>2 DEF NumberAt
<1>3. ASSUME NEW b \in Nat \ {0}, n = b + 1, IntegerAt(s, b), s[b + 1] = Dot
      PROVE  NumberAt(u, n + 1)
  <2>0. b \in 1 .. n /\ b + 1 \in 1 .. n
    BY <1>3
  <2>1. b \in 1 .. n /\ IntegerAt(u, b) /\ u[b + 1] = Dot
    <3>1. IntegerAt(u, b)
      BY <1>3, <2>0, AgreeAt
    <3> QED BY <1>3, <2>0, <3>1 DEF Agree
  <2>2. n + 1 = b + 2
    BY <1>3
  <2>3. FractionAt(u, b, n + 1) /\ ExponentAt(u, n + 1, n + 1)
    BY <1>1, <2>1, <2>2 DEF FractionAt, ExponentAt
  <2>4. b \in 1 .. n + 1 /\ n + 1 \in 1 .. n + 1 /\ b <= n + 1
    BY <1>3
  <2> QED BY <2>1, <2>3, <2>4 DEF NumberAt
<1>4. ASSUME NEW b \in Nat, NEW c \in Nat, Mantissa(s, b, c), s[c + 1] \in Exponents,
             \/ n = c + 1
             \/ n = c + 2 /\ s[c + 2] \in {Minus, Plus}
      PROVE  NumberAt(u, n + 1)
  <2>1. /\ b \in 1 .. n /\ c \in 1 .. n /\ b <= c /\ c + 1 \in 1 .. n
        /\ n = c + 2 => c + 2 \in 1 .. n
    BY <1>4 DEF Mantissa
  <2>2. IntegerAt(u, b) /\ FractionAt(u, b, c)
    BY <1>4, <2>1, AgreeAt DEF Mantissa
  <2>3. u[c + 1] \in Exponents /\ (n = c + 2 => u[c + 2] \in {Minus, Plus})
    BY <1>4, <2>1 DEF Agree
  <2>4. ExponentAt(u, c, n + 1)
    <3>1. CASE n = c + 1
      <4>1. n + 1 = c + 2
        BY <3>1
      <4> QED BY <1>1, <2>3, <4>1 DEF ExponentAt
    <3>2. CASE n = c + 2
      <4>1. n + 1 = c + 3
        BY <3>2
      <4> QED BY <1>1, <2>3, <3>2, <4>1 DEF ExponentAt
    <3> QED BY <1>4, <3>1, <3>2
  <2>5. b \in 1 .. n + 1 /\ c \in 1 .. n + 1
    BY <2>1
  <2> QED BY <2>1, <2>2, <2>4, <2>5 DEF NumberAt
<1> QED BY <1>2, <1>3, <1>4 DEF NeedsDigit

\* And with nothing but a digit.
LEMMA OnlyADigit ==
  ASSUME NEW s \in Seq(Byte), NEW n \in Nat \ {0}, n <= Len(s), NeedsDigit(s, n),
         NEW u, NEW m \in Nat, NumberAt(u, m), m >= n, Agree(u, s, n)
  PROVE  n < m /\ (n < Len(s) /\ u[n + 1] = s[n + 1] => s[n + 1] \in Digit)
<1>1. CASE n = 1 /\ s[1] = Minus
  <2>1. u[1] = Minus
    BY <1>1 DEF Agree
  <2> QED BY <1>1, <2>1, NumberBegins
<1>2. ASSUME NEW b \in Nat \ {0}, n = b + 1, IntegerAt(s, b), s[b + 1] = Dot
      PROVE  n < m /\ (n < Len(s) /\ u[n + 1] = s[n + 1] => s[n + 1] \in Digit)
  <2>0. b \in 1 .. n /\ b + 1 \in 1 .. n /\ b < m
    BY <1>2
  <2>1. b \in Nat /\ IntegerAt(u, b) /\ u[b + 1] = Dot /\ b < m
    <3>1. IntegerAt(u, b)
      BY <1>2, <2>0, AgreeAt
    <3> QED BY <1>2, <2>0, <3>1 DEF Agree
  <2>2. b + 1 < m /\ u[b + 2] \in Digit
    BY <2>1, AfterPoint
  <2>3. n + 1 = b + 2
    BY <1>2
  <2> QED BY <1>2, <2>2, <2>3
<1>3. ASSUME NEW b \in Nat, NEW c \in Nat, Mantissa(s, b, c), s[c + 1] \in Exponents,
             \/ n = c + 1 /\ (n < Len(s) => s[n + 1] \notin {Minus, Plus})
             \/ n = c + 2 /\ s[c + 2] \in {Minus, Plus}
      PROVE  n < m /\ (n < Len(s) /\ u[n + 1] = s[n + 1] => s[n + 1] \in Digit)
  <2>1. /\ b \in 1 .. n /\ c \in 1 .. n /\ b <= c /\ c + 1 \in 1 .. n /\ c < m
        /\ n = c + 2 => c + 2 \in 1 .. n
    BY <1>3 DEF Mantissa
  <2>2. IntegerAt(u, b) /\ FractionAt(u, b, c)
    BY <1>3, <2>1, AgreeAt DEF Mantissa
  <2>3. u[c + 1] \in Exponents /\ (n = c + 2 => u[c + 2] \in {Minus, Plus})
    BY <1>3, <2>1 DEF Agree
  <2>4. /\ c + 1 < m /\ u[c + 2] \in Digit \cup {Minus, Plus}
        /\ u[c + 2] \in {Minus, Plus} => c + 2 < m /\ u[c + 3] \in Digit
    BY <2>1, <2>2, <2>3, AfterLetter
  <2>5. CASE n = c + 1 /\ (n < Len(s) => s[n + 1] \notin {Minus, Plus})
    <3>1. n + 1 = c + 2
      BY <2>5
    <3> QED BY <2>4, <2>5, <3>1
  <2>6. CASE n = c + 2
    <3>1. n + 1 = c + 3
      BY <2>6
    <3> QED BY <2>3, <2>4, <2>6, <3>1
  <2> QED BY <1>3, <2>5, <2>6
<1> QED BY <1>1, <1>2, <1>3 DEF NeedsDigit

\* What parse_number has to say when the digit is missing.
LEMMA DigitMissing ==
  ASSUME NEW s \in Seq(Byte), NEW n \in Nat \ {0}, n <= Len(s), NeedsDigit(s, n)
  PROVE  /\ Viable(SubSeq(s, 1, n)) /\ ~IsNumber(SubSeq(s, 1, n))
         /\ n < Len(s) /\ s[n + 1] \notin Digit => ~Viable(SubSeq(s, 1, n + 1))
<1>1. n \in 0 .. Len(s) /\ Len(s) \in Nat
  OBVIOUS
<1>2. Viable(SubSeq(s, 1, n))
  BY <1>1, ZeroCompletes, Prefixes
<1>3. ~IsNumber(SubSeq(s, 1, n))
  <2> SUFFICES ASSUME NumberAt(s, n) PROVE FALSE
    BY <1>1, Prefixes
  <2>1. Agree(s, s, n)
    BY DEF Agree
  <2>2. n < n
    BY <2>1, OnlyADigit
  <2> QED BY <2>2
<1>4. ASSUME n < Len(s), s[n + 1] \notin Digit, Viable(SubSeq(s, 1, n + 1)) PROVE FALSE
  <2>1. PICK k \in 0 .. Len(s) : k = n + 1
    BY <1>1, <1>4
  <2>2. PICK u : \E m \in {k, k + 1} : Agree(u, s, k) /\ NumberAt(u, m)
    BY <1>4, <2>1, Prefixes
  <2>3. PICK m \in {k, k + 1} : Agree(u, s, k) /\ NumberAt(u, m)
    BY <2>2
  <2>4. Agree(u, s, n) /\ u[n + 1] = s[n + 1] /\ m \in Nat /\ m >= n
    BY <2>1, <2>3 DEF Agree
  <2> QED BY <1>4, <2>3, <2>4, OnlyADigit
<1> QED BY <1>2, <1>3, <1>4
----------------------------------------------------------------------------
(***************************************************************************)
(* The texts at which parse_number stops.                                  *)
(***************************************************************************)
LongestAt(s, n) ==
  IsNumber(SubSeq(s, 1, n)) /\ (n < Len(s) => ~Viable(SubSeq(s, 1, n + 1)))

\* A mantissa that the next byte does not continue.
MantissaEnds(s, b, n) ==
  /\ Mantissa(s, b, n)
  /\ n < Len(s) =>
       /\ b = n => s[n + 1] # Dot /\ (s[First(s)] # Zero => s[n + 1] \notin Digit)
       /\ b # n => s[n + 1] \notin Digit

\* The digits of an exponent, up to n.
ExponentDigits(s, n) ==
  \E b, c \in Nat : \E d \in {c + 2, c + 3} :
    /\ Mantissa(s, b, c) /\ s[c + 1] \in Exponents
    /\ d = c + 3 => s[c + 2] \in {Minus, Plus}
    /\ DigitsAt(s, d, n)

\* What goes on behind the next byte has that byte.
LEMMA NextByte ==
  ASSUME NEW s \in Seq(Byte), NEW n \in Nat, n < Len(s), Viable(SubSeq(s, 1, n + 1))
  PROVE  \E u : \E m \in Nat :
           NumberAt(u, m) /\ n < m /\ Agree(u, s, n) /\ u[n + 1] = s[n + 1]
<1>1. PICK k \in 0 .. Len(s) : k = n + 1
  <2>1. Len(s) \in Nat
    OBVIOUS
  <2> QED BY <2>1
<1>2. PICK u : \E m \in {k, k + 1} : Agree(u, s, k) /\ NumberAt(u, m)
  BY <1>1, Prefixes
<1>3. PICK m \in {k, k + 1} : Agree(u, s, k) /\ NumberAt(u, m)
  BY <1>2
<1>4. m \in Nat /\ n < m /\ Agree(u, s, n) /\ u[n + 1] = s[n + 1]
  BY <1>1, <1>3 DEF Agree
<1> QED BY <1>3, <1>4

LEMMA LongestWithoutExponent ==
  ASSUME NEW s \in Seq(Byte), NEW n \in 1 .. Len(s), NEW b, MantissaEnds(s, b, n),
         n < Len(s) => s[n + 1] \notin Exponents
  PROVE  LongestAt(s, n)
<1>1. n \in Nat /\ n \in 0 .. Len(s) /\ Len(s) \in Nat /\ b \in 1 .. n /\ b \in Nat
      /\ IntegerAt(s, b) /\ FractionAt(s, b, n)
  BY DEF MantissaEnds, Mantissa
<1>2. NumberAt(s, n)
  <2>1. ExponentAt(s, n, n) /\ b <= n /\ n \in 1 .. n
    BY <1>1 DEF ExponentAt
  <2> QED BY <1>1, <2>1 DEF NumberAt
<1>3. IsNumber(SubSeq(s, 1, n))
  BY <1>1, <1>2, Prefixes
<1>4. ASSUME n < Len(s), Viable(SubSeq(s, 1, n + 1)) PROVE FALSE
  <2>1. PICK u : \E m \in Nat : NumberAt(u, m) /\ n < m /\ Agree(u, s, n) /\ u[n + 1] = s[n + 1]
    BY <1>1, <1>4, NextByte
  <2>2. PICK m \in Nat : NumberAt(u, m) /\ n < m /\ Agree(u, s, n) /\ u[n + 1] = s[n + 1]
    BY <2>1
  <2>3. IntegerAt(u, b)
    BY <1>1, <2>2, AgreeAt
  <2>4. CASE b = n
    <3>1. /\ s[n + 1] \in Digit \cup {Dot} \cup Exponents
          /\ u[First(u)] = Zero => s[n + 1] \notin Digit
      BY <1>1, <2>2, <2>3, <2>4, AfterInteger
    <3>2. s[n + 1] \notin Exponents /\ s[n + 1] # Dot
          /\ (s[First(s)] # Zero => s[n + 1] \notin Digit)
      BY <1>4, <2>4 DEF MantissaEnds
    <3>3. u[First(u)] = s[First(s)]
      <4>1. First(u) = First(s) /\ First(s) \in Nat \ {0}
        BY <1>1, <2>2 DEF First, Agree
      <4>2. First(s) <= b
        BY <1>1 DEF IntegerAt, DigitsAt
      <4>3. First(s) \in 1 .. n
        BY <1>1, <4>1, <4>2
      <4> QED BY <2>2, <4>1, <4>3 DEF Agree
    <3> QED BY <3>1, <3>2, <3>3
  <2>5. CASE b # n
    <3>1. s[b + 1] = Dot /\ DigitsAt(s, b + 2, n) /\ b + 1 \in 1 .. n
      BY <1>1, <2>5 DEF FractionAt, DigitsAt
    <3>2. u[b + 1] = Dot /\ DigitsAt(u, b + 2, n) /\ b < m
      <4>1. b + 2 \in Nat \ {0}
        BY <1>1
      <4>2. DigitsAt(u, b + 2, n)
        BY <1>1, <2>2, <3>1, <4>1, AgreeAt
      <4> QED BY <1>1, <2>2, <3>1, <4>2 DEF Agree
    <3>3. u[n + 1] \in Digit \cup Exponents
      BY <1>1, <2>2, <2>3, <3>2, AfterPoint
    <3> QED BY <1>4, <2>2, <2>5, <3>3 DEF MantissaEnds
  <2> QED BY <2>4, <2>5
<1> QED BY <1>3, <1>4 DEF LongestAt

LEMMA LongestWithExponent ==
  ASSUME NEW s \in Seq(Byte), NEW n \in 1 .. Len(s), ExponentDigits(s, n),
         n < Len(s) => s[n + 1] \notin Digit
  PROVE  LongestAt(s, n)
<1>1. PICK b \in Nat, c \in Nat : \E d \in {c + 2, c + 3} :
        /\ Mantissa(s, b, c) /\ s[c + 1] \in Exponents
        /\ d = c + 3 => s[c + 2] \in {Minus, Plus}
        /\ DigitsAt(s, d, n)
  BY DEF ExponentDigits
<1>2. PICK d \in {c + 2, c + 3} :
        /\ Mantissa(s, b, c) /\ s[c + 1] \in Exponents
        /\ d = c + 3 => s[c + 2] \in {Minus, Plus}
        /\ DigitsAt(s, d, n)
  BY <1>1
<1>3. /\ n \in Nat /\ n \in 0 .. Len(s) /\ Len(s) \in Nat
      /\ b \in 1 .. n /\ c \in 1 .. n /\ b <= c /\ c < n /\ IntegerAt(s, b) /\ FractionAt(s, b, c)
      /\ d \in Nat \ {0} /\ c + 1 \in 1 .. n /\ (d = c + 3 => c + 2 \in 1 .. n)
  BY <1>2 DEF Mantissa, DigitsAt
<1>4. NumberAt(s, n)
  <2>1. ExponentAt(s, c, n)
    BY <1>2 DEF ExponentAt
  <2> QED BY <1>3, <2>1 DEF NumberAt
<1>5. IsNumber(SubSeq(s, 1, n))
  BY <1>3, <1>4, Prefixes
<1>6. ASSUME n < Len(s), Viable(SubSeq(s, 1, n + 1)) PROVE FALSE
  <2>1. PICK u : \E m \in Nat : NumberAt(u, m) /\ n < m /\ Agree(u, s, n) /\ u[n + 1] = s[n + 1]
    BY <1>3, <1>6, NextByte
  <2>2. PICK m \in Nat : NumberAt(u, m) /\ n < m /\ Agree(u, s, n) /\ u[n + 1] = s[n + 1]
    BY <2>1
  <2>3. IntegerAt(u, b) /\ FractionAt(u, b, c) /\ DigitsAt(u, d, n)
    BY <1>2, <1>3, <2>2, AgreeAt
  <2>4. u[c + 1] \in Exponents /\ (d = c + 3 => u[c + 2] \in {Minus, Plus}) /\ c < m
    BY <1>2, <1>3, <2>2, SMTT(30) DEF Agree
  <2>5. u[n + 1] \in Digit
    BY <1>3, <2>2, <2>3, <2>4, AfterLetter
  <2> QED BY <1>6, <2>2, <2>5
<1> QED BY <1>5, <1>6 DEF LongestAt
----------------------------------------------------------------------------
(***************************************************************************)
(* The invariant: which part of a number has been read in every phase, and *)
(* what the call has returned.                                             *)
(***************************************************************************)
Shape ==
  LET n == pos - 1 IN
  /\ phase = "integer" => IntegerAt(input, n) /\ input[First(input)] # Zero
  /\ phase = "point" =>
       IntegerAt(input, n) /\ (input[First(input)] # Zero => Peek(pos) \notin Digit)
  /\ phase = "fraction" =>
       \E b \in Nat \ {0} :
         IntegerAt(input, b) /\ input[b + 1] = Dot /\ DigitsAt(input, b + 2, n)
  /\ phase = "letter" => \E b : MantissaEnds(input, b, n)
  /\ phase = "exponent" => ExponentDigits(input, n)
  /\ phase = "create" => LongestAt(input, n)

Verdict ==
  LET consumed == SubSeq(input, 1, pos - 1) IN
  IF result = Err("ExpectedDigit")
    THEN ~Viable(consumed) /\ Viable(SubSeq(input, 1, pos - 2))
  ELSE IF result = Err("Eof")
    THEN consumed = input /\ Viable(input) /\ ~IsNumber(input)
  ELSE IsNumber(consumed) /\ (consumed # input => ~Viable(SubSeq(input, 1, pos)))

LInv ==
  /\ result = Running => Shape
  /\ result # Running => Verdict

\* The digit that is asked for is there, or the call fails as it should.
LEMMA DigitRead ==
  ASSUME IInv, result = Running, NEW p \in Nat \ {0}, p > 1, p <= Len(input) + 1,
         NeedsDigit(input, p - 1), NEW ph, NEW float, ReadDigit(p, ph, float)
  PROVE  LInv' \/ (p <= Len(input) /\ input[p] \in Digit /\ Advance(p + 1, ph, float))
<1>1. input \in Seq(Byte) /\ Len(input) \in Nat /\ (Peek(p) # Eof => p <= Len(input))
      /\ Peek(p) = IF p <= Len(input) THEN input[p] ELSE Eof
  BY Found DEF Peek
<1> DEFINE n == p - 1
<1>2. n \in Nat \ {0} /\ n <= Len(input) /\ n + 1 = p /\ NeedsDigit(input, n)
  BY <1>1
<1>3. /\ Viable(SubSeq(input, 1, n)) /\ ~IsNumber(SubSeq(input, 1, n))
      /\ n < Len(input) /\ input[n + 1] \notin Digit => ~Viable(SubSeq(input, 1, n + 1))
  <2> HIDE DEF n
  <2> QED BY <1>1, <1>2, DigitMissing
<1>4. Err("Eof") # Running /\ Err("ExpectedDigit") # Running /\ Err("Eof") # Err("ExpectedDigit")
  BY DEF Err, Running
<1>5. CASE Peek(p) \in Digit /\ Advance(p + 1, ph, float)
  <2>1. Eof \notin Digit
    BY DEF Eof, Digit
  <2> QED BY <1>1, <1>5, <2>1
<1>6. CASE Peek(p) = Eof /\ Return(p, Err("Eof"))
  <2>1. p = Len(input) + 1
    <3>1. p <= Len(input) => input[p] \in Byte
      BY <1>1
    <3>2. Eof \notin Byte
      BY DEF Byte, Eof
    <3> QED BY <1>1, <1>6, <3>1, <3>2
  <2>2. SubSeq(input, 1, n) = input
    BY <1>1, <2>1
  <2>3. pos' = p /\ result' = Err("Eof") /\ input' = input
    BY <1>6 DEF Return
  <2>4. Verdict'
    BY <1>3, <1>4, <2>2, <2>3 DEF Verdict
  <2> QED BY <1>4, <2>3, <2>4 DEF LInv
<1>7. CASE Peek(p) \notin Digit \cup {Eof} /\ Return(p + 1, Err("ExpectedDigit"))
  <2>1. n < Len(input) /\ input[n + 1] \notin Digit
    BY <1>1, <1>2, <1>7
  <2>2. pos' = p + 1 /\ result' = Err("ExpectedDigit") /\ input' = input
    BY <1>7 DEF Return
  <2>3. pos' - 1 = n + 1 /\ pos' - 2 = n
    BY <1>2, <2>2
  <2>4. Verdict'
    BY <1>3, <2>1, <2>2, <2>3 DEF Verdict
  <2> QED BY <1>4, <2>2, <2>4 DEF LInv
<1> QED BY <1>5, <1>6, <1>7 DEF ReadDigit

\* Where the call is, in terms of the document: what Shape says of a state whose
\* cursor is behind n bytes.
LEMMA ShapeOf ==
  ASSUME IInv, NEW n \in Nat \ {0}, n <= Len(input), pos' = n + 1, UNCHANGED <<input, result>>,
         result = Running,
         phase' \in {"integer", "point", "fraction", "letter", "exponent", "create"},
         phase' = "integer" => IntegerAt(input, n) /\ input[First(input)] # Zero,
         phase' = "point" => /\ IntegerAt(input, n)
                             /\ input[First(input)] # Zero => Peek(n + 1) \notin Digit,
         phase' = "fraction" =>
           \E b \in Nat \ {0} :
             IntegerAt(input, b) /\ input[b + 1] = Dot /\ DigitsAt(input, b + 2, n),
         phase' = "letter" => \E b : MantissaEnds(input, b, n),
         phase' = "exponent" => ExponentDigits(input, n),
         phase' = "create" => LongestAt(input, n)
  PROVE  LInv'
<1>1. pos' - 1 = n /\ input' = input /\ result' = Running
  OBVIOUS
<1>2. (phase = "point" /\ input[First(input)] # Zero => Peek(pos) \notin Digit)'
  BY <1>1 DEF Peek
<1>3. Shape'
  <2>1. (phase = "letter" => \E b : MantissaEnds(input, b, pos - 1))'
    BY <1>1
  <2>2. (phase = "fraction" =>
           \E b \in Nat \ {0} :
             IntegerAt(input, b) /\ input[b + 1] = Dot /\ DigitsAt(input, b + 2, pos - 1))'
    BY <1>1
  <2> QED BY <1>1, <1>2, <2>1, <2>2 DEF Shape
<1> QED BY <1>1, <1>3 DEF LInv

\* What the loops and the tests find at the cursor.
LEMMA AtCursor ==
  ASSUME IInv, NEW n \in Nat, pos = n + 1
  PROVE  /\ n <= Len(input) /\ Peek(pos) = (IF n < Len(input) THEN input[n + 1] ELSE Eof)
         /\ Peek(pos) \in Digit \cup {Dot} \cup Exponents => n < Len(input)
<1>1. Eof \notin Digit \cup {Dot} \cup Exponents
  BY DEF Eof, Digit, Dot, Exponents
<1> QED BY <1>1, Found DEF Peek

LEMMA SignReads ==
  ASSUME IInv, LInv, Sign PROVE LInv'
<1> DEFINE first == IF Peek(1) = Minus THEN 2 ELSE 1
           ph == IF Peek(first) = Zero THEN "point" ELSE "integer"
<1>1. result = Running /\ phase = "sign" /\ ReadDigit(first, ph, FALSE)
  BY DEF Sign, In
<1>2. /\ Len(input) \in Nat /\ Len(input) > 0 /\ input[1] \in Digit \cup {Minus}
      /\ Peek(1) = input[1] /\ input \in Seq(Byte)
  BY <1>1, Found DEF IInv, Peek
<1>3. first = First(input) /\ first \in {1, 2} /\ (first = 2 <=> input[1] = Minus)
  BY <1>2 DEF First
<1>4. ASSUME first <= Len(input), input[first] \in Digit, Advance(first + 1, ph, FALSE)
      PROVE  LInv'
  <2>1. IntegerAt(input, first)
    BY <1>3, <1>4 DEF IntegerAt, DigitsAt
  <2>2. Peek(first) = input[first]
    BY <1>4 DEF Peek
  <2>3. /\ phase' = ph /\ pos' = first + 1 /\ UNCHANGED <<input, result>>
        /\ ph \in {"point", "integer"} /\ (ph = "point" <=> input[first] = Zero)
    BY <1>4, <2>2 DEF Advance
  <2>4. first \in Nat \ {0}
    BY <1>3
  <2> HIDE DEF first, ph
  <2> QED BY <1>1, <1>3, <1>4, <2>1, <2>3, <2>4, ShapeOf
<1>5. CASE first = 1
  <2>1. input[1] \in Digit /\ input[1] # Eof /\ Peek(first) = input[1]
    BY <1>2, <1>3, <1>5, Bytes DEF Digit, Eof
  <2>2. Advance(first + 1, ph, FALSE)
    BY <1>1, <2>1 DEF ReadDigit
  <2> QED BY <1>2, <1>4, <1>5, <2>1, <2>2
<1>6. CASE first = 2
  <2>1. NeedsDigit(input, 2 - 1)
    BY <1>3, <1>6 DEF NeedsDigit
  <2> HIDE DEF first, ph
  <2>2. PICK p \in Nat \ {0} : p = first
    BY <1>6
  <2>3. ReadDigit(p, ph, FALSE)
    BY <1>1, <2>2
  <2>4. p > 1 /\ p <= Len(input) + 1 /\ p - 1 = 2 - 1
    BY <1>2, <1>6, <2>2
  <2>5. NeedsDigit(input, p - 1)
    BY <2>1, <2>4
  <2>6. LInv' \/ (p <= Len(input) /\ input[p] \in Digit /\ Advance(p + 1, ph, FALSE))
    BY <1>1, <2>3, <2>4, <2>5, DigitRead
  <2> QED BY <1>4, <2>2, <2>6
<1> QED BY <1>3, <1>5, <1>6

LEMMA LoopReads ==
  ASSUME IInv, LInv, SkipDigit \/ EndDigits PROVE LInv'
<1>1. result = Running /\ phase \in Loops
  BY DEF SkipDigit, EndDigits, In
<1> DEFINE n == pos - 1
<1>2. n \in Nat \ {0} /\ n <= Len(input) /\ pos = n + 1 /\ Len(input) \in Nat /\ input \in Seq(Byte)
  <2>1. Shape /\ phase \in {"integer", "fraction", "exponent"}
    BY <1>1 DEF LInv, Loops
  <2>2. Consumed
    BY <1>1, <2>1 DEF IInv
  <2>3. pos # 1
    <3>1. ~isFloat => pos > 1
      BY <2>2 DEF Consumed, DigitsOnly
    <3>2. isFloat => \E i \in 1 .. pos - 1 : TRUE
      BY <2>2 DEF Consumed
    <3> QED BY <3>1, <3>2, Found
  <2> QED BY <2>3, Found
<1>3. /\ phase = "integer" => IntegerAt(input, n) /\ input[First(input)] # Zero
      /\ phase = "fraction" =>
           \E b \in Nat \ {0} :
             IntegerAt(input, b) /\ input[b + 1] = Dot /\ DigitsAt(input, b + 2, n)
      /\ phase = "exponent" => ExponentDigits(input, n)
  BY <1>1 DEF LInv, Shape
<1> HIDE DEF n
<1>4. /\ Peek(pos) = (IF n < Len(input) THEN input[n + 1] ELSE Eof)
      /\ Peek(pos) \in Digit => n < Len(input)
  BY <1>2, AtCursor
<1>5. \A i \in Nat : DigitsAt(input, i, n) /\ input[n + 1] \in Digit => DigitsAt(input, i, n + 1)
  BY <1>2 DEF DigitsAt
<1>6. CASE SkipDigit
  <2>1. Peek(pos) \in Digit /\ Advance(pos + 1, phase, isFloat)
    BY <1>6 DEF SkipDigit, In
  <2>2. n < Len(input) /\ input[n + 1] \in Digit
    BY <1>4, <2>1
  <2>3. phase' = phase /\ UNCHANGED <<input, result>> /\ pos' = (n + 1) + 1
    BY <1>2, <2>1 DEF Advance
  <2>4. phase = "integer" => IntegerAt(input, n + 1) /\ input[First(input)] # Zero
    BY <1>3, <1>5, <2>2 DEF IntegerAt, First
  <2>5. phase = "fraction" =>
          \E b \in Nat \ {0} :
            IntegerAt(input, b) /\ input[b + 1] = Dot /\ DigitsAt(input, b + 2, n + 1)
    <3> SUFFICES ASSUME phase = "fraction"
                 PROVE  \E b \in Nat \ {0} :
                          IntegerAt(input, b) /\ input[b + 1] = Dot /\ DigitsAt(input, b + 2, n + 1)
      OBVIOUS
    <3>1. PICK b \in Nat \ {0} :
            IntegerAt(input, b) /\ input[b + 1] = Dot /\ DigitsAt(input, b + 2, n)
      BY <1>3
    <3>2. b + 2 \in Nat
      OBVIOUS
    <3> QED BY <1>5, <2>2, <3>1, <3>2
  <2>6. phase = "exponent" => ExponentDigits(input, n + 1)
    BY <1>3, <1>5, <2>2 DEF ExponentDigits
  <2>7. n + 1 \in Nat \ {0} /\ n + 1 <= Len(input)
    BY <1>2, <2>2
  <2>8. phase \in {"integer", "fraction", "exponent"}
    BY <1>1 DEF Loops
  <2> QED BY <1>1, <2>3, <2>4, <2>5, <2>6, <2>7, <2>8, ShapeOf
<1>7. CASE EndDigits
  <2>1. /\ Peek(pos) \notin Digit
        /\ phase' = After[phase] /\ UNCHANGED <<input, result>> /\ pos' = n + 1
    BY <1>2, <1>7 DEF EndDigits, In, Advance
  <2>2. n < Len(input) => input[n + 1] \notin Digit
    BY <1>4, <2>1
  <2>3. CASE phase = "integer"
    <3>1. phase' = "point"
      BY <2>1, <2>3 DEF After, Loops
    <3> QED BY <1>1, <1>2, <1>3, <2>1, <2>3, <3>1, ShapeOf
  <2>4. CASE phase = "fraction"
    <3>1. phase' = "letter"
      BY <2>1, <2>4 DEF After, Loops
    <3>2. PICK b \in Nat \ {0} :
            IntegerAt(input, b) /\ input[b + 1] = Dot /\ DigitsAt(input, b + 2, n)
      BY <1>3, <2>4
    <3>3. b # n /\ b <= n
      BY <1>2, <3>2 DEF DigitsAt
    <3>4. MantissaEnds(input, b, n)
      BY <1>2, <2>2, <3>2, <3>3 DEF MantissaEnds, Mantissa, FractionAt
    <3> QED BY <1>1, <1>2, <2>1, <3>1, <3>4, ShapeOf
  <2>5. CASE phase = "exponent"
    <3>1. phase' = "create"
      BY <2>1, <2>5 DEF After, Loops
    <3>2. LongestAt(input, n)
      BY <1>2, <1>3, <2>2, <2>5, LongestWithExponent
    <3> QED BY <1>1, <1>2, <2>1, <3>1, <3>2, ShapeOf
  <2> QED BY <1>1, <2>3, <2>4, <2>5 DEF Loops
<1> QED BY <1>6, <1>7

LEMMA PointReads ==
  ASSUME IInv, LInv, Point \/ NoPoint PROVE LInv'
<1>1. result = Running /\ phase = "point"
  BY DEF Point, NoPoint, In
<1> DEFINE n == pos - 1
<1>2. /\ IntegerAt(input, n)
      /\ input[First(input)] # Zero => Peek(pos) \notin Digit
  BY <1>1 DEF LInv, Shape
<1>3. n \in Nat \ {0} /\ n <= Len(input) /\ pos = n + 1 /\ Len(input) \in Nat /\ input \in Seq(Byte)
  <2>1. n >= 1
    <3>1. First(input) \in {1, 2} /\ First(input) <= n
      BY <1>2 DEF IntegerAt, DigitsAt, First
    <3>2. n \in Int
      BY Found
    <3> HIDE DEF n
    <3> QED BY <3>1, <3>2
  <2> QED BY <2>1, Found
<1> HIDE DEF n
<1>4. /\ Peek(pos) = (IF n < Len(input) THEN input[n + 1] ELSE Eof)
      /\ Peek(pos) = Dot => n < Len(input)
  BY <1>3, AtCursor
<1>5. CASE Point
  <2>1. Peek(pos) = Dot /\ ReadDigit(n + 2, "fraction", TRUE)
    <3>1. Peek(pos) = Dot /\ ReadDigit(pos + 1, "fraction", TRUE)
      BY <1>5 DEF Point
    <3>2. pos + 1 = n + 2
      BY <1>3
    <3> QED BY <3>1, <3>2
  <2>2. n < Len(input) /\ input[n + 1] = Dot
    BY <1>4, <2>1
  <2>3. PICK p \in Nat \ {0} : p = n + 2
    BY <1>3
  <2>4. p > 1 /\ p <= Len(input) + 1 /\ p - 1 = n + 1
    BY <1>3, <2>2, <2>3
  <2>5. NeedsDigit(input, p - 1)
    BY <1>2, <1>3, <2>2, <2>4 DEF NeedsDigit
  <2>6. \/ LInv'
        \/ p <= Len(input) /\ input[p] \in Digit /\ Advance(p + 1, "fraction", TRUE)
    BY <1>1, <2>1, <2>3, <2>4, <2>5, DigitRead
  <2>7. ASSUME p <= Len(input), input[p] \in Digit, Advance(p + 1, "fraction", TRUE)
        PROVE  LInv'
    <3>1. pos' = p + 1 /\ phase' = "fraction" /\ UNCHANGED <<input, result>>
      BY <2>7 DEF Advance
    <3>2. DigitsAt(input, n + 2, p)
      BY <1>3, <2>3, <2>7 DEF DigitsAt
    <3> QED BY <1>1, <1>2, <1>3, <2>2, <2>7, <3>1, <3>2, ShapeOf
  <2> QED BY <2>6, <2>7
<1>6. CASE NoPoint
  <2>1. Peek(pos) # Dot /\ pos' = n + 1 /\ phase' = "letter" /\ UNCHANGED <<input, result>>
    BY <1>3, <1>6 DEF NoPoint, Advance
  <2>2. MantissaEnds(input, n, n)
    BY <1>2, <1>3, <1>4, <2>1 DEF MantissaEnds, Mantissa, FractionAt
  <2> QED BY <1>1, <1>3, <2>1, <2>2, ShapeOf
<1> QED BY <1>5, <1>6

LEMMA LetterReads ==
  ASSUME IInv, LInv, Letter \/ NoLetter PROVE LInv'
<1>1. result = Running /\ phase = "letter"
  BY DEF Letter, NoLetter, In
<1> DEFINE n == pos - 1
<1>2. PICK b : MantissaEnds(input, b, n)
  BY <1>1 DEF LInv, Shape
<1>3. /\ n \in Nat \ {0} /\ n <= Len(input) /\ pos = n + 1 /\ Len(input) \in Nat /\ input \in Seq(Byte)
      /\ b \in Nat /\ Mantissa(input, b, n)
  BY <1>2, Found DEF MantissaEnds, Mantissa
<1> HIDE DEF n
<1>4. /\ Peek(pos) = (IF n < Len(input) THEN input[n + 1] ELSE Eof)
      /\ Peek(pos) \in Exponents => n < Len(input)
  BY <1>3, AtCursor
<1>5. CASE Letter
  <2>1. Peek(pos) \in Exponents
        /\ ReadDigit(IF Peek(pos + 1) \in {Minus, Plus} THEN pos + 2 ELSE pos + 1, "exponent", TRUE)
    BY <1>5 DEF Letter
  <2>2. n < Len(input) /\ input[n + 1] \in Exponents
    BY <1>4, <2>1
  <2>3. PICK d \in {n + 2, n + 3} :
          /\ ReadDigit(d, "exponent", TRUE)
          /\ d = n + 3 <=> Peek(n + 2) \in {Minus, Plus}
    <3>1. pos + 1 = n + 2 /\ pos + 2 = n + 3 /\ n + 2 # n + 3
      BY <1>3
    <3> QED BY <2>1, <3>1
  <2>4. Peek(n + 2) \in {Minus, Plus} => n + 2 <= Len(input) /\ input[n + 2] \in {Minus, Plus}
    <3>1. Eof \notin {Minus, Plus}
      BY DEF Eof, Minus, Plus
    <3> QED BY <3>1 DEF Peek
  <2>5. n + 2 <= Len(input) => Peek(n + 2) = input[n + 2]
    BY DEF Peek
  <2>6. d \in Nat \ {0} /\ d > 1 /\ d <= Len(input) + 1
    BY <1>3, <2>2, <2>3, <2>4
  <2>7. NeedsDigit(input, d - 1)
    <3>1. CASE d = n + 2
      <4>1. d - 1 = n + 1 /\ n + 2 # n + 3
        BY <1>3, <3>1
      <4>2. n + 1 < Len(input) => input[n + 1 + 1] \notin {Minus, Plus}
        BY <1>3, <2>3, <2>5, <3>1, <4>1
      <4> QED BY <1>3, <2>2, <4>1, <4>2 DEF NeedsDigit
    <3>2. CASE d = n + 3
      <4>1. d - 1 = n + 2
        BY <1>3, <3>2
      <4> QED BY <1>3, <2>2, <2>3, <2>4, <3>2, <4>1 DEF NeedsDigit
    <3> QED BY <2>3, <3>1, <3>2
  <2>8. \/ LInv'
        \/ d <= Len(input) /\ input[d] \in Digit /\ Advance(d + 1, "exponent", TRUE)
    BY <1>1, <2>3, <2>6, <2>7, DigitRead
  <2>9. ASSUME d <= Len(input), input[d] \in Digit, Advance(d + 1, "exponent", TRUE)
        PROVE  LInv'
    <3>1. pos' = d + 1 /\ phase' = "exponent" /\ UNCHANGED <<input, result>>
      BY <2>9 DEF Advance
    <3>2. DigitsAt(input, d, d)
      BY <2>6, <2>9 DEF DigitsAt
    <3>3. ExponentDigits(input, d)
      BY <1>3, <2>2, <2>3, <2>4, <3>2 DEF ExponentDigits
    <3> QED BY <1>1, <2>6, <2>9, <3>1, <3>3, ShapeOf
  <2> QED BY <2>8, <2>9
<1>6. CASE NoLetter
  <2>1. Peek(pos) \notin Exponents /\ pos' = n + 1 /\ phase' = "create" /\ UNCHANGED <<input, result>>
    BY <1>3, <1>6 DEF NoLetter, Advance
  <2>2. n < Len(input) => input[n + 1] \notin Exponents
    BY <1>4, <2>1
  <2>3. LongestAt(input, n)
    BY <1>2, <1>3, <2>2, LongestWithoutExponent
  <2> QED BY <1>1, <1>3, <2>1, <2>3, ShapeOf
<1> QED BY <1>5, <1>6

LEMMA CreateReads ==
  ASSUME IInv, LInv, CreateNumber PROVE LInv'
<1> DEFINE n == pos - 1
           text == SubSeq(input, 1, n)
<1>1. /\ LongestAt(input, n)
      /\ UNCHANGED <<input, pos>>
      /\ result' \in {CreateFloat(text), CreateInt(text)}
  BY DEF CreateNumber, In, LInv, Shape, Return
<1>2. result' # Running /\ result' # Err("ExpectedDigit") /\ result' # Err("Eof")
  <2>1. \A t : CreateFloat(t) \in {Err("InvalidNumber"), Ok([float |-> t])}
    BY DEF CreateFloat
  <2>2. \A t : CreateInt(t) = Err("ValueError") \/ \E v : CreateInt(t) = Ok(v)
    BY DEF CreateInt
  <2>3. /\ \A v : Ok(v) # Running /\ Ok(v) # Err("ExpectedDigit") /\ Ok(v) # Err("Eof")
        /\ \A e \in {"ValueError", "InvalidNumber"} :
             Err(e) # Running /\ Err(e) # Err("ExpectedDigit") /\ Err(e) # Err("Eof")
    BY DEF Ok, Err, Running
  <2> QED BY <1>1, <2>1, <2>2, <2>3
<1>3. n \in Nat /\ n <= Len(input) /\ n + 1 = pos /\ Len(input) \in Nat /\ input \in Seq(Byte)
  BY Found
<1>4. text # input => n < Len(input)
  <2>1. n = Len(input) => text = input
    BY <1>3
  <2> QED BY <1>3, <2>1
<1>5. IsNumber(text) /\ (text # input => ~Viable(SubSeq(input, 1, pos)))
  BY <1>1, <1>3, <1>4 DEF LongestAt
<1>6. Verdict'
  BY <1>1, <1>2, <1>5 DEF Verdict
<1> QED BY <1>2, <1>6 DEF LInv

LEMMA StepLInv == IInv /\ LInv /\ [Next]_vars => LInv'
<1> SUFFICES ASSUME IInv, LInv, [Next]_vars PROVE LInv'
  OBVIOUS
<1>1. CASE Iterate
  BY <1>1, SignReads, LoopReads, PointReads, LetterReads, CreateReads DEF Iterate
<1>2. CASE UNCHANGED vars
  BY <1>2 DEF vars, LInv, Shape, Verdict, Peek
<1> QED BY <1>1, <1>2 DEF Next, Returned
----------------------------------------------------------------------------
(***************************************************************************)
(* Documents that are read without having been written by int_to_json.     *)
(***************************************************************************)
NInv == source = NoSource => written /\ IInv /\ LInv

LEMMA NInvCorrect == NSpec => []NInv
<1>1. NInit => NInv
  <2> SUFFICES ASSUME NInit, source = NoSource PROVE written /\ IInv /\ LInv
    BY DEF NInv
  <2>1. written /\ Init
    BY SourceAssumption DEF NInit, Init
  <2>2. LInv
    BY <2>1 DEF Init, LInv, Shape
  <2> QED BY <2>1, <2>2, InitIInv
<1>2. NInv /\ [NNext]_<<vars, source, written>> => NInv'
  <2> SUFFICES ASSUME NInv, [NNext]_<<vars, source, written>>, source' = NoSource
               PROVE  (written /\ IInv /\ LInv)'
    BY DEF NInv
  <2>1. source = NoSource /\ written /\ IInv /\ LInv
    BY DEF NNext, WriteInt, Read, NInv
  <2>2. [Next]_vars /\ written'
    <3>1. CASE NNext
      BY <2>1, <3>1 DEF NNext, WriteInt, Read
    <3>2. CASE vars' = vars /\ written' = written
      BY <2>1, <3>2
    <3> QED BY <3>1, <3>2
  <2> QED BY <2>1, <2>2, StepIInv, StepLInv
<1> QED BY <1>1, <1>2, PTL DEF NSpec

\* parse_number takes the longest text that is a number, and raises an error
\* exactly at the first byte with which no number goes on, or at the end of a
\* document that ends inside one, whatever the document is (de.rs:547-611).
THEOREM LongestNumberCorrect == NSpec => []TakesTheLongestNumber
<1>1. NInv => TakesTheLongestNumber
  BY DEF NInv, LInv, Verdict, TakesTheLongestNumber
<1> QED BY <1>1, NInvCorrect, PTL
----------------------------------------------------------------------------
(***************************************************************************)
(* Ints that are written and read back.  First the two functions that      *)
(* recursion defines, powers and the text of a number.                     *)
(***************************************************************************)
LEMMA PowerEquation ==
  ASSUME NEW b \in Nat
  PROVE  /\ Power(b, 0) = 1
         /\ \A k \in Nat : Power(b, k) \in Nat /\ Power(b, k + 1) = b * Power(b, k)
<1> DEFINE M == Nat \ {0}
           Is(p) == p = [k \in Nat |-> IF k = 0 THEN 1 ELSE b * p[k - 1]]
           B == [k \in Nat |-> 1]
           g == [k \in M |-> k - 1]
           F == [k \in M |-> [x \in Nat |-> b * x]]
           p == CHOOSE q : Is(q)
<1>1. \E f : Is(f)
  <2>1. M \in SUBSET Nat /\ B \in [Nat -> Nat] /\ g \in [M -> Nat] /\ \A k \in M : g[k] < k
    OBVIOUS
  <2>2. F \in [M -> [Nat -> Nat]]
    OBVIOUS
  <2>3. PICK f \in [Nat -> Nat] : Follows(f, Nat, M, B, F, g)
    <3>1. Recursion(Nat, Nat, M, B, F, g)
      <4> HIDE DEF M, B, g, F
      <4> QED BY <2>1, <2>2 DEF Recursion
    <3> HIDE DEF M, B, g, F
    <3> QED BY <3>1, RecursionExists
  <2>4. ASSUME NEW k \in Nat
        PROVE  f[k] = IF k = 0 THEN 1 ELSE b * f[k - 1]
    <3>1. k # 0 => k \in M /\ g[k] = k - 1 /\ f[k - 1] \in Nat
      OBVIOUS
    <3>2. k = 0 => k \notin M /\ B[k] = 1
      OBVIOUS
    <3>3. k # 0 => F[k][f[k - 1]] = b * f[k - 1]
      BY <3>1
    <3> HIDE DEF M, B, g, F
    <3> QED BY <2>3, <3>1, <3>2, <3>3 DEF Follows
  <2>5. Is(f)
    <3> HIDE DEF M, B, g, F
    <3> QED BY <2>3, <2>4
  <2> QED BY <2>5
<1>2. Is(p)
  <2> HIDE DEF Is
  <2> QED BY <1>1
<1>3. \A k \in Nat : Power(b, k) = p[k]
  BY DEF Power
<1>4. p[0] = 1 /\ \A k \in Nat : p[k + 1] = b * p[k]
  <2> HIDE DEF p
  <2>1. \A k \in Nat : k + 1 \in Nat /\ k + 1 # 0 /\ (k + 1) - 1 = k
    OBVIOUS
  <2> QED BY <1>2, <2>1
<1> HIDE DEF p
<1> DEFINE T == {k \in Nat : p[k] \in Nat}
<1>5. T = Nat
  <2>1. 0 \in T /\ \A k \in T : k + 1 \in T
    BY <1>4
  <2>2. T \in SUBSET Nat
    OBVIOUS
  <2> HIDE DEF T
  <2> QED BY <2>1, <2>2, NatSetInduction
<1>6. \A k \in Nat : p[k] \in Nat
  BY <1>5
<1> QED BY <1>3, <1>4, <1>6

\* Powers of two grow, and faster than their exponents.
LEMMA PowerGrows ==
  /\ \A k \in Nat : Power(2, k) > k /\ Power(2, k + 1) = 2 * Power(2, k)
  /\ \A k \in Nat : \A l \in Nat : k <= l => Power(2, k) <= Power(2, l)
<1>1. Power(2, 0) = 1 /\ \A k \in Nat : Power(2, k) \in Nat /\ Power(2, k + 1) = 2 * Power(2, k)
  BY PowerEquation
<1> DEFINE T == {k \in Nat : Power(2, k) > k}
<1>2. T = Nat
  <2>1. 0 \in T /\ \A k \in T : k + 1 \in T
    BY <1>1
  <2>2. T \in SUBSET Nat
    OBVIOUS
  <2> HIDE DEF T
  <2> QED BY <2>1, <2>2, NatSetInduction
<1>3. ASSUME NEW k \in Nat PROVE \A l \in Nat : k <= l => Power(2, k) <= Power(2, l)
  <2> DEFINE U == {n \in Nat : Power(2, k) <= Power(2, k + n)}
  <2>1. 0 \in U
    BY <1>1
  <2>2. ASSUME NEW n \in U PROVE n + 1 \in U
    <3>1. k + n \in Nat /\ k + (n + 1) = (k + n) + 1
      OBVIOUS
    <3>2. Power(2, k + (n + 1)) = 2 * Power(2, k + n) /\ Power(2, k) \in Nat /\ Power(2, k + n) \in Nat
      BY <1>1, <3>1
    <3> QED BY <3>2
  <2>3. U = Nat
    <3>1. U \in SUBSET Nat
      OBVIOUS
    <3> HIDE DEF U
    <3> QED BY <2>1, <2>2, <3>1, NatSetInduction
  <2>4. ASSUME NEW l \in Nat, k <= l PROVE Power(2, k) <= Power(2, l)
    <3>1. l - k \in Nat /\ k + (l - k) = l
      BY <2>4
    <3>2. l - k \in U
      BY <2>3, <3>1
    <3> QED BY <3>1, <3>2
  <2> QED BY <2>4
<1>4. \A k \in Nat : Power(2, k) > k
  BY <1>2
<1> QED BY <1>1, <1>3, <1>4

LEMMA NumeralEquation ==
  ASSUME NEW n \in Nat
  PROVE  /\ n < 10 => Numeral[n] = <<Zero + n>>
         /\ n >= 10 => Numeral[n] = Append(Numeral[n \div 10], Zero + (n % 10))
<1> DEFINE M == {k \in Nat : k >= 10}
           Is(p) == p = [k \in Nat |-> IF k < 10 THEN <<Zero + k>> ELSE Append(p[k \div 10], Zero + (k % 10))]
           B == [k \in Nat |-> <<Zero + k>>]
           g == [k \in M |-> k \div 10]
           F == [k \in M |-> [s \in Seq(Int) |-> Append(s, Zero + (k % 10))]]
<1>1. \E f : Is(f)
  <2>1. M \in SUBSET Nat /\ g \in [M -> Nat] /\ \A k \in M : g[k] < k
    OBVIOUS
  <2>2. B \in [Nat -> Seq(Int)]
    BY DEF Zero
  <2>3. F \in [M -> [Seq(Int) -> Seq(Int)]]
    <3>1. \A k \in M : Zero + (k % 10) \in Int
      BY DEF Zero
    <3>2. \A s \in Seq(Int), d \in Int : Append(s, d) \in Seq(Int)
      BY AppendProperties
    <3> QED BY <3>1, <3>2
  <2>4. PICK f \in [Nat -> Seq(Int)] : Follows(f, Nat, M, B, F, g)
    <3>1. Recursion(Nat, Seq(Int), M, B, F, g)
      <4> HIDE DEF M, B, g, F
      <4> QED BY <2>1, <2>2, <2>3 DEF Recursion
    <3> HIDE DEF M, B, g, F
    <3> QED BY <3>1, RecursionExists
  <2>5. ASSUME NEW k \in Nat
        PROVE  f[k] = IF k < 10 THEN <<Zero + k>> ELSE Append(f[k \div 10], Zero + (k % 10))
    <3>1. k \in M <=> ~(k < 10)
      OBVIOUS
    <3>2. k \in M => k \div 10 \in Nat /\ f[k \div 10] \in Seq(Int) /\ g[k] = k \div 10
      OBVIOUS
    <3>3. k \in M => F[k][f[k \div 10]] = Append(f[k \div 10], Zero + (k % 10))
      BY <3>2
    <3>4. B[k] = <<Zero + k>>
      OBVIOUS
    <3> HIDE DEF M, B, g, F
    <3> QED BY <2>4, <3>1, <3>2, <3>3, <3>4 DEF Follows
  <2>6. Is(f)
    <3> HIDE DEF M, B, g, F
    <3> QED BY <2>4, <2>5
  <2> QED BY <2>6
<1>2. Is(Numeral)
  <2>1. Numeral = CHOOSE q : Is(q)
    BY DEF Numeral
  <2> HIDE DEF Is
  <2> QED BY <1>1, <2>1
<1>3. Numeral[n] = IF n < 10 THEN <<Zero + n>> ELSE Append(Numeral[n \div 10], Zero + (n % 10))
  BY <1>2
<1>4. ~(n < 10 /\ n >= 10)
  OBVIOUS
<1> QED BY <1>3, <1>4
\* The text of a number: digits, and no zero in front of others.
LEMMA NumeralFacts ==
  ASSUME NEW n \in Nat
  PROVE  /\ Numeral[n] \in Seq(Digit) /\ Len(Numeral[n]) >= 1
         /\ n > 0 => Numeral[n][1] # Zero
         /\ n = 0 => Len(Numeral[n]) = 1
<1> DEFINE Good(k) == /\ Numeral[k] \in Seq(Digit) /\ Len(Numeral[k]) >= 1
                      /\ k > 0 => Numeral[k][1] # Zero
           T == {k \in Nat : ~Good(k)}
<1>1. T = {}
  <2>1. SUFFICES ASSUME T # {} PROVE FALSE
    OBVIOUS
  <2>2. T \in SUBSET Nat
    OBVIOUS
  <2>3. PICK k \in T : \A l \in T : k <= l
    <3> HIDE DEF T
    <3> QED BY <2>1, <2>2, LeastElement
  <2>4. k \in Nat /\ ~Good(k)
    BY <2>3
  <2>5. CASE k < 10
    <3>1. Numeral[k] = <<Zero + k>>
      BY <2>4, <2>5, NumeralEquation
    <3>2. Zero + k \in Digit /\ (k > 0 => Zero + k # Zero)
      BY <2>4, <2>5 DEF Zero, Digit
    <3> QED BY <2>4, <3>1, <3>2
  <2>6. CASE k >= 10
    <3>1. PICK q \in Nat, d \in Int : q = k \div 10 /\ d = Zero + (k % 10) /\ q > 0 /\ q < k /\ d \in Digit
      BY <2>4, <2>6 DEF Zero, Digit
    <3>2. Numeral[k] = Append(Numeral[q], d)
      BY <2>4, <2>6, <3>1, NumeralEquation
    <3>3. q \notin T
      BY <2>3, <2>4, <3>1
    <3>4. Good(q)
      BY <3>1, <3>3
    <3>5. PICK s \in Seq(Digit) : s = Numeral[q] /\ Len(s) >= 1 /\ s[1] # Zero
      BY <3>1, <3>4
    <3>6. Append(s, d) \in Seq(Digit) /\ Len(Append(s, d)) >= 1 /\ Append(s, d)[1] = s[1]
      BY <3>1, <3>5
    <3> QED BY <2>4, <3>2, <3>5, <3>6
  <2> QED BY <2>4, <2>5, <2>6
<1>2. Good(n)
  BY <1>1
<1>3. n = 0 => Len(Numeral[n]) = 1
  <2>1. n = 0 => Numeral[n] = <<Zero + n>>
    BY NumeralEquation
  <2> QED BY <2>1
<1> QED BY <1>2, <1>3

\* A number below a power of ten has no more digits than the exponent says.
LEMMA NumeralLength ==
  \A k \in Nat \ {0} : \A n \in Nat : n < Power(10, k) => Len(Numeral[n]) <= k
<1>1. Power(10, 0) = 1 /\ \A k \in Nat : Power(10, k) \in Nat /\ Power(10, k + 1) = 10 * Power(10, k)
  BY PowerEquation
<1> DEFINE T == {k \in Nat : \A n \in Nat : n < Power(10, k + 1) => Len(Numeral[n]) <= k + 1}
<1>2. ASSUME NEW n \in Nat, n < 10 PROVE Len(Numeral[n]) = 1
  <2>1. Numeral[n] = <<Zero + n>>
    BY <1>2, NumeralEquation
  <2> QED BY <2>1
<1>3. 0 \in T
  <2>1. 0 + 1 \in Nat /\ 0 + 1 = 1 /\ Power(10, 0 + 1) = 10
    BY <1>1
  <2>2. ASSUME NEW n \in Nat, n < Power(10, 0 + 1) PROVE Len(Numeral[n]) <= 0 + 1
    <3>1. n < 10
      BY <2>1, <2>2
    <3>2. Len(Numeral[n]) = 1
      BY <1>2, <3>1
    <3> QED BY <3>2
  <2> QED BY <2>2
<1>4. ASSUME NEW k \in T PROVE k + 1 \in T
  <2>1. k \in Nat /\ k + 1 \in Nat
    OBVIOUS
  <2>2. ASSUME NEW n \in Nat, n < Power(10, (k + 1) + 1) PROVE Len(Numeral[n]) <= (k + 1) + 1
    <3>1. PICK p \in Nat : p = Power(10, k + 1) /\ n < 10 * p
      BY <1>1, <2>1, <2>2
    <3>2. CASE n < 10
      <4>1. Len(Numeral[n]) = 1
        BY <1>2, <3>2
      <4>2. 1 <= (k + 1) + 1
        BY <2>1
      <4> QED BY <4>1, <4>2
    <3>3. CASE n >= 10
      <4>1. PICK q \in Nat, d \in Int : q = n \div 10 /\ d = Zero + (n % 10) /\ q < p
        BY <3>1, <3>3 DEF Zero
      <4>2. Numeral[n] = Append(Numeral[q], d)
        BY <3>3, <4>1, NumeralEquation
      <4>3. Len(Numeral[q]) <= k + 1
        BY <3>1, <4>1
      <4>4. PICK s \in Seq(Digit) : s = Numeral[q]
        BY NumeralFacts
      <4>5. Len(Append(s, d)) = Len(s) + 1 /\ Len(s) \in Nat
        OBVIOUS
      <4> QED BY <2>1, <4>2, <4>3, <4>4, <4>5
    <3> QED BY <3>2, <3>3
  <2> QED BY <2>1, <2>2
<1>5. T = Nat
  <2>1. T \in SUBSET Nat
    OBVIOUS
  <2> HIDE DEF T
  <2> QED BY <1>3, <1>4, <2>1, NatSetInduction
<1>6. ASSUME NEW k \in Nat \ {0}, NEW n \in Nat, n < Power(10, k) PROVE Len(Numeral[n]) <= k
  <2>1. k - 1 \in Nat /\ (k - 1) + 1 = k
    OBVIOUS
  <2>2. k - 1 \in T
    BY <1>5, <2>1
  <2> QED BY <1>6, <2>1, <2>2
<1> QED BY <1>6

\* The value of a text of digits.
Reads(f, s) ==
  f = [n \in 0 .. Len(s) |-> IF n = 0 THEN 0 ELSE 10 * f[n - 1] + s[n] - Zero]

LEMMA NaturalEquation ==
  ASSUME NEW s \in Seq(Int)
  PROVE  \E f : Reads(f, s) /\ f \in [0 .. Len(s) -> Int] /\ Natural(s) = f[Len(s)]
<1> DEFINE D == 0 .. Len(s)
           M == 1 .. Len(s)
           B == [n \in D |-> 0]
           g == [n \in M |-> n - 1]
           F == [n \in M |-> [x \in Int |-> 10 * x + s[n] - Zero]]
           p == CHOOSE q : Reads(q, s)
<1>0. Len(s) \in Nat
  OBVIOUS
<1>1. \E f : Reads(f, s)
  <2>1. D \in SUBSET Nat /\ M \in SUBSET D /\ g \in [M -> D] /\ \A n \in M : g[n] < n
    BY <1>0
  <2>2. B \in [D -> Int]
    OBVIOUS
  <2>3. F \in [M -> [Int -> Int]]
    <3>1. \A n \in M : s[n] \in Int
      BY ElementOfSeq
    <3> QED BY <3>1 DEF Zero
  <2>4. Recursion(D, Int, M, B, F, g)
    <3> HIDE DEF D, M, B, g, F
    <3> QED BY <2>1, <2>2, <2>3 DEF Recursion
  <2>5. PICK f \in [D -> Int] : Follows(f, D, M, B, F, g)
    <3> HIDE DEF D, M, B, g, F
    <3> QED BY <2>4, RecursionExists
  <2>6. ASSUME NEW n \in D
        PROVE  f[n] = IF n = 0 THEN 0 ELSE 10 * f[n - 1] + s[n] - Zero
    <3>1. n # 0 => n \in M /\ g[n] = n - 1 /\ n - 1 \in D
      BY <1>0
    <3>2. n = 0 => n \notin M /\ B[n] = 0
      OBVIOUS
    <3>3. n # 0 => F[n][f[n - 1]] = 10 * f[n - 1] + s[n] - Zero
      <4>1. n # 0 => f[n - 1] \in Int
        BY <3>1
      <4> QED BY <3>1, <4>1
    <3> HIDE DEF D, M, B, g, F
    <3> QED BY <2>5, <3>1, <3>2, <3>3 DEF Follows
  <2>7. Reads(f, s)
    BY <2>6 DEF Reads
  <2> QED BY <2>7
<1>2. Reads(p, s)
  BY <1>1
<1>3. Natural(s) = p[Len(s)]
  BY DEF Natural, Reads
<1> HIDE DEF p
<1>4. \A n \in 0 .. Len(s) : p[n] \in Int
  <2> DEFINE T == {n \in Nat : n <= Len(s) => p[n] \in Int}
  <2>1. 0 \in T
    BY <1>0, <1>2 DEF Reads
  <2>2. ASSUME NEW n \in T PROVE n + 1 \in T
    <3>1. n \in Nat /\ n + 1 \in Nat /\ n + 1 # 0 /\ (n + 1) - 1 = n
      OBVIOUS
    <3>2. ASSUME n + 1 <= Len(s) PROVE p[n + 1] \in Int
      <4>1. n + 1 \in 0 .. Len(s) /\ n + 1 \in 1 .. Len(s) /\ n <= Len(s)
        BY <1>0, <3>1, <3>2
      <4>2. s[n + 1] \in Int
        BY <4>1, ElementOfSeq
      <4>3. p[n + 1] = 10 * p[n] + s[n + 1] - Zero
        BY <1>2, <3>1, <4>1 DEF Reads
      <4> QED BY <4>1, <4>2, <4>3 DEF Zero
    <3> QED BY <3>1, <3>2
  <2>3. T = Nat
    <3>1. T \in SUBSET Nat
      OBVIOUS
    <3> HIDE DEF T
    <3> QED BY <2>1, <2>2, <3>1, NatSetInduction
  <2> QED BY <1>0, <2>3
<1>5. p \in [0 .. Len(s) -> Int]
  BY <1>2, <1>4 DEF Reads
<1> QED BY <1>2, <1>3, <1>5

LEMMA NaturalAppend ==
  ASSUME NEW s \in Seq(Int), NEW d \in Int
  PROVE  Natural(Append(s, d)) = 10 * Natural(s) + d - Zero
<1>1. PICK t \in Seq(Int), m \in Nat :
        /\ t = Append(s, d) /\ m = Len(s) /\ Len(t) = m + 1 /\ t[m + 1] = d
        /\ \A i \in 1 .. m : t[i] = s[i]
  <2>1. /\ Append(s, d) \in Seq(Int) /\ Len(s) \in Nat
        /\ Len(Append(s, d)) = Len(s) + 1
        /\ \A i \in 1 .. Len(s) : Append(s, d)[i] = s[i]
        /\ Append(s, d)[Len(s) + 1] = d
    BY AppendProperties
  <2> QED BY <2>1
<1>2. PICK f : Reads(f, s) /\ f \in [0 .. Len(s) -> Int] /\ Natural(s) = f[Len(s)]
  BY NaturalEquation
<1>3. PICK h : Reads(h, t) /\ h \in [0 .. Len(t) -> Int] /\ Natural(t) = h[Len(t)]
  BY NaturalEquation
<1> DEFINE T == {n \in Nat : n <= m => h[n] = f[n]}
<1>4. 0 \in T
  BY <1>1, <1>2, <1>3 DEF Reads
<1>5. ASSUME NEW n \in T PROVE n + 1 \in T
  <2>1. n \in Nat /\ n + 1 \in Nat /\ n + 1 # 0 /\ (n + 1) - 1 = n
    OBVIOUS
  <2>2. ASSUME n + 1 <= m PROVE h[n + 1] = f[n + 1]
    <3>1. n + 1 \in 0 .. m /\ n + 1 \in 0 .. m + 1 /\ n + 1 \in 1 .. m /\ h[n] = f[n]
      BY <2>1, <2>2
    <3>2. f[n + 1] = 10 * f[n] + s[n + 1] - Zero
      BY <1>1, <1>2, <2>1, <3>1 DEF Reads
    <3>3. h[n + 1] = 10 * h[n] + t[n + 1] - Zero
      BY <1>1, <1>3, <2>1, <3>1 DEF Reads
    <3> QED BY <1>1, <3>1, <3>2, <3>3
  <2> QED BY <2>1, <2>2
<1>6. m \in T
  <2>1. T \in SUBSET Nat
    OBVIOUS
  <2> HIDE DEF T
  <2> QED BY <1>1, <1>4, <1>5, <2>1, NatSetInduction
<1>7. h[m + 1] = 10 * h[m] + t[m + 1] - Zero
  <2>1. m + 1 \in 0 .. m + 1 /\ m + 1 # 0 /\ (m + 1) - 1 = m
    BY <1>1
  <2> QED BY <1>1, <1>3, <2>1 DEF Reads
<1> QED BY <1>1, <1>2, <1>3, <1>6, <1>7

LEMMA NaturalOne ==
  ASSUME NEW d \in Int
  PROVE  Natural(<<d>>) = d - Zero
<1>0. <<>> \in Seq(Int) /\ Len(<<>>) = 0
  BY EmptySeq
<1>1. PICK e \in Seq(Int) : e = <<>> /\ Len(e) = 0
  BY <1>0
<1>2. Append(e, d) = <<d>>
  BY <1>1
<1>3. PICK f : Reads(f, e) /\ f \in [0 .. Len(e) -> Int] /\ Natural(e) = f[Len(e)]
  BY NaturalEquation
<1>4. Natural(e) = 0
  BY <1>1, <1>3 DEF Reads
<1>5. Natural(Append(e, d)) = 10 * Natural(e) + d - Zero
  BY NaturalAppend
<1> QED BY <1>2, <1>4, <1>5 DEF Zero

\* The text of a number has that number for its value.
LEMMA NaturalOfNumeral ==
  ASSUME NEW n \in Nat
  PROVE  Natural(Numeral[n]) = n
<1> DEFINE T == {k \in Nat : Natural(Numeral[k]) # k}
<1>1. T = {}
  <2>1. SUFFICES ASSUME T # {} PROVE FALSE
    OBVIOUS
  <2>2. T \in SUBSET Nat
    OBVIOUS
  <2>3. PICK k \in T : \A l \in T : k <= l
    <3> HIDE DEF T
    <3> QED BY <2>1, <2>2, LeastElement
  <2>4. k \in Nat /\ Natural(Numeral[k]) # k
    BY <2>3
  <2>5. CASE k < 10
    <3>1. Numeral[k] = <<Zero + k>>
      BY <2>4, <2>5, NumeralEquation
    <3>2. PICK d \in Int : d = Zero + k
      BY <2>4 DEF Zero
    <3>3. Natural(<<d>>) = d - Zero
      BY NaturalOne
    <3> QED BY <2>4, <3>1, <3>2, <3>3 DEF Zero
  <2>6. CASE k >= 10
    <3>1. PICK q \in Nat, d \in Int : q = k \div 10 /\ d = Zero + (k % 10) /\ q < k /\ k = 10 * q + d - Zero
      BY <2>4, <2>6 DEF Zero
    <3>2. Numeral[k] = Append(Numeral[q], d)
      BY <2>4, <2>6, <3>1, NumeralEquation
    <3>3. Natural(Numeral[q]) = q
      BY <2>3, <2>4, <3>1
    <3>4. PICK s \in Seq(Int) : s = Numeral[q]
      <4>1. Numeral[q] \in Seq(Digit) /\ Digit \subseteq Int
        BY NumeralFacts DEF Digit
      <4>2. Seq(Digit) \subseteq Seq(Int)
        BY <4>1, SeqMonotonic
      <4> QED BY <4>1, <4>2
    <3> QED BY <2>4, <3>1, <3>2, <3>3, <3>4, NaturalAppend
  <2> QED BY <2>4, <2>5, <2>6
<1> QED BY <1>1
(***************************************************************************)
(* What int_to_json writes, and that the reader takes all of it.           *)
(***************************************************************************)
IsNumeral(t) ==
  /\ t \in Seq(Byte) /\ First(t) <= Len(t)
  /\ \A i \in First(t) .. Len(t) : t[i] \in Digit
  /\ t[First(t)] = Zero => First(t) = Len(t)

LEMMA DecimalFacts ==
  ASSUME NEW v \in Int
  PROVE  /\ IsNumeral(Decimal(v)) /\ Decimal(v) # <<>>
         /\ v >= 0 => Decimal(v) = Numeral[v] /\ Decimal(v)[1] # Minus
         /\ v < 0 => Decimal(v)[1] = Minus /\ Tail(Decimal(v)) = Numeral[-v]
<1>1. PICK n \in Nat : n = IF v < 0 THEN -v ELSE v
  <2>1. (IF v < 0 THEN -v ELSE v) \in Nat
    OBVIOUS
  <2> QED BY <2>1
<1>2. PICK s \in Seq(Digit) : s = Numeral[n]
  BY NumeralFacts
<1>3. Len(s) \in Nat /\ Len(s) >= 1 /\ (s[1] = Zero => Len(s) = 1)
  BY <1>1, <1>2, NumeralFacts
<1>4. \A i \in 1 .. Len(s) : s[i] \in Digit
  BY ElementOfSeq
<1>5. Digit \subseteq Byte /\ Minus \in Byte /\ Minus \notin Digit
  BY DEF Digit, Byte, Minus
<1>6. s \in Seq(Byte)
  BY <1>5, SeqMonotonic
<1>7. CASE v >= 0
  <2>1. Decimal(v) = s /\ n = v
    BY <1>1, <1>2, <1>7 DEF Decimal
  <2>2. First(s) = 1 /\ s[1] # Minus /\ s # <<>>
    BY <1>3, <1>4, <1>5 DEF First
  <2> QED BY <1>2, <1>3, <1>4, <1>6, <1>7, <2>1, <2>2 DEF IsNumeral
<1>8. CASE v < 0
  <2>1. Decimal(v) = <<Minus>> \o s /\ n = -v
    BY <1>1, <1>2, <1>8 DEF Decimal
  <2>2. <<Minus>> \in Seq(Byte) /\ Len(<<Minus>>) = 1 /\ <<Minus>>[1] = Minus
    BY <1>5
  <2>3. PICK u \in Seq(Byte) : u = <<Minus>> /\ Len(u) = 1 /\ u[1] = Minus
    BY <2>2
  <2>4. PICK t \in Seq(Byte) : t = u \o s
    BY <1>6, ConcatProperties
  <2>5. /\ Len(t) = Len(s) + 1 /\ t[1] = Minus
        /\ \A i \in 1 .. Len(s) : t[i + 1] = s[i]
    BY <1>3, <1>6, <2>3, <2>4, ConcatProperties
  <2>6. First(t) = 2
    BY <2>5 DEF First
  <2>7. ASSUME NEW i \in 2 .. Len(t) PROVE t[i] = s[i - 1] /\ i - 1 \in 1 .. Len(s)
    <3>1. i - 1 \in 1 .. Len(s) /\ (i - 1) + 1 = i
      BY <1>3, <2>5
    <3> QED BY <2>5, <3>1
  <2>8. Tail(t) = s
    <3>1. Tail(t) \in Seq(Byte) /\ Len(Tail(t)) = Len(s) /\ \A i \in 1 .. Len(s) : Tail(t)[i] = t[i + 1]
      BY <1>3, <2>5
    <3>2. \A i \in 1 .. Len(s) : Tail(t)[i] = s[i]
      BY <2>5, <3>1
    <3> QED BY <1>6, <3>1, <3>2, SeqEqual
  <2>9. IsNumeral(t)
    <3>1. \A i \in 2 .. Len(t) : t[i] \in Digit
      BY <1>4, <2>7
    <3>2. 2 <= Len(t) /\ t[2] = s[1] /\ (t[2] = Zero => 2 = Len(t))
      <4>1. 2 \in 2 .. Len(t) /\ 2 - 1 = 1
        BY <1>3, <2>5
      <4>2. t[2] = s[1]
        BY <2>7, <4>1
      <4> QED BY <1>3, <2>5, <4>1, <4>2
    <3> QED BY <2>6, <3>1, <3>2 DEF IsNumeral
  <2>10. t # <<>>
    BY <1>3, <2>5
  <2>11. Decimal(v) = t
    BY <2>1, <2>3, <2>4
  <2>12. Tail(Decimal(v)) = Numeral[-v]
    BY <1>2, <2>1, <2>8, <2>11
  <2>13. Decimal(v)[1] = Minus /\ IsNumeral(Decimal(v)) /\ Decimal(v) # <<>>
    BY <2>5, <2>9, <2>10, <2>11
  <2> QED BY <1>8, <2>12, <2>13
<1> QED BY <1>7, <1>8

\* The lengths of the numbers that Python refuses.
LEMMA LongInts ==
  ASSUME NEW v \in Int
  PROVE  TooLong(Decimal(v)) <=> Len(Numeral[IF v < 0 THEN -v ELSE v]) > MaxStrDigits
<1>1. CASE v < 0
  BY <1>1, DecimalFacts DEF TooLong
<1>2. CASE v >= 0
  BY <1>2, DecimalFacts DEF TooLong
<1> QED BY <1>1, <1>2

Widths == {ByteBits * NativeBytes, LongBits}

LEMMA WidthFacts ==
  /\ ByteBits \in Nat /\ ByteBits >= 1 /\ NativeBytes \in Nat /\ NativeBytes >= 1
  /\ LongBits \in Nat /\ LongBits >= 1 /\ MaxStrDigits \in Nat \ {0}
  /\ \A bits \in Widths : bits \in Nat /\ bits >= 1
<1>1. /\ ByteBits \in Nat /\ ByteBits >= 1 /\ NativeBytes \in Nat /\ NativeBytes >= 1
      /\ LongBits \in Nat /\ LongBits >= 1 /\ MaxStrDigits \in Nat \ {0}
  BY WidthAssumption
<1>2. ByteBits * NativeBytes \in Nat /\ ByteBits * NativeBytes >= 1
  BY <1>1
<1> QED BY <1>1, <1>2 DEF Widths

LEMMA ShortEnough ==
  ASSUME NEW v \in Int, NEW bits \in Widths, Fits(v, bits)
  PROVE  ~TooLong(Decimal(v))
<1>1. bits - 1 \in Nat /\ MaxStrDigits \in Nat \ {0} /\ MaxStrDigits \in Nat
  BY WidthFacts
<1>2. PICK p \in Nat, t \in Nat : p = Power(2, bits - 1) /\ t = Power(10, MaxStrDigits)
  BY <1>1, PowerEquation
<1>3. ~(-t >= -p /\ -t < p)
  BY <1>2, WidthAssumption DEF Widths, Fits
<1>4. v >= -p /\ v < p
  BY <1>2 DEF Fits
<1>5. p > 0
  BY <1>1, <1>2, PowerGrows
<1>6. PICK n \in Nat : n = (IF v < 0 THEN -v ELSE v) /\ n < t
  <2>1. (IF v < 0 THEN -v ELSE v) \in Nat /\ (IF v < 0 THEN -v ELSE v) < t
    BY <1>3, <1>4, <1>5
  <2> QED BY <2>1
<1>7. Len(Numeral[n]) <= MaxStrDigits
  BY <1>1, <1>2, <1>6, NumeralLength
<1>8. Len(Numeral[n]) \in Nat
  BY NumeralFacts
<1> QED BY <1>1, <1>6, <1>7, <1>8, LongInts

LEMMA SmallModulus ==
  ASSUME NEW m \in Nat, NEW x \in Nat, x < m
  PROVE  x % m = x
OBVIOUS

LEMMA WrapFits ==
  ASSUME NEW v \in Int, NEW bits \in Nat, bits >= 1, Fits(v, bits)
  PROVE  Wrap(v, bits) = v
<1>1. bits - 1 \in Nat /\ (bits - 1) + 1 = bits
  OBVIOUS
<1>2. PICK p \in Nat, q \in Nat : p = Power(2, bits - 1) /\ q = Power(2, bits) /\ q = 2 * p
  <2>1. /\ Power(2, bits - 1) \in Nat
        /\ Power(2, (bits - 1) + 1) = 2 * Power(2, bits - 1)
    BY <1>1, PowerEquation
  <2> QED BY <1>1, <2>1
<1>3. v + p \in Nat /\ v + p < q
  BY <1>2 DEF Fits
<1>4. (v + p) % q = v + p
  BY <1>2, <1>3, SmallModulus
<1> QED BY <1>2, <1>4 DEF Wrap

\* A number that fits some bytes fits more.
LEMMA FitsMore ==
  ASSUME NEW v \in Int, NEW m \in Nat \ {0}, NEW n \in Nat, m <= n, Fits(v, ByteBits * m)
  PROVE  Fits(v, ByteBits * n)
<1>1. ByteBits \in Nat /\ ByteBits >= 1
  BY WidthFacts
<1>2. PICK k \in Nat, l \in Nat : k = ByteBits * m - 1 /\ l = ByteBits * n - 1 /\ k <= l
  <2>1. ByteBits * m - 1 \in Nat /\ ByteBits * n - 1 \in Nat /\ ByteBits * m - 1 <= ByteBits * n - 1
    BY <1>1
  <2> QED BY <2>1
<1>3. PICK p \in Nat, q \in Nat : p = Power(2, k) /\ q = Power(2, l) /\ p <= q
  <2>1. Power(2, k) \in Nat /\ Power(2, l) \in Nat
    BY PowerEquation
  <2>2. Power(2, k) <= Power(2, l)
    BY <1>2, PowerGrows
  <2> QED BY <2>1, <2>2
<1> QED BY <1>2, <1>3 DEF Fits

LEMMA SizeFits ==
  ASSUME NEW v \in Int
  PROVE  Size(v) \in Nat \ {0} /\ Fits(v, ByteBits * Size(v))
<1>1. PICK a \in Nat : a = (IF v < 0 THEN -v ELSE v) + 1 /\ a >= 1 /\ -a < v /\ v < a
  <2>1. LET a == (IF v < 0 THEN -v ELSE v) + 1 IN a \in Nat /\ a >= 1 /\ -a < v /\ v < a
    OBVIOUS
  <2> QED BY <2>1
<1> DEFINE T == {n \in Nat : n \in 1 .. a /\ Fits(v, ByteBits * n)}
<1>2. a \in T
  <2>1. PICK k \in Nat : k = ByteBits * a - 1 /\ k >= a - 1
    <3>1. ByteBits * a - 1 \in Nat /\ ByteBits * a - 1 >= a - 1
      BY <1>1, WidthFacts
    <3> QED BY <3>1
  <2>2. PICK p \in Nat : p = Power(2, k) /\ p > k
    BY PowerEquation, PowerGrows
  <2>3. Fits(v, ByteBits * a)
    BY <1>1, <2>1, <2>2 DEF Fits
  <2> QED BY <1>1, <2>3
<1>3. PICK n \in T : \A m \in T : n <= m
  <2>1. T \in SUBSET Nat
    OBVIOUS
  <2> HIDE DEF T
  <2> QED BY <1>2, <2>1, LeastElement
<1>4. n \in 1 .. a /\ Fits(v, ByteBits * n) /\ \A m \in 1 .. n - 1 : ~Fits(v, ByteBits * m)
  <2>1. n \in Nat /\ n \in 1 .. a /\ Fits(v, ByteBits * n)
    BY <1>3
  <2>2. ASSUME NEW m \in 1 .. n - 1, Fits(v, ByteBits * m) PROVE FALSE
    <3>1. m \in 1 .. a /\ m \in Nat /\ ~(n <= m)
      BY <1>1, <2>1
    <3> QED BY <1>3, <2>2, <3>1
  <2> QED BY <2>1, <2>2
<1> DEFINE Enough(l) == Fits(v, ByteBits * l) /\ \A m \in 1 .. l - 1 : ~Fits(v, ByteBits * m)
<1>5. Size(v) = CHOOSE l \in 1 .. a : Enough(l)
  BY <1>1 DEF Size
<1>6. Size(v) \in 1 .. a /\ Enough(Size(v))
  <2>1. Enough(n) /\ n \in 1 .. a
    BY <1>4
  <2> HIDE DEF Enough
  <2> QED BY <1>5, <2>1
<1> QED BY <1>1, <1>6

\* An int is written as its text, unless that is too long for Python.
LEMMA IntIsWritten ==
  ASSUME NEW v \in Int, NEW build \in Builds
  PROVE  \/ IntToJson(v, build) = <<>> /\ TooLong(Decimal(v))
         \/ IntToJson(v, build) = Decimal(v) /\ ~TooLong(Decimal(v))
<1>1. Decimal(v) # <<>>
  BY DecimalFacts
<1>2. \/ TryWriteInt(v, build) = <<>>
      \/ TryWriteInt(v, build) = Decimal(v) /\ ~TooLong(Decimal(v))
  <2>1. CASE build = "native_bytes"
    <3>1. CASE Size(v) > NativeBytes
      BY <2>1, <3>1 DEF TryWriteInt, AsNativeBytes
    <3>2. CASE ~(Size(v) > NativeBytes)
      <4>1. Fits(v, ByteBits * NativeBytes)
        <5>1. PICK m \in Nat \ {0} : m = Size(v) /\ m <= NativeBytes /\ Fits(v, ByteBits * m)
          <6>1. Size(v) \in Nat \ {0} /\ Fits(v, ByteBits * Size(v)) /\ NativeBytes \in Nat
            BY SizeFits, WidthFacts
          <6>2. Size(v) <= NativeBytes
            BY <3>2, <6>1
          <6> QED BY <6>1, <6>2
        <5>2. NativeBytes \in Nat
          BY WidthFacts
        <5> QED BY <5>1, <5>2, FitsMore
      <4>2. ByteBits * NativeBytes \in Widths
        BY DEF Widths
      <4>3. Wrap(v, ByteBits * NativeBytes) = v
        BY <4>1, <4>2, WidthFacts, WrapFits
      <4>4. TryWriteInt(v, build) = Decimal(v)
        BY <2>1, <3>2, <4>3 DEF TryWriteInt, AsNativeBytes
      <4> QED BY <4>1, <4>2, <4>4, ShortEnough
    <3> QED BY <3>1, <3>2
  <2>2. CASE build # "native_bytes"
    <3>1. CASE Fits(v, LongBits)
      <4>1. LongBits \in Widths
        BY DEF Widths
      <4>2. TryWriteInt(v, build) = Decimal(v)
        BY <2>2, <3>1 DEF TryWriteInt, AsLongLong
      <4> QED BY <3>1, <4>1, <4>2, ShortEnough
    <3>2. CASE ~Fits(v, LongBits)
      BY <2>2, <3>2 DEF TryWriteInt, AsLongLong
    <3> QED BY <3>1, <3>2
  <2> QED BY <2>1, <2>2
<1>3. CASE TryWriteInt(v, build) = <<>>
  BY <1>3 DEF IntToJson, Repr
<1>4. CASE TryWriteInt(v, build) # <<>>
  BY <1>1, <1>2, <1>4 DEF IntToJson
<1> QED BY <1>3, <1>4

\* The reader makes the int of its text again.
LEMMA IntIsRead ==
  ASSUME NEW v \in Int, ~TooLong(Decimal(v))
  PROVE  CreateInt(Decimal(v)) = Ok([int |-> v])
<1>1. CASE v >= 0
  <2>1. Decimal(v)[1] # Minus /\ Natural(Decimal(v)) = v
    BY <1>1, DecimalFacts, NaturalOfNumeral
  <2> QED BY <2>1 DEF CreateInt
<1>2. CASE v < 0
  <2>1. Decimal(v)[1] = Minus /\ Tail(Decimal(v)) = Numeral[-v] /\ -v \in Nat /\ -(-v) = v
    BY <1>2, DecimalFacts
  <2>2. Natural(Tail(Decimal(v))) = -v
    BY <2>1, NaturalOfNumeral
  <2> QED BY <2>1, <2>2 DEF CreateInt
<1> QED BY <1>1, <1>2
(***************************************************************************)
(* The invariant of a document that int_to_json wrote: the reader never    *)
(* leaves the path of an int, and reaches the end.                         *)
(***************************************************************************)
ReadsInt(t) ==
  /\ input = t /\ ~isFloat
  /\ result = Running =>
       \/ phase = "sign" /\ pos = 1
       \/ phase = "integer" /\ pos \in First(t) + 1 .. Len(t) + 1
       \/ phase \in {"point", "letter", "create"} /\ pos = Len(t) + 1
WritesInt(v) ==
  \/ /\ ~written /\ input = <<>> /\ ~isFloat
     /\ phase = "sign" /\ pos = 1 /\ result = Running
  \/ written /\ input = <<>> /\ TooLong(Decimal(v)) /\ result # Running
  \/ /\ written /\ ~TooLong(Decimal(v)) /\ ReadsInt(Decimal(v))
     /\ result # Running => result = Ok([int |-> v]) /\ pos = Len(Decimal(v)) + 1
IntInv == source # NoSource => source \in Sources /\ WritesInt(source.int)

LEMMA ReadingInt ==
  ASSUME NEW v \in Int, NEW t, t = Decimal(v), ~TooLong(t), ReadsInt(t), result = Running, Iterate
  PROVE  /\ ReadsInt(t)'
         /\ result' # Running => result' = Ok([int |-> v]) /\ pos' = Len(t) + 1
<1>1. /\ t \in Seq(Byte) /\ Len(t) \in Nat /\ First(t) \in {1, 2} /\ First(t) <= Len(t)
      /\ \A i \in First(t) .. Len(t) : t[i] \in Digit
      /\ t[First(t)] = Zero => First(t) = Len(t)
  BY DecimalFacts DEF IsNumeral, First
<1>2. input = t /\ ~isFloat
  BY DEF ReadsInt
<1>3. /\ \A p \in First(t) .. Len(t) : Peek(p) \in Digit
      /\ Peek(Len(t) + 1) = Eof
  BY <1>1, <1>2 DEF Peek
<1>4. Eof \notin Digit /\ Eof # Dot /\ Eof \notin Exponents
  BY DEF Eof, Digit, Dot, Exponents
<1>5. phase = "sign" => pos = 1
  BY DEF ReadsInt
<1>6. phase = "integer" => pos \in First(t) + 1 .. Len(t) + 1
  BY DEF ReadsInt
<1>7. phase \in {"point", "letter", "create"} => pos = Len(t) + 1
  BY DEF ReadsInt
<1>8. phase \in {"sign", "integer", "point", "letter", "create"}
  BY DEF ReadsInt
<1>9. CASE Sign
  <2> DEFINE first == IF Peek(1) = Minus THEN 2 ELSE 1
  <2>1. first = First(t)
    BY <1>1, <1>2 DEF Peek, First
  <2>2. Peek(first) \in Digit
    BY <1>1, <1>3, <2>1
  <2>3. Advance(first + 1, IF Peek(first) = Zero THEN "point" ELSE "integer", FALSE)
    BY <1>4, <1>9, <2>2 DEF Sign, ReadDigit
  <2>4. input' = t /\ ~isFloat' /\ result' = result /\ pos' = first + 1
    BY <1>2, <2>3 DEF Advance
  <2>5. CASE Peek(first) = Zero
    <3>1. phase' = "point" /\ pos' = Len(t) + 1
      BY <1>1, <1>2, <2>1, <2>3, <2>4, <2>5 DEF Advance, Peek
    <3> QED BY <2>4, <3>1 DEF ReadsInt
  <2>6. CASE Peek(first) # Zero
    <3>1. phase' = "integer" /\ pos' \in First(t) + 1 .. Len(t) + 1
      BY <1>1, <2>1, <2>3, <2>4, <2>6 DEF Advance
    <3> QED BY <2>4, <3>1 DEF ReadsInt
  <2> QED BY <2>5, <2>6
<1>10. CASE SkipDigit
  <2>1. phase = "integer" /\ Peek(pos) \in Digit /\ Advance(pos + 1, "integer", isFloat)
    BY <1>8, <1>10 DEF SkipDigit, In, Loops
  <2>2. pos \in First(t) + 1 .. Len(t)
    BY <1>1, <1>3, <1>4, <1>6, <2>1
  <2>3. /\ input' = t /\ ~isFloat' /\ result' = result /\ phase' = "integer"
        /\ pos' \in First(t) + 1 .. Len(t) + 1
    BY <1>1, <1>2, <2>1, <2>2 DEF Advance
  <2> QED BY <2>3 DEF ReadsInt
<1>11. CASE EndDigits
  <2>1. phase = "integer" /\ Peek(pos) \notin Digit /\ Advance(pos, "point", isFloat)
    BY <1>8, <1>11 DEF EndDigits, In, Loops, After
  <2>2. pos = Len(t) + 1
    BY <1>1, <1>3, <1>6, <2>1
  <2>3. input' = t /\ ~isFloat' /\ result' = result /\ phase' = "point" /\ pos' = Len(t) + 1
    BY <1>2, <2>1, <2>2 DEF Advance
  <2> QED BY <2>3 DEF ReadsInt
<1>12. CASE Point
  <2>1. pos = Len(t) + 1 /\ Peek(pos) = Dot
    BY <1>7, <1>12 DEF Point, In
  <2> QED BY <1>3, <1>4, <2>1
<1>13. CASE NoPoint
  <2>1. phase = "point" /\ Advance(pos, "letter", isFloat)
    BY <1>13 DEF NoPoint, In
  <2>2. input' = t /\ ~isFloat' /\ result' = result /\ phase' = "letter" /\ pos' = Len(t) + 1
    BY <1>2, <1>7, <2>1 DEF Advance
  <2> QED BY <2>2 DEF ReadsInt
<1>14. CASE Letter
  <2>1. pos = Len(t) + 1 /\ Peek(pos) \in Exponents
    BY <1>7, <1>14 DEF Letter, In
  <2> QED BY <1>3, <1>4, <2>1
<1>15. CASE NoLetter
  <2>1. phase = "letter" /\ Advance(pos, "create", isFloat)
    BY <1>15 DEF NoLetter, In
  <2>2. input' = t /\ ~isFloat' /\ result' = result /\ phase' = "create" /\ pos' = Len(t) + 1
    BY <1>2, <1>7, <2>1 DEF Advance
  <2> QED BY <2>2 DEF ReadsInt
<1>16. CASE CreateNumber
  <2>1. pos = Len(t) + 1 /\ Return(pos, CreateInt(SubSeq(input, 1, pos - 1)))
    BY <1>2, <1>7, <1>16 DEF CreateNumber, In
  <2>2. SubSeq(input, 1, pos - 1) = t
    <3>1. pos - 1 = Len(t)
      BY <1>1, <2>1
    <3>2. SubSeq(t, 1, Len(t)) = t
      BY <1>1
    <3> QED BY <1>2, <3>1, <3>2
  <2>3. result' = Ok([int |-> v]) /\ pos' = Len(t) + 1 /\ UNCHANGED <<input, phase, isFloat>>
    BY <2>1, <2>2, IntIsRead DEF Return
  <2>4. Ok([int |-> v]) # Running
    BY DEF Ok, Running
  <2> QED BY <1>2, <2>3, <2>4 DEF ReadsInt
<1> QED BY <1>9, <1>10, <1>11, <1>12, <1>13, <1>14, <1>15, <1>16 DEF Iterate

LEMMA InitIntInv == NInit => IntInv
<1> SUFFICES ASSUME NInit, source # NoSource PROVE source \in Sources /\ WritesInt(source.int)
  BY DEF IntInv
<1>1. source \in Sources /\ input = <<>> /\ ~written /\ ~isFloat /\ phase = "sign" /\ pos = 1 /\ result = Running
  BY DEF NInit
<1> QED BY <1>1 DEF WritesInt

LEMMA StepIntInv == IntInv /\ [NNext]_<<vars, source, written>> => IntInv'
<1> SUFFICES ASSUME IntInv, [NNext]_<<vars, source, written>>, source' # NoSource
             PROVE  (source \in Sources /\ WritesInt(source.int))'
  BY DEF IntInv
<1>1. source' = source
  BY DEF NNext, WriteInt, Read
<1>2. source \in Sources /\ WritesInt(source.int)
  BY <1>1 DEF IntInv
<1>3. PICK v \in Int : v = source.int
  BY <1>2, SourceAssumption DEF Sources
<1>4. PICK build \in Builds : build = source.build
  BY <1>2 DEF Sources
<1>5. PICK t : t = Decimal(v)
  OBVIOUS
<1>6. WritesInt(v)
  BY <1>2, <1>3
<1>7. SUFFICES WritesInt(v)'
  <2>1. source'.int = v
    BY <1>1, <1>3
  <2> QED BY <1>1, <1>2, <2>1 DEF WritesInt, ReadsInt
<1>8. CASE WriteInt
  <2>1. /\ ~written /\ written' /\ input' = IntToJson(v, build)
        /\ result' = IF input' = <<>> THEN Err("ValueError") ELSE Running
        /\ pos' = pos /\ phase' = phase /\ isFloat' = isFloat
    BY <1>3, <1>4, <1>8 DEF WriteInt
  <2>2. ~isFloat /\ phase = "sign" /\ pos = 1
    BY <1>6, <2>1 DEF WritesInt
  <2>3. Err("ValueError") # Running
    BY DEF Err, Running
  <2>4. CASE input' = <<>> /\ TooLong(Decimal(v))
    BY <2>1, <2>3, <2>4 DEF WritesInt
  <2>5. CASE input' = Decimal(v) /\ ~TooLong(Decimal(v))
    <3>1. Decimal(v) # <<>>
      BY DecimalFacts
    <3>2. result' = Running
      BY <2>1, <2>5, <3>1
    <3>3. ReadsInt(t)'
      BY <1>5, <2>1, <2>2, <2>5 DEF ReadsInt
    <3>4. ReadsInt(Decimal(v))'
      BY <1>5, <3>3
    <3> QED BY <2>1, <2>5, <3>2, <3>4 DEF WritesInt
  <2> QED BY <2>1, <2>4, <2>5, IntIsWritten
<1>9. CASE Read /\ result = Running
  <2>1. written /\ written' = written /\ Iterate
    BY <1>9 DEF Read, Next, Returned
  <2>2. ~TooLong(t) /\ ReadsInt(t)
    BY <1>5, <1>6, <1>9, <2>1 DEF WritesInt
  <2>3. ReadsInt(t)' /\ (result' # Running => result' = Ok([int |-> v]) /\ pos' = Len(t) + 1)
    BY <1>5, <1>9, <2>1, <2>2, ReadingInt
  <2>4. ReadsInt(Decimal(v))'
    BY <1>5, <2>3
  <2> QED BY <1>5, <2>1, <2>2, <2>3, <2>4 DEF WritesInt
<1>10. CASE UNCHANGED <<vars, written>>
  <2>1. ReadsInt(Decimal(v)) => ReadsInt(Decimal(v))'
    BY <1>10 DEF ReadsInt, vars
  <2> QED BY <1>6, <1>10, <2>1 DEF WritesInt, vars
<1>11. CASE Read /\ result # Running
  <2>1. UNCHANGED <<vars, written>>
    <3>1. ~Iterate
      BY <1>11 DEF Iterate, Sign, SkipDigit, EndDigits, Point, NoPoint, Letter, NoLetter, CreateNumber, In
    <3> QED BY <1>11, <3>1 DEF Read, Next, Returned
  <2> QED BY <1>10, <2>1
<1> QED BY <1>8, <1>9, <1>10, <1>11 DEF NNext

\* An int that is written is read back as itself, whatever its size, the build
\* and the widths of the machine integers, and all of its text is consumed; an
\* int is not written only when it is too long for Python (ser.rs:255-378
\* against de.rs:237-277).
THEOREM IntsReadBackCorrect == NSpec => []IntsReadBack
<1>1. IntInv => IntsReadBack
  <2> SUFFICES ASSUME IntInv, source # NoSource, result # Running
               PROVE  \/ input = <<>> /\ TooLong(Decimal(source.int))
                      \/ input # <<>> /\ result = Ok([int |-> source.int]) /\ pos = Len(input) + 1
    BY DEF IntsReadBack
  <2>1. PICK v \in Int : v = source.int
    BY SourceAssumption DEF IntInv, Sources
  <2>2. WritesInt(v)
    BY <2>1 DEF IntInv
  <2>3. Decimal(v) # <<>>
    BY DecimalFacts
  <2> QED BY <2>1, <2>2, <2>3 DEF WritesInt, ReadsInt
<1> QED BY <1>1, InitIntInv, StepIntInv, PTL DEF NSpec
=============================================================================
