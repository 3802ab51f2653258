----------------------------- MODULE NumberLexer -----------------------------
(***************************************************************************)
(* parse_number and PyDeserialization's create_number (src/src/de.rs): a   *)
(* number is the longest text at the front of the document that can be     *)
(* one.  parse_any has seen its first byte, a minus or a digit, and has    *)
(* consumed nothing.                                                       *)
(***************************************************************************)
EXTENDS Utf8, PyInt

CONSTANTS
  Inputs,             \* the documents, from the number on
  FloatOverflows(_)   \* the texts whose value is no finite f64

Plus == 43
Dot == 46
Digit == 48 .. 57
Exponents == {69, 101}
NumberByte == Digit \cup {Minus, Plus, Dot} \cup Exponents

ASSUME InputsAssumption ==
  \A s \in Inputs : s \in Seq(Byte) /\ Len(s) > 0 /\ s[1] \in Digit \cup {Minus}

VARIABLES
  input,     \* the document
  pos,       \* the cursor: index of the first byte not yet consumed
  phase,     \* where the call is: in one of its loops or before one of its tests
  isFloat,   \* a point or an exponent has been read
  result     \* what the call returned, or Running

vars == <<input, pos, phase, isFloat, result>>

Running == [tag |-> "Running"]
Ok(v) == [tag |-> "Ok", value |-> v]
Err(e) == [tag |-> "Err", err |-> e]
Eof == -1

Loops == {"integer", "fraction", "exponent"}
Tests == {"sign", "point", "letter", "create"}
----------------------------------------------------------------------------
Peek(p) == IF p <= Len(input) THEN input[p] ELSE Eof
In(ph) == result = Running /\ phase = ph

Advance(p, ph, float) ==
  pos' = p /\ phase' = ph /\ isFloat' = float /\ UNCHANGED <<input, result>>
Return(p, r) ==
  pos' = p /\ result' = r /\ UNCHANGED <<input, phase, isFloat>>

\* A read that moves the cursor past the end.
ReadDigitOvershooting(p, ph, float) ==
  \/ Peek(p) \in Digit /\ Advance(p + 1, ph, float)
  \/ Peek(p) = Eof /\ Return(p + 1, Err("Eof"))
  \/ Peek(p) \notin Digit \cup {Eof} /\ Return(p + 1, Err("ExpectedDigit"))

\* b.read()?, of which only a digit is let through.
ReadDigit(p, ph, float) ==
  \/ Peek(p) \in Digit /\ Advance(p + 1, ph, float)
  \/ Peek(p) = Eof /\ Return(p, Err("Eof"))
  \/ Peek(p) \notin Digit \cup {Eof} /\ Return(p + 1, Err("ExpectedDigit"))

\* An int that fits u64, or i64 behind a minus, is parsed by Rust, any other
\* by PyLong_FromString.
CreateInt(text) ==
  LET n == IF text[1] = Minus THEN -Natural(Tail(text)) ELSE Natural(text)
      fits == IF text[1] = Minus THEN Fits(n, LongBits) ELSE FitsUnsigned(n, LongBits)
  IN IF ~fits /\ TooLong(text) THEN Err("ValueError") ELSE Ok([int |-> n])

CreateFloat(text) ==
  IF FloatOverflows(text) THEN Err("InvalidNumber") ELSE Ok([float |-> text])
----------------------------------------------------------------------------
\* A first digit of which zero is not told from the others.
SignAnyDigit ==
  LET first == IF Peek(1) = Minus THEN 2 ELSE 1 IN
  In("sign") /\ ReadDigit(first, "integer", FALSE)

\* The minus, and the first digit: no other digit follows a zero.
Sign ==
  LET first == IF Peek(1) = Minus THEN 2 ELSE 1 IN
  In("sign") /\ ReadDigit(first, IF Peek(first) = Zero THEN "point" ELSE "integer", FALSE)

SkipDigit ==
  \E ph \in Loops : In(ph) /\ Peek(pos) \in Digit /\ Advance(pos + 1, ph, isFloat)

\* What follows each of the loops.
After == [integer |-> "point", fraction |-> "letter", exponent |-> "create"]

\* A while in the place of an if: another point is looked for.
EndDigitsAgain ==
  \E ph \in Loops :
    /\ In(ph) /\ Peek(pos) \notin Digit
    /\ Advance(pos, IF ph = "fraction" THEN "point" ELSE After[ph], isFloat)

EndDigits ==
  \E ph \in Loops : In(ph) /\ Peek(pos) \notin Digit /\ Advance(pos, After[ph], isFloat)

Point ==
  In("point") /\ Peek(pos) = Dot /\ ReadDigit(pos + 1, "fraction", TRUE)

NoPoint ==
  In("point") /\ Peek(pos) # Dot /\ Advance(pos, "letter", isFloat)

\* An exponent that does not make the number a float.
LetterKeepingFlag ==
  LET digit == IF Peek(pos + 1) \in {Minus, Plus} THEN pos + 2 ELSE pos + 1 IN
  In("letter") /\ Peek(pos) \in Exponents /\ ReadDigit(digit, "exponent", isFloat)

Letter ==
  LET digit == IF Peek(pos + 1) \in {Minus, Plus} THEN pos + 2 ELSE pos + 1 IN
  In("letter") /\ Peek(pos) \in Exponents /\ ReadDigit(digit, "exponent", TRUE)

NoLetter ==
  In("letter") /\ Peek(pos) \notin Exponents /\ Advance(pos, "create", isFloat)

CreateNumber ==
  LET text == SubSeq(input, 1, pos - 1) IN
  In("create") /\ Return(pos, IF isFloat THEN CreateFloat(text) ELSE CreateInt(text))

Returned == result # Running /\ UNCHANGED vars

Init ==
  /\ input \in Inputs
  /\ pos = 1
  /\ phase = "sign"
  /\ isFloat = FALSE
  /\ result = Running

Iterate ==
  \/ Sign \/ SkipDigit \/ EndDigits \/ Point \/ NoPoint \/ Letter \/ NoLetter
  \/ CreateNumber

Next == Iterate \/ Returned

Spec == Init /\ [][Next]_vars
----------------------------------------------------------------------------
(***************************************************************************)
(* Properties.                                                             *)
(***************************************************************************)
NumberErrors == {"Eof", "ExpectedDigit", "InvalidNumber", "ValueError"}

\* The shape of the state: the cursor stays inside the document, so that no
\* skip and no slice of the function can panic.
TypeOK ==
  /\ input \in Seq(Byte)
  /\ pos \in 1 .. Len(input) + 1
  /\ phase \in Loops \cup Tests
  /\ isFloat \in BOOLEAN
  /\ \/ result = Running
     \/ result.tag = "Ok"
     \/ \E e \in NumberErrors : result = Err(e)

\* What from_utf8_unchecked and PyLong_FromString are given: ASCII only, with
\* the flag set exactly if there is a point or an exponent, and digits alone,
\* but for a minus, if it is not set (de.rs:606-610, 266-277, 158-159).
SafeToCreate ==
  phase = "create" =>
    /\ \A i \in 1 .. pos - 1 : input[i] \in NumberByte
    /\ isFloat <=> \E i \in 1 .. pos - 1 : input[i] \in {Dot} \cup Exponents
    /\ ~isFloat =>
         /\ input[pos - 1] \in Digit
         /\ \A i \in 1 .. pos - 1 : input[i] \in Digit \/ (i = 1 /\ input[i] = Minus)

\* Rank of a phase in the text of the function.
Rank == [sign |-> 1, integer |-> 2, point |-> 3, fraction |-> 4, letter |-> 5,
         exponent |-> 6, create |-> 7]

\* No step goes back, in the document or in the function, and one that stays
\* where it is in the document goes on in the function: the call returns.
\* One that changed nothing would be a stuttering step, of which this says
\* nothing; every iteration in the model changes one of its variables.
Progress ==
  [][/\ pos' >= pos /\ Rank[phase'] >= Rank[phase]
     /\ pos' > pos \/ Rank[phase'] > Rank[phase]]_<<pos, phase, isFloat>>
=============================================================================
