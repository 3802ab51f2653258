----------------------------- MODULE StringLexer -----------------------------
(***************************************************************************)
(* parse_str and parse_unicode_escape (src/src/de.rs): a string is read    *)
(* byte by byte, borrowed from the document as long as it has no escape    *)
(* and in a buffer of its own from the first one on.  The input is what    *)
(* follows the opening quote, to the end of the document.                  *)
(***************************************************************************)
EXTENDS StrScan, Utf8

CONSTANT Inputs

ASSUME BytesAssumption == Inputs \subseteq Seq(Byte)

VARIABLES
  input,   \* the document after the opening quote
  pos,     \* the cursor: index of the first byte not yet consumed
  phase,   \* "scan", then the loop it is in, "borrow" or "own"
  buf,     \* the owned bytes, once there are any
  result   \* what the call returned, or Running

vars == <<input, pos, phase, buf, result>>

Running == [tag |-> "Running"]
Ok(v) == [tag |-> "Ok", value |-> v]
Err(e) == [tag |-> "Err", err |-> e]

Eof == -1
Plus == 43
LowerU == 117

\* What stands after the backslash, and the byte it denotes.
ShortEscapes == {<<98, 8>>, <<102, 12>>, <<110, 10>>, <<114, 13>>, <<116, 9>>,
                 <<Backslash, Backslash>>, <<47, 47>>, <<Quote, Quote>>}

HexDigit == (48 .. 57) \cup (65 .. 70) \cup (97 .. 102)
HexValue(b) == IF b <= 57 THEN b - 48 ELSE IF b <= 70 THEN b - 55 ELSE b - 87
HexNumber(h) ==
  4096 * HexValue(h[1]) + 256 * HexValue(h[2]) + 16 * HexValue(h[3]) + HexValue(h[4])
----------------------------------------------------------------------------
Peek(p) == IF p <= Len(input) THEN input[p] ELSE Eof

\* u16::from_str_radix takes a sign, of which only a plus fits an unsigned type.
FromStrRadix(h) ==
  IF h[1] = Plus THEN HexNumber([h EXCEPT ![1] = 48]) ELSE HexNumber(h)
IsRadix16(h) == (h[1] = Plus \/ h[1] \in HexDigit) /\ \A i \in 2 .. 4 : h[i] \in HexDigit

\* parse_unicode_escape: the UTF-16 unit, or the error, and the cursor it
\* leaves.  Four bytes that are a str have the length 4, so the branch for
\* another length is never taken.
ParseUnicodeEscape(p) ==
  LET hex == SubSeq(input, p, p + 3) IN
  IF p + 3 > Len(input) THEN [pos |-> p, unit |-> -1, err |-> "Eof"]
  ELSE IF ~ValidUtf8(hex) THEN [pos |-> p, unit |-> -1, err |-> "InvalidUtf8"]
  ELSE IF ~IsRadix16(hex) THEN [pos |-> p + 4, unit |-> -1, err |-> "InvalidStringEscape"]
  ELSE [pos |-> p + 4, unit |-> FromStrRadix(hex), err |-> "None"]

Combine(c1, c2) == (c1 - 55296) * 1024 + (c2 - 56320) + 65536

\* Bytes that either loop takes as they are, and those it refuses.
Plain(b) == b >= Space /\ b # Quote /\ b # Backslash
Control(b) == b \in 0 .. Space - 1

Return(p, r) == pos' = p /\ result' = r /\ UNCHANGED <<input, phase, buf>>
Continue(p, b) == pos' = p /\ buf' = b /\ UNCHANGED <<input, phase, result>>

CreateString(bytes) == IF ValidUtf8(bytes) THEN Ok(bytes) ELSE Err("InvalidUtf8")

In(ph) == result = Running /\ phase = ph
----------------------------------------------------------------------------
Scan ==
  /\ In("scan")
  /\ pos' = 1 + StrFindSpecialByte(input)
  /\ phase' = "borrow"
  /\ UNCHANGED <<input, buf, result>>

BorrowByte ==
  In("borrow") /\ Plain(Peek(pos)) /\ Continue(pos + 1, buf)

BorrowClose ==
  /\ In("borrow") /\ Peek(pos) = Quote
  /\ Return(pos + 1, CreateString(SubSeq(input, 1, pos - 1)))

\* The escape is left to the next loop.
StartOwning ==
  /\ In("borrow") /\ Peek(pos) = Backslash
  /\ buf' = SubSeq(input, 1, pos - 1)
  /\ phase' = "own"
  /\ UNCHANGED <<input, pos, result>>

BorrowFail ==
  /\ In("borrow")
  /\ \/ Peek(pos) = Eof /\ Return(pos, Err("Eof"))
     \/ Control(Peek(pos)) /\ Return(pos, Err("UnescapedControlCharacter"))

\* A loop that takes a byte without consuming it.
OwnByteAgain ==
  In("own") /\ Plain(Peek(pos)) /\ Continue(pos, Append(buf, Peek(pos)))

OwnByte ==
  In("own") /\ Plain(Peek(pos)) /\ Continue(pos + 1, Append(buf, Peek(pos)))

OwnClose ==
  In("own") /\ Peek(pos) = Quote /\ Return(pos + 1, CreateString(buf))

\* A read that moves the cursor past the end.
OwnFailOvershooting ==
  /\ In("own")
  /\ \/ Peek(pos) = Eof /\ Return(pos + 1, Err("Eof"))
     \/ Control(Peek(pos)) /\ Return(pos + 1, Err("UnescapedControlCharacter"))

OwnFail ==
  /\ In("own")
  /\ \/ Peek(pos) = Eof /\ Return(pos, Err("Eof"))
     \/ Control(Peek(pos)) /\ Return(pos + 1, Err("UnescapedControlCharacter"))

InEscape(b) == In("own") /\ Peek(pos) = Backslash /\ Peek(pos + 1) = b

ShortEscape ==
  \E e \in ShortEscapes : InEscape(e[1]) /\ Continue(pos + 2, Append(buf, e[2]))

BadEscape ==
  \/ InEscape(Eof) /\ Return(pos + 1, Err("Eof"))
  \/ /\ InEscape(Peek(pos + 1)) /\ Peek(pos + 1) # Eof
     /\ Peek(pos + 1) # LowerU /\ \A e \in ShortEscapes : Peek(pos + 1) # e[1]
     /\ Return(pos + 2, Err("InvalidStringEscape"))

UnicodeEscape ==
  /\ InEscape(LowerU)
  /\ LET c == ParseUnicodeEscape(pos + 2) IN
     \/ c.err # "None" /\ Return(c.pos, Err(c.err))
     \/ /\ c.err = "None" /\ c.unit \notin Leading \cup Trailing
        /\ Continue(c.pos, buf \o EncodeUtf8(c.unit))
     \/ c.unit \in Trailing /\ Return(c.pos, Err("InvalidStringEscape"))

\* A second unit of which only the lower bound is tested.
SurrogatePairUnbounded ==
  /\ InEscape(LowerU)
  /\ LET c1 == ParseUnicodeEscape(pos + 2)
         c2 == ParseUnicodeEscape(c1.pos + 2)
         follows == Peek(c1.pos) = Backslash /\ Peek(c1.pos + 1) = LowerU
     IN /\ c1.unit \in Leading
        /\ \/ ~follows /\ Return(c1.pos, Err("InvalidStringEscape"))
           \/ follows /\ c2.err # "None" /\ Return(c2.pos, Err(c2.err))
           \/ /\ follows /\ c2.err = "None" /\ c2.unit < 56320
              /\ Return(c2.pos, Err("InvalidStringEscape"))
           \/ /\ follows /\ c2.unit >= 56320
              /\ Continue(c2.pos, buf \o EncodeUtf8(Combine(c1.unit, c2.unit)))

SurrogatePair ==
  /\ InEscape(LowerU)
  /\ LET c1 == ParseUnicodeEscape(pos + 2)
         c2 == ParseUnicodeEscape(c1.pos + 2)
         follows == Peek(c1.pos) = Backslash /\ Peek(c1.pos + 1) = LowerU
     IN /\ c1.unit \in Leading
        /\ \/ ~follows /\ Return(c1.pos, Err("InvalidStringEscape"))
           \/ follows /\ c2.err # "None" /\ Return(c2.pos, Err(c2.err))
           \/ /\ follows /\ c2.err = "None" /\ c2.unit \notin Trailing
              /\ Return(c2.pos, Err("InvalidStringEscape"))
           \/ /\ follows /\ c2.unit \in Trailing
              /\ Continue(c2.pos, buf \o EncodeUtf8(Combine(c1.unit, c2.unit)))

Returned == result # Running /\ UNCHANGED vars

Init ==
  /\ input \in Inputs
  /\ pos = 1
  /\ phase = "scan"
  /\ buf = <<>>
  /\ result = Running

Iterate ==
  \/ Scan \/ BorrowByte \/ BorrowClose \/ StartOwning \/ BorrowFail
  \/ OwnByte \/ OwnClose \/ OwnFail
  \/ ShortEscape \/ BadEscape \/ UnicodeEscape \/ SurrogatePair

Next == Iterate \/ Returned

Spec == Init /\ [][Next]_vars
----------------------------------------------------------------------------
(***************************************************************************)
(* Properties.                                                             *)
(***************************************************************************)
LexErrors == {"Eof", "InvalidUtf8", "InvalidStringEscape", "UnescapedControlCharacter"}

\* The shape of the state: the cursor stays inside the document, so that no
\* skip and no slice of the function can panic.
TypeOK ==
  /\ input \in Seq(Byte)
  /\ pos \in 1 .. Len(input) + 1
  /\ phase \in {"scan", "borrow", "own"}
  /\ buf \in Seq(Byte)
  /\ result \in {Running} \cup [tag : {"Ok"}, value : Seq(Byte)] \cup [tag : {"Err"}, err : LexErrors]

\* No string is accepted with a control character in it: not in the bytes the
\* scan skipped, nor in either loop, nor among the digits of an escape
\* (de.rs:617-745).
ControlsRefused ==
  result.tag # "Err" => \A i \in 1 .. pos - 1 : input[i] >= Space

\* A string that is borrowed is the text between the quotes, and no escape is
\* in it (de.rs:625-656).
BorrowedVerbatim ==
  phase = "borrow" /\ result.tag = "Ok" =>
    /\ result.value = SubSeq(input, 1, pos - 2)
    /\ input[pos - 1] = Quote
    /\ \A i \in 1 .. pos - 2 : ~Special(input[i])

\* Every iteration consumes a byte or enters the next loop or returns, and the
\* cursor never moves back; the input is finite, so the call returns.  An
\* iteration that changed nothing would be a stuttering step, of which this says
\* nothing; every iteration in the model changes one of its variables.
Progress ==
  [][/\ pos' >= pos
     /\ \/ pos' > pos
        \/ phase = "scan" /\ phase' = "borrow"
        \/ phase = "borrow" /\ phase' = "own"
        \/ result' # Running]_vars
=============================================================================
