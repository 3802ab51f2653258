---------------------------- MODULE StringProofs ----------------------------
(***************************************************************************)
(* Theorems about str_find_special_byte and about StringLexer, for every   *)
(* document.                                                               *)
(***************************************************************************)
EXTENDS Strings, NaturalFacts, SequenceTheorems

\* The loop over the chunks stops at one of them or behind the last, and has
\* skipped no chunk with a special byte.
LEMMA SkippedChunksPlain ==
  ASSUME NEW s \in Seq(Byte)
  PROVE  /\ SkippedChunks(s) \in 0 .. Len(s) \div 8
         /\ \A j \in 0 .. SkippedChunks(s) - 1 : ~HasSpecial(s, 8 * j, 8)
<1> DEFINE chunks == Len(s) \div 8
           Stops == {k \in 0 .. chunks : k = chunks \/ HasSpecial(s, 8 * k, 8)}
<1>1. chunks \in Nat
  BY LenProperties
<1>2. Stops \in SUBSET Nat /\ chunks \in Stops
  BY <1>1
<1>3. PICK k \in Stops : \A j \in Stops : k <= j
  BY <1>2, LeastElement
<1>4. \A j \in 0 .. k - 1 : ~HasSpecial(s, 8 * j, 8)
  <2>1. ASSUME NEW j \in 0 .. k - 1 PROVE j \notin Stops /\ j \in 0 .. chunks
    BY <1>1, <1>3
  <2> QED BY <2>1
<1>5. \E n \in 0 .. chunks :
         /\ n = chunks \/ HasSpecial(s, 8 * n, 8)
         /\ \A j \in 0 .. n - 1 : ~HasSpecial(s, 8 * j, 8)
  BY <1>3, <1>4
<1> HIDE DEF Stops
<1> QED BY <1>5 DEF SkippedChunks

\* What the documentation of str_find_special_byte promises (simd.rs:26-33):
\* the position it returns lies in s, and no special byte lies before it.
THEOREM ScanGuarantee ==
  ASSUME NEW s \in Seq(Byte)
  PROVE  /\ StrFindSpecialByte(s) \in 0 .. Len(s)
         /\ \A i \in 1 .. StrFindSpecialByte(s) : ~Special(s[i])
<1> DEFINE k == SkippedChunks(s)
           r == StrFindSpecialByte(s)
<1>1. k \in 0 .. Len(s) \div 8 /\ \A j \in 0 .. k - 1 : ~HasSpecial(s, 8 * j, 8)
  BY SkippedChunksPlain
<1>2. Len(s) \in Nat
  BY LenProperties
<1>3. k \in Nat /\ 8 * k <= Len(s)
  BY <1>1, <1>2
<1>4. ASSUME NEW i \in 1 .. 8 * k PROVE ~Special(s[i])
  <2> DEFINE j == (i - 1) \div 8
  <2>1. j \in 0 .. k - 1 /\ i \in 8 * j + 1 .. 8 * j + 8
    BY <1>3
  <2> HIDE DEF j
  <2> QED BY <1>1, <2>1 DEF HasSpecial
<1> HIDE DEF k
<1>5. \/ r = 8 * k
      \/ r = 8 * k + 4 /\ Len(s) - 8 * k >= 4 /\ ~HasSpecial(s, 8 * k, 4)
  BY DEF StrFindSpecialByte, k
<1>6. CASE r = 8 * k
  BY <1>3, <1>2, <1>4, <1>6
<1>7. CASE r = 8 * k + 4 /\ Len(s) - 8 * k >= 4 /\ ~HasSpecial(s, 8 * k, 4)
  <2>1. r \in 0 .. Len(s)
    BY <1>2, <1>3, <1>7
  <2>2. ASSUME NEW i \in 1 .. r PROVE ~Special(s[i])
    <3>1. i \in 1 .. 8 * k \/ i \in 8 * k + 1 .. 8 * k + 4
      BY <1>3, <1>7, <2>2
    <3> QED BY <1>4, <1>7, <3>1 DEF HasSpecial
  <2> QED BY <2>1, <2>2
<1> QED BY <1>5, <1>6, <1>7
----------------------------------------------------------------------------
(***************************************************************************)
(* The pieces of the reader.                                               *)
(***************************************************************************)
LEMMA ByteBounds == \A b : b \in Byte <=> b \in Nat /\ b <= 255
BY DEF Byte

LEMMA PlainBytes ==
  \A b \in Byte : /\ ~Special(b) => b >= Space
                  /\ Plain(b) => ~Special(b) /\ b >= Space
BY ByteBounds DEF Special, Plain, Space

LEMMA SurrogateBounds ==
  /\ \A c \in Leading : c \in Nat /\ c >= 55296 /\ c <= 56319
  /\ \A c \in Trailing : c \in Nat /\ c >= 56320 /\ c <= 57343
BY SMT DEF Leading, Trailing

LEMMA CutRange ==
  \A a, b, c \in Nat : c = b + 6 =>
    \A i \in a .. c - 1 : i \in a .. b - 1 \/ i = b \/ i = b + 1 \/ i \in b + 2 .. b + 5
OBVIOUS

\* The bytes of a code point are bytes.
LEMMA EncodeUtf8Bytes ==
  ASSUME NEW c \in Nat, c <= MaxCodePoint
  PROVE  EncodeUtf8(c) \in Seq(Byte)
<1>1. CASE c < 128
  BY <1>1, SMT DEF EncodeUtf8, Byte
<1>2. CASE 128 <= c /\ c < 2048
  <2>1. 192 + (c \div 64) \in Byte /\ 128 + ((c \div 1) % 64) \in Byte
    BY <1>2, SMT DEF Byte
  <2> QED BY <1>2, <2>1, SMT DEF EncodeUtf8
<1>3. CASE 2048 <= c /\ c < 65536
  <2>1. /\ 224 + (c \div 4096) \in Byte
        /\ 128 + ((c \div 64) % 64) \in Byte
        /\ 128 + ((c \div 1) % 64) \in Byte
    BY <1>3, SMT DEF Byte
  <2> QED BY <1>3, <2>1, SMT DEF EncodeUtf8
<1>4. CASE 65536 <= c
  <2>1. /\ 240 + (c \div 262144) \in Byte
        /\ 128 + ((c \div 4096) % 64) \in Byte
        /\ 128 + ((c \div 64) % 64) \in Byte
        /\ 128 + ((c \div 1) % 64) \in Byte
    BY SMT DEF Byte, MaxCodePoint
  <2> QED BY <1>4, <2>1, SMT DEF EncodeUtf8
<1> QED BY <1>1, <1>2, <1>3, <1>4, SMT

\* The largest UTF-16 unit.
MaxUnit == 65535

LEMMA HexNumberBound ==
  ASSUME NEW h, \A i \in 1 .. 4 : HexValue(h[i]) \in 0 .. 15
  PROVE  HexNumber(h) \in Nat /\ HexNumber(h) <= MaxUnit
<1>1. \A i \in 1 .. 4 : HexValue(h[i]) \in Nat /\ HexValue(h[i]) <= 15
  OBVIOUS
<1>2. /\ HexValue(h[1]) \in Nat /\ HexValue(h[1]) <= 15
      /\ HexValue(h[2]) \in Nat /\ HexValue(h[2]) <= 15
      /\ HexValue(h[3]) \in Nat /\ HexValue(h[3]) <= 15
      /\ HexValue(h[4]) \in Nat /\ HexValue(h[4]) <= 15
  BY <1>1
<1> HIDE <1>1
<1> QED BY <1>2, SMT DEF HexNumber, MaxUnit

\* What four digits, the first of them perhaps a plus, stand for.
LEMMA RadixValue ==
  ASSUME NEW h \in Seq(Byte), Len(h) = 4, IsRadix16(h)
  PROVE  FromStrRadix(h) \in Nat /\ FromStrRadix(h) <= MaxUnit /\ \A i \in 1 .. 4 : h[i] >= Space
<1>1. \A b \in HexDigit : HexValue(b) \in 0 .. 15 /\ b >= Space
  BY DEF HexDigit, HexValue, Space
<1>2. 48 \in HexDigit
  BY DEF HexDigit
<1>3. \A i \in 2 .. 4 : h[i] \in HexDigit
  BY DEF IsRadix16
<1>4. CASE h[1] = Plus
  <2> DEFINE g == [h EXCEPT ![1] = 48]
  <2>1. g[1] = 48 /\ g[2] = h[2] /\ g[3] = h[3] /\ g[4] = h[4]
    OBVIOUS
  <2>2. \A i \in 1 .. 4 : g[i] \in HexDigit
    BY <1>2, <1>3, <2>1
  <2> HIDE DEF g
  <2>3. HexNumber(g) \in Nat /\ HexNumber(g) <= MaxUnit
    BY <1>1, <2>2, HexNumberBound
  <2> QED BY <1>1, <1>3, <1>4, <2>3 DEF FromStrRadix, g, Plus, Space
<1>5. CASE h[1] # Plus
  <2>1. \A i \in 1 .. 4 : h[i] \in HexDigit
    BY <1>3, <1>5 DEF IsRadix16
  <2>2. HexNumber(h) \in Nat /\ HexNumber(h) <= MaxUnit
    BY <1>1, <2>1, HexNumberBound
  <2> QED BY <1>1, <1>5, <2>1, <2>2 DEF FromStrRadix
<1> QED BY <1>4, <1>5

\* parse_unicode_escape either fails, inside the document, or consumes four
\* bytes of which none is a control character.
LEMMA ParseUnicodeEscapeOutcome ==
  ASSUME input \in Seq(Byte), NEW p \in 1 .. Len(input) + 1
  PROVE  LET c == ParseUnicodeEscape(p) IN
         \/ /\ c.pos \in p .. Len(input) + 1
            /\ c.err \in LexErrors /\ c.err # "None" /\ c.unit = -1
         \/ /\ c.pos = p + 4 /\ c.pos <= Len(input) + 1
            /\ c.err = "None" /\ c.unit \in Nat /\ c.unit <= MaxUnit
            /\ \A i \in p .. p + 3 : input[i] >= Space
<1> DEFINE hex == SubSeq(input, p, p + 3)
           c == ParseUnicodeEscape(p)
<1>1. CASE p + 3 > Len(input)
  <2>1. c = [pos |-> p, unit |-> -1, err |-> "Eof"]
    BY <1>1 DEF ParseUnicodeEscape
  <2> QED BY <2>1 DEF LexErrors
<1>2. CASE p + 3 <= Len(input) /\ ~ValidUtf8(hex)
  <2>1. c = [pos |-> p, unit |-> -1, err |-> "InvalidUtf8"]
    BY <1>2 DEF ParseUnicodeEscape
  <2> QED BY <2>1 DEF LexErrors
<1>3. CASE p + 3 <= Len(input) /\ ValidUtf8(hex) /\ ~IsRadix16(hex)
  <2>1. c = [pos |-> p + 4, unit |-> -1, err |-> "InvalidStringEscape"]
    BY <1>3 DEF ParseUnicodeEscape
  <2> QED BY <1>3, <2>1 DEF LexErrors
<1>4. CASE p + 3 <= Len(input) /\ ValidUtf8(hex) /\ IsRadix16(hex)
  <2>1. c = [pos |-> p + 4, unit |-> FromStrRadix(hex), err |-> "None"]
    BY <1>4 DEF ParseUnicodeEscape
  <2>2. hex \in Seq(Byte) /\ Len(hex) = 4 /\ \A i \in 1 .. 4 : hex[i] = input[p + i - 1]
    BY <1>4, SubSeqProperties
  <2>3. FromStrRadix(hex) \in Nat /\ FromStrRadix(hex) <= MaxUnit /\ \A i \in 1 .. 4 : hex[i] >= Space
    BY <1>4, <2>2, RadixValue
  <2>4. ASSUME NEW i \in p .. p + 3 PROVE input[i] >= Space
    <3>1. i - p + 1 \in 1 .. 4 /\ p + (i - p + 1) - 1 = i
      OBVIOUS
    <3>2. hex[i - p + 1] = input[p + (i - p + 1) - 1]
      BY <2>2, <3>1
    <3> QED BY <2>3, <3>1, <3>2
  <2> QED BY <1>4, <2>1, <2>3, <2>4
<1> QED BY <1>1, <1>2, <1>3, <1>4
----------------------------------------------------------------------------
(***************************************************************************)
(* The inductive invariant.  That a borrowed string has no escape needs    *)
(* what the scan and the first loop have left behind them.                 *)
(***************************************************************************)
BorrowedSoFar ==
  phase = "borrow" /\ result = Running => \A i \in 1 .. pos - 1 : ~Special(input[i])

IInv ==
  /\ TypeOK
  /\ ControlsRefused
  /\ BorrowedSoFar
  /\ BorrowedVerbatim

LEMMA InitIInv == Init => IInv
<1> SUFFICES ASSUME Init PROVE IInv
  OBVIOUS
<1>1. input \in Seq(Byte) /\ Len(input) \in Nat
  BY BytesAssumption, LenProperties DEF Init
<1>2. TypeOK
  BY <1>1 DEF Init, TypeOK
<1> QED BY <1>2 DEF Init, IInv, ControlsRefused, BorrowedSoFar, BorrowedVerbatim, Running

\* A byte that is there is no Eof.
LEMMA PeekInside ==
  ASSUME input \in Seq(Byte), NEW p \in Nat \ {0}, Peek(p) # Eof
  PROVE  p <= Len(input) /\ Peek(p) = input[p] /\ input[p] \in Byte
BY LenProperties DEF Peek

\* Errors leave the cursor inside the document.
LEMMA ReturnErr ==
  ASSUME IInv, NEW p \in Nat \ {0}, p <= Len(input) + 1, NEW e \in LexErrors, Return(p, Err(e))
  PROVE  IInv'
<1>1. TypeOK'
  BY DEF IInv, TypeOK, Return, Err
<1> QED BY <1>1 DEF IInv, Return, Err, Running, ControlsRefused, BorrowedSoFar, BorrowedVerbatim

\* A loop goes on behind bytes that it may take.
LEMMA ContinueBehind ==
  ASSUME IInv, result = Running, NEW p \in Nat \ {0}, p <= Len(input) + 1, NEW b \in Seq(Byte),
         Continue(p, b),
         \A i \in pos .. p - 1 : input[i] >= Space,
         phase = "borrow" => \A i \in pos .. p - 1 : ~Special(input[i])
  PROVE  IInv'
<1>1. TypeOK'
  BY DEF IInv, TypeOK, Continue
<1>2. pos \in Nat /\ \A i \in 1 .. p - 1 : i \in 1 .. pos - 1 \/ i \in pos .. p - 1
  BY DEF IInv, TypeOK
<1>3. ControlsRefused'
  BY <1>2 DEF IInv, Continue, ControlsRefused, Running
<1>4. BorrowedSoFar'
  BY <1>2 DEF IInv, Continue, BorrowedSoFar
<1>5. BorrowedVerbatim'
  BY DEF IInv, Continue, BorrowedVerbatim, Running
<1> QED BY <1>1, <1>3, <1>4, <1>5 DEF IInv

\* What Python or from_utf8 makes of the bytes of a string.
LEMMA CreateStringOutcome ==
  ASSUME NEW bytes \in Seq(Byte)
  PROVE  CreateString(bytes) = Ok(bytes) \/ CreateString(bytes) = Err("InvalidUtf8")
BY DEF CreateString
----------------------------------------------------------------------------
(***************************************************************************)
(* The iterations.                                                         *)
(***************************************************************************)
LEMMA ScanPreserves ==
  ASSUME IInv, Scan PROVE IInv'
<1>1. input \in Seq(Byte) /\ Len(input) \in Nat
  BY LenProperties DEF IInv, TypeOK
<1> DEFINE n == StrFindSpecialByte(input)
<1>2. n \in 0 .. Len(input) /\ \A i \in 1 .. n : ~Special(input[i])
  BY <1>1, ScanGuarantee
<1>3. pos' = 1 + n /\ phase' = "borrow" /\ UNCHANGED <<input, buf, result>> /\ result = Running
  BY DEF Scan, In
<1> HIDE DEF n
<1>4. pos' - 1 = n /\ \A i \in 1 .. n : input[i] \in Byte
  BY <1>1, <1>2, <1>3
<1>5. \A i \in 1 .. n : input[i] >= Space
  BY <1>2, <1>4, PlainBytes
<1>6. TypeOK'
  BY <1>1, <1>2, <1>3 DEF IInv, TypeOK
<1>7. ControlsRefused' /\ BorrowedSoFar'
  BY <1>2, <1>3, <1>4, <1>5 DEF ControlsRefused, BorrowedSoFar
<1>8. BorrowedVerbatim'
  BY <1>3 DEF BorrowedVerbatim, Running
<1> QED BY <1>6, <1>7, <1>8 DEF IInv

LEMMA BorrowPreserves ==
  ASSUME IInv, BorrowByte \/ BorrowClose \/ StartOwning \/ BorrowFail
  PROVE  IInv'
<1>1. /\ result = Running /\ phase = "borrow"
      /\ input \in Seq(Byte) /\ Len(input) \in Nat
      /\ pos \in Nat \ {0} /\ pos <= Len(input) + 1 /\ buf \in Seq(Byte)
  BY LenProperties DEF IInv, TypeOK, In, BorrowByte, BorrowClose, StartOwning, BorrowFail
<1>2. Peek(pos) # Eof => pos <= Len(input) /\ Peek(pos) = input[pos] /\ input[pos] \in Byte
  BY <1>1, PeekInside
<1>3. SubSeq(input, 1, pos - 1) \in Seq(Byte)
  BY <1>1, SubSeqProperties
<1>4. CASE BorrowByte
  <2>1. Peek(pos) # Eof /\ Plain(Peek(pos)) /\ Continue(pos + 1, buf)
    BY <1>4 DEF BorrowByte, Plain, Eof, Space
  <2>2. ~Special(input[pos]) /\ input[pos] >= Space
    BY <1>2, <2>1, PlainBytes
  <2>3. \A i \in pos .. (pos + 1) - 1 : i = pos
    BY <1>1
  <2> QED BY <1>1, <1>2, <2>1, <2>2, <2>3, ContinueBehind
<1>5. CASE BorrowClose
  <2> DEFINE text == SubSeq(input, 1, pos - 1)
  <2>1. Peek(pos) # Eof /\ input[pos] = Quote /\ Return(pos + 1, CreateString(text))
    BY <1>2, <1>5 DEF BorrowClose, Eof, Quote
  <2>2. CASE CreateString(text) = Err("InvalidUtf8")
    BY <1>1, <1>2, <2>1, <2>2, ReturnErr DEF LexErrors
  <2>3. CASE CreateString(text) = Ok(text)
    <3>1. pos' = pos + 1 /\ result' = Ok(text) /\ UNCHANGED <<input, phase, buf>>
      BY <2>1, <2>3 DEF Return
    <3>2. \A i \in 1 .. pos - 1 : ~Special(input[i]) /\ input[i] >= Space
      BY <1>1 DEF IInv, BorrowedSoFar, ControlsRefused, Running
    <3>3. \A i \in 1 .. pos' - 1 : i \in 1 .. pos - 1 \/ i = pos
      BY <1>1, <3>1
    <3>4. TypeOK'
      BY <1>1, <1>2, <1>3, <2>1, <3>1 DEF IInv, TypeOK, Ok
    <3>5. ControlsRefused'
      BY <2>1, <3>1, <3>2, <3>3 DEF ControlsRefused, Quote, Space
    <3>6. BorrowedSoFar'
      BY <3>1 DEF BorrowedSoFar, Ok, Running
    <3>7. pos' - 2 = pos - 1 /\ pos' - 1 = pos
      BY <1>1, <3>1
    <3>8. BorrowedVerbatim'
      BY <2>1, <3>1, <3>2, <3>7 DEF BorrowedVerbatim, Ok
    <3> QED BY <3>4, <3>5, <3>6, <3>8 DEF IInv
  <2> QED BY <1>3, <2>2, <2>3, CreateStringOutcome
<1>6. CASE StartOwning
  <2>1. /\ buf' = SubSeq(input, 1, pos - 1) /\ phase' = "own"
        /\ UNCHANGED <<input, pos, result>>
    BY <1>6 DEF StartOwning
  <2>2. TypeOK'
    BY <1>1, <1>3, <2>1 DEF IInv, TypeOK
  <2> QED
    BY <2>1, <2>2 DEF IInv, ControlsRefused, BorrowedSoFar, BorrowedVerbatim
<1>7. CASE BorrowFail
  <2>1. \E e \in LexErrors : Return(pos, Err(e))
    BY <1>7 DEF BorrowFail, LexErrors
  <2> QED BY <1>1, <2>1, ReturnErr
<1> QED BY <1>4, <1>5, <1>6, <1>7

LEMMA OwnPreserves ==
  ASSUME IInv, OwnByte \/ OwnClose \/ OwnFail
  PROVE  IInv'
<1>1. /\ result = Running /\ phase = "own"
      /\ input \in Seq(Byte) /\ Len(input) \in Nat
      /\ pos \in Nat \ {0} /\ pos <= Len(input) + 1 /\ buf \in Seq(Byte)
  BY LenProperties DEF IInv, TypeOK, In, OwnByte, OwnClose, OwnFail
<1>2. Peek(pos) # Eof => pos <= Len(input) /\ Peek(pos) = input[pos] /\ input[pos] \in Byte
  BY <1>1, PeekInside
<1>3. CASE OwnByte
  <2>1. Peek(pos) # Eof /\ Plain(Peek(pos)) /\ Continue(pos + 1, Append(buf, Peek(pos)))
    BY <1>3 DEF OwnByte, Plain, Eof, Space
  <2>2. input[pos] >= Space /\ Append(buf, Peek(pos)) \in Seq(Byte)
    BY <1>1, <1>2, <2>1 DEF Plain
  <2>3. \A i \in pos .. (pos + 1) - 1 : i = pos
    BY <1>1
  <2>4. /\ pos + 1 \in Nat \ {0} /\ pos + 1 <= Len(input) + 1
        /\ \A i \in pos .. (pos + 1) - 1 : input[i] >= Space
        /\ phase # "borrow"
    BY <1>1, <1>2, <2>1, <2>2, <2>3
  <2> QED BY <1>1, <2>1, <2>2, <2>4, ContinueBehind
<1>4. CASE OwnClose
  <2>1. Peek(pos) # Eof /\ input[pos] = Quote /\ Return(pos + 1, CreateString(buf))
    BY <1>2, <1>4 DEF OwnClose, Eof, Quote
  <2>2. CASE CreateString(buf) = Err("InvalidUtf8")
    BY <1>1, <1>2, <2>1, <2>2, ReturnErr DEF LexErrors
  <2>3. CASE CreateString(buf) = Ok(buf)
    <3>1. pos' = pos + 1 /\ result' = Ok(buf) /\ UNCHANGED <<input, phase, buf>>
      BY <2>1, <2>3 DEF Return
    <3>2. \A i \in 1 .. pos - 1 : input[i] >= Space
      BY <1>1 DEF IInv, ControlsRefused, Running
    <3>3. \A i \in 1 .. pos' - 1 : i \in 1 .. pos - 1 \/ i = pos
      BY <1>1, <3>1
    <3>4. TypeOK'
      BY <1>1, <1>2, <2>1, <3>1 DEF IInv, TypeOK, Ok
    <3>5. ControlsRefused'
      BY <2>1, <3>1, <3>2, <3>3 DEF ControlsRefused, Quote, Space
    <3> QED BY <1>1, <3>1, <3>4, <3>5 DEF IInv, BorrowedSoFar, BorrowedVerbatim
  <2> QED BY <1>1, <2>2, <2>3, CreateStringOutcome
<1>5. CASE OwnFail
  <2>1. CASE Peek(pos) = Eof /\ Return(pos, Err("Eof"))
    BY <1>1, <2>1, ReturnErr DEF LexErrors
  <2>2. CASE Control(Peek(pos)) /\ Return(pos + 1, Err("UnescapedControlCharacter"))
    <3>1. Peek(pos) # Eof
      BY <2>2 DEF Control, Eof, Space
    <3> QED BY <1>1, <1>2, <2>2, <3>1, ReturnErr DEF LexErrors
  <2> QED BY <1>5, <2>1, <2>2 DEF OwnFail
<1> QED BY <1>3, <1>4, <1>5

\* What an escape that is there guarantees.
LEMMA InEscapeInside ==
  ASSUME IInv, NEW b \in Int, b # Eof, InEscape(b)
  PROVE  /\ result = Running /\ phase = "own"
         /\ input \in Seq(Byte) /\ Len(input) \in Nat /\ buf \in Seq(Byte)
         /\ pos \in Nat \ {0} /\ pos + 2 <= Len(input) + 1
         /\ input[pos] = Backslash /\ input[pos + 1] = b
<1>1. /\ input \in Seq(Byte) /\ Len(input) \in Nat /\ buf \in Seq(Byte)
      /\ pos \in Nat \ {0}
  BY LenProperties DEF IInv, TypeOK
<1>2. Peek(pos) = Backslash /\ Peek(pos + 1) = b /\ pos + 1 \in Nat \ {0} /\ Backslash # Eof
  BY <1>1 DEF InEscape, Backslash, Eof
<1>3. input[pos] = Backslash /\ input[pos + 1] = b /\ pos + 1 <= Len(input)
  BY <1>1, <1>2, PeekInside
<1> QED BY <1>1, <1>3 DEF InEscape, In

LEMMA ShortEscapePreserves ==
  ASSUME IInv, ShortEscape PROVE IInv'
<1>1. PICK e \in ShortEscapes : InEscape(e[1]) /\ Continue(pos + 2, Append(buf, e[2]))
  BY DEF ShortEscape
<1>2. e[1] \in Int /\ e[1] # Eof /\ e[1] >= Space /\ e[2] \in Byte
  BY DEF ShortEscapes, Eof, Space, Byte, Quote, Backslash
<1>3. /\ result = Running /\ phase = "own" /\ buf \in Seq(Byte) /\ Len(input) \in Nat
      /\ pos \in Nat \ {0} /\ pos + 2 <= Len(input) + 1
      /\ input[pos] = Backslash /\ input[pos + 1] = e[1]
  BY <1>1, <1>2, InEscapeInside
<1>4. \A i \in pos .. (pos + 2) - 1 : i = pos \/ i = pos + 1
  BY <1>3
<1>5. \A i \in pos .. (pos + 2) - 1 : input[i] >= Space
  BY <1>2, <1>3, <1>4 DEF Backslash, Space
<1>6. Append(buf, e[2]) \in Seq(Byte) /\ pos + 2 \in Nat \ {0}
  BY <1>2, <1>3
<1> QED BY <1>1, <1>3, <1>5, <1>6, ContinueBehind

LEMMA BadEscapePreserves ==
  ASSUME IInv, BadEscape PROVE IInv'
<1>1. input \in Seq(Byte) /\ Len(input) \in Nat /\ pos \in Nat \ {0}
  BY LenProperties DEF IInv, TypeOK
<1>2. Peek(pos) = Backslash /\ Backslash # Eof
  BY DEF BadEscape, InEscape, Backslash, Eof
<1>3. pos <= Len(input)
  BY <1>1, <1>2, PeekInside
<1>4. CASE InEscape(Eof) /\ Return(pos + 1, Err("Eof"))
  BY <1>1, <1>3, <1>4, ReturnErr DEF LexErrors
<1>5. CASE Peek(pos + 1) # Eof /\ Return(pos + 2, Err("InvalidStringEscape"))
  <2>1. pos + 1 <= Len(input)
    BY <1>1, <1>5, PeekInside
  <2> QED BY <1>1, <1>5, <2>1, ReturnErr DEF LexErrors
<1> QED BY <1>4, <1>5 DEF BadEscape

\* Behind the letter u of an escape there is room for parse_unicode_escape.
LEMMA UnicodePreserves ==
  ASSUME IInv, UnicodeEscape \/ SurrogatePair
  PROVE  IInv'
<1>1. InEscape(LowerU) /\ LowerU \in Int /\ LowerU # Eof
  BY DEF UnicodeEscape, SurrogatePair, LowerU, Eof
<1>2. /\ result = Running /\ phase = "own" /\ buf \in Seq(Byte)
      /\ input \in Seq(Byte) /\ Len(input) \in Nat
      /\ pos \in Nat \ {0} /\ pos + 2 <= Len(input) + 1
      /\ input[pos] = Backslash /\ input[pos + 1] = LowerU
  BY <1>1, InEscapeInside
<1> DEFINE c1 == ParseUnicodeEscape(pos + 2)
           c2 == ParseUnicodeEscape(c1.pos + 2)
<1>3. \/ /\ c1.pos \in pos + 2 .. Len(input) + 1
         /\ c1.err \in LexErrors /\ c1.err # "None" /\ c1.unit = -1
      \/ /\ c1.pos = pos + 6 /\ c1.pos <= Len(input) + 1
         /\ c1.err = "None" /\ c1.unit \in Nat /\ c1.unit <= MaxUnit
         /\ \A i \in pos + 2 .. pos + 5 : input[i] >= Space
  <2>1. pos + 2 \in 1 .. Len(input) + 1 /\ (pos + 2) + 4 = pos + 6 /\ (pos + 2) + 3 = pos + 5
    BY <1>2
  <2> QED BY <1>2, <2>1, ParseUnicodeEscapeOutcome
<1> HIDE DEF c1
<1>4. c1.pos \in Nat \ {0} /\ c1.pos <= Len(input) + 1
  BY <1>2, <1>3
<1>5. LowerU >= Space /\ Backslash >= Space
  BY DEF LowerU, Backslash, Space
<1>6. c1.err = "None" => \A i \in pos .. c1.pos - 1 : input[i] >= Space
  <2>1. c1.pos = pos + 6 => \A i \in pos .. c1.pos - 1 : i = pos \/ i = pos + 1 \/ i \in pos + 2 .. pos + 5
    BY <1>2
  <2> QED BY <1>2, <1>3, <1>5, <2>1
<1>7. CASE UnicodeEscape
  <2>1. CASE c1.err # "None" /\ Return(c1.pos, Err(c1.err))
    <3>1. c1.err \in LexErrors
      BY <1>3, <2>1
    <3> QED BY <1>4, <2>1, <3>1, ReturnErr
  <2>2. CASE c1.err = "None" /\ Continue(c1.pos, buf \o EncodeUtf8(c1.unit))
    <3>1. c1.unit \in Nat /\ c1.unit <= MaxCodePoint
      BY <1>3, <2>2, SMT DEF MaxUnit, MaxCodePoint
    <3>2. EncodeUtf8(c1.unit) \in Seq(Byte)
      BY <3>1, EncodeUtf8Bytes
    <3>3. buf \o EncodeUtf8(c1.unit) \in Seq(Byte)
      BY <1>2, <3>2, ConcatProperties
    <3> QED BY <1>2, <1>4, <1>6, <2>2, <3>3, ContinueBehind
  <2>3. CASE Return(c1.pos, Err("InvalidStringEscape"))
    BY <1>4, <2>3, ReturnErr DEF LexErrors
  <2> QED BY <1>7, <2>1, <2>2, <2>3 DEF UnicodeEscape, c1
<1>8. CASE SurrogatePair
  <2> DEFINE follows == Peek(c1.pos) = Backslash /\ Peek(c1.pos + 1) = LowerU
  <2>1. c1.err = "None"
    <3>1. c1.unit \in Leading
      BY <1>8 DEF SurrogatePair, c1
    <3>2. c1.unit # -1
      BY <3>1, SurrogateBounds
    <3> QED BY <1>3, <3>2
  <2>2. ASSUME follows
        PROVE  /\ c1.pos + 2 \in 1 .. Len(input) + 1
               /\ input[c1.pos] = Backslash /\ input[c1.pos + 1] = LowerU
    <3>1. Backslash # Eof /\ LowerU # Eof /\ c1.pos + 1 \in Nat \ {0}
      BY <1>4 DEF Backslash, LowerU, Eof
    <3>2. input[c1.pos] = Backslash /\ input[c1.pos + 1] = LowerU /\ c1.pos + 1 <= Len(input)
      BY <1>2, <1>4, <2>2, <3>1, PeekInside
    <3> QED BY <1>2, <1>4, <3>2, SMTT(30)
  <2>3. ASSUME follows
        PROVE  \/ /\ c2.pos \in c1.pos + 2 .. Len(input) + 1
                  /\ c2.err \in LexErrors /\ c2.err # "None" /\ c2.unit = -1
               \/ /\ c2.pos = c1.pos + 6 /\ c2.pos <= Len(input) + 1
                  /\ c2.err = "None" /\ c2.unit \in Nat /\ c2.unit <= MaxUnit
                  /\ \A i \in c1.pos + 2 .. c1.pos + 5 : input[i] >= Space
    <3>1. (c1.pos + 2) + 4 = c1.pos + 6 /\ (c1.pos + 2) + 3 = c1.pos + 5
      BY <1>4
    <3> QED BY <1>2, <2>2, <2>3, <3>1, ParseUnicodeEscapeOutcome
  <2>4. follows => c2.pos \in Nat \ {0} /\ c2.pos <= Len(input) + 1
    BY <1>2, <1>4, <2>3, SMTT(30)
  <2>5. c1.unit \in Leading
    BY <1>8 DEF SurrogatePair, c1
  <2> HIDE DEF c2
  <2>6. CASE Return(c1.pos, Err("InvalidStringEscape"))
    BY <1>4, <2>6, ReturnErr DEF LexErrors
  <2>7. CASE follows /\ c2.err # "None" /\ Return(c2.pos, Err(c2.err))
    <3>1. c2.err \in LexErrors
      BY <2>3, <2>7
    <3> QED BY <2>4, <2>7, <3>1, ReturnErr
  <2>8. CASE follows /\ Return(c2.pos, Err("InvalidStringEscape"))
    BY <2>4, <2>8, ReturnErr DEF LexErrors
  <2>9. CASE /\ follows /\ c2.unit \in Trailing
             /\ Continue(c2.pos, buf \o EncodeUtf8(Combine(c1.unit, c2.unit)))
    <3>1. Combine(c1.unit, c2.unit) \in Nat /\ Combine(c1.unit, c2.unit) <= MaxCodePoint
      BY <2>5, <2>9, SurrogateBounds, SMT DEF Combine, MaxCodePoint
    <3>2. EncodeUtf8(Combine(c1.unit, c2.unit)) \in Seq(Byte)
      BY <3>1, EncodeUtf8Bytes
    <3>3. buf \o EncodeUtf8(Combine(c1.unit, c2.unit)) \in Seq(Byte)
      BY <1>2, <3>2, ConcatProperties
    <3>4. c2.unit # -1
      BY <2>9, SurrogateBounds
    <3>5. c2.pos = c1.pos + 6 /\ \A i \in c1.pos + 2 .. c1.pos + 5 : input[i] >= Space
      BY <2>3, <2>9, <3>4
    <3>6. \A i \in pos .. c2.pos - 1 : \/ i \in pos .. c1.pos - 1 \/ i = c1.pos
                                       \/ i = c1.pos + 1 \/ i \in c1.pos + 2 .. c1.pos + 5
      BY <1>2, <1>4, <2>4, <2>9, <3>5, CutRange
    <3>7. \A i \in pos .. c2.pos - 1 : input[i] >= Space
      BY <1>5, <1>6, <2>1, <2>2, <2>9, <3>5, <3>6
    <3> QED BY <1>2, <2>4, <2>9, <3>3, <3>7, ContinueBehind
  <2> QED BY <1>8, <2>6, <2>7, <2>8, <2>9 DEF SurrogatePair, c1, c2
<1> QED BY <1>7, <1>8
----------------------------------------------------------------------------
LEMMA StepIInv == IInv /\ [Next]_vars => IInv'
<1> SUFFICES ASSUME IInv, [Next]_vars PROVE IInv'
  OBVIOUS
<1>1. CASE Scan
  BY <1>1, ScanPreserves
<1>2. CASE BorrowByte \/ BorrowClose \/ StartOwning \/ BorrowFail
  BY <1>2, BorrowPreserves
<1>3. CASE OwnByte \/ OwnClose \/ OwnFail
  BY <1>3, OwnPreserves
<1>4. CASE ShortEscape \/ BadEscape
  BY <1>4, ShortEscapePreserves, BadEscapePreserves
<1>5. CASE UnicodeEscape \/ SurrogatePair
  BY <1>5, UnicodePreserves
<1>6. CASE UNCHANGED vars
  BY <1>6 DEF vars, IInv, TypeOK, ControlsRefused, BorrowedSoFar, BorrowedVerbatim
<1> QED
  BY <1>1, <1>2, <1>3, <1>4, <1>5, <1>6 DEF Next, Iterate, Returned

LEMMA IInvCorrect == Spec => []IInv
<1> QED BY InitIInv, StepIInv, PTL DEF Spec

\* The cursor stays inside the document, whatever the document is: no skip and
\* no slice of parse_str and parse_unicode_escape panics (de.rs:617-745).
THEOREM TypeCorrect == Spec => []TypeOK
<1>1. IInv => TypeOK
  BY DEF IInv
<1> QED BY <1>1, IInvCorrect, PTL

\* No document makes the reader accept a control character (de.rs:626-720).
THEOREM ControlsCorrect == Spec => []ControlsRefused
<1>1. IInv => ControlsRefused
  BY DEF IInv
<1> QED BY <1>1, IInvCorrect, PTL

\* A borrowed string is the text between its quotes (de.rs:626-657).
THEOREM BorrowCorrect == Spec => []BorrowedVerbatim
<1>1. IInv => BorrowedVerbatim
  BY DEF IInv
<1> QED BY <1>1, IInvCorrect, PTL
----------------------------------------------------------------------------
(***************************************************************************)
(* Termination: what every iteration consumes.                             *)
(***************************************************************************)
ScanIsFirst == phase = "scan" => pos = 1

LEMMA IterateLeavesScan == Iterate => phase' # "scan"
<1>1. Scan \/ StartOwning => phase' # "scan"
  BY DEF Scan, StartOwning
<1>2. BorrowByte \/ BorrowClose \/ BorrowFail => phase' # "scan"
  BY DEF BorrowByte, BorrowClose, BorrowFail, In, Return, Continue
<1>3. OwnByte \/ OwnClose \/ OwnFail => phase' # "scan"
  BY DEF OwnByte, OwnClose, OwnFail, In, Return, Continue
<1>4. ShortEscape \/ BadEscape => phase' # "scan"
  BY DEF ShortEscape, BadEscape, InEscape, In, Return, Continue
<1>5. UnicodeEscape \/ SurrogatePair => phase' # "scan"
  BY DEF UnicodeEscape, SurrogatePair, InEscape, In, Return, Continue
<1> QED BY <1>1, <1>2, <1>3, <1>4, <1>5 DEF Iterate

\* An iteration consumes something, or it enters a loop or returns.
Advances ==
  /\ pos' >= pos
  /\ \/ pos' > pos
     \/ phase = "scan" /\ phase' = "borrow"
     \/ phase = "borrow" /\ phase' = "own"
     \/ result' # Running

LEMMA UnicodeAdvances ==
  ASSUME IInv, UnicodeEscape \/ SurrogatePair PROVE pos' > pos
<1>1. InEscape(LowerU) /\ LowerU \in Int /\ LowerU # Eof
  BY DEF UnicodeEscape, SurrogatePair, LowerU, Eof
<1>2. /\ input \in Seq(Byte) /\ Len(input) \in Nat
      /\ pos \in Nat \ {0} /\ pos + 2 <= Len(input) + 1
  BY <1>1, InEscapeInside
<1> DEFINE c1 == ParseUnicodeEscape(pos + 2)
           c2 == ParseUnicodeEscape(c1.pos + 2)
<1>3. pos + 2 \in 1 .. Len(input) + 1
  BY <1>2
<1>4. c1.pos \in Nat /\ c1.pos >= pos + 2 /\ c1.pos <= Len(input) + 1
  BY <1>2, <1>3, ParseUnicodeEscapeOutcome
<1>5. ASSUME Peek(c1.pos + 1) = LowerU
      PROVE  c2.pos \in Nat /\ c2.pos >= c1.pos + 2
  <2>1. c1.pos + 1 \in Nat \ {0}
    BY <1>2, <1>4
  <2>2. c1.pos + 1 <= Len(input)
    BY <1>1, <1>2, <1>5, <2>1, PeekInside
  <2>3. c1.pos + 2 \in 1 .. Len(input) + 1
    BY <1>2, <1>4, <2>2
  <2> HIDE DEF c1
  <2> QED BY <1>2, <2>3, ParseUnicodeEscapeOutcome
<1> HIDE DEF c1, c2
<1>6. pos' = c1.pos \/ (Peek(c1.pos + 1) = LowerU /\ pos' = c2.pos)
  <2>1. CASE UnicodeEscape
    BY <2>1 DEF UnicodeEscape, Return, Continue, c1
  <2>2. CASE SurrogatePair
    <3>1. \/ Return(c1.pos, Err("InvalidStringEscape"))
          \/ Peek(c1.pos + 1) = LowerU /\ Return(c2.pos, Err(c2.err))
          \/ Peek(c1.pos + 1) = LowerU /\ Return(c2.pos, Err("InvalidStringEscape"))
          \/ /\ Peek(c1.pos + 1) = LowerU
             /\ Continue(c2.pos, buf \o EncodeUtf8(Combine(c1.unit, c2.unit)))
      BY <2>2 DEF SurrogatePair, c1, c2
    <3> QED BY <3>1 DEF Return, Continue
  <2> QED BY <2>1, <2>2
<1> QED BY <1>2, <1>4, <1>5, <1>6

LEMMA IterateAdvances == IInv /\ ScanIsFirst /\ Iterate => Advances
<1> SUFFICES ASSUME IInv, ScanIsFirst, Iterate PROVE Advances
  OBVIOUS
<1>1. input \in Seq(Byte) /\ pos \in Nat \ {0} /\ Len(input) \in Nat
  BY LenProperties DEF IInv, TypeOK
<1>2. CASE Scan
  <2>1. StrFindSpecialByte(input) \in Nat
    BY <1>1, ScanGuarantee
  <2> QED BY <1>1, <1>2, <2>1 DEF ScanIsFirst, Scan, In, Advances
<1>3. CASE BorrowByte \/ BorrowClose \/ OwnByte \/ OwnClose
  <2>1. pos' = pos + 1
    BY <1>3 DEF BorrowByte, BorrowClose, OwnByte, OwnClose, Return, Continue
  <2> QED BY <1>1, <2>1 DEF Advances
<1>4. CASE StartOwning
  BY <1>1, <1>4 DEF StartOwning, In, Advances
<1>5. CASE BorrowFail \/ OwnFail
  <2>1. pos' \in {pos, pos + 1} /\ \E e \in LexErrors : result' = Err(e)
    BY <1>5 DEF BorrowFail, OwnFail, Return, LexErrors
  <2> QED BY <1>1, <2>1 DEF Advances, Err, Running
<1>6. CASE ShortEscape \/ BadEscape
  <2>1. pos' \in {pos + 1, pos + 2}
    BY <1>6 DEF ShortEscape, BadEscape, Return, Continue
  <2> QED BY <1>1, <2>1 DEF Advances
<1>7. CASE UnicodeEscape \/ SurrogatePair
  <2>1. IInv' /\ pos' > pos
    BY <1>7, UnicodePreserves, UnicodeAdvances
  <2> QED BY <1>1, <2>1 DEF Advances, IInv, TypeOK
<1> QED BY <1>2, <1>3, <1>4, <1>5, <1>6, <1>7 DEF Iterate

\* No iteration of parse_str repeats itself (de.rs:622-724): the cursor goes
\* forward, or the first loop follows the scan, or the second loop the first,
\* or the call returns; the document is finite, so it always returns.
THEOREM ProgressCorrect == Spec => Progress
<1>1. Init => ScanIsFirst
  BY DEF Init, ScanIsFirst
<1>2. ScanIsFirst /\ [Next]_vars => ScanIsFirst'
  BY IterateLeavesScan DEF Next, Returned, vars, ScanIsFirst
<1>3. IInv /\ ScanIsFirst /\ [Next]_vars => [Advances]_vars
  BY IterateAdvances DEF Next, Returned
<1> QED BY <1>1, <1>2, <1>3, IInvCorrect, PTL DEF Spec, Progress, Advances
----------------------------------------------------------------------------
(***************************************************************************)
(* What string_to_json writes for s: where each byte of s is in the text.  *)
(***************************************************************************)
\* The parts of a flattened sequence, in order.
Parts(seqs, f) ==
  /\ f[0] = <<>>
  /\ \A j \in 1 .. Len(seqs) : f[j] = f[j - 1] \o seqs[j]

LEMMA Flattening ==
  ASSUME NEW S, NEW seqs \in Seq(Seq(S))
  PROVE  \E f \in [0 .. Len(seqs) -> Seq(S)] : Parts(seqs, f) /\ f[Len(seqs)] = FlattenSeq(seqs)
<1> DEFINE n == Len(seqs)
           Body(m, g) == [i \in 1 .. m |-> IF i = 1 THEN seqs[i] ELSE g[i - 1] \o seqs[i]]
           T == {m \in Nat : \E g : g = Body(m, g)}
<1>1. 0 \in T
  <2>1. [i \in 1 .. 0 |-> 0] = Body(0, [i \in 1 .. 0 |-> 0])
    OBVIOUS
  <2> QED BY <2>1
<1>2. ASSUME NEW m \in T PROVE m + 1 \in T
  <2>1. PICK g : g = Body(m, g)
    OBVIOUS
  <2> DEFINE h == Body(m + 1, g)
  <2>2. \A i \in 1 .. m : h[i] = g[i]
    <3>1. \A i \in 1 .. m : g[i] = IF i = 1 THEN seqs[i] ELSE g[i - 1] \o seqs[i]
      BY <2>1
    <3> QED BY <3>1
  <2>3. h = Body(m + 1, h)
    <3>1. \A i \in 1 .. m + 1 : i # 1 => g[i - 1] = h[i - 1]
      <4>1. \A i \in 1 .. m + 1 : i # 1 => i - 1 \in 1 .. m
        OBVIOUS
      <4> HIDE DEF h
      <4> QED BY <2>2, <4>1
    <3>2. ASSUME NEW i \in 1 .. m + 1
          PROVE  (IF i = 1 THEN seqs[i] ELSE g[i - 1] \o seqs[i])
                  = (IF i = 1 THEN seqs[i] ELSE h[i - 1] \o seqs[i])
      <4> HIDE DEF h
      <4> QED BY <3>1
    <3> QED BY <3>2
  <2>4. \E k : k = Body(m + 1, k)
    <3> HIDE DEF h, Body
    <3> QED BY <2>3
  <2> HIDE DEF Body
  <2> QED BY <2>4
<1>3. T = Nat
  <2> HIDE DEF T
  <2>1. T \in SUBSET Nat
    BY DEF T
  <2> QED BY <1>1, <1>2, <2>1, NatSetInduction
<1>4. n \in Nat
  OBVIOUS
<1> DEFINE flatten == CHOOSE g : g = Body(n, g)
<1>5. flatten = Body(n, flatten)
  <2>1. \E g : g = Body(n, g)
    BY <1>3, <1>4
  <2> HIDE DEF Body
  <2> QED BY <2>1
<1>6. FlattenSeq(seqs) = IF n = 0 THEN seqs ELSE flatten[n]
  BY DEF FlattenSeq
<1> HIDE DEF flatten, T
<1>7. \A i \in 1 .. n : flatten[i] = IF i = 1 THEN seqs[i] ELSE flatten[i - 1] \o seqs[i]
  BY <1>5
<1> HIDE DEF Body
<1> DEFINE f == [j \in 0 .. n |-> IF j = 0 THEN <<>> ELSE flatten[j]]
<1>8. f[0] = <<>> /\ \A j \in 1 .. n : f[j] = flatten[j]
  BY <1>4
<1>9. ASSUME NEW j \in 1 .. n PROVE f[j] = f[j - 1] \o seqs[j]
  <2>1. seqs[j] \in Seq(S) /\ <<>> \o seqs[j] = seqs[j]
    OBVIOUS
  <2>2. CASE j = 1
    <3>1. f[j - 1] = <<>> /\ f[j] = seqs[j]
      <4>1. j - 1 = 0
        BY <2>2
      <4> HIDE DEF f
      <4> QED BY <1>7, <1>8, <2>2, <4>1
    <3> HIDE DEF f
    <3> QED BY <2>1, <3>1
  <2>3. CASE j # 1
    <3>1. j - 1 \in 1 .. n
      BY <1>4, <2>3
    <3> HIDE DEF f
    <3> QED BY <1>7, <1>8, <2>3, <3>1
  <2> QED BY <2>2, <2>3
<1>10. DOMAIN f = 0 .. n /\ f = [j \in 0 .. n |-> f[j]]
  OBVIOUS
<1> HIDE DEF f
<1>11. \A j \in 0 .. n : f[j] \in Seq(S)
  <2> DEFINE U == {j \in Nat : j <= n => f[j] \in Seq(S)}
  <2>1. 0 \in U
    <3>1. <<>> \in Seq(S)
      BY EmptySeq
    <3> QED BY <1>8, <3>1
  <2>2. ASSUME NEW j \in U PROVE j + 1 \in U
    <3> SUFFICES ASSUME j + 1 <= n PROVE f[j + 1] \in Seq(S)
      OBVIOUS
    <3>1. j + 1 \in 1 .. n /\ (j + 1) - 1 = j /\ f[j] \in Seq(S) /\ seqs[j + 1] \in Seq(S)
      BY <1>4
    <3>2. f[j + 1] = f[j] \o seqs[j + 1]
      BY <1>9, <3>1
    <3> QED BY <3>1, <3>2
  <2>3. U = Nat
    <3> HIDE DEF U
    <3>1. U \in SUBSET Nat
      BY DEF U
    <3> QED BY <2>1, <2>2, <3>1, NatSetInduction
  <2> QED BY <1>4, <2>3
<1>12. f \in [0 .. n -> Seq(S)]
  BY <1>10, <1>11
<1>13. f[n] = FlattenSeq(seqs)
  <2>1. CASE n = 0
    <3>1. seqs = <<>>
      BY <2>1, EmptySeq
    <3> QED BY <1>6, <1>8, <2>1, <3>1
  <2>2. CASE n # 0
    <3>1. n \in 1 .. n
      BY <1>4, <2>2
    <3> QED BY <1>6, <1>8, <2>2, <3>1
  <2> QED BY <2>1, <2>2
<1> QED BY <1>8, <1>9, <1>12, <1>13 DEF Parts

\* Part j is where it was put in the first p parts.
InPlace(seqs, f, p, j) ==
  /\ Len(f[j]) = Len(f[j - 1]) + Len(seqs[j])
  /\ Len(f[j]) <= Len(f[p])
  /\ \A i \in 1 .. Len(seqs[j]) : f[p][Len(f[j - 1]) + i] = seqs[j][i]

\* What one more part does.
LEMMA OnePart ==
  ASSUME NEW S, NEW a \in Seq(S), NEW b \in Seq(S)
  PROVE  /\ Len(a) \in Nat /\ Len(b) \in Nat
         /\ Len(a \o b) = Len(a) + Len(b)
         /\ \A i \in 1 .. Len(a) : (a \o b)[i] = a[i]
         /\ \A i \in 1 .. Len(b) : (a \o b)[Len(a) + i] = b[i]
OBVIOUS

LEMMA OneElement ==
  ASSUME NEW S, NEW x \in S
  PROVE  <<x>> \in Seq(S) /\ Len(<<x>>) = 1 /\ <<x>>[1] = x
OBVIOUS

\* Every part stays where it was put.
LEMMA PartsInPlace ==
  ASSUME NEW S, NEW seqs \in Seq(Seq(S)), NEW f \in [0 .. Len(seqs) -> Seq(S)], Parts(seqs, f)
  PROVE  \A j \in 1 .. Len(seqs) : InPlace(seqs, f, Len(seqs), j)
<1>1. PICK n \in Nat : n = Len(seqs)
  OBVIOUS
<1>2. \A j \in 1 .. n : f[j] = f[j - 1] \o seqs[j] /\ seqs[j] \in Seq(S)
  <2>1. \A j \in 1 .. n : f[j] = f[j - 1] \o seqs[j]
    BY <1>1 DEF Parts
  <2>2. \A j \in 1 .. n : seqs[j] \in Seq(S)
    BY <1>1
  <2> QED BY <2>1, <2>2
<1>3. \A j \in 0 .. n : f[j] \in Seq(S)
  BY <1>1
<1> DEFINE T == {p \in Nat : p <= n => \A j \in 1 .. p : InPlace(seqs, f, p, j)}
<1>4. \A p : p \in T <=> p \in Nat /\ (p <= n => \A j \in 1 .. p : InPlace(seqs, f, p, j))
  OBVIOUS
<1> HIDE DEF T
<1>5. 0 \in T
  BY <1>4
<1>6. ASSUME NEW p \in T PROVE p + 1 \in T
  <2>0. p \in Nat /\ p + 1 \in Nat /\ p <= p + 1
    BY <1>4
  <2> SUFFICES ASSUME p + 1 <= n, NEW j \in 1 .. p + 1 PROVE InPlace(seqs, f, p + 1, j)
    BY <1>4, <2>0
  <2>1. p \in 0 .. n /\ p + 1 \in 1 .. n /\ p + 1 \in 0 .. n /\ (p + 1) - 1 = p
    BY <1>1, <2>0
  <2>2. f[p] \in Seq(S) /\ seqs[p + 1] \in Seq(S) /\ f[p + 1] = f[p] \o seqs[p + 1]
    <3>1. f[p + 1] = f[(p + 1) - 1] \o seqs[p + 1]
      BY <1>2, <2>1
    <3> QED BY <1>2, <1>3, <2>1, <3>1
  <2>3. /\ Len(f[p]) \in Nat /\ Len(seqs[p + 1]) \in Nat
        /\ Len(f[p + 1]) = Len(f[p]) + Len(seqs[p + 1])
        /\ \A i \in 1 .. Len(f[p]) : f[p + 1][i] = f[p][i]
        /\ \A i \in 1 .. Len(seqs[p + 1]) : f[p + 1][Len(f[p]) + i] = seqs[p + 1][i]
    BY <2>2, OnePart
  <2>4. CASE j = p + 1
    <3>1. Len(f[p + 1]) <= Len(f[p + 1])
      BY <2>3
    <3>2. Len(f[p + 1]) = Len(f[(p + 1) - 1]) + Len(seqs[p + 1])
      BY <2>1, <2>3
    <3>3. \A i \in 1 .. Len(seqs[p + 1]) : f[p + 1][Len(f[(p + 1) - 1]) + i] = seqs[p + 1][i]
      BY <2>1, <2>3
    <3> QED BY <2>4, <3>1, <3>2, <3>3 DEF InPlace
  <2>5. CASE j # p + 1
    <3>1. j \in 1 .. p /\ j \in 0 .. n /\ j - 1 \in 0 .. n /\ j \in 1 .. n /\ p <= n
      BY <1>1, <2>0, <2>1, <2>5
    <3>2. InPlace(seqs, f, p, j)
      BY <1>4, <3>1
    <3>3. Len(f[j]) \in Nat /\ Len(f[j - 1]) \in Nat /\ Len(seqs[j]) \in Nat
      BY <1>2, <1>3, <3>1, LenProperties
    <3>7. PICK lj \in Nat, lb \in Nat, ls \in Nat :
            lj = Len(f[j]) /\ lb = Len(f[j - 1]) /\ ls = Len(seqs[j])
      BY <3>3
    <3>9. PICK lp \in Nat, lq \in Nat, lr \in Nat :
            lp = Len(f[p]) /\ lq = Len(f[p + 1]) /\ lr = Len(seqs[p + 1])
      <4>1. Len(f[p + 1]) \in Nat
        BY <1>3, <2>1, LenProperties
      <4>2. Len(f[p]) \in Nat /\ Len(seqs[p + 1]) \in Nat
        BY <2>3
      <4> QED BY <4>1, <4>2
    <3>10. lq = lp + lr
      BY <2>3, <3>9
    <3>8. lj = lb + ls /\ lj <= lp
      BY <3>2, <3>7, <3>9 DEF InPlace
    <3>4. \A i \in 1 .. Len(seqs[j]) : Len(f[j - 1]) + i \in 1 .. Len(f[p])
      <4>1. \A i \in 1 .. ls : lb + i \in 1 .. lp
        BY <3>8, <3>9
      <4> QED BY <3>7, <3>9, <4>1
    <3>5. \A i \in 1 .. Len(seqs[j]) : f[p + 1][Len(f[j - 1]) + i] = seqs[j][i]
      BY <2>3, <3>2, <3>4 DEF InPlace
    <3>6. Len(f[j]) <= Len(f[p + 1])
      <4>1. lj <= lq
        BY <3>8, <3>10
      <4> QED BY <3>7, <3>9, <4>1
    <3> QED BY <3>2, <3>5, <3>6 DEF InPlace
  <2> QED BY <2>4, <2>5
<1>7. T = Nat
  <2>1. T \in SUBSET Nat
    BY <1>4
  <2> QED BY <1>5, <1>6, <2>1, NatSetInduction
<1>8. \A j \in 1 .. n : InPlace(seqs, f, n, j)
  <2>1. n \in T /\ n <= n
    BY <1>7
  <2> QED BY <1>4, <2>1
<1> QED BY <1>1, <1>8

\* The three ways in which a byte is written.
LEMMA EscapedForms ==
  ASSUME NEW b \in Byte
  PROVE  /\ Escaped(b) \in Seq(Byte)
         /\ \/ ~Special(b) /\ Escaped(b) = <<b>>
            \/ b \in {Backslash, Quote} /\ Escaped(b) = <<Backslash, b>>
            \/ /\ b \in 0 .. Space - 1
               /\ Escaped(b) = <<Backslash, LowerU, 48, 48, HexMap(b \div 16), HexMap(b % 16)>>
<1>1. b \in Nat /\ b <= 255
  BY ByteBounds
<1>2. CASE b \in {Backslash, Quote}
  <2>1. Escaped(b) = <<Backslash, b>> /\ Backslash \in Byte
    BY <1>2 DEF Escaped, Byte, Backslash
  <2> QED BY <1>2, <2>1
<1>3. CASE b \notin {Backslash, Quote} /\ b >= Space
  <2>1. Escaped(b) = <<b>> /\ ~Special(b)
    BY <1>1, <1>3 DEF Escaped, Special, Space
  <2> QED BY <2>1
<1>4. CASE b \notin {Backslash, Quote} /\ ~(b >= Space)
  <2>1. Escaped(b) = <<Backslash, LowerU, 48, 48, HexMap(b \div 16), HexMap(b % 16)>>
    BY <1>4 DEF Escaped, LowerU
  <2>2. b \div 16 \in 0 .. 1 /\ b % 16 \in 0 .. 15 /\ b \in 0 .. Space - 1
    BY <1>1, <1>4 DEF Space
  <2>3. HexMap(b \div 16) \in Byte /\ HexMap(b % 16) \in Byte
    BY <2>2 DEF HexMap, Byte
  <2>4. Backslash \in Byte /\ LowerU \in Byte /\ 48 \in Byte
    BY DEF Backslash, LowerU, Byte
  <2> QED BY <2>1, <2>2, <2>3, <2>4
<1> QED BY <1>2, <1>3, <1>4

\* Byte j of s is written from at[j] to at[j + 1] - 1 of t, and a quote ends it.
Layout(s, t, at) ==
  /\ t \in Seq(Byte)
  /\ at \in [1 .. Len(s) + 1 -> Nat \ {0}]
  /\ at[1] = 1 /\ Len(t) = at[Len(s) + 1] /\ t[Len(t)] = Quote
  /\ \A j \in 1 .. Len(s) :
       /\ at[j + 1] = at[j] + Len(Escaped(s[j])) /\ at[j + 1] <= Len(t)
       /\ \A i \in 1 .. Len(Escaped(s[j])) : t[at[j] + i - 1] = Escaped(s[j])[i]

LEMMA WrittenLayout ==
  ASSUME NEW s \in Seq(Byte)
  PROVE  \E at : Layout(s, Tail(StringToJson(s)), at)
<1> DEFINE n == Len(s)
           k == StrFindSpecialByte(s)
           m == n - k
           es == [i \in 1 .. m |-> Escaped(s[k + i])]
           pre == SubSeq(s, 1, k)
<1>1. n \in Nat /\ k \in 0 .. n /\ m \in Nat /\ \A i \in 1 .. k : ~Special(s[i])
  BY ScanGuarantee
<1>2. \A j \in 1 .. n : s[j] \in Byte /\ Escaped(s[j]) \in Seq(Byte)
  BY EscapedForms
<1>3. es \in Seq(Seq(Byte)) /\ Len(es) = m
  <2>1. \A i \in 1 .. m : k + i \in 1 .. n
    BY <1>1
  <2>2. \A i \in 1 .. m : Escaped(s[k + i]) \in Seq(Byte)
    BY <1>2, <2>1
  <2> HIDE DEF m
  <2>3. es \in [1 .. m -> Seq(Byte)]
    BY <2>2
  <2> HIDE DEF es
  <2> QED BY <1>1, <2>3
<1>4. pre \in Seq(Byte) /\ Len(pre) = k /\ \A i \in 1 .. k : pre[i] = s[i]
  BY <1>1, SubSeqProperties
<1>5. StringToJson(s) = <<Quote>> \o pre \o FlattenSeq(es) \o <<Quote>>
  BY DEF StringToJson
<1>6. \A j \in 1 .. m : es[j] = Escaped(s[k + j])
  OBVIOUS
<1> HIDE DEF es, pre, k, m
<1>7. PICK f \in [0 .. m -> Seq(Byte)] : Parts(es, f) /\ f[m] = FlattenSeq(es)
  BY <1>3, Flattening
<1>8. f[0] = <<>> /\ \A j \in 1 .. m : InPlace(es, f, m, j)
  <2>1. f \in [0 .. Len(es) -> Seq(Byte)]
    BY <1>3, <1>7
  <2>2. \A j \in 1 .. Len(es) : InPlace(es, f, Len(es), j)
    BY <1>3, <1>7, <2>1, PartsInPlace
  <2> QED BY <1>3, <1>7, <2>2 DEF Parts
<1>9. PICK flat \in Seq(Byte) : flat = f[m]
  BY <1>1, <1>7
<1> DEFINE t == pre \o flat \o <<Quote>>
<1>10. Quote \in Byte /\ Tail(StringToJson(s)) = t
  <2>1. Quote \in Byte
    BY DEF Quote, Byte
  <2>2. StringToJson(s) = <<Quote>> \o pre \o flat \o <<Quote>>
    BY <1>5, <1>7, <1>9
  <2>3. PICK q \in Seq(Byte) : q = <<Quote>>
    BY <2>1, OneElement
  <2>4. q \o pre \o flat \o q = q \o (pre \o flat \o q)
    BY <1>4, <2>3, ConcatAssociative
  <2>5. pre \o flat \o q \in Seq(Byte)
    BY <1>4, <2>3
  <2>6. PICK rest \in Seq(Byte) : rest = pre \o flat \o q
    BY <2>5
  <2>7. Tail(<<Quote>> \o rest) = rest
    BY <2>1
  <2> QED BY <2>1, <2>2, <2>3, <2>4, <2>6, <2>7
<1>11. /\ t \in Seq(Byte) /\ Len(flat) \in Nat /\ Len(t) = k + Len(flat) + 1 /\ t[k + Len(flat) + 1] = Quote
       /\ \A i \in 1 .. k : t[i] = s[i]
       /\ \A i \in 1 .. Len(flat) : t[k + i] = flat[i]
  <2>1. PICK q \in Seq(Byte) : q = <<Quote>> /\ Len(q) = 1 /\ q[1] = Quote
    BY <1>10, OneElement
  <2>8. PICK p \in Seq(Byte) : p = pre /\ Len(p) = k /\ \A i \in 1 .. k : p[i] = s[i]
    BY <1>4
  <2>2. p \o flat \in Seq(Byte)
    BY ConcatProperties
  <2>9. PICK c \in Seq(Byte) : c = p \o flat
    BY <2>2
  <2>3. /\ Len(flat) \in Nat /\ Len(c) = k + Len(flat)
        /\ \A i \in 1 .. k : c[i] = s[i]
        /\ \A i \in 1 .. Len(flat) : c[k + i] = flat[i]
    BY <2>8, <2>9, OnePart, SMTT(30)
  <2>4. t = c \o q
    BY <2>1, <2>8, <2>9
  <2>10. c \o q \in Seq(Byte)
    BY ConcatProperties
  <2> HIDE DEF t
  <2>5. /\ t \in Seq(Byte) /\ Len(t) = Len(c) + 1
        /\ \A i \in 1 .. Len(c) : t[i] = c[i]
        /\ t[Len(c) + 1] = Quote
    BY <2>1, <2>4, <2>10, OnePart
  <2>6. \A i \in 1 .. k : i \in 1 .. Len(c)
    BY <1>1, <2>3
  <2>7. \A i \in 1 .. Len(flat) : k + i \in 1 .. Len(c)
    BY <1>1, <2>3
  <2> QED BY <2>3, <2>5, <2>6, <2>7
<1> DEFINE at == [j \in 1 .. n + 1 |-> IF j <= k THEN j ELSE k + 1 + Len(f[j - k - 1])]
<1> HIDE DEF t
<1>12. \A j \in 0 .. m : Len(f[j]) \in Nat
  BY <1>7
<1>13. at \in [1 .. n + 1 -> Nat \ {0}]
  <2>1. \A j \in 1 .. n + 1 : ~(j <= k) => j - k - 1 \in 0 .. m
    BY <1>1 DEF m
  <2>2. ASSUME NEW j \in 1 .. n + 1
        PROVE  (IF j <= k THEN j ELSE k + 1 + Len(f[j - k - 1])) \in Nat \ {0}
    <3>1. CASE j <= k
      BY <3>1
    <3>2. CASE ~(j <= k)
      <4>1. PICK l \in Nat : l = Len(f[j - k - 1])
        BY <1>12, <2>1, <3>2
      <4>2. k + 1 + l \in Nat \ {0}
        BY <1>1
      <4> QED BY <3>2, <4>1, <4>2
    <3> QED BY <3>1, <3>2
  <2> QED BY <2>2
<1>14. /\ \A j \in 1 .. k : at[j] = j
       /\ \A j \in 0 .. m : at[k + j + 1] = k + 1 + Len(f[j])
  <2>1. \A j \in 0 .. m : k + j + 1 \in 1 .. n + 1 /\ ~(k + j + 1 <= k) /\ (k + j + 1) - k - 1 = j
    BY <1>1 DEF m
  <2>2. \A j \in 1 .. k : j \in 1 .. n + 1 /\ j <= k
    BY <1>1
  <2> QED BY <2>1, <2>2
<1> HIDE DEF at
<1>15. Len(f[0]) = 0 /\ 0 \in 0 .. m /\ m \in 0 .. m
  BY <1>1, <1>8
<1>16. at[k + 1] = k + 1 /\ at[n + 1] = Len(t) /\ at[1] = 1
  <2>1. at[k + 0 + 1] = k + 1 + 0 /\ k + 0 + 1 = k + 1
    BY <1>1, <1>14, <1>15
  <2>2. at[k + m + 1] = k + 1 + Len(f[m]) /\ k + m + 1 = n + 1
    BY <1>1, <1>14, <1>15 DEF m
  <2>3. at[1] = 1
    <3>1. CASE k = 0
      BY <2>1, <3>1
    <3>2. CASE k # 0
      BY <1>1, <1>14, <3>2
    <3> QED BY <3>1, <3>2
  <2> QED BY <1>1, <1>9, <1>11, <2>1, <2>2, <2>3
<1>17. ASSUME NEW j \in 1 .. n
       PROVE  /\ at[j + 1] = at[j] + Len(Escaped(s[j])) /\ at[j + 1] <= Len(t)
              /\ \A i \in 1 .. Len(Escaped(s[j])) : t[at[j] + i - 1] = Escaped(s[j])[i]
  <2>1. CASE j <= k
    <3>1. at[j] = j /\ at[j + 1] = j + 1
      <4>1. CASE j = k
        BY <1>1, <1>14, <1>16, <2>1, <4>1
      <4>2. CASE j # k
        BY <1>1, <1>14, <2>1, <4>2
      <4> QED BY <4>1, <4>2
    <3>2. ~Special(s[j]) /\ t[j] = s[j]
      BY <1>1, <1>11, <2>1
    <3>3. s[j] \in Byte /\ (Special(Backslash) /\ Special(Quote) /\ \A b \in 0 .. Space - 1 : Special(b))
      BY <1>2 DEF Special, Space
    <3>4. Escaped(s[j]) = <<s[j]>>
      BY <3>2, <3>3, EscapedForms
    <3>5. Len(Escaped(s[j])) = 1 /\ Escaped(s[j])[1] = s[j]
      BY <3>4
    <3>6. j + 1 <= Len(t)
      BY <1>1, <1>11, <2>1
    <3> QED BY <3>1, <3>2, <3>5, <3>6
  <2>2. CASE ~(j <= k)
    <3>1. PICK i0 \in 1 .. m : i0 = j - k
      BY <1>1, <2>2 DEF m
    <3>2. /\ i0 \in 0 .. m /\ i0 - 1 \in 0 .. m
          /\ j = k + (i0 - 1) + 1 /\ j + 1 = k + i0 + 1 /\ k + i0 = j
      BY <1>1, <3>1
    <3>3. /\ at[j] = k + 1 + Len(f[i0 - 1]) /\ at[j + 1] = k + 1 + Len(f[i0])
          /\ Len(f[i0 - 1]) \in Nat /\ Len(f[i0]) \in Nat
      <4>1. \A x \in 0 .. m : at[k + x + 1] = k + 1 + Len(f[x]) /\ Len(f[x]) \in Nat
        BY <1>12, <1>14
      <4>2. at[k + (i0 - 1) + 1] = k + 1 + Len(f[i0 - 1]) /\ Len(f[i0 - 1]) \in Nat
        BY <3>2, <4>1
      <4>3. at[k + i0 + 1] = k + 1 + Len(f[i0]) /\ Len(f[i0]) \in Nat
        BY <3>2, <4>1
      <4> QED BY <3>2, <4>2, <4>3
    <3>4. es[i0] = Escaped(s[j]) /\ Len(Escaped(s[j])) \in Nat
      BY <1>2, <1>6, <3>2
    <3>5. PICK lb \in Nat, le \in Nat, lf \in Nat :
            lb = Len(f[i0 - 1]) /\ le = Len(Escaped(s[j])) /\ lf = Len(flat)
      BY <1>11, <3>3, <3>4
    <3>6. /\ Len(f[i0]) = lb + le /\ Len(f[i0]) <= lf
          /\ \A i \in 1 .. le : flat[lb + i] = Escaped(s[j])[i]
      <4>1. InPlace(es, f, m, i0)
        BY <1>8
      <4> QED BY <1>9, <3>4, <3>5, <4>1 DEF InPlace
    <3>7. PICK a \in Nat, b \in Nat, lt \in Nat : a = at[j] /\ b = at[j + 1] /\ lt = Len(t)
      <4>1. at[j] \in Nat /\ at[j + 1] \in Nat
        <5>1. j \in 1 .. n + 1 /\ j + 1 \in 1 .. n + 1
          BY <1>1
        <5>2. \A x \in 1 .. n + 1 : at[x] \in Nat
          BY <1>13
        <5> QED BY <5>1, <5>2
      <4>2. Len(t) \in Nat
        BY <1>11
      <4> QED BY <4>1, <4>2
    <3>8. a = k + 1 + lb /\ b = k + 1 + (lb + le) /\ lt = k + lf + 1 /\ lb + le <= lf
      BY <1>11, <3>3, <3>5, <3>6, <3>7
    <3>9. b = a + le /\ b <= lt
      BY <1>1, <3>8
    <3>10. ASSUME NEW i \in 1 .. le PROVE t[a + i - 1] = Escaped(s[j])[i]
      <4>1. lb + i \in 1 .. lf /\ a + i - 1 = k + (lb + i)
        BY <1>1, <3>8
      <4>2. t[k + (lb + i)] = flat[lb + i]
        BY <1>11, <3>5, <4>1
      <4> QED BY <3>6, <4>1, <4>2
    <3> QED BY <3>5, <3>7, <3>9, <3>10
  <2> QED BY <2>1, <2>2
<1>18. Layout(s, t, at)
  BY <1>11, <1>13, <1>16, <1>17 DEF Layout
<1> QED BY <1>10, <1>18
----------------------------------------------------------------------------
(***************************************************************************)
(* What parse_str makes of it.                                             *)
(***************************************************************************)
\* What stands where byte j is written.
LEMMA LaidOutByte ==
  ASSUME NEW s \in Seq(Byte), NEW t, NEW at, Layout(s, t, at), NEW j \in 1 .. Len(s)
  PROVE  /\ j + 1 \in 1 .. Len(s) + 1 /\ s[j] \in Byte
         /\ at[j] \in Nat \ {0} /\ at[j + 1] \in Nat /\ Len(t) \in Nat /\ at[j + 1] <= Len(t)
         /\ \/ /\ ~Special(s[j])
               /\ at[j + 1] = at[j] + 1 /\ t[at[j]] = s[j]
            \/ /\ s[j] \in {Backslash, Quote}
               /\ at[j + 1] = at[j] + 2 /\ t[at[j]] = Backslash /\ t[at[j] + 1] = s[j]
            \/ /\ s[j] \in 0 .. Space - 1
               /\ at[j + 1] = at[j] + 6 /\ t[at[j]] = Backslash /\ t[at[j] + 1] = LowerU
               /\ t[at[j] + 2] = 48 /\ t[at[j] + 3] = 48
               /\ t[at[j] + 4] = HexMap(s[j] \div 16) /\ t[at[j] + 5] = HexMap(s[j] % 16)
<1>1. j + 1 \in 1 .. Len(s) + 1 /\ j \in 1 .. Len(s) + 1 /\ s[j] \in Byte
  OBVIOUS
<1>2. PICK b \in Byte : b = s[j]
  BY <1>1
<1>3. PICK e \in Seq(Byte) : e = Escaped(b)
  BY EscapedForms
<1>4. PICK p \in Nat : p = at[j] /\ p # 0
  <2>1. \A x \in 1 .. Len(s) + 1 : at[x] \in Nat \ {0}
    BY DEF Layout
  <2>2. at[j] \in Nat \ {0}
    BY <1>1, <2>1
  <2> QED BY <2>2
<1>5. /\ at[j + 1] = p + Len(e) /\ at[j + 1] \in Nat /\ at[j + 1] <= Len(t)
      /\ \A i \in 1 .. Len(e) : t[p + i - 1] = e[i]
  BY <1>1, <1>2, <1>3, <1>4 DEF Layout
<1>6. Len(t) \in Nat
  BY LenProperties DEF Layout
<1>7. CASE ~Special(b) /\ e = <<b>>
  <2>1. Len(e) = 1 /\ e[1] = b
    BY <1>7
  <2>2. t[p + 1 - 1] = e[1] /\ p + 1 - 1 = p
    BY <1>5, <2>1
  <2> QED BY <1>1, <1>2, <1>4, <1>5, <1>6, <1>7, <2>1, <2>2
<1>8. CASE b \in {Backslash, Quote} /\ e = <<Backslash, b>>
  <2>1. Len(e) = 2 /\ e[1] = Backslash /\ e[2] = b
    BY <1>8
  <2>2. t[p + 1 - 1] = e[1] /\ p + 1 - 1 = p /\ t[p + 2 - 1] = e[2] /\ p + 2 - 1 = p + 1
    BY <1>5, <2>1
  <2> QED BY <1>1, <1>2, <1>4, <1>5, <1>6, <1>8, <2>1, <2>2
<1>9. CASE /\ b \in 0 .. Space - 1
           /\ e = <<Backslash, LowerU, 48, 48, HexMap(b \div 16), HexMap(b % 16)>>
  <2>1. /\ Len(e) = 6 /\ e[1] = Backslash /\ e[2] = LowerU /\ e[3] = 48 /\ e[4] = 48
        /\ e[5] = HexMap(b \div 16) /\ e[6] = HexMap(b % 16)
    BY <1>9
  <2>2. \A i \in 1 .. 6 : t[p + i - 1] = e[i]
    BY <1>5, <2>1
  <2>3. /\ t[p + 1 - 1] = e[1] /\ t[p + 2 - 1] = e[2] /\ t[p + 3 - 1] = e[3]
        /\ t[p + 4 - 1] = e[4] /\ t[p + 5 - 1] = e[5] /\ t[p + 6 - 1] = e[6]
    BY <2>2
  <2>4. /\ p + 1 - 1 = p /\ p + 2 - 1 = p + 1 /\ p + 3 - 1 = p + 2
        /\ p + 4 - 1 = p + 3 /\ p + 5 - 1 = p + 4 /\ p + 6 - 1 = p + 5
    OBVIOUS
  <2>5. /\ t[p] = Backslash /\ t[p + 1] = LowerU /\ t[p + 2] = 48 /\ t[p + 3] = 48
        /\ t[p + 4] = HexMap(b \div 16) /\ t[p + 5] = HexMap(b % 16)
    BY <2>1, <2>3, <2>4
  <2> QED BY <1>1, <1>2, <1>4, <1>5, <1>6, <1>9, <2>1, <2>5
<1> QED BY <1>2, <1>3, <1>7, <1>8, <1>9, EscapedForms

\* Behind the bytes of s is the quote.
LEMMA LaidOutQuote ==
  ASSUME NEW s \in Seq(Byte), NEW t, NEW at, Layout(s, t, at)
  PROVE  at[Len(s) + 1] = Len(t) /\ Len(t) \in Nat \ {0} /\ t[Len(t)] = Quote /\ at[1] = 1
<1>1. Len(s) + 1 \in 1 .. Len(s) + 1
  BY LenProperties
<1> QED BY <1>1 DEF Layout

\* How far the reader is when the first j - 1 bytes of source are behind it.
Behind(at, j) ==
  /\ pos = at[j]
  /\ phase = "scan" => j = 1
  /\ phase = "borrow" => /\ \A i \in 1 .. j : at[i] = i
                         /\ \A i \in 1 .. j - 1 : ~Special(source[i])
  /\ phase = "own" => buf = SubSeq(source, 1, j - 1)

Reading(at) ==
  IF result = Running
  THEN \E j \in 1 .. Len(source) + 1 : Behind(at, j)
  ELSE result = Ok(source) /\ pos = Len(input) + 1

RInv == source # NoSource => source \in Texts /\ \E at : Layout(source, input, at) /\ Reading(at)

\* The scan stops inside what was written.
LEMMA ScannedSource ==
  ASSUME NEW s \in Seq(Byte), NEW t, NEW at, Layout(s, t, at),
         NEW n \in 0 .. Len(t), \A i \in 1 .. n : ~Special(t[i])
  PROVE  /\ n <= Len(s)
         /\ \A i \in 1 .. n + 1 : at[i] = i
         /\ \A i \in 1 .. n : ~Special(s[i])
<1>1. PICK l \in Nat, m \in Nat : l = Len(s) /\ m = Len(t) /\ n \in Nat /\ n <= m
  BY LaidOutQuote, LenProperties
<1>2. Special(Quote) /\ Special(Backslash)
  BY DEF Special
<1> DEFINE T == {r \in Nat : r <= n => r <= l /\ at[r + 1] = r + 1 /\ (r # 0 => ~Special(s[r]))}
<1>3. \A r : r \in T <=> r \in Nat /\ (r <= n => r <= l /\ at[r + 1] = r + 1 /\ (r # 0 => ~Special(s[r])))
  OBVIOUS
<1> HIDE DEF T
<1>4. 0 \in T
  BY <1>1, <1>3, LaidOutQuote
<1>5. ASSUME NEW r \in T PROVE r + 1 \in T
  <2>0. r \in Nat /\ r + 1 \in Nat
    BY <1>3
  <2> SUFFICES ASSUME r + 1 <= n
               PROVE  r + 1 <= l /\ at[(r + 1) + 1] = (r + 1) + 1 /\ ~Special(s[r + 1])
    BY <1>3, <2>0
  <2>1. r <= n /\ r + 1 \in 1 .. n
    BY <1>1, <2>0
  <2>2. r <= l /\ at[r + 1] = r + 1 /\ ~Special(t[r + 1])
    BY <1>3, <2>1
  <2>3. r # l
    <3>1. SUFFICES ASSUME r = l PROVE FALSE
      OBVIOUS
    <3>2. t[at[l + 1]] = Quote
      BY <1>1, LaidOutQuote
    <3> QED BY <1>2, <2>2, <3>1, <3>2
  <2>4. r + 1 \in 1 .. Len(s) /\ r + 1 <= l
    BY <1>1, <2>0, <2>2, <2>3
  <2>5. PICK j \in 1 .. Len(s) : j = r + 1
    BY <2>4
  <2>6. at[j] = j /\ ~Special(t[j])
    BY <2>2, <2>5
  <2>7. ~Special(s[j]) /\ at[j + 1] = at[j] + 1
    <3>1. t[at[j]] # Backslash
      BY <1>2, <2>6
    <3>2. t[at[j]] = Backslash \/ (~Special(s[j]) /\ at[j + 1] = at[j] + 1)
      BY LaidOutByte
    <3> QED BY <3>1, <3>2
  <2> QED BY <2>4, <2>5, <2>6, <2>7
<1>6. T = Nat
  <2>1. T \in SUBSET Nat
    BY <1>3
  <2> QED BY <1>4, <1>5, <2>1, NatSetInduction
<1>7. \A r \in 0 .. n : r <= l /\ at[r + 1] = r + 1 /\ (r # 0 => ~Special(s[r]))
  <2>1. \A r \in 0 .. n : r \in Nat /\ r <= n
    BY <1>1
  <2> QED BY <1>3, <1>6, <2>1
<1>8. n \in 0 .. n
  BY <1>1
<1>9. ASSUME NEW i \in 1 .. n + 1 PROVE at[i] = i
  <2>1. i - 1 \in 0 .. n /\ (i - 1) + 1 = i
    BY <1>1
  <2>2. at[(i - 1) + 1] = (i - 1) + 1
    BY <1>7, <2>1
  <2> QED BY <2>1, <2>2
<1>10. ASSUME NEW i \in 1 .. n PROVE ~Special(s[i])
  <2>1. i \in 0 .. n /\ i # 0
    BY <1>1
  <2> QED BY <1>7, <2>1
<1> QED BY <1>1, <1>7, <1>8, <1>9, <1>10

\* One more byte of s.
LEMMA OneMoreByte ==
  ASSUME NEW S, NEW s \in Seq(S), NEW j \in 1 .. Len(s)
  PROVE  Append(SubSeq(s, 1, j - 1), s[j]) = SubSeq(s, 1, (j + 1) - 1)
OBVIOUS

LEMMA OneByteAppended ==
  ASSUME NEW S, NEW s \in Seq(S), NEW x \in S
  PROVE  s \o <<x>> = Append(s, x)
OBVIOUS

\* ASCII is UTF-8.
LEMMA AsciiCharacter ==
  ASSUME NEW b \in Byte, b < 128
  PROVE  EncodeUtf8(b) = <<b>> /\ IsCharacter(<<b>>)
<1>1. b \in Nat
  BY ByteBounds
<1>2. EncodeUtf8(b) = <<b>>
  BY <1>1 DEF EncodeUtf8
<1>3. CodePoint(<<b>>) = b
  <2>1. Len(<<b>>) = 1 /\ <<b>>[1] = b
    BY OneElement
  <2> QED BY <2>1 DEF CodePoint
<1>4. IsScalarValue(b)
  <2>1. b \in 0 .. MaxCodePoint
    <3>1. 0 \in Int /\ MaxCodePoint \in Int /\ b \in Int /\ 0 <= b /\ b <= MaxCodePoint
      BY <1>1, SMT DEF MaxCodePoint
    <3> QED BY <3>1
  <2>2. b \notin Leading /\ b \notin Trailing
    BY <1>1, SurrogateBounds
  <2> QED BY <2>1, <2>2 DEF IsScalarValue
<1> QED BY <1>2, <1>3, <1>4 DEF IsCharacter

LEMMA OneOf ==
  ASSUME NEW S, NEW s \in Seq(S), NEW i \in 1 .. Len(s)
  PROVE  SubSeq(s, i, i) = <<s[i]>>
<1>1. s[i] \in S /\ i \in Nat /\ i <= Len(s) /\ Len(s) \in Nat
  OBVIOUS
<1>2. /\ SubSeq(s, i, i) \in Seq(S) /\ Len(SubSeq(s, i, i)) = 1 /\ SubSeq(s, i, i)[1] = s[i]
  <2>1. i \in 1 .. Len(s) + 1 /\ i \in i - 1 .. Len(s) /\ i - i + 1 = 1 /\ i + 1 - 1 = i
    BY <1>1
  <2> QED BY <1>1, <2>1, SubSeqProperties
<1>3. PICK a \in Seq(S), b \in Seq(S) : a = SubSeq(s, i, i) /\ b = <<s[i]>>
  BY <1>1, <1>2, OneElement
<1>4. Len(a) = Len(b) /\ \A k \in 1 .. Len(a) : a[k] = b[k]
  BY <1>1, <1>2, <1>3, OneElement
<1> QED BY <1>3, <1>4, SeqEqual

LEMMA FourAsciiBytes ==
  ASSUME NEW h \in Seq(Byte), Len(h) = 4, \A i \in 1 .. 4 : h[i] < 128
  PROVE  ValidUtf8(h)
<1>1. ASSUME NEW i \in 1 .. 4 PROVE IsCharacter(SubSeq(h, i, i))
  <2>1. i \in 1 .. Len(h) /\ h[i] < 128
    OBVIOUS
  <2>3. h[i] \in Byte
    BY <2>1, ElementOfSeq
  <2>2. SubSeq(h, i, i) = <<h[i]>>
    BY <2>1, OneOf
  <2> QED BY <2>1, <2>2, <2>3, AsciiCharacter
<1> DEFINE Cut(g) == [i \in 1 .. 5 |-> \/ i = 5
                                       \/ \E j \in i .. i + 3 :
                                             j <= 4 /\ IsCharacter(SubSeq(h, i, j)) /\ g[j + 1]]
<1> DEFINE yes == [i \in 1 .. 5 |-> TRUE]
<1>2. ASSUME NEW i \in 1 .. 5
      PROVE  (i = 5 \/ \E j \in i .. i + 3 : j <= 4 /\ IsCharacter(SubSeq(h, i, j)) /\ yes[j + 1]) = TRUE
  <2>1. CASE i = 5
    BY <2>1
  <2>2. CASE i # 5
    <3>1. i \in 1 .. 4 /\ i \in i .. i + 3 /\ i <= 4 /\ i + 1 \in 1 .. 5
      BY <2>2
    <3>2. yes[i + 1]
      BY <3>1
    <3> HIDE DEF yes
    <3> QED BY <1>1, <3>1, <3>2
  <2> QED BY <2>1, <2>2
<1>3. yes = Cut(yes)
  BY <1>2
<1> DEFINE valid == CHOOSE g : g = Cut(g)
<1>4. valid = Cut(valid)
  <2>1. \E g : g = Cut(g)
    BY <1>3
  <2> HIDE DEF Cut
  <2> QED BY <2>1
<1>5. ValidUtf8(h) = valid[1]
  BY DEF ValidUtf8
<1> HIDE DEF valid, yes
<1>6. \A i \in 1 .. 5 : valid[i] = (\/ i = 5
                                    \/ \E j \in i .. i + 3 :
                                         j <= 4 /\ IsCharacter(SubSeq(h, i, j)) /\ valid[j + 1])
  BY <1>4
<1> HIDE DEF Cut
<1>7. valid[5]
  <2>1. 5 \in 1 .. 5 /\ 5 = 5
    OBVIOUS
  <2>2. valid[5] = (5 = 5 \/ \E j \in 5 .. 5 + 3 :
                               j <= 4 /\ IsCharacter(SubSeq(h, 5, j)) /\ valid[j + 1])
    BY <1>6, <2>1
  <2> QED BY <2>2
<1>8. ASSUME NEW i \in 1 .. 4, valid[i + 1] PROVE valid[i]
  <2>1. i \in i .. i + 3 /\ i <= 4 /\ i \in 1 .. 5
    OBVIOUS
  <2> QED BY <1>1, <1>6, <1>8, <2>1
<1>9. valid[4]
  BY <1>7, <1>8
<1>10. valid[3]
  BY <1>9, <1>8
<1>11. valid[2]
  BY <1>10, <1>8
<1>12. valid[1]
  BY <1>11, <1>8
<1> QED BY <1>5, <1>12

\* The digits that are written are read.
LEMMA HexMapRead ==
  ASSUME NEW n \in 0 .. 15
  PROVE  /\ HexMap(n) \in Byte /\ HexMap(n) < 128 /\ HexMap(n) \in HexDigit /\ HexMap(n) # Plus
         /\ HexValue(HexMap(n)) = n
BY DEF HexMap, Byte, HexDigit, HexValue, Plus

LEMMA ControlEscapeRead ==
  ASSUME input \in Seq(Byte), NEW p \in Nat \ {0}, p + 3 <= Len(input), NEW b \in 0 .. Space - 1,
         input[p] = 48, input[p + 1] = 48,
         input[p + 2] = HexMap(b \div 16), input[p + 3] = HexMap(b % 16)
  PROVE  /\ ParseUnicodeEscape(p) = [pos |-> p + 4, unit |-> b, err |-> "None"]
         /\ b \notin Leading \cup Trailing
         /\ EncodeUtf8(b) = <<b>>
<1>1. PICK q \in 0 .. 15, r \in 0 .. 15 : q = b \div 16 /\ r = b % 16 /\ b = 16 * q + r
  BY DEF Space
<1>2. b \in Byte /\ b < 128 /\ b \notin Leading \cup Trailing
  <2>1. b \in Nat /\ b < 32
    BY DEF Space
  <2>2. b <= 255 /\ b < 128
    BY <2>1
  <2>4. b \in Byte
    BY <2>1, <2>2, ByteBounds
  <2>3. b \notin Leading /\ b \notin Trailing
    BY <2>1, SurrogateBounds
  <2> QED BY <2>2, <2>3, <2>4
<1> DEFINE h == SubSeq(input, p, p + 3)
<1>3. /\ h \in Seq(Byte) /\ Len(h) = 4
      /\ h[1] = 48 /\ h[2] = 48 /\ h[3] = HexMap(q) /\ h[4] = HexMap(r)
  <2>1. h \in Seq(Byte) /\ Len(h) = 4 /\ \A i \in 1 .. 4 : h[i] = input[p + i - 1]
    BY SubSeqProperties
  <2>2. h[1] = input[p + 1 - 1] /\ h[2] = input[p + 2 - 1] /\ h[3] = input[p + 3 - 1] /\ h[4] = input[p + 4 - 1]
    BY <2>1
  <2>3. p + 1 - 1 = p /\ p + 2 - 1 = p + 1 /\ p + 3 - 1 = p + 2 /\ p + 4 - 1 = p + 3
    OBVIOUS
  <2> QED BY <1>1, <2>1, <2>2, <2>3
<1> HIDE DEF h
<1>4. 48 = HexMap(0) /\ 0 \in 0 .. 15
  BY DEF HexMap
<1> DEFINE Read(d) == d < 128 /\ d \in HexDigit /\ d # Plus
<1>5. \A i \in 1 .. 4 : h[i] < 128 /\ h[i] \in HexDigit /\ h[i] # Plus
  <2>1. \A n \in 0 .. 15 : Read(HexMap(n))
    BY HexMapRead
  <2> HIDE DEF Read
  <2>2. Read(h[1]) /\ Read(h[2]) /\ Read(h[3]) /\ Read(h[4])
    BY <1>3, <1>4, <2>1
  <2>3. \A i \in 1 .. 4 : Read(h[i])
    BY <2>2, SMTT(30)
  <2> QED BY <2>3 DEF Read
<1>6. ValidUtf8(h)
  BY <1>3, <1>5, FourAsciiBytes
<1>7. h[1] # Plus /\ IsRadix16(h)
  BY <1>5 DEF IsRadix16
<1>8. FromStrRadix(h) = b
  <2>1. HexValue(h[1]) = 0 /\ HexValue(h[2]) = 0 /\ HexValue(h[3]) = q /\ HexValue(h[4]) = r
    BY <1>3, <1>4, HexMapRead
  <2>2. HexNumber(h) = b
    BY <1>1, <2>1 DEF HexNumber
  <2> QED BY <1>7, <2>2 DEF FromStrRadix
<1>9. ParseUnicodeEscape(p) = [pos |-> p + 4, unit |-> b, err |-> "None"]
  BY <1>6, <1>7, <1>8 DEF ParseUnicodeEscape, h
<1>10. EncodeUtf8(b) = <<b>>
  BY <1>2, AsciiCharacter
<1> QED BY <1>2, <1>9, <1>10
----------------------------------------------------------------------------
\* The str that is read back.
Written(at) ==
  /\ source \in Texts /\ source \in Seq(Byte) /\ ValidUtf8(source)
  /\ Layout(source, input, at)

LEMMA ScanReads ==
  ASSUME NEW at, Written(at), Reading(at), Scan, UNCHANGED source
  PROVE  Reading(at)'
<1>1. input \in Seq(Byte) /\ source \in Seq(Byte) /\ Layout(source, input, at)
  BY DEF Written, Layout
<1>2. PICK n \in 0 .. Len(input) : n = StrFindSpecialByte(input) /\ \A i \in 1 .. n : ~Special(input[i])
  BY <1>1, ScanGuarantee
<1>3. /\ n <= Len(source)
      /\ \A i \in 1 .. n + 1 : at[i] = i
      /\ \A i \in 1 .. n : ~Special(source[i])
  BY <1>1, <1>2, ScannedSource
<1>4. n \in Nat /\ Len(source) \in Nat
  BY <1>1, <1>2, LenProperties
<1>5. PICK j \in 1 .. Len(source) + 1 : j = n + 1 /\ j - 1 = n
  BY <1>3, <1>4
<1>6. at[j] = j /\ j \in 1 .. n + 1
  BY <1>3, <1>4, <1>5
<1>7. pos' = 1 + n /\ phase' = "borrow" /\ result' = Running
  BY <1>2 DEF Scan, In
<1>8. pos' = j
  BY <1>4, <1>5, <1>7
<1>9. Behind(at, j)'
  BY <1>3, <1>5, <1>6, <1>7, <1>8 DEF Behind
<1> QED BY <1>5, <1>7, <1>9 DEF Reading

\* What the two loops find at the cursor.
LEMMA AtCursor ==
  ASSUME NEW at, Written(at), NEW j \in 1 .. Len(source) + 1, pos = at[j]
  PROVE  /\ input \in Seq(Byte) /\ Len(input) \in Nat /\ Len(source) \in Nat
         /\ pos \in Nat \ {0} /\ pos <= Len(input) /\ Peek(pos) = input[pos]
         /\ \/ j = Len(source) + 1 /\ pos = Len(input) /\ input[pos] = Quote
            \/ /\ j \in 1 .. Len(source) /\ source[j] \in Byte
               /\ j + 1 \in 1 .. Len(source) + 1 /\ (j + 1) - 1 = j
               /\ at[j + 1] <= Len(input)
               /\ \/ /\ ~Special(source[j]) /\ at[j + 1] = pos + 1 /\ input[pos] = source[j]
                  \/ /\ source[j] \in {Backslash, Quote}
                     /\ at[j + 1] = pos + 2 /\ input[pos] = Backslash /\ input[pos + 1] = source[j]
                  \/ /\ source[j] \in 0 .. Space - 1
                     /\ at[j + 1] = pos + 6 /\ input[pos] = Backslash /\ input[pos + 1] = LowerU
                     /\ input[pos + 2] = 48 /\ input[pos + 3] = 48
                     /\ input[pos + 4] = HexMap(source[j] \div 16)
                     /\ input[pos + 5] = HexMap(source[j] % 16)
<1>1. source \in Seq(Byte) /\ Layout(source, input, at) /\ input \in Seq(Byte)
  BY DEF Written, Layout
<1>2. Len(input) \in Nat /\ Len(source) \in Nat
  BY <1>1, LenProperties
<1>3. CASE j = Len(source) + 1
  <2>1. pos = Len(input) /\ input[pos] = Quote /\ pos \in Nat \ {0}
    BY <1>1, <1>3, LaidOutQuote
  <2>2. pos <= Len(input)
    BY <1>2, <2>1
  <2> QED BY <1>1, <1>2, <1>3, <2>1, <2>2 DEF Peek
<1>4. CASE j # Len(source) + 1
  <2>1. j \in 1 .. Len(source) /\ (j + 1) - 1 = j
    BY <1>2, <1>4
  <2>2. /\ j + 1 \in 1 .. Len(source) + 1 /\ source[j] \in Byte
        /\ pos \in Nat \ {0} /\ at[j + 1] \in Nat /\ at[j + 1] <= Len(input)
        /\ \/ ~Special(source[j]) /\ at[j + 1] = pos + 1 /\ input[pos] = source[j]
           \/ /\ source[j] \in {Backslash, Quote}
              /\ at[j + 1] = pos + 2 /\ input[pos] = Backslash /\ input[pos + 1] = source[j]
           \/ /\ source[j] \in 0 .. Space - 1
              /\ at[j + 1] = pos + 6 /\ input[pos] = Backslash /\ input[pos + 1] = LowerU
              /\ input[pos + 2] = 48 /\ input[pos + 3] = 48
              /\ input[pos + 4] = HexMap(source[j] \div 16)
              /\ input[pos + 5] = HexMap(source[j] % 16)
    BY <1>1, <2>1, LaidOutByte
  <2>3. PICK next \in Nat : next = at[j + 1] /\ next <= Len(input) /\ pos < next
    <3>1. at[j + 1] \in {pos + 1, pos + 2, pos + 6} /\ at[j + 1] <= Len(input)
      BY <2>2
    <3>2. PICK next \in Nat : next = at[j + 1]
      BY <2>2
    <3>3. PICK q \in Nat : q = pos
      BY <2>2
    <3>4. next = q + 1 \/ next = q + 2 \/ next = q + 6
      BY <3>1, <3>2, <3>3
    <3>5. q < next
      BY <3>4
    <3> QED BY <3>1, <3>2, <3>3, <3>5
  <2>4. pos <= Len(input)
    BY <1>2, <2>2, <2>3, SMTT(30)
  <2> QED BY <1>1, <1>2, <2>1, <2>2, <2>4 DEF Peek
<1> QED BY <1>3, <1>4

LEMMA SpecialBytes ==
  /\ Special(Quote) /\ Special(Backslash) /\ Quote # Backslash /\ Eof # Quote /\ Eof # Backslash
  /\ \A b \in Byte : /\ b # Eof
                     /\ ~Special(b) => b >= Space /\ b # Quote /\ b # Backslash /\ b \notin 0 .. Space - 1
  /\ ~Plain(Quote) /\ ~Plain(Backslash) /\ ~Control(Quote) /\ ~Control(Backslash)
  /\ LowerU \notin {Backslash, Quote} /\ LowerU # Eof
  /\ \A x \in ShortEscapes : /\ x[1] # LowerU /\ x[1] # Eof
                             /\ x[1] \in {Backslash, Quote} => x[2] = x[1]
<1>1. /\ Special(Quote) /\ Special(Backslash) /\ Quote # Backslash /\ Eof # Quote /\ Eof # Backslash
      /\ ~Plain(Quote) /\ ~Plain(Backslash) /\ ~Control(Quote) /\ ~Control(Backslash)
      /\ LowerU \notin {Backslash, Quote} /\ LowerU # Eof
  BY DEF Special, Quote, Backslash, Eof, Plain, Control, Space, LowerU
<1>2. \A b \in Byte : b # Eof
  BY ByteBounds DEF Eof
<1>3. \A b \in Byte : ~Special(b) => b >= Space /\ b # Quote /\ b # Backslash /\ b \notin 0 .. Space - 1
  BY ByteBounds DEF Special, Space
<1>4. ASSUME NEW x \in ShortEscapes
      PROVE  /\ x[1] # LowerU /\ x[1] # Eof
             /\ x[1] \in {Backslash, Quote} => x[2] = x[1]
  BY DEF ShortEscapes, LowerU, Eof, Backslash, Quote
<1> QED BY <1>1, <1>2, <1>3, <1>4

\* As long as the string is borrowed, the document is the str itself.
LEMMA BorrowedSource ==
  ASSUME NEW at, Written(at), NEW j \in 1 .. Len(source) + 1, Behind(at, j), phase = "borrow"
  PROVE  /\ SubSeq(input, 1, pos - 1) = SubSeq(source, 1, j - 1)
         /\ pos = j
<1>1. /\ source \in Seq(Byte) /\ Layout(source, input, at) /\ input \in Seq(Byte)
      /\ pos = at[j] /\ \A i \in 1 .. j : at[i] = i
      /\ \A i \in 1 .. j - 1 : ~Special(source[i])
  BY DEF Written, Layout, Behind
<1>2. pos = j /\ Len(input) \in Nat /\ Len(source) \in Nat /\ pos <= Len(input)
  BY <1>1, AtCursor
<1>3. PICK n \in Nat : n = j - 1 /\ n <= Len(input) /\ n <= Len(source)
  BY <1>2
<1>4. ASSUME NEW i \in 1 .. n PROVE input[i] = source[i]
  <2>1. i \in 1 .. Len(source) /\ i \in 1 .. j /\ i \in 1 .. j - 1
    BY <1>2, <1>3
  <2>2. at[i] = i /\ ~Special(source[i]) /\ source[i] \in Byte
    BY <1>1, <2>1
  <2>3. source[i] \notin {Backslash, Quote} /\ source[i] \notin 0 .. Space - 1
    BY <2>2, SpecialBytes
  <2>4. input[at[i]] = source[i]
    BY <1>1, <2>1, <2>3, LaidOutByte
  <2> QED BY <2>2, <2>4
<1>5. /\ SubSeq(input, 1, n) \in Seq(Byte) /\ Len(SubSeq(input, 1, n)) = n
      /\ \A i \in 1 .. n : SubSeq(input, 1, n)[i] = input[i]
  BY <1>1, <1>2, <1>3, SubSeqProperties
<1>6. /\ SubSeq(source, 1, n) \in Seq(Byte) /\ Len(SubSeq(source, 1, n)) = n
      /\ \A i \in 1 .. n : SubSeq(source, 1, n)[i] = source[i]
  BY <1>1, <1>2, <1>3, SubSeqProperties
<1>7. SubSeq(input, 1, n) = SubSeq(source, 1, n)
  <2>1. PICK a \in Seq(Byte), b \in Seq(Byte) : a = SubSeq(input, 1, n) /\ b = SubSeq(source, 1, n)
    BY <1>5, <1>6
  <2>2. Len(a) = Len(b) /\ \A i \in 1 .. Len(a) : a[i] = b[i]
    BY <1>4, <1>5, <1>6, <2>1
  <2> QED BY <2>1, <2>2, SeqEqual
<1>8. pos - 1 = n /\ j - 1 = n
  BY <1>2, <1>3
<1> QED BY <1>2, <1>7, <1>8

\* The whole of it.
LEMMA WholeSource ==
  ASSUME NEW s \in Seq(Byte), NEW j, j = Len(s) + 1
  PROVE  SubSeq(s, 1, j - 1) = s
<1>1. j - 1 = Len(s)
  BY LenProperties
<1> QED BY <1>1

LEMMA BorrowReads ==
  ASSUME NEW at, Written(at), Reading(at), UNCHANGED source,
         BorrowByte \/ BorrowClose \/ StartOwning \/ BorrowFail
  PROVE  Reading(at)'
<1>1. result = Running /\ phase = "borrow"
  BY DEF In, BorrowByte, BorrowClose, StartOwning, BorrowFail
<1>2. PICK j \in 1 .. Len(source) + 1 : Behind(at, j)
  BY <1>1 DEF Reading
<1>4. pos = at[j] /\ (\A i \in 1 .. j : at[i] = i) /\ (\A k \in 1 .. j - 1 : ~Special(source[k]))
  BY <1>1, <1>2 DEF Behind
<1>5. SubSeq(input, 1, pos - 1) = SubSeq(source, 1, j - 1) /\ pos = j
  BY <1>1, <1>2, BorrowedSource
<1>6. source \in Seq(Byte) /\ ValidUtf8(source) /\ Len(source) \in Nat
  BY LenProperties DEF Written
<1>7. CASE BorrowByte
  <2>1. Plain(Peek(pos)) /\ pos' = pos + 1 /\ UNCHANGED <<input, phase, buf, result>>
    BY <1>7 DEF BorrowByte, Continue
  <2>2. j \in 1 .. Len(source) /\ ~Special(source[j]) /\ at[j + 1] = pos + 1
        /\ j + 1 \in 1 .. Len(source) + 1 /\ (j + 1) - 1 = j
    BY <1>4, <2>1, AtCursor, SpecialBytes
  <2>3. \A i \in 1 .. j + 1 : at[i] = i
    <3>1. \A i \in 1 .. j + 1 : i \in 1 .. j \/ i = j + 1
      BY <2>2
    <3> QED BY <1>4, <1>5, <2>2, <3>1
  <2>4. \A k \in 1 .. (j + 1) - 1 : ~Special(source[k])
    <3>1. \A k \in 1 .. (j + 1) - 1 : k \in 1 .. j - 1 \/ k = j
      BY <2>2
    <3> QED BY <1>4, <2>2, <3>1
  <2>5. Behind(at, j + 1)'
    BY <1>1, <2>1, <2>2, <2>3, <2>4 DEF Behind
  <2> QED BY <1>1, <2>1, <2>2, <2>5 DEF Reading
<1>8. CASE BorrowClose
  <2>1. Peek(pos) = Quote
    BY <1>8 DEF BorrowClose
  <2>2. pos' = pos + 1 /\ result' = CreateString(SubSeq(input, 1, pos - 1)) /\ UNCHANGED input
    BY <1>8 DEF BorrowClose, Return
  <2>3. j = Len(source) + 1 /\ pos = Len(input)
    BY <1>4, <2>1, AtCursor, SpecialBytes
  <2>4. SubSeq(source, 1, j - 1) = source
    BY <1>6, <2>3, WholeSource
  <2>5. result' = Ok(source)
    BY <1>5, <1>6, <2>2, <2>4 DEF CreateString
  <2> QED BY <2>2, <2>3, <2>5 DEF Reading, Ok, Running
<1>9. CASE StartOwning
  <2>1. /\ buf' = SubSeq(source, 1, j - 1) /\ phase' = "own"
        /\ UNCHANGED <<input, pos, result>>
    BY <1>5, <1>9 DEF StartOwning
  <2>2. Behind(at, j)'
    BY <1>4, <2>1 DEF Behind
  <2> QED BY <1>1, <2>1, <2>2 DEF Reading
<1>10. CASE BorrowFail
  <2>1. Peek(pos) = Eof \/ Control(Peek(pos))
    BY <1>10 DEF BorrowFail
  <2> QED BY <1>4, <2>1, AtCursor, SpecialBytes DEF Control
<1> QED BY <1>7, <1>8, <1>9, <1>10

LEMMA OwnReads ==
  ASSUME NEW at, Written(at), Reading(at), UNCHANGED source,
         OwnByte \/ OwnClose \/ OwnFail
  PROVE  Reading(at)'
<1>1. result = Running /\ phase = "own"
  BY DEF In, OwnByte, OwnClose, OwnFail
<1>2. PICK j \in 1 .. Len(source) + 1 : Behind(at, j)
  BY <1>1 DEF Reading
<1>3. pos = at[j] /\ buf = SubSeq(source, 1, j - 1)
  BY <1>1, <1>2 DEF Behind
<1>4. source \in Seq(Byte) /\ ValidUtf8(source) /\ Len(source) \in Nat
  BY LenProperties DEF Written
<1>5. CASE OwnByte
  <2>1. /\ Plain(Peek(pos)) /\ pos' = pos + 1 /\ buf' = Append(buf, Peek(pos))
        /\ UNCHANGED <<input, phase, result>>
    BY <1>5 DEF OwnByte, Continue
  <2>2. /\ j \in 1 .. Len(source) /\ at[j + 1] = pos + 1 /\ Peek(pos) = source[j]
        /\ j + 1 \in 1 .. Len(source) + 1
    BY <1>3, <2>1, AtCursor, SpecialBytes
  <2>3. buf' = SubSeq(source, 1, (j + 1) - 1)
    BY <1>3, <1>4, <2>1, <2>2, OneMoreByte
  <2>4. Behind(at, j + 1)'
    BY <1>1, <2>1, <2>2, <2>3 DEF Behind
  <2> QED BY <1>1, <2>1, <2>2, <2>4 DEF Reading
<1>6. CASE OwnClose
  <2>1. Peek(pos) = Quote /\ pos' = pos + 1 /\ result' = CreateString(buf) /\ UNCHANGED input
    BY <1>6 DEF OwnClose, Return
  <2>2. j = Len(source) + 1 /\ pos = Len(input)
    BY <1>3, <2>1, AtCursor, SpecialBytes
  <2>3. buf = source
    BY <1>3, <1>4, <2>2, WholeSource
  <2>4. result' = Ok(source)
    BY <1>4, <2>1, <2>3 DEF CreateString
  <2> QED BY <2>1, <2>2, <2>4 DEF Reading, Ok, Running
<1>7. CASE OwnFail
  <2>1. Peek(pos) = Eof \/ Control(Peek(pos))
    BY <1>7 DEF OwnFail
  <2> QED BY <1>3, <2>1, AtCursor, SpecialBytes, SMTT(30) DEF Control
<1> QED BY <1>5, <1>6, <1>7

LEMMA SixAhead ==
  \A p, q, l \in Nat : p = q + 2 /\ q + 6 <= l =>
    p + 1 = q + 3 /\ p + 2 = q + 4 /\ p + 3 = q + 5 /\ p + 4 = q + 6 /\ p + 3 <= l
OBVIOUS

\* What stands where an escape begins: one of the two kinds that are written.
LEMMA EscapeAtCursor ==
  ASSUME NEW at, Written(at), NEW j \in 1 .. Len(source) + 1, pos = at[j], Peek(pos) = Backslash
  PROVE  /\ j \in 1 .. Len(source) /\ j + 1 \in 1 .. Len(source) + 1 /\ source[j] \in Byte
         /\ \/ source[j] \in {Backslash, Quote} /\ at[j + 1] = pos + 2 /\ Peek(pos + 1) = source[j]
            \/ /\ source[j] \in 0 .. Space - 1 /\ at[j + 1] = pos + 6 /\ Peek(pos + 1) = LowerU
               /\ ParseUnicodeEscape(pos + 2) = [pos |-> pos + 6, unit |-> source[j], err |-> "None"]
               /\ source[j] \notin Leading \cup Trailing
               /\ EncodeUtf8(source[j]) = <<source[j]>>
<1>1. /\ input \in Seq(Byte) /\ Len(input) \in Nat /\ Len(source) \in Nat
      /\ pos \in Nat \ {0} /\ pos <= Len(input) /\ Peek(pos) = input[pos]
  BY AtCursor
<1>2. /\ j \in 1 .. Len(source) /\ j + 1 \in 1 .. Len(source) + 1 /\ source[j] \in Byte
      /\ at[j + 1] <= Len(input)
      /\ \/ source[j] \in {Backslash, Quote} /\ at[j + 1] = pos + 2 /\ input[pos + 1] = source[j]
         \/ /\ source[j] \in 0 .. Space - 1 /\ at[j + 1] = pos + 6 /\ input[pos + 1] = LowerU
            /\ input[pos + 2] = 48 /\ input[pos + 3] = 48
            /\ input[pos + 4] = HexMap(source[j] \div 16)
            /\ input[pos + 5] = HexMap(source[j] % 16)
  BY AtCursor, SpecialBytes
<1>3. pos + 1 <= Len(input) /\ Peek(pos + 1) = input[pos + 1]
  <2>1. pos + 2 <= Len(input) \/ pos + 6 <= Len(input)
    BY <1>2
  <2>2. pos + 1 <= Len(input)
    BY <1>1, <2>1
  <2> QED BY <2>2 DEF Peek
<1>4. CASE source[j] \in {Backslash, Quote} /\ at[j + 1] = pos + 2 /\ input[pos + 1] = source[j]
  BY <1>2, <1>3, <1>4
<1>5. CASE /\ source[j] \in 0 .. Space - 1 /\ at[j + 1] = pos + 6 /\ input[pos + 1] = LowerU
           /\ input[pos + 2] = 48 /\ input[pos + 3] = 48
           /\ input[pos + 4] = HexMap(source[j] \div 16)
           /\ input[pos + 5] = HexMap(source[j] % 16)
  <2>1. PICK p \in Nat \ {0} : p = pos + 2
    BY <1>1
  <2>2. /\ p + 1 = pos + 3 /\ p + 2 = pos + 4 /\ p + 3 = pos + 5 /\ p + 4 = pos + 6
        /\ p + 3 <= Len(input)
    <3>1. pos + 6 <= Len(input)
      BY <1>2, <1>5
    <3>2. pos \in Nat /\ Len(input) \in Nat
      BY <1>1
    <3> QED BY <2>1, <3>1, <3>2, SixAhead
  <2>3. PICK b \in 0 .. Space - 1 : b = source[j]
    BY <1>5
  <2>4. /\ input[p] = 48 /\ input[p + 1] = 48
        /\ input[p + 2] = HexMap(b \div 16) /\ input[p + 3] = HexMap(b % 16)
    BY <1>5, <2>1, <2>2, <2>3
  <2>5. /\ ParseUnicodeEscape(p) = [pos |-> p + 4, unit |-> b, err |-> "None"]
        /\ b \notin Leading \cup Trailing
        /\ EncodeUtf8(b) = <<b>>
    BY <1>1, <2>2, <2>4, ControlEscapeRead
  <2> QED BY <1>2, <1>3, <1>5, <2>1, <2>2, <2>3, <2>5
<1> QED BY <1>2, <1>4, <1>5

LEMMA EscapeReads ==
  ASSUME NEW at, Written(at), Reading(at), UNCHANGED source,
         ShortEscape \/ BadEscape \/ UnicodeEscape \/ SurrogatePair
  PROVE  Reading(at)'
<1>1. result = Running /\ phase = "own" /\ Peek(pos) = Backslash
  BY DEF In, InEscape, ShortEscape, BadEscape, UnicodeEscape, SurrogatePair
<1>2. PICK j \in 1 .. Len(source) + 1 : Behind(at, j)
  BY <1>1 DEF Reading
<1>3. pos = at[j] /\ buf = SubSeq(source, 1, j - 1)
  BY <1>1, <1>2 DEF Behind
<1>4. source \in Seq(Byte)
  BY DEF Written
<1>5. j \in 1 .. Len(source) /\ j + 1 \in 1 .. Len(source) + 1 /\ source[j] \in Byte
  BY <1>1, <1>3, EscapeAtCursor
<1>6. \/ source[j] \in {Backslash, Quote} /\ at[j + 1] = pos + 2 /\ Peek(pos + 1) = source[j]
      \/ /\ source[j] \in 0 .. Space - 1 /\ at[j + 1] = pos + 6 /\ Peek(pos + 1) = LowerU
         /\ ParseUnicodeEscape(pos + 2) = [pos |-> pos + 6, unit |-> source[j], err |-> "None"]
         /\ source[j] \notin Leading \cup Trailing
         /\ EncodeUtf8(source[j]) = <<source[j]>>
  BY <1>1, <1>3, EscapeAtCursor
<1>7. Append(buf, source[j]) = SubSeq(source, 1, (j + 1) - 1)
  BY <1>3, <1>4, <1>5, OneMoreByte
<1>8. SUFFICES /\ pos' = at[j + 1] /\ buf' = Append(buf, source[j])
               /\ UNCHANGED <<input, phase, result>>
  <2>1. Behind(at, j + 1)'
    BY <1>1, <1>7, <1>8 DEF Behind
  <2> QED BY <1>1, <1>5, <1>8, <2>1 DEF Reading
<1>9. CASE ShortEscape
  <2>1. PICK x \in ShortEscapes : Peek(pos + 1) = x[1] /\ Continue(pos + 2, Append(buf, x[2]))
    BY <1>9 DEF ShortEscape, InEscape
  <2>2. source[j] \in {Backslash, Quote} /\ at[j + 1] = pos + 2 /\ x[2] = source[j]
    BY <1>6, <2>1, SpecialBytes
  <2> QED BY <2>1, <2>2 DEF Continue
<1>10. CASE BadEscape
  <2>1. \/ Peek(pos + 1) = Eof
        \/ Peek(pos + 1) # LowerU /\ \A x \in ShortEscapes : Peek(pos + 1) # x[1]
    BY <1>10 DEF BadEscape, InEscape
  <2>2. <<Backslash, Backslash>> \in ShortEscapes /\ <<Quote, Quote>> \in ShortEscapes
    BY DEF ShortEscapes
  <2>3. <<Backslash, Backslash>>[1] = Backslash /\ <<Quote, Quote>>[1] = Quote
    OBVIOUS
  <2> QED BY <1>6, <2>1, <2>2, <2>3, SpecialBytes
<1>11. CASE UnicodeEscape \/ SurrogatePair
  <2>1. Peek(pos + 1) = LowerU
    BY <1>11 DEF UnicodeEscape, SurrogatePair, InEscape
  <2>2. /\ at[j + 1] = pos + 6
        /\ ParseUnicodeEscape(pos + 2) = [pos |-> pos + 6, unit |-> source[j], err |-> "None"]
        /\ source[j] \notin Leading /\ source[j] \notin Trailing
        /\ EncodeUtf8(source[j]) = <<source[j]>>
    BY <1>6, <2>1, SpecialBytes
  <2>3. ~SurrogatePair
    BY <2>2 DEF SurrogatePair
  <2>4. Continue(pos + 6, buf \o <<source[j]>>)
    BY <1>11, <2>2, <2>3 DEF UnicodeEscape
  <2>5. buf \in Seq(Byte)
    BY <1>3, <1>4, <1>5, SubSeqProperties
  <2>6. buf \o <<source[j]>> = Append(buf, source[j])
    BY <1>5, <2>5, OneByteAppended
  <2> QED BY <2>2, <2>4, <2>6 DEF Continue
<1> QED BY <1>9, <1>10, <1>11

LEMMA InputConstant ==
  ASSUME Next PROVE UNCHANGED input
BY DEF Next, Iterate, Returned, vars, Scan, BorrowByte, BorrowClose, StartOwning, BorrowFail,
       OwnByte, OwnClose, OwnFail, ShortEscape, BadEscape, UnicodeEscape, SurrogatePair,
       Return, Continue

LEMMA InitReads == SInit => RInv
<1> SUFFICES ASSUME SInit, source # NoSource PROVE source \in Texts /\ \E at : Layout(source, input, at) /\ Reading(at)
  BY DEF RInv
<1>1. /\ source \in Texts /\ input = Tail(StringToJson(source))
      /\ pos = 1 /\ phase = "scan" /\ result = Running
  BY DEF SInit
<1>2. source \in Seq(Byte)
  BY <1>1, TextsAssumption
<1>3. PICK at : Layout(source, input, at)
  BY <1>1, <1>2, WrittenLayout
<1>4. Behind(at, 1) /\ 1 \in 1 .. Len(source) + 1
  BY <1>1, <1>2, <1>3, LaidOutQuote, LenProperties DEF Behind
<1> QED BY <1>1, <1>3, <1>4 DEF Reading

LEMMA StepReads ==
  ASSUME RInv, [Next /\ UNCHANGED source]_<<vars, source>>
  PROVE  RInv'
<1> SUFFICES ASSUME source' # NoSource
             PROVE  (source \in Texts /\ \E at : Layout(source, input, at) /\ Reading(at))'
  BY DEF RInv
<1>1. UNCHANGED source /\ UNCHANGED input
  BY InputConstant DEF vars
<1>2. PICK at : Layout(source, input, at) /\ Reading(at)
  BY <1>1 DEF RInv
<1>3. source \in Texts
  BY <1>1 DEF RInv
<1>4. Written(at)
  BY <1>2, <1>3, TextsAssumption DEF Written
<1>5. Reading(at)'
  <2>1. CASE UNCHANGED vars
    BY <1>1, <1>2, <2>1 DEF vars, Reading, Behind
  <2>2. CASE Iterate
    BY <1>1, <1>2, <1>4, <2>2, ScanReads, BorrowReads, OwnReads, EscapeReads DEF Iterate
  <2> QED BY <2>1, <2>2 DEF Next, Returned, vars
<1>6. (Layout(source, input, at) /\ Reading(at))'
  BY <1>1, <1>2, <1>5
<1> QED BY <1>1, <1>3, <1>6

\* Every str, whatever its length and wherever its special bytes stand, is
\* read back as it was written, and no byte of what was written is left over
\* (ser.rs:381-414 against de.rs:617-724).
THEOREM StringsReadBack == SSpec => []ReadsBack
<1>1. RInv => ReadsBack
  BY DEF RInv, Reading, ReadsBack
<1> QED BY <1>1, InitReads, StepReads, PTL DEF SSpec
=============================================================================
