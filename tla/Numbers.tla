------------------------------- MODULE Numbers -------------------------------
(***************************************************************************)
(* Numbers read (NumberLexer), compared with the grammar, and ints read    *)
(* back after they were written (IntWriter).                               *)
(***************************************************************************)
EXTENDS NumberLexer, IntWriter

CONSTANTS
  Ints,       \* the ints that are written
  NoSource    \* for a document that was not written by int_to_json

VARIABLES
  source,   \* the int to be written and the build that writes it, or NoSource
  written   \* it is in the document

Sources == [int : Ints, build : Builds]

ASSUME SourceAssumption == Ints \subseteq Int /\ NoSource \notin Sources

NInit ==
  /\ \/ source = NoSource /\ input \in Inputs
     \/ source \in Sources /\ input = <<>>
  /\ written = (source = NoSource)
  /\ pos = 1 /\ phase = "sign" /\ isFloat = FALSE /\ result = Running

\* A ValueError ends the call that writes.
WriteInt ==
  /\ ~written
  /\ written' = TRUE
  /\ input' = IntToJson(source.int, source.build)
  /\ result' = IF input' = <<>> THEN Err("ValueError") ELSE Running
  /\ UNCHANGED <<pos, phase, isFloat, source>>

Read == written /\ Next /\ UNCHANGED <<source, written>>

NNext == WriteInt \/ Read

NSpec == NInit /\ [][NNext]_<<vars, source, written>>
----------------------------------------------------------------------------
(***************************************************************************)
(* The grammar of numbers (RFC 8259, section 6).                           *)
(***************************************************************************)
Digits(s) == Len(s) > 0 /\ \A i \in 1 .. Len(s) : s[i] \in Digit
IsInteger(s) == Digits(s) /\ (s[1] = Zero => Len(s) = 1)
IsFraction(s) == s = <<>> \/ (s[1] = Dot /\ Digits(Tail(s)))
IsExponent(s) ==
  \/ s = <<>>
  \/ /\ s[1] \in Exponents
     /\ \/ Digits(Tail(s))
        \/ Len(s) > 1 /\ s[2] \in {Minus, Plus} /\ Digits(SubSeq(s, 3, Len(s)))
IsNumber(s) ==
  \E a \in {1, 2}, b, c \in 1 .. Len(s) :
    /\ a = 2 => Len(s) > 1 /\ s[1] = Minus
    /\ IsInteger(SubSeq(s, a, b))
    /\ b <= c /\ IsFraction(SubSeq(s, b + 1, c)) /\ IsExponent(SubSeq(s, c + 1, Len(s)))

\* Whatever can be continued to a number is one or becomes one with one digit.
Viable(s) == IsNumber(s) \/ IsNumber(Append(s, Zero))

\* The call takes the longest text that is a number, and an error is raised at
\* the first byte with which no number goes on, or at the end of a document
\* that ends inside a number (de.rs:547-611).
TakesTheLongestNumber ==
  source = NoSource /\ result # Running =>
    LET consumed == SubSeq(input, 1, pos - 1) IN
    IF result = Err("ExpectedDigit")
      THEN ~Viable(consumed) /\ Viable(SubSeq(input, 1, pos - 2))
    ELSE IF result = Err("Eof")
      THEN consumed = input /\ Viable(input) /\ ~IsNumber(input)
    ELSE IsNumber(consumed) /\ (consumed # input => ~Viable(SubSeq(input, 1, pos)))

\* An int that is written is read back as itself, whichever of the machine
\* integers of either build and of the reader it fits, with nothing left over;
\* only one that is too long for Python is not written (ser.rs:255-378 against
\* de.rs:237-277).
IntsReadBack ==
  source # NoSource /\ result # Running =>
    \/ input = <<>> /\ TooLong(Decimal(source.int))
    \/ input # <<>> /\ result = Ok([int |-> source.int]) /\ pos = Len(input) + 1

\* What the documentation of dumps says of int: "Arbitrarily-large values are supported
\* and will be serialized with no loss of precision" (lib.rs:132-133).
EveryIntIsWritten == source # NoSource /\ written => input # <<>>
=============================================================================
