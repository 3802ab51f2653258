------------------------------- MODULE Strings -------------------------------
(***************************************************************************)
(* Strings read (StringLexer), compared with the grammar, and read back    *)
(* after they were written (StringWriter).                                 *)
(***************************************************************************)
EXTENDS StringLexer, StringWriter

CONSTANT Texts   \* the strs that are written, in UTF-8

ASSUME TextsAssumption == \A s \in Texts : s \in Seq(Byte) /\ ValidUtf8(s)

VARIABLE source  \* the str that the input was written for, if any

NoSource == <<-1>>

Strict == INSTANCE StringGrammar WITH SignedEscapes <- FALSE
Lenient == INSTANCE StringGrammar WITH SignedEscapes <- TRUE

\* The reader finds what was written behind the opening quote.
SInit ==
  \/ Init /\ source = NoSource
  \/ /\ source \in Texts
     /\ input = Tail(StringToJson(source))
     /\ pos = 1 /\ phase = "scan" /\ buf = <<>> /\ result = Running

SSpec == SInit /\ [][Next /\ UNCHANGED source]_<<vars, source>>
----------------------------------------------------------------------------
\* A string is accepted exactly if it is one, whatever mixture of raw bytes,
\* escapes and surrogates it holds, with the value it denotes and the cursor
\* behind its closing quote.  A plus for the first digit of an escape counts
\* as one here (de.rs:617-745).
ReadsWhatIsWritten ==
  result # Running =>
    Lenient!Meanings(input) =
      IF result.tag = "Err" THEN {}
      ELSE {[end |-> pos - 1, units |-> Lenient!Utf16Of(Lenient!Characters(result.value))]}

\* The string written for a str is read back as the same str, and no byte of
\* it is left over (ser.rs:381-414 against de.rs:617-724).
ReadsBack ==
  source # NoSource /\ result # Running =>
    result = Ok(source) /\ pos = Len(input) + 1

\* What the documentation of Fragment says of the bytes it is given
\* (ser.rs:73-74): an error is thrown if they do not contain valid JSON.
OnlyJsonStrings ==
  result.tag = "Ok" => Strict!BodyUnits(SubSeq(input, 1, pos - 2)) # {}
=============================================================================
