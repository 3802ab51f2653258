----------------------------- MODULE PythonApi -----------------------------
(***************************************************************************)
(* The functions of the Python API (src/src/lib.rs) around the two loops:  *)
(* what dumps, dumpb or dump makes of the serializer's buffer is given to  *)
(* loads, loadb or load, which parse it.  No loop depends on the function  *)
(* that runs it, so which function was called is decided when the loop has *)
(* ended.                                                                  *)
(***************************************************************************)
EXTENDS Output

CONSTANTS
  Limits,       \* depth_limit values for loads, 0 for None
  WriteRaises,  \* whether the file's write may raise
  TornStrings,  \* what the end of a cut text may be: a string without its end,
  TornScalars   \* and the beginning of another token, which is no JSON either

VARIABLES
  returned,   \* what the dump function returned, or Running
  file,       \* the text in the file that dump writes to
  limit, pos, thunks, lastAny, finished,  \* the parser
  loaded      \* what the load function returned; NotCalled before

parserVars == <<limit, pos, thunks, lastAny, finished>>
apiVars == <<returned, file, parserVars, loaded>>

Str == [tag |-> "Str"]       \* the text as a str or as a bytes
Bytes == [tag |-> "Bytes"]

\* The text that a load function is given.
given == IF returned \in {Str, Bytes} THEN buffer ELSE file

\* The strings, and the literals and numbers, that a text may hold.
TextStrings == Keys \cup BadStrings \cup TornStrings
GoodScalars == (Scalars \ Fragments) \cup LongInts
TextScalars == GoodScalars \cup TornScalars

L == INSTANCE PyParser WITH
  input <- given, stack <- thunks, last <- lastAny, result <- loaded,
  Strings <- TextStrings, NotUtf8 <- BadStrings, Scalars <- TextScalars,
  LexErrors <- TornStrings \cup TornScalars, Infinite <- {}, TooManyDigits <- LongInts,
  Others <- {}, Inputs <- {<<>>}, Hook <- FALSE, Raises <- FALSE

\* Fragments aside, every token begins one thing, as in Parser.
ASSUME LoadsAssumption ==
  /\ Limits \subseteq Nat
  /\ L!Eof \notin L!Tokens
  /\ L!Punctuation \cap (TextStrings \cup TextScalars) = {}
  /\ L!WS \notin TextStrings \cup TextScalars
  /\ TextStrings \cap TextScalars = {}
  /\ TornStrings \cap (Keys \cup BadStrings) = {}
  /\ TornScalars \cap GoodScalars = {}

NotCalled == [tag |-> "NotCalled"]
None == [tag |-> "None"]
----------------------------------------------------------------------------
\* The serializer's loop has ended, and the process goes on.
Ended == returned = Running /\ result.tag \in {"Ok", "Err"}

IsUtf8(s) == \A i \in DOMAIN s : s[i] \notin BadStrings

\* PyString::from_bytes of the whole buffer.
Decoded ==
  IF result.tag = "Err" THEN result
  ELSE IF IsUtf8(buffer) THEN Str
  ELSE Err("UnicodeDecodeError")

CallDumps ==
  /\ Ended
  /\ returned' = Decoded
  /\ UNCHANGED <<vars, file, parserVars, loaded>>

CallDumpb ==
  /\ Ended
  /\ returned' = IF result.tag = "Err" THEN result ELSE Bytes
  /\ UNCHANGED <<vars, file, parserVars, loaded>>

\* What is left of t, the last token of a text that is cut: a string lacks its
\* closing quote, and a number may be a shorter number.
CutShort(t) ==
  IF t \in Keys THEN TornStrings
  ELSE IF t \in GoodScalars THEN TornStrings \cup TextScalars
  ELSE {}

\* The beginnings of the text s.
Beginnings(s) ==
  {SubSeq(s, 1, n) : n \in 0 .. Len(s)}
  \cup UNION {{Append(SubSeq(s, 1, n - 1), c) : c \in CutShort(s[n])} : n \in 1 .. Len(s)}

\* A dump that takes no notice of a write that raises.
CallDumpUnheeding ==
  /\ Ended
  /\ \/ Decoded # Str /\ returned' = Decoded /\ UNCHANGED file
     \/ Decoded = Str /\ ~WriteRaises /\ returned' = None /\ file' = buffer
     \/ Decoded = Str /\ WriteRaises /\ returned' = None /\ file' \in Beginnings(buffer)
  /\ UNCHANGED <<vars, parserVars, loaded>>

\* dumps, then one call of file.write, which may raise when it has written no
\* more than some beginning of the text.
CallDump ==
  /\ Ended
  /\ \/ Decoded # Str /\ returned' = Decoded /\ UNCHANGED file
     \/ Decoded = Str /\ returned' = None /\ file' = buffer
     \/ /\ Decoded = Str /\ WriteRaises
        /\ returned' = Err("WriteError")
        /\ file' \in Beginnings(buffer)
  /\ UNCHANGED <<vars, parserVars, loaded>>
----------------------------------------------------------------------------
\* parse_json is entered with the bytes of a str or a bytes.  PyString::to_str
\* fails only for lone surrogates, which no str decoded from UTF-8 holds.
EnterParser ==
  /\ limit' \in Limits
  /\ pos' = L!SkipWs(1)
  /\ lastAny' = L!Thunk(L!DoneFrame)
  /\ loaded' = L!Running
  /\ UNCHANGED <<vars, returned, file, thunks, finished>>

LoadFails(e) ==
  /\ loaded' = Err(e)
  /\ UNCHANGED <<vars, returned, file, parserVars>>

\* loads and loadb, given the text or a bytearray of it.
CallLoads ==
  /\ returned \in {Str, Bytes} /\ loaded = NotCalled
  /\ EnterParser \/ LoadFails("TypeError")

\* load reads the file, whatever became of the dump; read may raise, or return
\* something that is neither str nor bytes.
CallLoad ==
  /\ returned = None \/ returned.tag = "Err"
  /\ loaded = NotCalled
  /\ EnterParser \/ LoadFails("ReadError") \/ LoadFails("TypeError")

Dump ==
  /\ Iterate
  /\ UNCHANGED apiVars

Load ==
  /\ loaded # NotCalled
  /\ UNCHANGED <<vars, returned, file>>
  /\ L!Iterate

Over ==
  /\ \/ result \in {Aborted, Killed}
     \/ returned.tag = "Err"
     \/ loaded \notin {NotCalled, L!Running}
  /\ UNCHANGED <<vars, apiVars>>

RInit ==
  /\ Init
  /\ returned = Running
  /\ file = <<>>
  /\ limit = 0 /\ pos = 1 /\ thunks = <<>> /\ lastAny = NotCalled /\ finished = <<>>
  /\ loaded = NotCalled

RNext ==
  Dump \/ CallDumps \/ CallDumpb \/ CallDump \/ CallLoads \/ CallLoad \/ Load \/ Over

RSpec == RInit /\ [][RNext]_<<vars, apiVars>>
----------------------------------------------------------------------------
\* What the dump functions deliver the load functions read: whatever the hook
\* did to the graph meanwhile, the text has one value, which they return, or
\* they refuse it because it nests deeper than depth_limit.  Three things can
\* make them fail otherwise: a Fragment that nobody validated, an int in a
\* Fragment that has too many digits for Python, and a file whose read raises or
\* returns no text, about which nothing is said (lib.rs:48-57 and 172,
\* de.rs:271-277 and 852-902, ser.rs:543-584).
DeliveredIsRead ==
  LET text == Grammar!NoSpace(buffer)
      tooDeep == limit # 0 /\ Grammar!Nesting(text) > limit
  IN
  /\ returned \in {Str, Bytes, None}
  /\ loaded.tag \in {"Ok", "Err"} /\ loaded \notin {Err("TypeError"), Err("ReadError")}
  => \/ HoldsUnvalidated
     \/ loaded = Err("DepthLimitExceeded") /\ tooDeep
     \/ loaded = Err("Custom") /\ Grammar!HoldsLongInt(buffer)
     \/ loaded.tag = "Ok" /\ ~tooDeep /\ Grammar!Values(text) = {loaded.value}

\* What a dump that failed leaves in its file is not mistaken for a document:
\* wherever the write stopped, load refuses the file, unless nothing but
\* whitespace is missing, or the text is a bare scalar, of which the beginning
\* may be another.  Only Fragments nobody validated are no part of this, and
\* only they keep the text from being a str (lib.rs:172 and 285-287, ser.rs:245,
\* de.rs:852-902).
FailedDumpIsRefused ==
  LET text == Grammar!NoSpace(buffer) IN
  \/ HoldsUnvalidated
  \/ /\ returned # Err("UnicodeDecodeError")
     /\ returned.tag = "Err" /\ loaded.tag = "Ok" =>
          Len(text) = 1 \/ Grammar!Values(text) = {loaded.value}
============================================================================
