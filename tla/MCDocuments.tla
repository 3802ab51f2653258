---------------------------- MODULE MCDocuments ----------------------------
(***************************************************************************)
(* Tokens and documents for the runs of the parser.  A document is one of: *)
(*   - every sequence of at most ShortLength tokens, JSON or not;          *)
(*   - every JSON text of at most TextLength tokens, as it is and with two *)
(*     bytes of whitespace around each token;                              *)
(*   - every text that one inserted, deleted or replaced token makes of a  *)
(*     JSON text of at most EditLength tokens.                             *)
(* Tokens are the ones that a byte string can hold side by side: a number  *)
(* after a number stands for one that begins with a minus sign.            *)
(***************************************************************************)
LOCAL INSTANCE Integers
LOCAL INSTANCE Sequences
LOCAL INSTANCE SequencesExt

CONSTANTS ShortLength, EditLength, TextLength

MCGoodStrings == {"s", "t"}
MCStrings == MCGoodStrings \cup {"s-utf8", "s-escape"}
MCLongInts == {"10^9999"}
MCGoodScalars == {"1"} \cup MCLongInts
MCScalars == MCGoodScalars \cup {"1e999", "nul"}
MCOthers == {"?"}
MCNotUtf8 == {"s-utf8"}
MCInfinite == {"1e999"}
MCLexErrors == {"s-escape", "nul"}
MCTokens == {"[", "]", "lbrace", "rbrace", ":", "comma", "ws"} \cup MCStrings \cup MCScalars \cup MCOthers

\* JSON values of exactly n tokens; list items and dict items of n tokens.
RECURSIVE Texts(_), ItemTexts(_), PairTexts(_)
Texts(n) ==
  IF n <= 0 THEN {}
  ELSE IF n = 1 THEN {<<"1">>, <<"s">>}
  ELSE {<<"[">> \o s \o <<"]">> : s \in ItemTexts(n - 2)}
       \cup {<<"lbrace">> \o s \o <<"rbrace">> : s \in PairTexts(n - 2)}
ItemTexts(n) ==
  IF n = 0 THEN {<<>>}
  ELSE Texts(n) \cup
       UNION {{v \o <<"comma">> \o s : v \in Texts(k), s \in ItemTexts(n - 1 - k)} : k \in 1 .. n - 2}
PairTexts(n) ==
  LET pairs(k) == {<<key, ":">> \o v : key \in MCGoodStrings, v \in Texts(k - 2)} IN
  IF n = 0 THEN {<<>>}
  ELSE pairs(n) \cup
       UNION {{p \o <<"comma">> \o s : p \in pairs(k), s \in PairTexts(n - 1 - k)} : k \in 3 .. n - 4}

Spaced(s) ==
  [i \in 1 .. 3 * Len(s) + 2 |-> IF i % 3 = 0 THEN s[i \div 3] ELSE "ws"]

Edits(s) ==
  {InsertAt(s, i, t) : i \in 1 .. Len(s) + 1, t \in MCTokens}
  \cup {RemoveAt(s, i) : i \in 1 .. Len(s)}
  \cup {ReplaceAt(s, i, t) : i \in 1 .. Len(s), t \in MCTokens}

ShortInputs == SeqOf(MCTokens, ShortLength)
ValidInputs == UNION {Texts(n) : n \in 1 .. TextLength}
MCInputs ==
  ShortInputs \cup ValidInputs
  \cup {Spaced(s) : s \in ValidInputs}
  \cup UNION {Edits(s) : s \in UNION {Texts(n) : n \in 1 .. EditLength}}
=============================================================================
