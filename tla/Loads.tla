------------------------------- MODULE Loads -------------------------------
(***************************************************************************)
(* loads: the parser over PyDeserialization, compared with the grammar.    *)
(***************************************************************************)
EXTENDS Reading, SequencesExt

Contract == INSTANCE LoadContract WITH calls <- finished

\* loads keeps its contract: the value is the one the grammar gives the text,
\* a repeated key takes its last value, the hook is called once for each
\* object, inner objects first, and sees the hooked ones; a text is refused
\* when it is not JSON or is nested deeper than depth_limit, and otherwise
\* only when Python or the hook raises (de.rs:852-930).
KeepsContract == Contract!Spec

(***************************************************************************)
(* Whether s begins some document: it does if one of four endings, and     *)
(* then the brackets it left open, complete it.                            *)
(***************************************************************************)
RECURSIVE Closing(_)
Closing(s) ==
  IF s = <<>> THEN <<>>
  ELSE LET rest == Closing(Front(s)) IN
       CASE Last(s) = "[" -> <<"]">> \o rest
         [] Last(s) = "lbrace" -> <<"rbrace">> \o rest
         [] Last(s) \in {"]", "rbrace"} -> IF rest = <<>> THEN rest ELSE Tail(rest)
         [] OTHER -> rest

Endings ==
  LET k == CHOOSE t \in GoodStrings : TRUE
      v == CHOOSE t \in GoodScalars : TRUE
  IN {<<>>, <<v>>, <<":", v>>, <<k, ":", v>>}

Viable(s) ==
  LET text == NoSpace(s) IN
  \E e \in Endings : Values(text \o e \o Closing(text)) # {}

\* An error is raised at the first token that no document could continue with
\* or at the one after it, as a function has read or only peeked at it:
\* everything before the token read last begins some document, and what ends
\* with the token at the cursor, if there is one, does not (the position that
\* de.rs:869 reports).
EarliestError ==
  result.tag = "Err" /\ result.err \notin {"Custom", "DepthLimitExceeded"} =>
    /\ Viable(SubSeq(input, 1, pos - 2))
    /\ result.err = "Eof" => Viable(input)
    /\ pos <= Len(input) => ~Viable(SubSeq(input, 1, pos))
============================================================================
