------------------------------- MODULE Reading -------------------------------
(***************************************************************************)
(* What loads makes of a text, compared with the grammar at the moment the *)
(* call returns.                                                           *)
(***************************************************************************)
EXTENDS PyParser, JsonGrammar

\* The grammar's strings and scalars are those that the lexers and create_number
\* accept; an int that has too many digits for Python is JSON.
ASSUME GoodTokensAssumption ==
  /\ GoodStrings = Strings \ (LexErrors \cup NotUtf8)
  /\ GoodScalars = Scalars \ (LexErrors \cup Infinite)

\* loads accepts JSON and nothing else: an accepted text has one value, which
\* without a hook is the value returned, repeated keys and all; and a text is
\* refused for anything but its depth only when it is not JSON, holds an int too
\* long for Python, or Python or the hook raises (de.rs:271-277 and 852-902).
ReadsJson ==
  LET values == Values(NoSpace(input)) IN
  /\ result.tag = "Ok" => \E v \in values : values = {v} /\ (Hook \/ v = result.value)
  /\ result.tag = "Err" /\ result # Err("DepthLimitExceeded") =>
       \/ result = Err("Custom") /\ (Raises \/ HoldsLongInt(input))
       \/ values = {}

\* depth_limit is a bound on the nesting of the whole text: what is accepted
\* nests no deeper, and JSON is refused for its depth only if it nests deeper,
\* wherever in the text that is (de.rs:875; the limit was off by one between
\* 0.2.3 and 0.2.5).
DepthIsNesting ==
  LET text == NoSpace(input) IN
  /\ result.tag = "Ok" => limit = NoLimit \/ Nesting(text) <= limit
  /\ result = Err("DepthLimitExceeded") =>
       limit # NoLimit /\ (Nesting(text) > limit \/ Values(text) = {})
==============================================================================
