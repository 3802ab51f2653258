---------------------------- MODULE LoadContract ----------------------------
(***************************************************************************)
(* What loads promises, without a parser: the docstring of loads           *)
(* (src/src/lib.rs) and of parse_json (src/src/de.rs), made precise by the *)
(* grammar of JsonGrammar.                                                 *)
(***************************************************************************)
EXTENDS JsonGrammar, SequencesExt

CONSTANT Tokens

VARIABLES
  input,   \* the document
  limit,   \* depth_limit, 0 for None
  calls,   \* the dicts completed so far: the arguments of object_hook
  result   \* what loads returned

LOCAL vars == <<input, limit, calls, result>>
Running == [tag |-> "Running"]

\* The text of the object that the closing brace at c closes.
ObjectEndingAt(s, c) ==
  LET opens == {i \in 1 .. c - 1 : Open(SubSeq(s, i, c)) = 0} IN
  IF opens = {} THEN <<>> ELSE SubSeq(s, Max(opens), c)

\* v with the dicts that a hook replaced put back.
RECURSIVE Unhooked(_)
Unhooked(v) ==
  IF v.type = "hooked" THEN Unhooked(v.items[1])
  ELSE [v EXCEPT !.items = [i \in DOMAIN v.items |-> Unhooked(v.items[i])]]

\* The arguments of the hook calls whose results v holds.
RECURSIVE HookArguments(_)
HookArguments(v) ==
  (IF v.type = "hooked" THEN {v.items[1]} ELSE {})
  \cup UNION {HookArguments(v.items[i]) : i \in DOMAIN v.items}

\* A value built from text, in which a hook has replaced only dicts that it
\* was called with.
Denotes(v, text) ==
  /\ Unhooked(v) \in Values(NoSpace(text))
  /\ HookArguments(v) \subseteq Range(calls)

ObjectEnds == SelectSeq([i \in DOMAIN input |-> i], LAMBDA i : input[i] = "rbrace")

Init ==
  /\ input \in Seq(Tokens)
  /\ limit \in Nat
  /\ calls = <<>>
  /\ result = Running

\* The n-th dict completed is the one whose closing brace is the n-th: an
\* inner object is complete, and has been through the hook, before the object
\* around it is.
CompleteDict ==
  /\ result = Running
  /\ Len(calls) < Len(ObjectEnds)
  /\ Len(calls') = Len(calls) + 1 /\ IsPrefix(calls, calls')
  /\ Denotes(Last(calls'), ObjectEndingAt(input, ObjectEnds[Len(calls) + 1]))
  /\ UNCHANGED <<input, limit, result>>

IsJson == Values(NoSpace(input)) # {}
TooDeep == limit # 0 /\ Nesting(NoSpace(input)) > limit

OpensTooMany ==
  limit # 0 /\ \E i \in DOMAIN input : Open(SubSeq(input, 1, i)) >= limit

Accept ==
  /\ result'.tag = "Ok"
  /\ ~TooDeep
  /\ ~HoldsLongInt(input)
  /\ Len(calls) = Len(ObjectEnds)
  /\ Denotes(result'.value, input)

\* A text that is JSON and not too deep is refused only by a hook or a Python
\* that raises, as Python does for an int of too many digits; one that is JSON
\* and too deep is refused for its depth, if it holds no such int.
Refuse ==
  /\ result'.tag = "Err"
  /\ \/ result'.err = "Custom" /\ (Raises \/ HoldsLongInt(input) \/ ~IsJson)
     \/ result'.err = "DepthLimitExceeded" /\ IsJson /\ TooDeep
     \/ result'.err = "DepthLimitExceeded" /\ ~IsJson /\ OpensTooMany
     \/ result'.err \notin {"Custom", "DepthLimitExceeded"} /\ ~IsJson

Return ==
  /\ result = Running
  /\ Accept \/ Refuse
  /\ UNCHANGED <<input, limit, calls>>

Spec == Init /\ [][CompleteDict \/ Return]_vars /\ <>(result # Running)
============================================================================
