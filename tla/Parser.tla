------------------------------- MODULE Parser -------------------------------
(***************************************************************************)
(* The deserializer's loop (src/src/de.rs): parse_json_with runs thunks    *)
(* from a heap-allocated stack, so that a deep document cannot overflow    *)
(* the call stack.  One action is one iteration of the loop.               *)
(*                                                                         *)
(* The module is generic over the Deserialization trait, as the code is:   *)
(* the associated types and the methods are constants, and a method that   *)
(* returns a Result is the set of the results it may return.               *)
(*                                                                         *)
(* The input is a sequence of tokens.  A string, a literal or a number is  *)
(* one token, read whole by ParseStr or ParseScalar, and fails or succeeds *)
(* there; whitespace is one token per byte.                                *)
(***************************************************************************)
EXTENDS Integers, Sequences, FiniteSets

CONSTANTS
  Inputs,          \* the documents a call may be given
  Limits,          \* the depth_limit values a call may be given
  Strings,         \* tokens that begin with a quote
  Scalars,         \* tokens that begin a literal or a number
  Others           \* tokens that begin no JSON value

CONSTANTS
  Any, String, BuildingList, Map,   \* associated types of Deserialization
  EmptyList,                        \* create_list
  ExtendList(_, _),                 \* extend_list
  FinishList(_),                    \* finish_list
  EmptyMap,                         \* create_map
  ExtendMap(_, _, _),               \* extend_map
  FinishMap(_),                     \* finish_map
  ParseStr(_),                      \* parse_str, with create_string
  ParseScalar(_)                    \* literals and parse_number, with
                                    \* create_null, create_bool, create_number

VARIABLES
  input,     \* the document
  limit,     \* depth_limit, NoLimit for None
  pos,       \* the cursor: index of the first token not yet consumed
  stack,     \* the thunks waiting for a value
  last,      \* last_any: the ThunkResult of the previous iteration
  finished,  \* the maps handed to finish_map so far, in order
  result     \* what the call returned, or Running

vars == <<input, limit, pos, stack, last, finished, result>>

NoLimit == 0
WS == "ws"
Eof == "eof"
\* The braces and the comma are written out as words.
Punctuation == {"[", "]", "lbrace", "rbrace", ":", "comma"}
Tokens == Punctuation \cup {WS} \cup Strings \cup Scalars \cup Others

\* What a function of the parser may fail with, Lex standing for the errors of
\* parse_str, parse_number and the literals; the loop adds DepthLimitExceeded.
ParseErrors == {"Eof", "ExpectedEof", "ExpectedListItem", "ExpectedMapItem",
                "ExpectedAny", "InvalidNumber", "InvalidUtf8", "Lex", "Custom"}

Ok(v) == [tag |-> "Ok", value |-> v]
Err(e) == [tag |-> "Err", err |-> e]
Thunk(f) == [tag |-> "Thunk", op |-> f]
Running == [tag |-> "Running"]

ListFrame(l) == [op |-> "ParsingList", list |-> l]
MapFrame(m, k) == [op |-> "ParsingMap", dict |-> m, key |-> k]
DoneFrame == [op |-> "Done"]

Failures == [tag : {"Err"}, err : ParseErrors]
Returns(T) == [tag : {"Ok"}, value : T] \cup Failures
Containers == [op : {"ParsingList"}, list : BuildingList]
              \cup [op : {"ParsingMap"}, dict : Map, key : String]
Frames == Containers \cup {DoneFrame}

(***************************************************************************)
(* Which token begins what is decided by its first byte.                   *)
(***************************************************************************)
ASSUME TokensAssumption ==
  /\ Inputs \subseteq Seq(Tokens)
  /\ Limits \subseteq Nat
  /\ Eof \notin Tokens
  /\ Punctuation \cap (Strings \cup Scalars \cup Others) = {}
  /\ WS \notin Strings \cup Scalars \cup Others
  /\ Strings \cap Scalars = {}
  /\ Others \cap (Strings \cup Scalars) = {}

(***************************************************************************)
(* The signatures of the trait (String: Into<Any> is an inclusion here).   *)
(***************************************************************************)
ASSUME DeserializationAssumption ==
  /\ String \subseteq Any
  /\ EmptyList \in BuildingList
  /\ EmptyMap \in Map
  /\ \A l \in BuildingList, v \in Any : ExtendList(l, v) \in BuildingList
  /\ \A l \in BuildingList : FinishList(l) \subseteq Returns(Any)
  /\ \A m \in Map, k \in String, v \in Any : ExtendMap(m, k, v) \subseteq Returns(Map)
  /\ \A m \in Map : FinishMap(m) \subseteq Returns(Any)
  /\ \A t \in Strings : ParseStr(t) \subseteq Returns(String)
  /\ \A t \in Scalars : ParseScalar(t) \subseteq Returns(Any)
----------------------------------------------------------------------------
(***************************************************************************)
(* The cursor.                                                             *)
(***************************************************************************)
Peek(p) == IF p <= Len(input) THEN input[p] ELSE Eof

\* The first position at or after p that holds no whitespace.
SkipWs(p) ==
  CHOOSE q \in p .. Len(input) + 1 :
    /\ Peek(q) # WS
    /\ \A i \in p .. q - 1 : input[i] = WS

\* The iteration leaves the cursor at p and r in last_any.
Yield(p, r) ==
  /\ pos' = p
  /\ last' = r
  /\ UNCHANGED finished

FinishListAt(p, l) ==
  /\ pos' = p
  /\ last' \in FinishList(l)
  /\ UNCHANGED finished

\* A finish_map whose result is dropped in favour of the map it was given.
FinishMapDroppingHook(p, m) ==
  /\ pos' = p
  /\ FinishMap(m) # {}
  /\ last' = Ok(m)
  /\ UNCHANGED finished

FinishMapAt(p, m) ==
  /\ pos' = p
  /\ last' \in FinishMap(m)
  /\ finished' = Append(finished, m)

Top == stack[Len(stack)]
Pop == SubSeq(stack, 1, Len(stack) - 1)
----------------------------------------------------------------------------
\* Skipping the byte without verifying that there is one.
ParseListSkipping(p) ==
  LET q == SkipWs(p) IN
  \/ Peek(q) = Eof /\ Yield(q + 1, Err("Eof"))
  \/ Peek(q) = "]" /\ FinishListAt(q + 1, EmptyList)
  \/ Peek(q) \notin {Eof, "]"} /\ Yield(q, Thunk(ListFrame(EmptyList)))

\* Taking "[" for an empty list whatever follows.
ParseListEmpty(p) == FinishListAt(p, EmptyList)

\* b is past the "[" that began the list.
ParseList(p) ==
  LET q == SkipWs(p) IN
  \/ Peek(q) = Eof /\ Yield(q, Err("Eof"))
  \/ Peek(q) = "]" /\ FinishListAt(q + 1, EmptyList)
  \/ Peek(q) \notin {Eof, "]"} /\ Yield(q, Thunk(ListFrame(EmptyList)))

\* The key at p, the colon after it and the whitespace around them.
ParseKey(p, m) ==
  \E r \in ParseStr(input[p]) :
    LET c == SkipWs(p + 1) IN
    \/ r.tag = "Err" /\ Yield(p + 1, r)
    \/ r.tag = "Ok" /\ Peek(c) # ":" /\ Yield(c, Err("ExpectedMapItem"))
    \/ /\ r.tag = "Ok"
       /\ Peek(c) = ":"
       /\ Yield(SkipWs(c + 1), Thunk(MapFrame(m, r.value)))

\* b is past the brace that began the map.
ParseMap(p) ==
  LET q == SkipWs(p) IN
  \/ Peek(q) = Eof /\ Yield(q, Err("Eof"))
  \/ Peek(q) = "rbrace" /\ FinishMapAt(q + 1, EmptyMap)
  \/ Peek(q) \in Strings /\ ParseKey(q, EmptyMap)
  \/ Peek(q) \notin {Eof, "rbrace"} \cup Strings /\ Yield(q + 1, Err("ExpectedMapItem"))
----------------------------------------------------------------------------
\* The comparison before 0.2.5, off by one.
DepthExceededOffByOne(s) == limit # NoLimit /\ Len(s) >= limit

DepthExceeded(s) == limit # NoLimit /\ Len(s) > limit

\* last_any is a thunk: it is pushed before anything else happens.
Push ==
  /\ result = Running
  /\ last.tag = "Thunk"
  /\ stack' = Append(stack, last.op)

TooDeep ==
  /\ Push
  /\ DepthExceeded(stack')
  /\ result' = Err("DepthLimitExceeded")
  /\ UNCHANGED <<input, limit, pos, last, finished>>

ParseAny ==
  /\ Push
  /\ ~DepthExceeded(stack')
  /\ \/ Peek(pos) = Eof /\ Yield(pos, Err("Eof"))
     \/ Peek(pos) \in Scalars /\ \E r \in ParseScalar(input[pos]) : Yield(pos + 1, r)
     \/ Peek(pos) \in Strings /\ \E r \in ParseStr(input[pos]) : Yield(pos + 1, r)
     \/ Peek(pos) = "[" /\ ParseList(pos + 1)
     \/ Peek(pos) = "lbrace" /\ ParseMap(pos + 1)
     \/ /\ Peek(pos) \notin {Eof, "[", "lbrace"} \cup Scalars \cup Strings
        /\ Yield(pos, Err("ExpectedAny"))
  /\ UNCHANGED <<input, limit, result>>

\* last_any is a value: the newest thunk is popped and resumed with it.
Resume(op) ==
  /\ result = Running
  /\ last.tag = "Ok"
  /\ stack # <<>>
  /\ Top.op = op
  /\ stack' = Pop
  /\ UNCHANGED <<input, limit>>

\* Resuming a list without consuming the comma.
ContinueListRereading ==
  /\ Resume("ParsingList")
  /\ UNCHANGED result
  /\ LET l == ExtendList(Top.list, last.value)
         q == SkipWs(pos)
     IN \/ Peek(q) = "]" /\ FinishListAt(q + 1, l)
        \/ Peek(q) # "]" /\ Yield(q, Thunk(ListFrame(l)))

\* A comma between items that may be left out.
ContinueListNoComma ==
  /\ Resume("ParsingList")
  /\ UNCHANGED result
  /\ LET l == ExtendList(Top.list, last.value)
         q == SkipWs(pos)
     IN \/ Peek(q) = Eof /\ Yield(q, Err("Eof"))
        \/ Peek(q) = "]" /\ FinishListAt(q + 1, l)
        \/ Peek(q) = "comma" /\ Yield(SkipWs(q + 1), Thunk(ListFrame(l)))
        \/ Peek(q) \notin {Eof, "]", "comma"} /\ Yield(q, Thunk(ListFrame(l)))

\* The end of the document closes a list, too.
ContinueListAtEof ==
  /\ Resume("ParsingList")
  /\ UNCHANGED result
  /\ LET l == ExtendList(Top.list, last.value)
         q == SkipWs(pos)
     IN \/ Peek(q) = Eof /\ FinishListAt(q, l)
        \/ Peek(q) = "]" /\ FinishListAt(q + 1, l)
        \/ Peek(q) = "comma" /\ Yield(SkipWs(q + 1), Thunk(ListFrame(l)))
        \/ Peek(q) \notin {Eof, "]", "comma"} /\ Yield(q + 1, Err("ExpectedListItem"))

ContinueList ==
  /\ Resume("ParsingList")
  /\ UNCHANGED result
  /\ LET l == ExtendList(Top.list, last.value)
         q == SkipWs(pos)
     IN \/ Peek(q) = Eof /\ Yield(q, Err("Eof"))
        \/ Peek(q) = "]" /\ FinishListAt(q + 1, l)
        \/ Peek(q) = "comma" /\ Yield(SkipWs(q + 1), Thunk(ListFrame(l)))
        \/ Peek(q) \notin {Eof, "]", "comma"} /\ Yield(q + 1, Err("ExpectedListItem"))

ContinueMap ==
  /\ Resume("ParsingMap")
  /\ UNCHANGED result
  /\ \E r \in ExtendMap(Top.dict, Top.key, last.value) :
       LET q == SkipWs(pos)
           k == SkipWs(q + 1)
       IN \/ r.tag = "Err" /\ Yield(pos, r)
          \/ /\ r.tag = "Ok"
             /\ \/ Peek(q) = Eof /\ Yield(q, Err("Eof"))
                \/ Peek(q) = "rbrace" /\ FinishMapAt(q + 1, r.value)
                \/ Peek(q) = "comma" /\ Peek(k) \in Strings /\ ParseKey(k, r.value)
                \/ /\ Peek(q) = "comma" /\ Peek(k) \notin Strings
                   /\ Yield(k, Err("ExpectedMapItem"))
                \/ /\ Peek(q) \notin {Eof, "rbrace", "comma"}
                   /\ Yield(q + 1, Err("ExpectedMapItem"))

\* The value of the whole document: only whitespace may follow it.
Finish ==
  /\ Resume("Done")
  /\ pos' = SkipWs(pos)
  /\ \/ Peek(pos') = Eof /\ result' = Ok(last.value)
     \/ Peek(pos') # Eof /\ result' = Err("ExpectedEof")
  /\ UNCHANGED <<last, finished>>

\* An error that is passed on to the next iteration.
FailLooping == result = Running /\ last.tag = "Err" /\ UNCHANGED vars

Fail ==
  /\ result = Running
  /\ last.tag = "Err"
  /\ result' = last
  /\ UNCHANGED <<input, limit, pos, stack, last, finished>>

Returned == result # Running /\ UNCHANGED vars

Init ==
  /\ input \in Inputs
  /\ limit \in Limits
  /\ pos = SkipWs(1)
  /\ stack = <<>>
  /\ last = Thunk(DoneFrame)
  /\ finished = <<>>
  /\ result = Running

Iterate == TooDeep \/ ParseAny \/ ContinueList \/ ContinueMap \/ Finish \/ Fail

Next == Iterate \/ Returned

Spec == Init /\ [][Next]_vars

\* The calling thread runs the loop until it returns.
FairSpec == Spec /\ WF_vars(Iterate)
----------------------------------------------------------------------------
(***************************************************************************)
(* Properties.                                                             *)
(***************************************************************************)
\* The shape of the state; Done lies at the bottom of the stack and only
\* there, and a value always finds a thunk to resume, so stack.pop().unwrap()
\* (de.rs:882) never panics.
TypeOK ==
  /\ input \in Seq(Tokens)
  /\ limit \in Limits
  /\ pos \in 1 .. Len(input) + 1
  /\ stack \in Seq(Frames)
  /\ last \in [tag : {"Ok"}, value : Any] \cup Failures \cup [tag : {"Thunk"}, op : Frames]
  /\ finished \in Seq(Map)
  /\ result \in {Running, Err("DepthLimitExceeded")} \cup Returns(Any)
  /\ \A i \in 1 .. Len(stack) : stack[i].op = "Done" <=> i = 1
  /\ result = Running /\ last.tag = "Thunk" => (last.op.op = "Done" <=> stack = <<>>)
  /\ result = Running /\ last.tag = "Ok" => stack # <<>>

\* How many brackets of the first n tokens are still open.
Unclosed(n) ==
  Cardinality({i \in 1 .. n : input[i] \in {"[", "lbrace"}})
  - Cardinality({i \in 1 .. n : input[i] \in {"]", "rbrace"}})

\* The thunks that wait are the brackets the consumed input has not closed,
\* however it is nested: none is lost, none survives its bracket.  A document
\* that is accepted has as many closing brackets as opening ones (de.rs:866-901).
StackMirrorsBrackets ==
  /\ result = Running /\ last.tag = "Thunk" => Unclosed(pos - 1) = Len(stack)
  /\ result = Running /\ last.tag = "Ok" => Unclosed(pos - 1) = Len(stack) - 1
  /\ result.tag = "Ok" => Unclosed(Len(input)) = 0

\* depth_limit counts the nesting exactly: a value is produced only inside
\* fewer than limit unclosed brackets, and DepthLimitExceeded is raised only
\* when a value is about to begin inside limit of them (de.rs:875; the limit
\* was off by one between 0.2.3 and 0.2.5).
DepthLimitExact ==
  limit # NoLimit =>
    /\ result = Running /\ last.tag = "Ok" => Unclosed(pos - 1) < limit
    /\ result = Err("DepthLimitExceeded") => Unclosed(pos - 1) = limit

\* Every iteration of the loop consumes input or decides the call, and the
\* cursor never moves back: a call takes at most two iterations more than the
\* document has bytes (de.rs:866-894).
Progress ==
  [][/\ pos' >= pos
     /\ pos' = pos => (result' # Running \/ last'.tag = "Err")]_vars

\* A call returns.
Termination == <>(result # Running)
============================================================================
