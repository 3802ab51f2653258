----------------------------- MODULE Serializer -----------------------------
(***************************************************************************)
(* The serializer's loop (src/src/ser.rs): into_json runs thunks from a    *)
(* heap-allocated stack over a graph of Python objects, which the object   *)
(* hook may change while it is being written.  One action is one iteration *)
(* of the loop.                                                            *)
(*                                                                         *)
(* A value is the address of an object of the heap, or a scalar.  An       *)
(* object is a record of its type and its items: values for a list or a    *)
(* tuple, key-value pairs or holes for a dict.  A scalar or a key that can *)
(* be written is written as one token, which is named like it; a Fragment  *)
(* is a scalar that is written as the tokens it was made of.               *)
(***************************************************************************)
EXTENDS Integers, Sequences, FiniteSets

CONSTANTS
  Addresses,   \* where objects may be
  Heaps,       \* the object graphs a call may be given
  Roots,       \* the values a call may be given
  Scalars,     \* None, bools, strings, ints, floats and fragments it can write
  BadScalars,  \* strings, ints and floats it cannot write
  Fragments,   \* the Fragments among the scalars
  Text,        \* the tokens of each of them
  Keys,        \* dict keys it can write
  BadKeys,     \* dict keys it cannot write
  HookEffects(_, _, _),  \* heap, objects in use, argument: the heaps and
                         \* values with which a call of the hook may return
  MaxStack     \* how many thunks the memory of the process holds

VARIABLES
  heap,          \* the object at each address
  root,          \* the value given
  hook,          \* whether there is an object_hook
  check,         \* check_circular: whether there is an object_stack
  buffer,        \* the tokens written so far
  embedded,      \* the Fragments among what was written, which no step reads
  objectStack,   \* state.object_stack
  stack,         \* the continuations waiting until their item is written
  last,          \* last_result
  result         \* what the call returned, or Running

vars == <<heap, root, hook, check, buffer, embedded, objectStack, stack, last, result>>

Ok == [tag |-> "Ok"]
Err(e) == [tag |-> "Err", err |-> e]
Thunk(v, c) == [tag |-> "Thunk", item |-> v, continuation |-> c]
Running == [tag |-> "Running"]
Aborted == [tag |-> "Aborted"]   \* a panic, which aborts the process
Killed == [tag |-> "Killed"]     \* out of memory: something kills the process

SequenceFrame(a, i, n) == [op |-> "SerializingSequence", object |-> a, index |-> i, length |-> n]
DictFrame(a, i, n, m) ==
  [op |-> "SerializingDict", object |-> a, index |-> i, used |-> n, remaining |-> m]
DoneFrame == [op |-> "Done"]

\* A deleted entry of a dict.
Hole == [key |-> "hole", value |-> "hole"]

Values == Addresses \cup Scalars \cup BadScalars
Entries == [key : Keys \cup BadKeys, value : Values] \cup {Hole}
Objects == [type : {"list", "tuple", "other"}, items : Seq(Values)]
           \cup [type : {"dict"}, items : Seq(Entries)]
Graphs == [Addresses -> Objects]

ASSUME GraphsAssumption ==
  /\ Heaps \subseteq Graphs
  /\ Roots \subseteq Values
  /\ Fragments \subseteq Scalars
  /\ Addresses \cap (Scalars \cup BadScalars) = {}
  /\ Scalars \cap BadScalars = {}
  /\ Keys \cap BadKeys = {}
  /\ "hole" \notin Keys \cup BadKeys

TypeIn(h, v) == IF v \in Addresses THEN h[v].type ELSE "scalar"
ItemsIn(h, f) == h[f.object].items
DictLen(items) == Cardinality({i \in DOMAIN items : items[i] # Hole})
----------------------------------------------------------------------------
(***************************************************************************)
(* The iterators of PyO3, over the objects as they are in heap h.  A list  *)
(* iterator ends at the length that the list had or has, whichever is      *)
(* less.  A dict iterator panics when the size of the dict has changed and *)
(* when it has yielded an entry too many.                                  *)
(***************************************************************************)
SequenceEnded(h, f) == f.index > f.length \/ f.index > Len(ItemsIn(h, f))

DictPanics(h, f) == f.used # DictLen(ItemsIn(h, f)) \/ f.remaining = -1
EntriesLeft(h, f) == {i \in f.index .. Len(ItemsIn(h, f)) : ItemsIn(h, f)[i] # Hole}
NextEntry(h, f) == CHOOSE i \in EntriesLeft(h, f) : \A j \in EntriesLeft(h, f) : i <= j

\* The objects that the iterators of s keep alive.
Owned(s) == {s[i].object : i \in {j \in DOMAIN s : s[j] # DoneFrame}}

\* How a call of the hook may end, whatever it does: an object in use stays
\* where it is and keeps its type.
HookResults(used, a) ==
  {e \in HookEffects(heap, used, a) :
     /\ e \in [heap : Graphs, value : Values, raises : BOOLEAN]
     /\ \A x \in used \cap Addresses : e.heap[x].type = heap[x].type}
----------------------------------------------------------------------------
\* A comparison with the innermost object only.
SeenInnermost(a) == check /\ objectStack # <<>> /\ objectStack[Len(objectStack)] = a

\* object_stack is None, here empty, without check_circular.
Seen(a) == check /\ \E i \in DOMAIN objectStack : objectStack[i] = a
PushObject(a) == IF check THEN Append(objectStack, a) ELSE objectStack
PopObject(s) == SubSeq(s, 1, Len(s) - 1)

\* The iteration leaves r in last_result, out in the buffer and s in
\* object_stack.
Yield(r, out, s) ==
  /\ last' = r
  /\ buffer' = out
  /\ objectStack' = s
  /\ UNCHANGED embedded

\* A close that leaves the object on object_stack.
CloseWithoutPop(out, s, bracket) == Yield(Ok, Append(out, bracket), s)

\* The iterator has ended.
Close(out, s, bracket) == Yield(Ok, Append(out, bracket), PopObject(s))

\* Writing goes on with the next item of f; comma is what precedes it.
NextOfSequence(h, f, out, s, comma) ==
  \/ SequenceEnded(h, f) /\ Close(out, s, "]")
  \/ /\ ~SequenceEnded(h, f)
     /\ Yield(Thunk(ItemsIn(h, f)[f.index], [f EXCEPT !.index = @ + 1]), out \o comma, s)

NextOfDict(h, f, out, s, comma) ==
  \/ EntriesLeft(h, f) = {} /\ Close(out, s, "rbrace")
  \/ /\ EntriesLeft(h, f) # {}
     /\ LET i == NextEntry(h, f)
            entry == ItemsIn(h, f)[i]
        IN \/ /\ entry.key \in Keys
              /\ Yield(Thunk(entry.value, DictFrame(f.object, i + 1, f.used, f.remaining - 1)),
                       out \o comma \o <<entry.key, ":">>, s)
           \/ entry.key \notin Keys /\ Yield(Err("ValueError"), out \o comma, s)

Written(v) == IF v \in Fragments THEN Text[v] ELSE <<v>>

WriteScalar(v) ==
  /\ last' = Ok
  /\ buffer' = buffer \o Written(v)
  /\ embedded' = embedded \cup ({v} \cap Fragments)
  /\ UNCHANGED objectStack

\* any_to_json_native: v is written, or the writing of its items begins.
WriteNative(h, v) ==
  \/ v \in Scalars /\ WriteScalar(v)
  \/ /\ TypeIn(h, v) \in {"list", "tuple", "dict"} /\ Seen(v)
     /\ Yield(Err("cycle detected"), buffer, objectStack)
  \/ /\ TypeIn(h, v) \in {"list", "tuple"} /\ ~Seen(v)
     /\ NextOfSequence(h, SequenceFrame(v, 1, Len(h[v].items)),
                       Append(buffer, "["), PushObject(v), <<>>)
  \/ /\ TypeIn(h, v) = "dict" /\ ~Seen(v)
     /\ LET n == DictLen(h[v].items) IN
        NextOfDict(h, DictFrame(v, 1, n, n), Append(buffer, "lbrace"), PushObject(v), <<>>)
  \/ /\ v \notin Scalars /\ TypeIn(h, v) = "scalar"
     /\ Yield(Err("ValueError"), buffer, objectStack)

Unsupported(h, v) == TypeIn(h, v) = "other"
----------------------------------------------------------------------------
\* The thunk of the whole value is not kept.
PushWithoutDone ==
  /\ result = Running
  /\ last.tag = "Thunk"
  /\ Len(stack) < MaxStack
  /\ stack' = IF last.continuation = DoneFrame THEN stack ELSE Append(stack, last.continuation)
  /\ UNCHANGED <<root, hook, check, result>>

Push ==
  /\ result = Running
  /\ last.tag = "Thunk"
  /\ Len(stack) < MaxStack
  /\ stack' = Append(stack, last.continuation)
  /\ UNCHANGED <<root, hook, check, result>>

WriteItem ==
  /\ Push
  /\ \/ WriteNative(heap, last.item)
     \/ /\ Unsupported(heap, last.item) /\ ~hook
        /\ Yield(Err("ValueError"), buffer, objectStack)
  /\ UNCHANGED heap

\* The hook is called while the item is on object_stack, and what it returns
\* is written after the item has been popped; it is not called twice.
WriteHooked ==
  /\ Push
  /\ Unsupported(heap, last.item) /\ hook
  /\ \/ /\ Seen(last.item)
        /\ Yield(Err("cycle detected"), buffer, objectStack)
        /\ UNCHANGED heap
     \/ /\ ~Seen(last.item)
        /\ \E e \in HookResults(Owned(stack') \cup {root, last.item}, last.item) :
             /\ heap' = e.heap
             /\ \/ e.raises /\ Yield(Err("Custom"), buffer, PushObject(last.item))
                \/ ~e.raises /\ WriteNative(e.heap, e.value)
                \/ /\ ~e.raises /\ Unsupported(e.heap, e.value)
                   /\ Yield(Err("ValueError"), buffer, objectStack)

Top == stack[Len(stack)]

Resume(op) ==
  /\ result = Running
  /\ last.tag = "Ok"
  /\ Top.op = op
  /\ stack' = SubSeq(stack, 1, Len(stack) - 1)
  /\ UNCHANGED <<heap, root, hook, check>>

ContinueSequence ==
  /\ Resume("SerializingSequence")
  /\ NextOfSequence(heap, Top, buffer, objectStack, <<"comma">>)
  /\ UNCHANGED result

\* The iterator panics when it is asked for the next entry.
Panic == result' = Aborted /\ UNCHANGED <<buffer, embedded, objectStack, last>>

\* A comma written before it is known that an item follows.
ContinueDictEager ==
  /\ Resume("SerializingDict")
  /\ \/ DictPanics(heap, Top) /\ Panic
     \/ /\ ~DictPanics(heap, Top)
        /\ NextOfDict(heap, Top, Append(buffer, "comma"), objectStack, <<>>)
        /\ UNCHANGED result

ContinueDict ==
  /\ Resume("SerializingDict")
  /\ \/ DictPanics(heap, Top) /\ Panic
     \/ /\ ~DictPanics(heap, Top)
        /\ NextOfDict(heap, Top, buffer, objectStack, <<"comma">>)
        /\ UNCHANGED result

Finish ==
  /\ Resume("Done")
  /\ result' = Ok
  /\ UNCHANGED <<buffer, embedded, objectStack, last>>

Fail ==
  /\ result = Running
  /\ last.tag = "Err"
  /\ result' = last
  /\ UNCHANGED <<heap, root, hook, check, buffer, embedded, objectStack, stack, last>>

\* The stack grows until something steps in to kill the process.
Exhausted ==
  /\ result = Running
  /\ last.tag = "Thunk"
  /\ Len(stack) = MaxStack
  /\ result' = Killed
  /\ UNCHANGED <<heap, root, hook, check, buffer, embedded, objectStack, stack, last>>

Returned == result # Running /\ UNCHANGED vars

Init ==
  /\ heap \in Heaps
  /\ root \in Roots
  /\ hook \in BOOLEAN
  /\ check \in BOOLEAN
  /\ buffer = <<>>
  /\ embedded = {}
  /\ objectStack = <<>>
  /\ stack = <<>>
  /\ last = Thunk(root, DoneFrame)
  /\ result = Running

Iterate ==
  WriteItem \/ WriteHooked \/ ContinueSequence \/ ContinueDict
  \/ Finish \/ Fail \/ Exhausted

Next == Iterate \/ Returned

Spec == Init /\ [][Next]_vars

\* The calling thread runs the loop until it returns.
FairSpec == Spec /\ WF_vars(Iterate)
----------------------------------------------------------------------------
(***************************************************************************)
(* Properties.                                                             *)
(***************************************************************************)
\* The continuations that are waiting or about to.
Pending ==
  IF last.tag = "Thunk" THEN Append(stack, last.continuation) ELSE stack

SequenceFrames ==
  [op : {"SerializingSequence"}, object : Addresses, index : Nat \ {0}, length : Nat]
DictFrames ==
  [op : {"SerializingDict"}, object : Addresses, index : Nat \ {0}, used : Nat, remaining : Int]
Frames == SequenceFrames \cup DictFrames \cup {DoneFrame}

\* The iterator f is over an object of its kind.
OverItsKind(f) ==
  /\ f.op = "SerializingSequence" => heap[f.object].type \in {"list", "tuple"}
  /\ f.op = "SerializingDict" => heap[f.object].type = "dict"

Errors == {"ValueError", "cycle detected", "Custom"}
Failures == [tag : {"Err"}, err : Errors]

\* The shape of the state.  Done lies at the bottom of the stack and only
\* there, an iterator keeps its object, and a value always finds a
\* continuation to resume: stack.pop().unwrap() (ser.rs:571) never panics.
TypeOK ==
  /\ heap \in Graphs
  /\ root \in Values
  /\ hook \in BOOLEAN
  /\ check \in BOOLEAN
  /\ objectStack \in Seq(Addresses)
  /\ stack \in Seq(Frames)
  /\ last \in {Ok} \cup Failures \cup [tag : {"Thunk"}, item : Values, continuation : Frames]
  /\ result \in {Running, Aborted, Killed, Ok} \cup Failures
  /\ result = Running /\ last.tag # "Err" =>
       /\ Pending # <<>>
       /\ \A i \in 1 .. Len(Pending) : Pending[i] = DoneFrame <=> i = 1
       /\ \A i \in 1 .. Len(Pending) : OverItsKind(Pending[i])

\* object_stack holds, in order, the objects whose iterators the thunk stack
\* owns, and no other: an object is on it exactly while its items are being
\* written.  So every address on it is that of a live object, which no other
\* object can have taken over, and a "cycle detected" is never raised for an
\* object that merely occurs twice (ser.rs:105-129, and the pops in
\* ser.rs:418-540).
ObjectStackMirrorsThunks ==
  result = Running /\ last.tag # "Err" =>
    objectStack = IF check THEN [i \in 1 .. Len(Pending) - 1 |-> Pending[i + 1].object]
                  ELSE <<>>
============================================================================
