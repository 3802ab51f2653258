-------------------------- MODULE SerializerProofs --------------------------
(***************************************************************************)
(* Theorems about Serializer, for every graph of objects and every hook,   *)
(* and about why dumps fails when the hook changes nothing.                *)
(***************************************************************************)
EXTENDS Dumps, NaturalFacts, TLAPS, SequenceTheorems, FiniteSetTheorems

\* OverItsKind in the heap h.
KindIn(h, f) ==
  /\ f.op = "SerializingSequence" => h[f.object].type \in {"list", "tuple"}
  /\ f.op = "SerializingDict" => h[f.object].type = "dict"

Iterators == SequenceFrames \cup DictFrames

\* Done lies at the bottom of s, and its iterators are over objects of their
\* kinds.
WellFormed(h, s) ==
  /\ s # <<>>
  /\ \A i \in 1 .. Len(s) : s[i] = DoneFrame <=> i = 1
  /\ \A i \in 1 .. Len(s) : KindIn(h, s[i])

\* os is the object_stack for the continuations s.
Mirrors(os, s) ==
  os = IF check THEN [i \in 1 .. Len(s) - 1 |-> s[i + 1].object] ELSE <<>>

\* An iterator is not Done, and a frame that is not Done is an iterator.
LEMMA FrameKinds ==
  /\ \A f \in Iterators : f # DoneFrame /\ f.object \in Addresses /\ f \in Frames
  /\ \A f \in Frames : f # DoneFrame => f \in Iterators
  /\ \A f \in SequenceFrames : f.op = "SerializingSequence"
  /\ \A f \in DictFrames : f.op = "SerializingDict"
  /\ DoneFrame.op = "Done"
BY DEF Iterators, Frames, SequenceFrames, DictFrames, DoneFrame
----------------------------------------------------------------------------
(***************************************************************************)
(* How object_stack follows the continuations.                             *)
(***************************************************************************)
\* push_object (ser.rs:110) when a container begins to be written.
LEMMA MirrorsPush ==
  ASSUME check \in BOOLEAN, NEW s \in Seq(Frames), s # <<>>, NEW f \in Iterators,
         objectStack \in Seq(Addresses), Mirrors(objectStack, s)
  PROVE  /\ Mirrors(PushObject(f.object), Append(s, f))
         /\ PushObject(f.object) \in Seq(Addresses)
<1> DEFINE t == Append(s, f)
<1>1. Len(s) \in Nat \ {0} /\ f \in Frames /\ f.object \in Addresses
  BY FrameKinds, EmptySeq
<1>2. /\ t \in Seq(Frames) /\ Len(t) = Len(s) + 1
      /\ \A i \in 1 .. Len(s) : t[i] = s[i]
      /\ t[Len(s) + 1] = f
  BY <1>1
<1> HIDE DEF t
<1>3. CASE check
  <2>1. objectStack = [i \in 1 .. Len(s) - 1 |-> s[i + 1].object]
    BY <1>3 DEF Mirrors
  <2>2. Len(objectStack) = Len(s) - 1
    BY <1>1, <2>1
  <2>3. Append(objectStack, f.object) = [i \in 1 .. Len(t) - 1 |-> t[i + 1].object]
    <3> DEFINE u == Append(objectStack, f.object)
               w == [i \in 1 .. Len(t) - 1 |-> t[i + 1].object]
    <3>1. u \in Seq(Addresses) /\ Len(u) = Len(s)
      BY <1>1, <2>2
    <3>2. \A i \in 1 .. Len(s) - 1 : u[i] = t[i + 1].object
      BY <1>1, <1>2, <2>1, <2>2
    <3>3. u[Len(s)] = t[Len(s) + 1].object
      BY <1>1, <1>2, <2>2
    <3>4. \A i \in 1 .. Len(s) : u[i] = w[i]
      <4>1. \A i \in 1 .. Len(s) : w[i] = t[i + 1].object
        BY <1>1, <1>2
      <4> HIDE DEF u, w
      <4>2. \A i \in 1 .. Len(s) : i = Len(s) \/ i \in 1 .. Len(s) - 1
        BY <1>1
      <4> QED BY <3>2, <3>3, <4>1, <4>2
    <3>5. DOMAIN u = 1 .. Len(s) /\ DOMAIN w = 1 .. Len(s)
      BY <1>1, <1>2, <3>1
    <3>6. u = [i \in 1 .. Len(s) |-> u[i]] /\ w = [i \in 1 .. Len(s) |-> w[i]]
      BY <3>1, <3>5
    <3> HIDE DEF u, w
    <3> QED BY <3>4, <3>6 DEF u, w
  <2> QED BY <1>1, <1>3, <2>3 DEF Mirrors, PushObject, t
<1>4. CASE ~check
  BY <1>4 DEF Mirrors, PushObject
<1> QED BY <1>3, <1>4

\* Popping what was pushed.
LEMMA FrontOfAppend ==
  ASSUME NEW S, NEW s \in Seq(S), NEW e \in S
  PROVE  SubSeq(Append(s, e), 1, Len(s)) = s
<1>1. Len(s) \in Nat /\ Len(Append(s, e)) = Len(s) + 1
      /\ \A i \in 1 .. Len(s) : Append(s, e)[i] = s[i]
  OBVIOUS
<1>2. SubSeq(Append(s, e), 1, Len(s)) = [i \in 1 .. Len(s) |-> Append(s, e)[i]]
  BY <1>1
<1>3. s = [i \in 1 .. Len(s) |-> s[i]]
  OBVIOUS
<1> QED BY <1>1, <1>2, <1>3

\* pop_object (ser.rs:125) when the newest container has been written.
LEMMA MirrorsPop ==
  ASSUME check \in BOOLEAN, NEW s \in Seq(Frames), s # <<>>, NEW f \in Frames,
         NEW os \in Seq(Addresses), Mirrors(os, Append(s, f))
  PROVE  Mirrors(PopObject(os), s) /\ PopObject(os) \in Seq(Addresses)
<1> DEFINE t == Append(s, f)
<1>1. Len(s) \in Nat \ {0}
  BY EmptySeq
<1>2. /\ t \in Seq(Frames) /\ Len(t) = Len(s) + 1
      /\ \A i \in 1 .. Len(s) : t[i] = s[i]
  BY <1>1
<1>3. Mirrors(os, t)
  OBVIOUS
<1> HIDE DEF t
<1>4. CASE check
  <2>1. os = [i \in 1 .. Len(s) |-> t[i + 1].object]
    BY <1>1, <1>2, <1>3, <1>4 DEF Mirrors
  <2>2. Len(os) = Len(s)
    BY <1>1, <2>1
  <2>3. /\ PopObject(os) = [i \in 1 .. Len(s) - 1 |-> os[i]]
        /\ PopObject(os) \in Seq(Addresses)
    BY <1>1, <2>2 DEF PopObject
  <2>4. \A i \in 1 .. Len(s) - 1 : os[i] = s[i + 1].object
    BY <1>1, <1>2, <2>1
  <2> QED BY <1>4, <2>3, <2>4 DEF Mirrors
<1>5. CASE ~check
  <2>1. os = <<>>
    BY <1>3, <1>5 DEF Mirrors
  <2>2. PopObject(os) = <<>>
    BY <2>1 DEF PopObject
  <2> QED BY <1>5, <2>2 DEF Mirrors
<1> QED BY <1>4, <1>5

\* An iterator that moves on keeps its object.
LEMMA MirrorsSame ==
  ASSUME NEW s \in Seq(Frames), s # <<>>, NEW f \in Frames, NEW g \in Frames,
         f.object = g.object, NEW os, Mirrors(os, Append(s, f))
  PROVE  Mirrors(os, Append(s, g))
<1>1. Len(s) \in Nat \ {0}
  BY EmptySeq
<1>2. /\ Len(Append(s, f)) = Len(s) + 1 /\ Len(Append(s, g)) = Len(s) + 1
      /\ \A i \in 1 .. Len(s) : Append(s, f)[i] = s[i] /\ Append(s, g)[i] = s[i]
      /\ Append(s, f)[Len(s) + 1] = f /\ Append(s, g)[Len(s) + 1] = g
  BY <1>1
<1>3. \A i \in 1 .. Len(s) : Append(s, f)[i + 1].object = Append(s, g)[i + 1].object
  BY <1>1, <1>2
<1>4. [i \in 1 .. Len(s) |-> Append(s, f)[i + 1].object]
      = [i \in 1 .. Len(s) |-> Append(s, g)[i + 1].object]
  BY <1>3
<1> QED BY <1>1, <1>2, <1>4 DEF Mirrors
----------------------------------------------------------------------------
(***************************************************************************)
(* What an iteration leaves in last_result and object_stack.               *)
(***************************************************************************)
\* The items of an object in a graph.
LEMMA ItemsOfKind ==
  ASSUME NEW h \in Graphs, NEW a \in Addresses
  PROVE  /\ h[a].type \in {"list", "tuple"} => h[a].items \in Seq(Values)
         /\ h[a].type = "dict" => h[a].items \in Seq(Entries)
<1>1. h[a] \in Objects
  BY DEF Graphs
<1> QED BY <1>1 DEF Objects

\* How many entries a dict has.
LEMMA DictLenNat ==
  ASSUME NEW items \in Seq(Entries)
  PROVE  DictLen(items) \in Nat
<1>1. IsFiniteSet(1 .. Len(items))
  BY FS_Interval
<1>2. {i \in DOMAIN items : items[i] # Hole} \subseteq 1 .. Len(items)
  OBVIOUS
<1>3. IsFiniteSet({i \in DOMAIN items : items[i] # Hole})
  BY <1>1, <1>2, FS_Subset
<1> QED BY <1>3, FS_CardinalityType DEF DictLen

\* The iterator f of h is asked for its next item: it ends and its object is
\* popped, or the call fails, or it moves on and its item is to be written.
NextOutcome(h, f, os) ==
  \/ last' = Ok /\ objectStack' = PopObject(os)
  \/ last' \in Failures /\ objectStack' = os
  \/ \E v \in Values, g \in Iterators :
       /\ last' = Thunk(v, g)
       /\ g.object = f.object
       /\ KindIn(h, g)
       /\ objectStack' = os

\* list_to_json and continue_list_to_json (ser.rs:419-459).
LEMMA SequenceOutcome ==
  ASSUME NEW h \in Graphs, NEW f \in SequenceFrames, KindIn(h, f),
         NEW out, NEW os, NEW comma, NextOfSequence(h, f, out, os, comma)
  PROVE  NextOutcome(h, f, os)
<1>1. /\ f.op = "SerializingSequence" /\ f.object \in Addresses
      /\ f.index \in Nat \ {0} /\ f.length \in Nat
  BY DEF SequenceFrames
<1>2. ItemsIn(h, f) \in Seq(Values)
  BY <1>1, ItemsOfKind DEF KindIn, ItemsIn
<1>3. CASE SequenceEnded(h, f) /\ Close(out, os, "]")
  BY <1>3 DEF Close, Yield, NextOutcome
<1>4. CASE /\ ~SequenceEnded(h, f)
           /\ Yield(Thunk(ItemsIn(h, f)[f.index], [f EXCEPT !.index = @ + 1]), out \o comma, os)
  <2> DEFINE g == [f EXCEPT !.index = @ + 1]
  <2>1. f.index \in 1 .. Len(ItemsIn(h, f))
    BY <1>1, <1>2, <1>4 DEF SequenceEnded
  <2>2. ItemsIn(h, f)[f.index] \in Values
    BY <1>2, <2>1
  <2>3. g \in SequenceFrames /\ g.object = f.object /\ g.op = f.op
    BY <1>1 DEF SequenceFrames
  <2>4. KindIn(h, g)
    BY <2>3 DEF KindIn
  <2>5. last' = Thunk(ItemsIn(h, f)[f.index], g) /\ objectStack' = os
    BY <1>4 DEF Yield
  <2> HIDE DEF g
  <2> QED BY <2>2, <2>3, <2>4, <2>5 DEF NextOutcome, Iterators
<1> QED BY <1>3, <1>4 DEF NextOfSequence

\* dict_to_json, continue_dict_to_json and write_dict_key (ser.rs:462-540).
LEMMA DictOutcome ==
  ASSUME NEW h \in Graphs, NEW f \in DictFrames, KindIn(h, f),
         NEW out, NEW os, NEW comma, NextOfDict(h, f, out, os, comma)
  PROVE  NextOutcome(h, f, os)
<1>1. /\ f.op = "SerializingDict" /\ f.object \in Addresses
      /\ f.index \in Nat \ {0} /\ f.used \in Nat /\ f.remaining \in Int
  BY DEF DictFrames
<1>2. ItemsIn(h, f) \in Seq(Entries)
  BY <1>1, ItemsOfKind DEF KindIn, ItemsIn
<1>3. CASE EntriesLeft(h, f) = {} /\ Close(out, os, "rbrace")
  BY <1>3 DEF Close, Yield, NextOutcome
<1>4. ASSUME EntriesLeft(h, f) # {}
      PROVE  /\ NextEntry(h, f) \in Nat \ {0}
             /\ ItemsIn(h, f)[NextEntry(h, f)].value \in Values
  <2>1. EntriesLeft(h, f) \in SUBSET Nat
    BY <1>1, <1>2 DEF EntriesLeft
  <2>2. \E i \in EntriesLeft(h, f) : \A j \in EntriesLeft(h, f) : i <= j
    BY <1>4, <2>1, LeastElement
  <2>3. NextEntry(h, f) \in EntriesLeft(h, f)
    BY <2>2 DEF NextEntry
  <2>4. /\ NextEntry(h, f) \in 1 .. Len(ItemsIn(h, f))
        /\ ItemsIn(h, f)[NextEntry(h, f)] # Hole
    BY <1>1, <1>2, <2>3 DEF EntriesLeft
  <2>5. ItemsIn(h, f)[NextEntry(h, f)] \in [key : Keys \cup BadKeys, value : Values]
    BY <1>2, <2>4 DEF Entries
  <2> QED BY <2>4, <2>5
<1>5. CASE /\ EntriesLeft(h, f) # {}
           /\ \E k : Yield(Thunk(ItemsIn(h, f)[NextEntry(h, f)].value,
                                 DictFrame(f.object, NextEntry(h, f) + 1, f.used, f.remaining - 1)),
                           k, os)
  <2> DEFINE g == DictFrame(f.object, NextEntry(h, f) + 1, f.used, f.remaining - 1)
             v == ItemsIn(h, f)[NextEntry(h, f)].value
  <2>1. NextEntry(h, f) \in Nat /\ v \in Values
    BY <1>4, <1>5
  <2>2. g \in DictFrames /\ g.object = f.object /\ g.op = f.op
    <3> HIDE DEF v
    <3> QED BY <1>1, <2>1 DEF DictFrame, DictFrames
  <2>3. KindIn(h, g)
    BY <2>2 DEF KindIn
  <2>4. last' = Thunk(v, g) /\ objectStack' = os
    BY <1>5 DEF Yield
  <2> HIDE DEF g, v
  <2> QED BY <2>1, <2>2, <2>3, <2>4 DEF NextOutcome, Iterators
<1>6. CASE \E k : Yield(Err("ValueError"), k, os)
  BY <1>6 DEF Yield, NextOutcome, Failures, Errors, Err
<1> QED BY <1>3, <1>5, <1>6 DEF NextOfDict

\* v begins to be written, in the heap h (ser.rs:206-251): it is written, or
\* the call fails, or v is on object_stack and its first item is to be written.
WriteOutcome(h) ==
  \/ last' = Ok /\ objectStack' = objectStack
  \/ last' \in Failures /\ objectStack' \in Seq(Addresses)
  \/ \E w \in Values, g \in Iterators :
       /\ last' = Thunk(w, g)
       /\ KindIn(h, g)
       /\ objectStack' = PushObject(g.object)

LEMMA WriteNativeOutcome ==
  ASSUME NEW h \in Graphs, NEW v \in Values, check \in BOOLEAN,
         objectStack \in Seq(Addresses), check \/ objectStack = <<>>,
         WriteNative(h, v)
  PROVE  WriteOutcome(h)
<1>1. CASE WriteScalar(v)
  BY <1>1 DEF WriteScalar, WriteOutcome
<1>2. CASE \E e \in Errors : Yield(Err(e), buffer, objectStack)
  BY <1>2 DEF Yield, WriteOutcome, Failures, Err
<1>3. ASSUME NEW f \in Iterators, f.object = v, v \in Addresses,
             NextOutcome(h, f, PushObject(v))
      PROVE  WriteOutcome(h)
  <2>1. PushObject(v) \in Seq(Addresses)
    BY <1>3 DEF PushObject
  <2>2. PopObject(PushObject(v)) = objectStack
    <3>1. CASE check
      <4>1. PushObject(v) = Append(objectStack, v)
        BY <3>1 DEF PushObject
      <4>2. Len(objectStack) \in Nat
        OBVIOUS
      <4>3. SubSeq(Append(objectStack, v), 1, Len(objectStack)) = objectStack
        BY <1>3, <4>2, FrontOfAppend
      <4> QED BY <1>3, <4>1, <4>2, <4>3 DEF PopObject
    <3>2. CASE ~check
      BY <3>2 DEF PushObject, PopObject
    <3> QED BY <3>1, <3>2
  <2> QED BY <1>3, <2>1, <2>2 DEF NextOutcome, WriteOutcome
<1>4. CASE /\ TypeIn(h, v) \in {"list", "tuple"}
           /\ NextOfSequence(h, SequenceFrame(v, 1, Len(h[v].items)),
                             Append(buffer, "["), PushObject(v), <<>>)
  <2> DEFINE f == SequenceFrame(v, 1, Len(h[v].items))
  <2>1. v \in Addresses /\ h[v].type \in {"list", "tuple"}
    BY <1>4 DEF TypeIn
  <2>2. Len(h[v].items) \in Nat
    BY <2>1, ItemsOfKind
  <2>3. f \in SequenceFrames /\ f.object = v /\ f.op = "SerializingSequence"
    BY <2>1, <2>2 DEF SequenceFrame, SequenceFrames
  <2>4. KindIn(h, f)
    BY <2>1, <2>3 DEF KindIn
  <2>5. NextOutcome(h, f, PushObject(v))
    <3> HIDE DEF f
    <3> QED BY <1>4, <2>3, <2>4, SequenceOutcome DEF f
  <2> HIDE DEF f
  <2> QED BY <1>3, <2>1, <2>3, <2>5 DEF Iterators
<1>5. CASE /\ TypeIn(h, v) = "dict"
           /\ LET n == DictLen(h[v].items) IN
              NextOfDict(h, DictFrame(v, 1, n, n), Append(buffer, "lbrace"), PushObject(v), <<>>)
  <2> DEFINE n == DictLen(h[v].items)
             f == DictFrame(v, 1, n, n)
  <2>1. v \in Addresses /\ h[v].type = "dict"
    BY <1>5 DEF TypeIn
  <2>2. n \in Nat
    BY <2>1, ItemsOfKind, DictLenNat
  <2>3. f \in DictFrames /\ f.object = v /\ f.op = "SerializingDict"
    <3> HIDE DEF n
    <3> QED BY <2>1, <2>2 DEF DictFrame, DictFrames
  <2>4. KindIn(h, f)
    BY <2>1, <2>3 DEF KindIn
  <2>5. NextOutcome(h, f, PushObject(v))
    <3>1. NextOfDict(h, f, Append(buffer, "lbrace"), PushObject(v), <<>>)
      BY <1>5
    <3> HIDE DEF f
    <3> QED BY <2>3, <2>4, <3>1, DictOutcome
  <2> HIDE DEF f
  <2> QED BY <1>3, <2>1, <2>3, <2>5 DEF Iterators
<1>6. "ValueError" \in Errors /\ "cycle detected" \in Errors
  BY DEF Errors
<1> QED BY <1>1, <1>2, <1>4, <1>5, <1>6, Zenon DEF WriteNative
----------------------------------------------------------------------------
(***************************************************************************)
(* The inductive invariant.                                                *)
(***************************************************************************)
IInv == TypeOK /\ ObjectStackMirrorsThunks

\* The two properties, by the names of this module.
LEMMA Readings ==
  /\ TypeOK =>
       (result = Running /\ last.tag # "Err" => WellFormed(heap, Pending))
  /\ ObjectStackMirrorsThunks =>
       (result = Running /\ last.tag # "Err" => Mirrors(objectStack, Pending))
BY DEF TypeOK, WellFormed, OverItsKind, KindIn, ObjectStackMirrorsThunks, Mirrors

LEMMA InitIInv == Init => IInv
<1> SUFFICES ASSUME Init PROVE IInv
  OBVIOUS
<1> USE DEF Init
<1>1. last = Thunk(root, DoneFrame) /\ last.tag = "Thunk" /\ last.continuation = DoneFrame
  BY DEF Thunk
<1>2. Pending = <<DoneFrame>>
  BY <1>1 DEF Pending
<1>3. last \in [tag : {"Thunk"}, item : Values, continuation : Frames]
  BY GraphsAssumption DEF Thunk, Frames
<1>4. OverItsKind(DoneFrame)
  BY DEF OverItsKind, DoneFrame
<1>5. TypeOK
  BY <1>2, <1>3, <1>4, GraphsAssumption DEF TypeOK
<1>6. ObjectStackMirrorsThunks
  <2>1. [i \in 1 .. Len(Pending) - 1 |-> Pending[i + 1].object] = <<>>
    BY <1>2
  <2> QED BY <2>1 DEF ObjectStackMirrorsThunks
<1> QED BY <1>5, <1>6 DEF IInv

\* What an iteration that goes on has to establish.
LEMMA AfterIteration ==
  ASSUME heap' \in Graphs, root' \in Values, hook' \in BOOLEAN, check' \in BOOLEAN,
         check' = check, result' = Running,
         stack' \in Seq(Frames), WellFormed(heap', stack'), objectStack' \in Seq(Addresses),
         \/ last' = Ok /\ Mirrors(objectStack', stack')
         \/ last' \in Failures
         \/ \E v \in Values, g \in Iterators :
              /\ last' = Thunk(v, g)
              /\ KindIn(heap', g)
              /\ Mirrors(objectStack', Append(stack', g))
  PROVE  IInv'
<1>1. CASE last' = Ok /\ Mirrors(objectStack', stack')
  <2>1. last'.tag = "Ok"
    BY <1>1 DEF Ok
  <2>2. Pending' = stack'
    BY <2>1 DEF Pending
  <2>3. TypeOK'
    BY <1>1, <2>2 DEF TypeOK, WellFormed, OverItsKind, KindIn
  <2>4. ObjectStackMirrorsThunks'
    BY <1>1, <2>2 DEF ObjectStackMirrorsThunks, Mirrors
  <2> QED BY <2>3, <2>4 DEF IInv
<1>2. CASE last' \in Failures
  <2>1. last'.tag = "Err"
    BY <1>2 DEF Failures
  <2> QED BY <1>2, <2>1 DEF IInv, TypeOK, ObjectStackMirrorsThunks
<1>3. ASSUME NEW v \in Values, NEW g \in Iterators, last' = Thunk(v, g), KindIn(heap', g),
             Mirrors(objectStack', Append(stack', g))
      PROVE  IInv'
  <2>1. last'.tag = "Thunk" /\ last'.continuation = g
    BY <1>3 DEF Thunk
  <2>2. Pending' = Append(stack', g)
    BY <2>1 DEF Pending
  <2>3. g \in Frames /\ g # DoneFrame
    BY FrameKinds
  <2>4. last' \in [tag : {"Thunk"}, item : Values, continuation : Frames]
    BY <1>3, <2>3 DEF Thunk
  <2>5. WellFormed(heap', Pending')
    <3> DEFINE t == Append(stack', g)
    <3>1. Len(stack') \in Nat \ {0}
      BY EmptySeq DEF WellFormed
    <3>2. /\ Len(t) = Len(stack') + 1
          /\ \A i \in 1 .. Len(stack') : t[i] = stack'[i]
          /\ t[Len(stack') + 1] = g
          /\ t # <<>>
      BY <2>3, <3>1
    <3> HIDE DEF t
    <3>3. ASSUME NEW i \in 1 .. Len(t)
          PROVE  (t[i] = DoneFrame <=> i = 1) /\ KindIn(heap', t[i])
      <4>1. CASE i \in 1 .. Len(stack')
        BY <3>2, <4>1 DEF WellFormed
      <4>2. CASE i = Len(stack') + 1
        BY <1>3, <2>3, <3>1, <3>2, <4>2
      <4> QED BY <3>1, <3>2, <4>1, <4>2
    <3>4. WellFormed(heap', t)
      BY <3>2, <3>3 DEF WellFormed
    <3> QED BY <2>2, <3>4 DEF t
  <2>6. TypeOK'
    BY <2>4, <2>5 DEF TypeOK, WellFormed, OverItsKind, KindIn
  <2>7. ObjectStackMirrorsThunks'
    BY <1>3, <2>2 DEF ObjectStackMirrorsThunks, Mirrors
  <2> QED BY <2>6, <2>7 DEF IInv
<1> QED BY <1>1, <1>2, <1>3

\* The push at ser.rs:566: what was about to wait waits.
LEMMA AfterPush ==
  ASSUME IInv, Push
  PROVE  /\ stack' \in Seq(Frames) /\ WellFormed(heap, stack') /\ Mirrors(objectStack, stack')
         /\ last.item \in Values
         /\ check \/ objectStack = <<>>
         /\ check' = check /\ hook' = hook /\ root' = root /\ result' = Running
<1>1. result = Running /\ last.tag = "Thunk"
  BY DEF Push
<1>2. last \in [tag : {"Thunk"}, item : Values, continuation : Frames]
  BY <1>1 DEF IInv, TypeOK, Ok, Failures
<1>3. stack' = Pending
  BY <1>1 DEF Push, Pending
<1>4. stack' \in Seq(Frames)
  BY <1>2 DEF Push, IInv, TypeOK
<1>5. WellFormed(heap, stack') /\ Mirrors(objectStack, stack')
  BY <1>1, <1>3, Readings DEF IInv
<1> QED BY <1>1, <1>2, <1>4, <1>5 DEF Push, Mirrors

\* The pop at ser.rs:571, when the continuation is an iterator.
LEMMA AfterResume ==
  ASSUME IInv, NEW op, Resume(op), op # "Done"
  PROVE  /\ stack' \in Seq(Frames) /\ WellFormed(heap, stack')
         /\ Top \in Iterators /\ Top.op = op /\ KindIn(heap, Top)
         /\ stack = Append(stack', Top) /\ Mirrors(objectStack, Append(stack', Top))
         /\ UNCHANGED <<heap, root, hook, check>>
         /\ result = Running
<1>1. result = Running /\ last.tag = "Ok" /\ Top.op = op /\ UNCHANGED <<heap, root, hook, check>>
  BY DEF Resume
<1>2. Pending = stack
  BY <1>1 DEF Pending
<1>3. WellFormed(heap, stack) /\ Mirrors(objectStack, stack)
  BY <1>1, <1>2, Readings DEF IInv
<1>4. stack \in Seq(Frames) /\ Len(stack) \in Nat \ {0}
  BY <1>3, EmptySeq DEF IInv, TypeOK, WellFormed
<1>5. Top \in Frames /\ KindIn(heap, Top) /\ (Top = DoneFrame <=> Len(stack) = 1)
  <2>1. Len(stack) \in 1 .. Len(stack) /\ Top = stack[Len(stack)]
    BY <1>4 DEF Top
  <2>2. /\ stack[Len(stack)] = DoneFrame <=> Len(stack) = 1
        /\ KindIn(heap, stack[Len(stack)])
    BY <1>3, <2>1 DEF WellFormed
  <2>3. stack[Len(stack)] \in Frames
    BY <1>4, <2>1
  <2> QED BY <2>1, <2>2, <2>3
<1>6. Top # DoneFrame /\ Top \in Iterators
  BY <1>1, <1>5, FrameKinds
<1>7. Len(stack) >= 2
  <2>1. Len(stack) # 1
    BY <1>5, <1>6
  <2>2. \A n \in Nat \ {0} : n # 1 => n >= 2
    OBVIOUS
  <2> QED BY <1>4, <2>1, <2>2
<1>8. stack' = SubSeq(stack, 1, Len(stack) - 1)
  BY DEF Resume
<1>9. /\ stack' \in Seq(Frames) /\ Len(stack') = Len(stack) - 1
      /\ \A i \in 1 .. Len(stack) - 1 : stack'[i] = stack[i]
  BY <1>4, <1>7, <1>8
<1>10. stack = Append(stack', Top)
  <2> DEFINE t == Append(stack', Top)
  <2>1. t \in Seq(Frames) /\ Len(t) = Len(stack)
    BY <1>4, <1>5, <1>9
  <2>2. \A i \in 1 .. Len(stack) - 1 : t[i] = stack[i]
    BY <1>4, <1>5, <1>9
  <2>3. t[Len(stack)] = stack[Len(stack)]
    BY <1>4, <1>5, <1>9 DEF Top
  <2> HIDE DEF t
  <2>4. \A i \in 1 .. Len(stack) : t[i] = stack[i]
    <3>1. \A i \in 1 .. Len(stack) : i = Len(stack) \/ i \in 1 .. Len(stack) - 1
      BY <1>4
    <3> QED BY <2>2, <2>3, <3>1
  <2>5. t = [i \in 1 .. Len(stack) |-> t[i]] /\ stack = [i \in 1 .. Len(stack) |-> stack[i]]
    BY <1>4, <2>1
  <2>6. t = stack
    BY <2>4, <2>5
  <2> QED BY <2>6 DEF t
<1>11. WellFormed(heap, stack')
  BY <1>3, <1>7, <1>9 DEF WellFormed
<1> QED BY <1>1, <1>3, <1>5, <1>6, <1>9, <1>10, <1>11

\* An item is written in the heap the iteration leaves.
LEMMA WritePreserves ==
  ASSUME IInv, Push, heap' \in Graphs, WellFormed(heap', stack'), WriteOutcome(heap')
  PROVE  IInv'
<1>1. /\ stack' \in Seq(Frames) /\ Mirrors(objectStack, stack')
      /\ check' = check /\ hook' = hook /\ root' = root /\ result' = Running
  BY AfterPush
<1>2. /\ root' \in Values /\ hook' \in BOOLEAN /\ check \in BOOLEAN /\ check' \in BOOLEAN
      /\ objectStack \in Seq(Addresses) /\ stack' # <<>>
  BY <1>1 DEF IInv, TypeOK, WellFormed
<1>3. CASE last' = Ok /\ objectStack' = objectStack
  BY <1>1, <1>2, <1>3, AfterIteration
<1>4. CASE last' \in Failures /\ objectStack' \in Seq(Addresses)
  BY <1>1, <1>2, <1>4, AfterIteration
<1>5. ASSUME NEW v \in Values, NEW g \in Iterators, last' = Thunk(v, g),
             KindIn(heap', g), objectStack' = PushObject(g.object)
      PROVE  IInv'
  <2>1. /\ Mirrors(objectStack', Append(stack', g))
        /\ objectStack' \in Seq(Addresses)
    BY <1>1, <1>2, <1>5, MirrorsPush
  <2> QED BY <1>1, <1>2, <1>5, <2>1, AfterIteration
<1> QED BY <1>3, <1>4, <1>5 DEF WriteOutcome

\* An iterator is resumed.
LEMMA ResumePreserves ==
  ASSUME IInv, NEW op, op # "Done", Resume(op), UNCHANGED result,
         NextOutcome(heap, Top, objectStack)
  PROVE  IInv'
<1>1. /\ stack' \in Seq(Frames) /\ WellFormed(heap, stack') /\ Top \in Iterators
      /\ Mirrors(objectStack, Append(stack', Top))
      /\ UNCHANGED <<heap, root, hook, check>> /\ result' = Running
  BY AfterResume
<1>2. /\ heap' \in Graphs /\ root' \in Values /\ hook' \in BOOLEAN /\ check' \in BOOLEAN
      /\ check \in BOOLEAN /\ objectStack \in Seq(Addresses)
      /\ WellFormed(heap', stack') /\ stack' # <<>>
  BY <1>1 DEF IInv, TypeOK, WellFormed
<1>3. CASE last' = Ok /\ objectStack' = PopObject(objectStack)
  <2>1. Mirrors(objectStack', stack') /\ objectStack' \in Seq(Addresses)
    BY <1>1, <1>2, <1>3, MirrorsPop, FrameKinds
  <2> QED BY <1>1, <1>2, <1>3, <2>1, AfterIteration
<1>4. CASE last' \in Failures /\ objectStack' = objectStack
  BY <1>1, <1>2, <1>4, AfterIteration
<1>5. ASSUME NEW v \in Values, NEW g \in Iterators, last' = Thunk(v, g),
             g.object = Top.object, KindIn(heap, g), objectStack' = objectStack
      PROVE  IInv'
  <2>1. Mirrors(objectStack', Append(stack', g))
    BY <1>1, <1>2, <1>5, MirrorsSame, FrameKinds
  <2>2. KindIn(heap', g) /\ objectStack' \in Seq(Addresses)
    BY <1>1, <1>2, <1>5
  <2> QED BY <1>1, <1>2, <1>5, <2>1, <2>2, AfterIteration
<1> QED BY <1>3, <1>4, <1>5 DEF NextOutcome

\* The iterators of stack are over objects of the same kinds in a heap that a
\* call of the hook leaves.
LEMMA HookKeepsFrames ==
  ASSUME NEW s \in Seq(Frames), WellFormed(heap, s), NEW used, Owned(s) \subseteq used,
         NEW a, NEW e \in HookResults(used, a)
  PROVE  WellFormed(e.heap, s) /\ e.heap \in Graphs /\ e.value \in Values
<1>1. /\ e \in [heap : Graphs, value : Values, raises : BOOLEAN]
      /\ \A x \in used \cap Addresses : e.heap[x].type = heap[x].type
  BY DEF HookResults
<1>2. ASSUME NEW i \in 1 .. Len(s)
      PROVE  KindIn(e.heap, s[i])
  <2>1. CASE s[i] = DoneFrame
    BY <2>1, FrameKinds DEF KindIn
  <2>2. CASE s[i] # DoneFrame
    <3>1. s[i] \in Iterators /\ s[i].object \in Addresses
      BY <2>2, FrameKinds
    <3>2. s[i].object \in Owned(s)
      BY <2>2 DEF Owned
    <3>3. e.heap[s[i].object].type = heap[s[i].object].type
      BY <1>1, <3>1, <3>2
    <3> QED BY <3>3 DEF WellFormed, KindIn
  <2> QED BY <2>1, <2>2
<1> QED BY <1>1, <1>2 DEF WellFormed

LEMMA WriteItemPreserves ==
  ASSUME IInv, WriteItem
  PROVE  IInv'
<1>1. /\ Push /\ heap' = heap /\ heap \in Graphs
      /\ check \in BOOLEAN /\ objectStack \in Seq(Addresses)
  BY DEF WriteItem, IInv, TypeOK
<1>2. /\ WellFormed(heap, stack') /\ last.item \in Values
      /\ check \/ objectStack = <<>>
  BY <1>1, AfterPush
<1>3. CASE WriteNative(heap, last.item)
  <2>1. WriteOutcome(heap)
    BY <1>1, <1>2, <1>3, WriteNativeOutcome
  <2>2. WriteOutcome(heap') /\ WellFormed(heap', stack') /\ heap' \in Graphs
    BY <1>1, <1>2, <2>1
  <2> QED BY <1>1, <2>2, WritePreserves
<1>4. CASE Yield(Err("ValueError"), buffer, objectStack)
  <2>1. last' \in Failures /\ objectStack' \in Seq(Addresses)
    BY <1>1, <1>4 DEF Yield, Failures, Errors, Err
  <2>2. WriteOutcome(heap') /\ WellFormed(heap', stack') /\ heap' \in Graphs
    BY <1>1, <1>2, <2>1 DEF WriteOutcome
  <2> QED BY <1>1, <2>2, WritePreserves
<1> QED BY <1>3, <1>4 DEF WriteItem

LEMMA WriteHookedPreserves ==
  ASSUME IInv, WriteHooked
  PROVE  IInv'
<1>1. /\ Push /\ heap \in Graphs /\ last.item \in Addresses
      /\ check \in BOOLEAN /\ objectStack \in Seq(Addresses)
  <2>1. Push /\ Unsupported(heap, last.item)
    BY Zenon DEF WriteHooked
  <2> QED BY <2>1 DEF IInv, TypeOK, Unsupported, TypeIn
<1>2. /\ stack' \in Seq(Frames) /\ WellFormed(heap, stack')
      /\ check \/ objectStack = <<>>
  BY <1>1, AfterPush
<1>3. CASE Yield(Err("cycle detected"), buffer, objectStack) /\ UNCHANGED heap
  <2>1. last' = Err("cycle detected") /\ objectStack' = objectStack /\ heap' = heap
    BY <1>3, Zenon DEF Yield
  <2>2. last' \in Failures
    BY <2>1 DEF Failures, Errors, Err
  <2>3. objectStack' \in Seq(Addresses)
    BY <1>1, <2>1
  <2>4. WriteOutcome(heap')
    BY <2>2, <2>3, Zenon DEF WriteOutcome
  <2>5. WellFormed(heap', stack') /\ heap' \in Graphs
    BY <1>1, <1>2, <2>1
  <2>6. WriteOutcome(heap') /\ WellFormed(heap', stack') /\ heap' \in Graphs
    BY <2>4, <2>5
  <2> QED BY <1>1, <2>6, WritePreserves
<1>4. ASSUME NEW e \in HookResults(Owned(stack') \cup {root, last.item}, last.item),
             heap' = e.heap,
             \/ Yield(Err("Custom"), buffer, PushObject(last.item))
             \/ WriteNative(e.heap, e.value)
             \/ Yield(Err("ValueError"), buffer, objectStack)
      PROVE  IInv'
  <2>1. WellFormed(e.heap, stack') /\ e.heap \in Graphs /\ e.value \in Values
    <3> DEFINE used == Owned(stack') \cup {root, last.item}
    <3>1. Owned(stack') \subseteq used /\ e \in HookResults(used, last.item)
      BY <1>4
    <3> HIDE DEF used
    <3> QED BY <1>2, <3>1, HookKeepsFrames
  <2>2. WellFormed(heap', stack') /\ heap' \in Graphs
    BY <1>4, <2>1
  <2>3. CASE WriteNative(e.heap, e.value)
    <3>1. WriteOutcome(e.heap)
      BY <1>1, <1>2, <2>1, <2>3, WriteNativeOutcome
    <3>2. WriteOutcome(heap')
      BY <1>4, <3>1
    <3> QED BY <1>1, <2>2, <3>2, WritePreserves
  <2>4. ASSUME last' \in Failures, objectStack' \in Seq(Addresses)
        PROVE  IInv'
    <3>1. WriteOutcome(heap')
      BY <2>4 DEF WriteOutcome
    <3> QED BY <1>1, <2>2, <3>1, WritePreserves
  <2>5. CASE Yield(Err("Custom"), buffer, PushObject(last.item))
    <3>1. PushObject(last.item) \in Seq(Addresses)
      BY <1>1 DEF PushObject
    <3> QED BY <2>4, <2>5, <3>1 DEF Yield, Failures, Errors, Err
  <2>6. CASE Yield(Err("ValueError"), buffer, objectStack)
    BY <1>1, <2>4, <2>6 DEF Yield, Failures, Errors, Err
  <2> QED BY <1>4, <2>3, <2>5, <2>6
<1> QED BY <1>3, <1>4, Zenon DEF WriteHooked

\* A step that decides the call leaves nothing to keep in step.
LEMMA DecidedPreserves ==
  ASSUME IInv, UNCHANGED <<heap, root, hook, check, objectStack, last>>,
         stack' \in Seq(Frames), result' \in {Aborted, Killed, Ok} \cup Failures
  PROVE  IInv'
<1>1. result' # Running
  BY DEF Running, Aborted, Killed, Ok, Failures
<1> QED BY <1>1 DEF IInv, TypeOK, ObjectStackMirrorsThunks

LEMMA StepIInv == IInv /\ [Next]_vars => IInv'
<1> SUFFICES ASSUME IInv, [Next]_vars PROVE IInv'
  OBVIOUS
<1>1. CASE WriteItem
  BY <1>1, WriteItemPreserves
<1>2. CASE WriteHooked
  BY <1>2, WriteHookedPreserves
<1>3. CASE ContinueSequence
  <2>1. /\ Resume("SerializingSequence") /\ UNCHANGED result
        /\ NextOfSequence(heap, Top, buffer, objectStack, <<"comma">>)
    BY <1>3 DEF ContinueSequence
  <2>2. Top \in SequenceFrames /\ KindIn(heap, Top) /\ heap \in Graphs
    <3>1. Top \in Iterators /\ Top.op = "SerializingSequence" /\ KindIn(heap, Top)
      BY <2>1, AfterResume
    <3> QED BY <3>1, FrameKinds DEF Iterators, IInv, TypeOK
  <2>3. NextOutcome(heap, Top, objectStack)
    BY <2>1, <2>2, SequenceOutcome
  <2> QED BY <2>1, <2>3, ResumePreserves
<1>4. ASSUME ContinueDict, ~DictPanics(heap, Top) PROVE IInv'
  <2>1. /\ Resume("SerializingDict") /\ UNCHANGED result
        /\ NextOfDict(heap, Top, buffer, objectStack, <<"comma">>)
    BY <1>4 DEF ContinueDict
  <2>2. Top \in DictFrames /\ KindIn(heap, Top) /\ heap \in Graphs
    <3>1. Top \in Iterators /\ Top.op = "SerializingDict" /\ KindIn(heap, Top)
      BY <2>1, AfterResume
    <3> QED BY <3>1, FrameKinds DEF Iterators, IInv, TypeOK
  <2>3. NextOutcome(heap, Top, objectStack)
    BY <2>1, <2>2, DictOutcome
  <2> QED BY <2>1, <2>3, ResumePreserves
<1>5. ASSUME ContinueDict, DictPanics(heap, Top) PROVE IInv'
  <2>1. /\ Resume("SerializingDict") /\ result' = Aborted
        /\ UNCHANGED <<heap, root, hook, check, objectStack, last>>
    BY <1>5 DEF ContinueDict, Panic, Resume
  <2>2. stack' \in Seq(Frames)
    BY <2>1, AfterResume
  <2> QED BY <2>1, <2>2, DecidedPreserves
<1>6. CASE Finish
  <2>1. /\ Resume("Done") /\ result' = Ok
        /\ UNCHANGED <<heap, root, hook, check, objectStack, last>>
    BY <1>6 DEF Finish, Resume
  <2>2. stack' \in Seq(Frames)
    <3>1. result = Running /\ last.tag = "Ok" /\ stack' = SubSeq(stack, 1, Len(stack) - 1)
      BY <2>1 DEF Resume
    <3>2. stack \in Seq(Frames) /\ stack # <<>>
      BY <3>1 DEF IInv, TypeOK, Pending
    <3>3. Len(stack) \in Nat \ {0}
      BY <3>2, EmptySeq
    <3> QED BY <3>1, <3>2, <3>3
  <2> QED BY <2>1, <2>2, DecidedPreserves
<1>7. CASE Fail
  <2>1. /\ result = Running /\ last.tag = "Err" /\ result' = last
        /\ UNCHANGED <<heap, root, hook, check, objectStack, last, stack>>
    BY <1>7 DEF Fail
  <2>2. last \in Failures /\ stack \in Seq(Frames)
    BY <2>1 DEF IInv, TypeOK, Ok
  <2> QED BY <2>1, <2>2, DecidedPreserves
<1>8. CASE Exhausted
  BY <1>8, DecidedPreserves DEF Exhausted, IInv, TypeOK
<1>9. CASE UNCHANGED vars
  BY <1>9 DEF vars, IInv, TypeOK, ObjectStackMirrorsThunks, Pending, OverItsKind
<1> QED BY <1>1, <1>2, <1>3, <1>4, <1>5, <1>6, <1>7, <1>8, <1>9 DEF Next, Iterate, Returned
----------------------------------------------------------------------------
\* The state of into_json keeps its shape, for every graph of objects and
\* every hook: stack.pop().unwrap() (ser.rs:571) always finds a continuation,
\* the one of the whole value is the last, and every iterator that waits is
\* over an object of its kind.
THEOREM TypeCorrect == Spec => []TypeOK
<1>1. IInv => TypeOK
  BY DEF IInv
<1> QED BY <1>1, InitIInv, StepIInv, PTL DEF Spec

\* object_stack is in step with the iterators, for every graph and every hook,
\* whatever it does to the objects while they are being written
\* (ser.rs:108-129): cycle detection looks at the objects being written, all
\* of them and no others.
THEOREM ObjectStackCorrect == Spec => []ObjectStackMirrorsThunks
<1>1. IInv => ObjectStackMirrorsThunks
  BY DEF IInv
<1> QED BY <1>1, InitIInv, StepIInv, PTL DEF Spec
----------------------------------------------------------------------------
(***************************************************************************)
(* Why dumps fails, when the hook changes nothing.                         *)
(***************************************************************************)
\* A call of the hook raises or returns what is inside its argument.
HookIsStatic ==
  \A h \in Graphs, used \in SUBSET Values, a \in Addresses : \A e \in HookEffects(h, used, a) :
    e.heap = h /\ h[a].items # <<>> /\ e.value = h[a].items[1]

\* The values inside each value.
Below == [v \in Values |-> Within(Children(v))]

\* The iterators that expect as many entries as their dicts hold.
Counted ==
  {f \in Iterators : f \in DictFrames =>
     /\ f.used = DictLen(ItemsIn(heap, f))
     /\ f.remaining = Cardinality(EntriesLeft(heap, f))}

\* Each iterator of s is over an object that is inside those of the iterators
\* under it and, with check_circular, is none of them.
Inward(s) ==
  \A j \in 2 .. Len(s) :
    /\ s[j] \in Counted
    /\ s[j].object \in Reachable
    /\ \A i \in 2 .. j - 1 :
         s[j].object \in Below[s[i].object] /\ (check => s[j].object # s[i].object)

\* v is inside the objects of all the iterators of s.
InsideAll(s, v) ==
  v \in Reachable /\ \A i \in 2 .. Len(s) : v \in Below[s[i].object]

\* A value that cannot be written is to be written.
Faulty == \E v \in Reachable : Unwritable(v)

HasReason(e) ==
  /\ e = Err("cycle detected") => check /\ Cyclic
  /\ e = Err("ValueError") => Faulty

\* FailsForAReason, by these names.
Explained ==
  /\ HasReason(result)
  /\ result = Killed => Cyclic /\ ~check
  /\ result # Aborted

\* What an iteration leaves while the call runs, and why it has failed.
FailInv ==
  /\ result = Running =>
       /\ last.tag # "Err" => Inward(Pending)
       /\ last.tag = "Thunk" => InsideAll(Pending, last.item)
       /\ last.tag = "Err" => HasReason(last)
  /\ Explained

\* What is inside a value is a value.
LEMMA ChildrenAreValues ==
  ASSUME heap \in Graphs, NEW v
  PROVE  Children(v) \subseteq Values
<1>1. CASE v \notin Addresses
  BY <1>1 DEF Children, TypeIn
<1>2. CASE v \in Addresses
  <2>1. heap[v] \in Objects
    BY <1>2 DEF Graphs
  <2>2. CASE heap[v].type \in {"list", "tuple"}
    <3>1. heap[v].items \in Seq(Values)
      BY <1>2, <2>2, ItemsOfKind
    <3>2. \A i \in DOMAIN heap[v].items : heap[v].items[i] \in Values
      BY <3>1
    <3> QED BY <1>2, <2>2, <3>2 DEF Children, TypeIn, Range
  <2>3. CASE heap[v].type = "dict"
    <3>1. heap[v].items \in Seq(Entries)
      BY <1>2, <2>3, ItemsOfKind
    <3>2. \A i \in DOMAIN heap[v].items : heap[v].items[i] \in Entries
      BY <3>1
    <3>3. \A e \in Entries \ {Hole} : e.value \in Values
      BY DEF Entries
    <3> QED BY <1>2, <2>3, <3>2, <3>3 DEF Children, TypeIn, Range
  <2>4. CASE heap[v].type = "other"
    <3>1. heap[v].items \in Seq(Values)
      BY <2>1, <2>4 DEF Objects
    <3>2. \A i \in DOMAIN heap[v].items : heap[v].items[i] \in Values
      BY <3>1
    <3> QED BY <1>2, <2>4, <3>2 DEF Children, TypeIn
  <2> QED BY <1>2, <2>1, <2>2, <2>3, <2>4 DEF Objects
<1> QED BY <1>1, <1>2

\* Within(S) holds S and what is inside its values.
LEMMA WithinIsClosed ==
  ASSUME heap \in Graphs, NEW S \in SUBSET Values
  PROVE  /\ S \subseteq Within(S) /\ Within(S) \subseteq Values
         /\ \A v \in Within(S) : Children(v) \subseteq Within(S)
<1> DEFINE closed == {C \in SUBSET Values : S \subseteq C /\ \A v \in C : Children(v) \subseteq C}
<1>1. Within(S) = {v \in Values : \A C \in closed : v \in C}
  BY DEF Within
<1>2. \A C \in closed : S \subseteq C /\ \A v \in C : Children(v) \subseteq C
  OBVIOUS
<1>3. \A v : Children(v) \subseteq Values
  BY ChildrenAreValues
<1> HIDE DEF closed
<1>4. S \subseteq Within(S) /\ Within(S) \subseteq Values
  BY <1>1, <1>2
<1>5. ASSUME NEW v \in Within(S), NEW w \in Children(v)
      PROVE  w \in Within(S)
  <2>1. \A C \in closed : v \in C
    BY <1>1
  <2> QED BY <1>1, <1>2, <1>3, <2>1
<1> QED BY <1>4, <1>5

LEMMA BelowIsClosed ==
  ASSUME heap \in Graphs, NEW v \in Values
  PROVE  /\ Children(v) \subseteq Below[v]
         /\ \A w \in Below[v] : w \in Values /\ Children(w) \subseteq Below[v]
<1>1. Below[v] = Within(Children(v)) /\ Children(v) \in SUBSET Values
  BY ChildrenAreValues DEF Below
<1> QED BY <1>1, WithinIsClosed

LEMMA ReachableIsClosed ==
  ASSUME heap \in Graphs, root \in Values
  PROVE  /\ root \in Reachable
         /\ \A v \in Reachable : v \in Values /\ Children(v) \subseteq Reachable
BY WithinIsClosed DEF Reachable

\* A reachable value that is inside itself is a cycle.
LEMMA InsideItself ==
  ASSUME heap \in Graphs, root \in Values, NEW v \in Reachable, v \in Below[v]
  PROVE  Cyclic
<1>1. v \in Values
  BY ReachableIsClosed
<1> QED BY <1>1 DEF Below, Cyclic, Cycle
----------------------------------------------------------------------------
(***************************************************************************)
(* How the iterators are nested.                                           *)
(***************************************************************************)
\* push_object finds the object on object_stack exactly when one of the
\* iterators is over it (ser.rs:109-122).
LEMMA SeenIsWaiting ==
  ASSUME check \in BOOLEAN, NEW s \in Seq(Frames), s # <<>>, Mirrors(objectStack, s), NEW v
  PROVE  Seen(v) <=> check /\ \E i \in 2 .. Len(s) : s[i].object = v
<1>1. PICK n \in Nat \ {0} : Len(s) = n
  BY EmptySeq
<1>2. CASE check
  <2>1. objectStack = [i \in 1 .. n - 1 |-> s[i + 1].object]
    BY <1>1, <1>2 DEF Mirrors
  <2>2. Seen(v) <=> \E i \in 1 .. n - 1 : s[i + 1].object = v
    BY <1>2, <2>1 DEF Seen
  <2>3. \A i \in 1 .. n - 1 : i + 1 \in 2 .. n
    OBVIOUS
  <2>4. \A i \in 2 .. n : i - 1 \in 1 .. n - 1 /\ (i - 1) + 1 = i
    OBVIOUS
  <2> QED BY <1>1, <1>2, <2>2, <2>3, <2>4
<1>3. CASE ~check
  BY <1>3 DEF Seen
<1> QED BY <1>2, <1>3

\* The iterator g is pushed, and w is the first item that it yields.
LEMMA InwardPush ==
  ASSUME heap \in Graphs, root \in Values,
         NEW s \in Seq(Frames), s # <<>>, Inward(s),
         NEW g \in Counted, InsideAll(s, g.object),
         check => \A i \in 2 .. Len(s) : s[i].object # g.object,
         NEW w \in Children(g.object)
  PROVE  Inward(Append(s, g)) /\ InsideAll(Append(s, g), w)
<1> DEFINE t == Append(s, g)
<1>1. PICK n \in Nat \ {0} : Len(s) = n
  BY EmptySeq
<1>2. g \in Frames /\ g.object \in Values
  BY FrameKinds DEF Counted, Values
<1>3. /\ Len(t) = n + 1
      /\ \A i \in 1 .. n : t[i] = s[i]
      /\ t[n + 1] = g
  BY <1>1, <1>2
<1>4. \A i \in 2 .. n : t[i] = s[i]
  BY <1>3
<1> HIDE DEF t
<1>5. g.object \in Reachable /\ \A i \in 2 .. n : g.object \in Below[s[i].object]
  BY <1>1 DEF InsideAll
<1>6. ASSUME NEW j \in 2 .. n + 1
      PROVE  /\ t[j] \in Counted
             /\ t[j].object \in Reachable
             /\ \A i \in 2 .. j - 1 :
                  t[j].object \in Below[t[i].object] /\ (check => t[j].object # t[i].object)
  <2>1. CASE j = n + 1
    <3>1. t[j] = g /\ \A i \in 2 .. j - 1 : i \in 2 .. n
      BY <1>3, <2>1
    <3> QED BY <1>1, <1>4, <1>5, <3>1
  <2>2. CASE j \in 2 .. n
    <3>1. t[j] = s[j] /\ \A i \in 2 .. j - 1 : i \in 2 .. n /\ t[i] = s[i]
      BY <1>4, <2>2
    <3> QED BY <1>1, <2>2, <3>1 DEF Inward
  <2>3. j = n + 1 \/ j \in 2 .. n
    OBVIOUS
  <2> QED BY <2>1, <2>2, <2>3
<1>7. w \in Reachable
  BY <1>5, ReachableIsClosed
<1>8. ASSUME NEW i \in 2 .. n + 1
      PROVE  w \in Below[t[i].object]
  <2>1. CASE i = n + 1
    BY <1>2, <1>3, <2>1, BelowIsClosed
  <2>2. CASE i \in 2 .. n
    <3>1. s[i].object \in Values
      BY <1>1, <2>2, ReachableIsClosed DEF Inward
    <3>2. g.object \in Below[s[i].object]
      BY <1>5, <2>2
    <3>3. w \in Below[s[i].object]
      BY <3>1, <3>2, BelowIsClosed
    <3> QED BY <1>4, <2>2, <3>3
  <2>3. i = n + 1 \/ i \in 2 .. n
    OBVIOUS
  <2> QED BY <2>1, <2>2, <2>3
<1>9. Inward(t) /\ InsideAll(t, w)
  BY <1>3, <1>6, <1>7, <1>8 DEF Inward, InsideAll
<1> QED BY <1>9 DEF t

\* The iterators under the innermost one.
LEMMA InwardFront ==
  ASSUME heap \in Graphs, root \in Values,
         NEW s \in Seq(Frames), s # <<>>, NEW f \in Iterators, Inward(Append(s, f))
  PROVE  /\ Inward(s) /\ f \in Counted
         /\ InsideAll(s, f.object)
         /\ check => \A i \in 2 .. Len(s) : s[i].object # f.object
<1> DEFINE t == Append(s, f)
<1>1. PICK n \in Nat \ {0} : Len(s) = n
  BY EmptySeq
<1>2. /\ Len(t) = n + 1
      /\ \A i \in 1 .. n : t[i] = s[i]
      /\ t[n + 1] = f
  BY <1>1, FrameKinds
<1>3. /\ \A i \in 2 .. n : t[i] = s[i] /\ i \in 2 .. n + 1
      /\ n + 1 \in 2 .. n + 1 /\ (n + 1) - 1 = n
      /\ \A j \in 2 .. n : \A i \in 2 .. j - 1 : t[i] = s[i]
  BY <1>2
<1>4. Inward(t)
  OBVIOUS
<1> HIDE DEF t
<1>5. /\ t[n + 1] \in Counted /\ t[n + 1].object \in Reachable
      /\ \A i \in 2 .. n :
           t[n + 1].object \in Below[t[i].object] /\ (check => t[n + 1].object # t[i].object)
  BY <1>2, <1>3, <1>4 DEF Inward
<1>6. Inward(s)
  BY <1>1, <1>2, <1>3, <1>4 DEF Inward
<1> QED BY <1>1, <1>2, <1>3, <1>5, <1>6 DEF InsideAll
----------------------------------------------------------------------------
(***************************************************************************)
(* How many entries the iterators of dicts expect.                         *)
(***************************************************************************)
LEMMA FirstCounted ==
  ASSUME heap \in Graphs, NEW v \in Addresses, heap[v].type = "dict"
  PROVE  DictFrame(v, 1, DictLen(heap[v].items), DictLen(heap[v].items)) \in Counted
<1> DEFINE n == DictLen(heap[v].items)
           f == DictFrame(v, 1, n, n)
<1>1. heap[v].items \in Seq(Entries) /\ n \in Nat
  BY ItemsOfKind, DictLenNat
<1> HIDE DEF n
<1>2. /\ f \in DictFrames /\ f.object = v /\ f.index = 1 /\ f.used = n /\ f.remaining = n
  BY <1>1 DEF DictFrame, DictFrames
<1>3. DOMAIN heap[v].items = 1 .. Len(heap[v].items)
  BY <1>1
<1>4. EntriesLeft(heap, f) = {i \in DOMAIN heap[v].items : heap[v].items[i] # Hole}
  BY <1>2, <1>3, SMTT(30) DEF EntriesLeft, ItemsIn
<1>5. n = Cardinality(EntriesLeft(heap, f)) /\ ItemsIn(heap, f) = heap[v].items
  BY <1>2, <1>4 DEF DictLen, n, ItemsIn
<1>6. f \in Counted
  BY <1>2, <1>5 DEF Counted, Iterators, n
<1> QED BY <1>6 DEF n

\* The entries left are finitely many positions of the dict.
LEMMA EntriesLeftType ==
  ASSUME heap \in Graphs, NEW f \in DictFrames, KindIn(heap, f)
  PROVE  /\ ItemsIn(heap, f) \in Seq(Entries)
         /\ EntriesLeft(heap, f) \in SUBSET Nat
         /\ IsFiniteSet(EntriesLeft(heap, f))
         /\ Cardinality(EntriesLeft(heap, f)) \in Nat
<1>1. /\ f.op = "SerializingDict" /\ f.object \in Addresses /\ f.index \in Nat \ {0}
  BY DEF DictFrames
<1>2. ItemsIn(heap, f) \in Seq(Entries)
  BY <1>1, ItemsOfKind DEF KindIn, ItemsIn
<1>3. PICK n \in Nat : Len(ItemsIn(heap, f)) = n
  BY <1>2
<1>4. EntriesLeft(heap, f) \subseteq f.index .. n
  BY <1>3 DEF EntriesLeft
<1>5. IsFiniteSet(f.index .. n)
  <2>1. \A m \in Nat : IsFiniteSet(m .. n)
    BY FS_Interval
  <2> QED BY <1>1, <2>1
<1>6. IsFiniteSet(EntriesLeft(heap, f))
  BY <1>4, <1>5, FS_Subset
<1>7. EntriesLeft(heap, f) \in SUBSET Nat
  BY <1>1, <1>4
<1> QED BY <1>2, <1>6, <1>7, FS_CardinalityType

\* The next entry, and what is left after it.
LEMMA NextCounted ==
  ASSUME heap \in Graphs, NEW f \in Counted, f \in DictFrames, KindIn(heap, f),
         EntriesLeft(heap, f) # {}
  PROVE  /\ NextEntry(heap, f) \in DOMAIN ItemsIn(heap, f)
         /\ ItemsIn(heap, f)[NextEntry(heap, f)] # Hole
         /\ DictFrame(f.object, NextEntry(heap, f) + 1, f.used, f.remaining - 1) \in Counted
<1> DEFINE L == EntriesLeft(heap, f)
           i == NextEntry(heap, f)
           items == ItemsIn(heap, f)
           g == DictFrame(f.object, i + 1, f.used, f.remaining - 1)
<1>1. /\ f.object \in Addresses /\ f.index \in Nat \ {0}
      /\ f.used \in Nat /\ f.remaining \in Int
  BY DEF DictFrames
<1>2. items \in Seq(Entries) /\ L \in SUBSET Nat /\ IsFiniteSet(L) /\ Cardinality(L) \in Nat
  BY EntriesLeftType
<1>3. i \in L /\ \A j \in L : i <= j
  <2>1. \E k \in L : \A j \in L : k <= j
    BY <1>2, LeastElement
  <2> QED BY <2>1 DEF NextEntry
<1>4. PICK n \in Nat : Len(items) = n
  BY <1>2
<1>5. L = {j \in f.index .. n : items[j] # Hole}
  BY <1>4 DEF EntriesLeft
<1>6. i \in 1 .. n /\ i \in Nat /\ items[i] # Hole
  BY <1>1, <1>3, <1>5
<1>7. g \in DictFrames /\ g.object = f.object /\ g.index = i + 1 /\ g.used = f.used
      /\ g.remaining = f.remaining - 1
  <2> HIDE DEF i
  <2> QED BY <1>1, <1>6 DEF DictFrame, DictFrames
<1>8. ItemsIn(heap, g) = items
  BY <1>7 DEF ItemsIn
<1>9. EntriesLeft(heap, g) = {j \in i + 1 .. n : items[j] # Hole}
  BY <1>4, <1>7, <1>8 DEF EntriesLeft
<1>10. EntriesLeft(heap, g) = L \ {i}
  <2> HIDE DEF L, i, items, g
  <2>1. ASSUME NEW j \in Int
        PROVE  j \in i + 1 .. n <=> j \in f.index .. n /\ i <= j /\ j # i
    BY <1>1, <1>3, <1>5, <1>6
  <2>2. \A j \in L : i <= j /\ j \in Int
    BY <1>2, <1>3
  <2> QED BY <1>5, <1>9, <2>1, <2>2
<1>11. Cardinality(L \ {i}) = Cardinality(L) - 1
  BY <1>2, <1>3, FS_RemoveElement
<1>12. f.used = DictLen(items) /\ f.remaining = Cardinality(L)
  BY DEF Counted
<1>13. g.used = DictLen(ItemsIn(heap, g)) /\ g.remaining = Cardinality(EntriesLeft(heap, g))
  <2> HIDE DEF L, i, items, g
  <2> QED BY <1>7, <1>8, <1>10, <1>11, <1>12
<1>14. g \in Counted
  <2> HIDE DEF g
  <2> QED BY <1>7, <1>13 DEF Counted, Iterators
<1> QED BY <1>2, <1>4, <1>6, <1>14

\* Asked for its next entry such an iterator does not panic (PyO3's dict
\* iterator, from ser.rs:515).
LEMMA CountedNeverPanics ==
  ASSUME heap \in Graphs, NEW f \in Counted, f \in DictFrames, KindIn(heap, f)
  PROVE  ~DictPanics(heap, f)
<1>1. f.used = DictLen(ItemsIn(heap, f)) /\ f.remaining = Cardinality(EntriesLeft(heap, f))
  BY DEF Counted
<1>2. Cardinality(EntriesLeft(heap, f)) \in Nat
  BY EntriesLeftType
<1>3. f.remaining # -1
  BY <1>1, <1>2
<1> QED BY <1>1, <1>3 DEF DictPanics
----------------------------------------------------------------------------
(***************************************************************************)
(* Why an iteration fails.                                                 *)
(***************************************************************************)
\* The iterator f has ended, or its object has a key that cannot be written,
\* or it has yielded something inside its object.
ItemOutcome(f) ==
  \/ last' = Ok
  \/ last' = Err("ValueError") /\ Unwritable(f.object)
  \/ \E w \in Children(f.object), g \in Counted : last' = Thunk(w, g) /\ g.object = f.object

LEMMA SequenceItem ==
  ASSUME heap \in Graphs, NEW f \in SequenceFrames, KindIn(heap, f),
         NEW out, NEW os, NEW comma, NextOfSequence(heap, f, out, os, comma)
  PROVE  ItemOutcome(f)
<1>1. /\ f.op = "SerializingSequence" /\ f.object \in Addresses
      /\ f.index \in Nat \ {0} /\ f.length \in Nat
  BY DEF SequenceFrames
<1>2. heap[f.object].type \in {"list", "tuple"} /\ ItemsIn(heap, f) \in Seq(Values)
  BY <1>1, ItemsOfKind DEF KindIn, ItemsIn
<1>3. Children(f.object) = Range(ItemsIn(heap, f))
  BY <1>1, <1>2 DEF Children, TypeIn, ItemsIn
<1>4. CASE SequenceEnded(heap, f) /\ Close(out, os, "]")
  BY <1>4 DEF Close, Yield, ItemOutcome
<1>5. CASE /\ ~SequenceEnded(heap, f)
           /\ Yield(Thunk(ItemsIn(heap, f)[f.index], [f EXCEPT !.index = @ + 1]), out \o comma, os)
  <2> DEFINE g == [f EXCEPT !.index = @ + 1]
             w == ItemsIn(heap, f)[f.index]
  <2>1. f.index \in 1 .. Len(ItemsIn(heap, f))
    BY <1>1, <1>2, <1>5 DEF SequenceEnded
  <2>2. w \in Children(f.object)
    BY <1>2, <1>3, <2>1 DEF Range
  <2>3. g \in SequenceFrames /\ g.object = f.object /\ g.op = f.op
    BY <1>1 DEF SequenceFrames
  <2>4. g \in Counted
    <3> HIDE DEF g
    <3>1. g \notin DictFrames
      BY <1>1, <2>3, FrameKinds
    <3> QED BY <2>3, <3>1 DEF Counted, Iterators
  <2>5. last' = Thunk(w, g)
    BY <1>5 DEF Yield
  <2> HIDE DEF g, w
  <2> QED BY <2>2, <2>3, <2>4, <2>5 DEF ItemOutcome
<1> QED BY <1>4, <1>5 DEF NextOfSequence

LEMMA DictItem ==
  ASSUME heap \in Graphs, NEW f \in Counted, f \in DictFrames, KindIn(heap, f),
         NEW out, NEW os, NEW comma, NextOfDict(heap, f, out, os, comma)
  PROVE  ItemOutcome(f)
<1>1. CASE EntriesLeft(heap, f) = {} /\ Close(out, os, "rbrace")
  BY <1>1 DEF Close, Yield, ItemOutcome
<1>2. CASE EntriesLeft(heap, f) # {}
  <2> DEFINE items == ItemsIn(heap, f)
             i == NextEntry(heap, f)
             g == DictFrame(f.object, i + 1, f.used, f.remaining - 1)
  <2>1. i \in DOMAIN items /\ items[i] # Hole /\ g \in Counted
    BY <1>2, NextCounted
  <2>2. f.object \in Addresses /\ f.op = "SerializingDict"
    BY DEF DictFrames
  <2>3. TypeIn(heap, f.object) = "dict" /\ items = heap[f.object].items
    BY <2>2 DEF KindIn, TypeIn, ItemsIn
  <2>4. items[i] \in Range(items) \ {Hole}
    BY <2>1 DEF Range
  <2>5. items[i].value \in Children(f.object)
    <3> HIDE DEF items, i
    <3> QED BY <2>3, <2>4 DEF Children
  <2>6. g.object = f.object
    BY DEF DictFrame
  <2>7. CASE items[i].key \in Keys
    <3>1. last' = Thunk(items[i].value, g)
      BY <1>1, <1>2, <2>7 DEF NextOfDict, Yield
    <3> HIDE DEF g, items, i
    <3> QED BY <2>1, <2>5, <2>6, <3>1 DEF ItemOutcome
  <2>8. CASE items[i].key \notin Keys
    <3>1. last' = Err("ValueError")
      BY <1>1, <1>2, <2>8 DEF NextOfDict, Yield
    <3>2. Unwritable(f.object)
      <4> HIDE DEF items, i
      <4> QED BY <2>3, <2>4, <2>8 DEF Unwritable
    <3> QED BY <3>1, <3>2 DEF ItemOutcome
  <2> QED BY <2>7, <2>8
<1> QED BY <1>1, <1>2 DEF NextOfDict
----------------------------------------------------------------------------
(***************************************************************************)
(* The invariant.                                                          *)
(***************************************************************************)
LEMMA Tags ==
  /\ Running.tag = "Running" /\ Killed.tag = "Killed" /\ Aborted.tag = "Aborted" /\ Ok.tag = "Ok"
  /\ \A e : Err(e).tag = "Err" /\ Err(e).err = e
BY DEF Running, Killed, Aborted, Ok, Err

LEMMA TwoErrors ==
  /\ Err("ValueError") # Err("cycle detected")
  /\ Err("Custom") # Err("ValueError") /\ Err("Custom") # Err("cycle detected")
<1>1. "ValueError" # "cycle detected" /\ "Custom" # "ValueError" /\ "Custom" # "cycle detected"
  BY Zenon
<1>2. \A d, e : Err(d) = Err(e) => d = e
  BY Tags
<1> QED BY <1>1, <1>2, Zenon

\* The heap does not change, and nothing that depends on it.
Frozen == UNCHANGED <<heap, root, hook, check>>

LEMMA FrozenGraph ==
  ASSUME Frozen
  PROVE  /\ Below' = Below /\ Counted' = Counted /\ Reachable' = Reachable
         /\ Cyclic' = Cyclic /\ Faulty' = Faulty /\ check' = check
<1> USE DEF Frozen
<1>1. \A v : Children(v)' = Children(v)
  BY DEF Children, TypeIn
<1>2. Below' = Below
  BY <1>1 DEF Below, Within
<1>3. Reachable' = Reachable
  BY <1>1 DEF Reachable, Within
<1>4. Cyclic' = Cyclic
  BY <1>1, <1>3 DEF Cyclic, Cycle, Within
<1>5. Counted' = Counted
  BY DEF Counted
<1>6. \A v : Unwritable(v)' <=> Unwritable(v)
  BY DEF Unwritable, TypeIn
<1>7. Faulty' = Faulty
  BY <1>3, <1>6 DEF Faulty
<1> QED BY <1>2, <1>3, <1>4, <1>5, <1>7

\* An iteration that goes on, or that fails for a reason.
LEMMA FailInvAfter ==
  ASSUME Frozen, result' = Running,
         \/ last' = Ok /\ Inward(stack')
         \/ \E w \in Values, g \in Counted :
              /\ last' = Thunk(w, g)
              /\ Inward(Append(stack', g)) /\ InsideAll(Append(stack', g), w)
         \/ last'.tag = "Err" /\ HasReason(last')
  PROVE  FailInv'
<1>1. /\ Below' = Below /\ Counted' = Counted /\ Reachable' = Reachable
      /\ Cyclic' = Cyclic /\ Faulty' = Faulty /\ check' = check
  BY FrozenGraph
<1>2. Explained'
  BY Tags, Zenon DEF Explained, HasReason
<1>3. CASE last' = Ok /\ Inward(stack')
  <2>1. Pending' = stack' /\ last'.tag = "Ok"
    BY <1>3 DEF Pending, Ok
  <2>2. Inward(Pending)'
    BY <1>1, <1>3, <2>1 DEF Inward
  <2> QED BY <1>2, <2>1, <2>2 DEF FailInv
<1>4. ASSUME NEW w \in Values, NEW g \in Counted, last' = Thunk(w, g),
             Inward(Append(stack', g)), InsideAll(Append(stack', g), w)
      PROVE  FailInv'
  <2>1. Pending' = Append(stack', g) /\ last'.tag = "Thunk" /\ last'.item = w
    BY <1>4 DEF Pending, Thunk
  <2>2. Inward(Pending)'
    BY <1>1, <1>4, <2>1 DEF Inward
  <2>3. InsideAll(Pending, last.item)'
    BY <1>1, <1>4, <2>1 DEF InsideAll
  <2> QED BY <1>2, <2>1, <2>2, <2>3 DEF FailInv
<1>5. CASE last'.tag = "Err" /\ HasReason(last')
  <2>1. HasReason(last)'
    BY <1>1, <1>5, Zenon DEF HasReason
  <2> QED BY <1>2, <1>5, <2>1 DEF FailInv
<1> QED BY <1>3, <1>4, <1>5

LEMMA InitFailInv == Init => FailInv
<1> SUFFICES ASSUME Init PROVE FailInv
  OBVIOUS
<1>1. result = Running /\ last.tag = "Thunk" /\ last.item = root /\ Pending = <<DoneFrame>>
  BY DEF Init, Pending, Thunk
<1>2. Inward(Pending)
  BY <1>1 DEF Inward
<1>3. heap \in Graphs /\ root \in Values
  BY GraphsAssumption DEF Init
<1>4. InsideAll(Pending, last.item)
  BY <1>1, <1>3, ReachableIsClosed DEF InsideAll
<1>5. Explained
  BY <1>1, Tags, Zenon DEF Explained, HasReason
<1> QED BY <1>1, <1>2, <1>4, <1>5 DEF FailInv

\* The facts of a state in which the call goes on.
LEMMA GoesOn ==
  ASSUME IInv, FailInv, result = Running, last.tag # "Err"
  PROVE  /\ Inward(Pending) /\ (last.tag = "Thunk" => InsideAll(Pending, last.item))
         /\ heap \in Graphs /\ root \in Values /\ check \in BOOLEAN
BY DEF IInv, TypeOK, FailInv

\* any_to_json_native for a value inside all that are being written
\* (ser.rs:206-251).
LEMMA NativeReason ==
  ASSUME IInv, Push, Frozen, stack' \in Seq(Frames), stack' # <<>>,
         Mirrors(objectStack, stack'), Inward(stack'),
         NEW v \in Values, InsideAll(stack', v), WriteNative(heap, v)
  PROVE  FailInv'
<1>1. /\ heap \in Graphs /\ root \in Values /\ check \in BOOLEAN /\ result' = Running
      /\ v \in Reachable
  BY DEF IInv, TypeOK, Push, InsideAll
<1>2. CASE last' = Ok
  BY <1>1, <1>2, FailInvAfter
<1>3. CASE Seen(v) /\ last' = Err("cycle detected")
  <2>1. check /\ \E i \in 2 .. Len(stack') : stack'[i].object = v
    <3>1. Seen(v) <=> check /\ \E i \in 2 .. Len(stack') : stack'[i].object = v
      BY <1>1, SeenIsWaiting
    <3> QED BY <1>3, <3>1, Zenon
  <2>2. v \in Below[v]
    BY <2>1 DEF InsideAll
  <2>3. Cyclic
    BY <1>1, <2>2, InsideItself
  <2>4. last'.tag = "Err" /\ HasReason(last')
    <3>1. last' = Err("cycle detected") /\ check /\ Cyclic
      BY <1>3, <2>1, <2>3, Zenon
    <3> QED BY <3>1, Tags, TwoErrors, Zenon DEF HasReason
  <2> QED BY <1>1, <2>4, FailInvAfter
<1>4. CASE Unwritable(v) /\ last' = Err("ValueError")
  <2>1. last'.tag = "Err" /\ HasReason(last')
    <3>1. last' = Err("ValueError") /\ Faulty
      BY <1>1, <1>4 DEF Faulty
    <3> QED BY <3>1, Tags, TwoErrors, Zenon DEF HasReason
  <2> QED BY <1>1, <2>1, FailInvAfter
<1>5. ASSUME ~Seen(v), NEW f \in Counted, f.object = v, ItemOutcome(f)
      PROVE  FailInv'
  <2>1. CASE last' = Ok
    BY <1>2, <2>1
  <2>2. CASE last' = Err("ValueError") /\ Unwritable(f.object)
    BY <1>4, <1>5, <2>2
  <2>3. ASSUME NEW w \in Children(f.object), NEW g \in Counted,
               last' = Thunk(w, g), g.object = f.object
        PROVE  FailInv'
    <3>1. InsideAll(stack', g.object) /\ w \in Children(g.object)
      BY <1>5, <2>3
    <3>2. check => \A i \in 2 .. Len(stack') : stack'[i].object # g.object
      BY <1>1, <1>5, <2>3, SeenIsWaiting
    <3>3. Inward(Append(stack', g)) /\ InsideAll(Append(stack', g), w)
      BY <1>1, <3>1, <3>2, InwardPush
    <3>4. w \in Values
      BY <1>1, <2>3, ChildrenAreValues
    <3> QED BY <1>1, <2>3, <3>3, <3>4, FailInvAfter
  <2> QED BY <1>5, <2>1, <2>2, <2>3 DEF ItemOutcome
<1>6. CASE /\ TypeIn(heap, v) \in {"list", "tuple"} /\ ~Seen(v)
           /\ NextOfSequence(heap, SequenceFrame(v, 1, Len(heap[v].items)),
                             Append(buffer, "["), PushObject(v), <<>>)
  <2> DEFINE f == SequenceFrame(v, 1, Len(heap[v].items))
  <2>1. v \in Addresses /\ heap[v].type \in {"list", "tuple"}
    BY <1>6 DEF TypeIn
  <2>2. Len(heap[v].items) \in Nat
    BY <1>1, <2>1, ItemsOfKind
  <2>3. f \in SequenceFrames /\ f.object = v /\ f.op = "SerializingSequence"
    BY <2>1, <2>2 DEF SequenceFrame, SequenceFrames
  <2> HIDE DEF f
  <2>4. KindIn(heap, f)
    BY <2>1, <2>3 DEF KindIn
  <2>5. ItemOutcome(f)
    BY <1>1, <1>6, <2>3, <2>4, SequenceItem DEF f
  <2>6. f \in Counted
    BY <2>3, FrameKinds DEF Counted, Iterators
  <2> QED BY <1>5, <1>6, <2>3, <2>5, <2>6
<1>7. CASE /\ TypeIn(heap, v) = "dict" /\ ~Seen(v)
           /\ LET n == DictLen(heap[v].items) IN
              NextOfDict(heap, DictFrame(v, 1, n, n), Append(buffer, "lbrace"), PushObject(v), <<>>)
  <2> DEFINE n == DictLen(heap[v].items)
             f == DictFrame(v, 1, n, n)
  <2>1. v \in Addresses /\ heap[v].type = "dict"
    BY <1>7 DEF TypeIn
  <2>2. f \in Counted
    BY <1>1, <2>1, FirstCounted
  <2>3. f.object = v /\ f.op = "SerializingDict"
    BY DEF DictFrame
  <2>4. NextOfDict(heap, f, Append(buffer, "lbrace"), PushObject(v), <<>>)
    BY <1>7
  <2> HIDE DEF f
  <2>5. KindIn(heap, f) /\ f \in DictFrames
    BY <2>1, <2>2, <2>3, FrameKinds DEF KindIn, Counted, Iterators
  <2>6. ItemOutcome(f)
    BY <1>1, <2>2, <2>4, <2>5, DictItem
  <2> QED BY <1>5, <1>7, <2>2, <2>3, <2>6
<1>8. CASE v \notin Scalars /\ TypeIn(heap, v) = "scalar" /\ last' = Err("ValueError")
  <2>1. Unwritable(v)
    BY <1>8 DEF Unwritable
  <2> QED BY <1>4, <1>8, <2>1
<1> QED BY <1>2, <1>3, <1>6, <1>7, <1>8, Zenon DEF WriteNative, WriteScalar, Yield

LEMMA WriteItemReason ==
  ASSUME IInv, FailInv, WriteItem
  PROVE  FailInv'
<1>1. /\ Push /\ Frozen /\ result = Running /\ last.tag = "Thunk" /\ result' = Running
  BY DEF WriteItem, Push, Frozen
<1>2. /\ stack' \in Seq(Frames) /\ stack' # <<>> /\ Mirrors(objectStack, stack')
      /\ last.item \in Values
  BY <1>1, AfterPush DEF WellFormed
<1>3. stack' = Pending
  BY <1>1 DEF Push, Pending
<1>4. Inward(stack') /\ InsideAll(stack', last.item)
  <2>1. last.tag # "Err"
    BY <1>1
  <2> QED BY <1>1, <1>3, <2>1, GoesOn
<1>5. CASE WriteNative(heap, last.item)
  BY <1>1, <1>2, <1>4, <1>5, NativeReason
<1>6. CASE Unsupported(heap, last.item) /\ ~hook /\ last' = Err("ValueError")
  <2>1. Unwritable(last.item) /\ last.item \in Reachable
    BY <1>4, <1>6 DEF Unsupported, Unwritable, InsideAll
  <2>2. last'.tag = "Err" /\ HasReason(last')
    BY <1>6, <2>1, Tags, TwoErrors, Zenon DEF HasReason, Faulty
  <2> QED BY <1>1, <2>2, FailInvAfter
<1> QED BY <1>5, <1>6, Zenon DEF WriteItem, Yield

\* What the hook returns is inside its argument, and so inside all that is
\* being written.
LEMMA WriteHookedReason ==
  ASSUME HookIsStatic, IInv, FailInv, WriteHooked
  PROVE  FailInv'
<1>1. /\ Push /\ result = Running /\ last.tag = "Thunk" /\ result' = Running
      /\ UNCHANGED <<root, hook, check>>
      /\ TypeIn(heap, last.item) = "other"
  <2>1. Push /\ TypeIn(heap, last.item) = "other"
    BY Zenon DEF WriteHooked, Unsupported
  <2> QED BY <2>1 DEF Push
<1>2. /\ stack' \in Seq(Frames) /\ stack' # <<>> /\ Mirrors(objectStack, stack')
      /\ heap \in Graphs /\ root \in Values /\ check \in BOOLEAN
      /\ last.item \in Addresses /\ heap[last.item].type = "other"
  BY <1>1, AfterPush DEF WellFormed, IInv, TypeOK, TypeIn
<1>3. Inward(stack') /\ InsideAll(stack', last.item)
  <2>1. stack' = Pending /\ last.tag # "Err"
    BY <1>1 DEF Push, Pending
  <2> QED BY <1>1, <2>1, GoesOn
<1>4. CASE Seen(last.item) /\ last' = Err("cycle detected") /\ UNCHANGED heap
  <2>1. check /\ \E i \in 2 .. Len(stack') : stack'[i].object = last.item
    <3>1. Seen(last.item) <=> check /\ \E i \in 2 .. Len(stack') : stack'[i].object = last.item
      BY <1>2, SeenIsWaiting
    <3> QED BY <1>4, <3>1, Zenon
  <2>2. last.item \in Reachable /\ last.item \in Below[last.item]
    BY <1>3, <2>1 DEF InsideAll
  <2>3. Cyclic
    BY <1>2, <2>2, InsideItself
  <2>4. last'.tag = "Err" /\ HasReason(last')
    BY <1>4, <2>1, <2>3, Tags, TwoErrors, Zenon DEF HasReason
  <2>5. Frozen
    <3>1. UNCHANGED heap
      BY <1>4, Zenon
    <3> QED BY <1>1, <3>1 DEF Frozen
  <2> QED BY <1>1, <2>4, <2>5, FailInvAfter
<1>5. ASSUME NEW e \in HookResults(Owned(stack') \cup {root, last.item}, last.item),
             heap' = e.heap,
             \/ last' = Err("Custom")
             \/ ~e.raises /\ WriteNative(e.heap, e.value)
             \/ Unsupported(e.heap, e.value) /\ last' = Err("ValueError")
      PROVE  FailInv'
  <2> DEFINE used == Owned(stack') \cup {root, last.item}
  <2>1. used \in SUBSET Values
    <3>1. Owned(stack') \subseteq Addresses
      <4>1. \A i \in DOMAIN stack' : stack'[i] \in Frames
        BY <1>2
      <4> QED BY <4>1, FrameKinds DEF Owned
    <3> QED BY <1>2, <3>1 DEF Values
  <2>2. e \in HookEffects(heap, used, last.item) /\ e.value \in Values
    BY DEF HookResults
  <2> HIDE DEF used
  <2>3. /\ e.heap = heap
        /\ heap[last.item].items # <<>> /\ e.value = heap[last.item].items[1]
    BY <1>2, <2>1, <2>2 DEF HookIsStatic
  <2>4. Frozen
    BY <1>1, <1>5, <2>3 DEF Frozen
  <2>5. heap[last.item].items \in Seq(Values)
    <3>1. heap[last.item] \in Objects
      BY <1>2 DEF Graphs
    <3> QED BY <1>2, <3>1 DEF Objects
  <2>6. e.value \in Children(last.item)
    <3>1. 1 \in DOMAIN heap[last.item].items
      BY <2>3, <2>5, EmptySeq
    <3>2. e.value \in {heap[last.item].items[i] : i \in {1} \cap DOMAIN heap[last.item].items}
      BY <2>3, <3>1
    <3>3. hook
      BY Zenon DEF WriteHooked
    <3> QED BY <1>1, <3>2, <3>3 DEF Children
  <2>7. InsideAll(stack', e.value)
    <3>1. last.item \in Reachable /\ e.value \in Reachable
      BY <1>2, <1>3, <2>6, ReachableIsClosed DEF InsideAll
    <3>2. ASSUME NEW i \in 2 .. Len(stack') PROVE e.value \in Below[stack'[i].object]
      <4>1. stack'[i].object \in Values
        BY <1>2, <1>3, ReachableIsClosed DEF Inward
      <4>2. last.item \in Below[stack'[i].object]
        BY <1>3 DEF InsideAll
      <4> QED BY <1>2, <2>6, <4>1, <4>2, BelowIsClosed
    <3> QED BY <3>1, <3>2 DEF InsideAll
  <2>8. CASE last' = Err("Custom")
    <3>1. last'.tag = "Err" /\ HasReason(last')
      BY <2>8, Tags, TwoErrors, Zenon DEF HasReason
    <3> QED BY <1>1, <2>4, <3>1, FailInvAfter
  <2>9. CASE WriteNative(e.heap, e.value)
    <3>1. WriteNative(heap, e.value)
      BY <2>3, <2>9
    <3> QED BY <1>1, <1>2, <1>3, <2>2, <2>4, <2>7, <3>1, NativeReason
  <2>10. CASE Unsupported(e.heap, e.value) /\ last' = Err("ValueError")
    <3>1. Unwritable(last.item) /\ last.item \in Reachable
      BY <1>1, <1>3, <2>3, <2>10 DEF Unsupported, Unwritable, InsideAll
    <3>2. last'.tag = "Err" /\ HasReason(last')
      BY <2>10, <3>1, Tags, TwoErrors, Zenon DEF HasReason, Faulty
    <3> QED BY <1>1, <2>4, <3>2, FailInvAfter
  <2> QED BY <1>5, <2>8, <2>9, <2>10
<1> QED BY <1>4, <1>5, Zenon DEF WriteHooked, Yield

\* The facts of the state in which an iterator is resumed.
LEMMA ResumedReason ==
  ASSUME IInv, FailInv, NEW op, Resume(op), op # "Done", result' = Running, ItemOutcome(Top)
  PROVE  FailInv'
<1>1. /\ stack' \in Seq(Frames) /\ stack' # <<>> /\ Top \in Iterators
      /\ stack = Append(stack', Top) /\ Frozen
      /\ heap \in Graphs /\ root \in Values
  BY AfterResume DEF WellFormed, Frozen, IInv, TypeOK
<1>2. Inward(Append(stack', Top))
  <2>1. result = Running /\ last.tag = "Ok" /\ last.tag # "Err" /\ Pending = stack
    BY DEF Resume, Pending
  <2> QED BY <1>1, <2>1, GoesOn
<1>3. /\ Inward(stack') /\ Top \in Counted /\ InsideAll(stack', Top.object)
      /\ check => \A i \in 2 .. Len(stack') : stack'[i].object # Top.object
  BY <1>1, <1>2, InwardFront
<1>4. CASE last' = Ok
  BY <1>1, <1>3, <1>4, FailInvAfter
<1>5. CASE last' = Err("ValueError") /\ Unwritable(Top.object)
  <2>1. Top.object \in Reachable
    BY <1>3 DEF InsideAll
  <2>2. last'.tag = "Err" /\ HasReason(last')
    BY <1>5, <2>1, Tags, TwoErrors, Zenon DEF HasReason, Faulty
  <2> QED BY <1>1, <2>2, FailInvAfter
<1>6. ASSUME NEW w \in Children(Top.object), NEW g \in Counted,
             last' = Thunk(w, g), g.object = Top.object
      PROVE  FailInv'
  <2>1. InsideAll(stack', g.object) /\ w \in Children(g.object)
        /\ (check => \A i \in 2 .. Len(stack') : stack'[i].object # g.object)
    BY <1>3, <1>6
  <2>2. Inward(Append(stack', g)) /\ InsideAll(Append(stack', g), w)
    BY <1>1, <1>3, <2>1, InwardPush
  <2>3. w \in Values
    BY <1>1, <1>6, ChildrenAreValues
  <2> QED BY <1>1, <1>6, <2>2, <2>3, FailInvAfter
<1> QED BY <1>4, <1>5, <1>6 DEF ItemOutcome

\* With room for a thunk of every object the stack can only be full when an
\* iterator is over the object of another.
LEMMA FullIsCyclic ==
  ASSUME IsFiniteSet(Addresses), heap \in Graphs, root \in Values,
         NEW s \in Seq(Frames), Inward(s), Cardinality(Addresses) < Len(s) - 1
  PROVE  Cyclic /\ ~check
<1>1. PICK n \in Nat : Len(s) = n
  OBVIOUS
<1>2. Cardinality(Addresses) \in Nat
  BY FS_CardinalityType
<1>3. n \in Nat \ {0} /\ Cardinality(Addresses) < n - 1
  BY <1>1, <1>2
<1>4. IsFiniteSet(2 .. n) /\ Cardinality(2 .. n) = n - 1
  <2>1. IsFiniteSet(2 .. n) /\ Cardinality(2 .. n) = IF 2 > n THEN 0 ELSE n - 2 + 1
    BY FS_Interval, SMTT(30)
  <2> QED BY <1>2, <1>3, <2>1
<1> DEFINE objects == [i \in 2 .. n |-> s[i].object]
<1>5. objects \in [2 .. n -> Addresses]
  <2>1. \A i \in 2 .. n : s[i] \in Counted
    BY <1>1 DEF Inward
  <2> QED BY <2>1, FrameKinds DEF Counted
<1>6. \E i, j \in 2 .. n : i # j /\ objects[i] = objects[j]
  <2> HIDE DEF objects
  <2> QED BY <1>3, <1>4, <1>5, FS_PigeonHole
<1>7. PICK i \in 2 .. n, j \in 2 .. n : i < j /\ s[i].object = s[j].object
  <2>1. PICK i \in 2 .. n, j \in 2 .. n : i # j /\ objects[i] = objects[j]
    BY <1>6
  <2>2. s[i].object = s[j].object
    BY <2>1
  <2>3. i < j \/ j < i
    BY <2>1
  <2> QED BY <2>2, <2>3
<1>8. i \in 2 .. j - 1
  BY <1>7
<1>9. /\ s[j].object \in Reachable
      /\ s[j].object \in Below[s[i].object]
      /\ check => s[j].object # s[i].object
  BY <1>1, <1>8 DEF Inward
<1> QED BY <1>7, <1>9, InsideItself

LEMMA StepFailInv ==
  ASSUME HookIsStatic, IsFiniteSet(Addresses), MaxStack \in Nat, Cardinality(Addresses) < MaxStack,
         IInv, FailInv, [Next]_vars
  PROVE  FailInv'
<1>1. CASE WriteItem
  BY <1>1, WriteItemReason
<1>2. CASE WriteHooked
  BY <1>2, WriteHookedReason
<1>3. CASE ContinueSequence
  <2>1. /\ Resume("SerializingSequence") /\ UNCHANGED result
        /\ NextOfSequence(heap, Top, buffer, objectStack, <<"comma">>)
    BY <1>3 DEF ContinueSequence
  <2>2. /\ Top \in SequenceFrames /\ KindIn(heap, Top) /\ heap \in Graphs
        /\ result' = Running
    <3>1. /\ Top \in Iterators /\ Top.op = "SerializingSequence" /\ KindIn(heap, Top)
          /\ result = Running
      BY <2>1, AfterResume
    <3> QED BY <2>1, <3>1, FrameKinds DEF Iterators, IInv, TypeOK
  <2>3. ItemOutcome(Top)
    BY <2>1, <2>2, SequenceItem
  <2> QED BY <2>1, <2>2, <2>3, ResumedReason
<1>4. CASE ContinueDict
  <2>1. Resume("SerializingDict")
    BY <1>4 DEF ContinueDict
  <2>2. /\ Top \in DictFrames /\ KindIn(heap, Top) /\ heap \in Graphs /\ result = Running
        /\ stack = Append(stack', Top) /\ stack' \in Seq(Frames) /\ stack' # <<>>
        /\ Top \in Iterators /\ root \in Values
    <3>1. /\ Top \in Iterators /\ Top.op = "SerializingDict" /\ KindIn(heap, Top)
          /\ result = Running
          /\ stack = Append(stack', Top) /\ stack' \in Seq(Frames) /\ stack' # <<>>
      BY <2>1, AfterResume DEF WellFormed
    <3> QED BY <3>1, FrameKinds DEF Iterators, IInv, TypeOK
  <2>3. Top \in Counted
    <3>1. last.tag # "Err" /\ Pending = stack
      BY <2>1 DEF Resume, Pending
    <3>2. Inward(Append(stack', Top))
      BY <2>2, <3>1, GoesOn
    <3> QED BY <2>2, <3>2, InwardFront
  <2>4. ~DictPanics(heap, Top)
    BY <2>2, <2>3, CountedNeverPanics
  <2>5. NextOfDict(heap, Top, buffer, objectStack, <<"comma">>) /\ UNCHANGED result
    BY <1>4, <2>4 DEF ContinueDict
  <2>6. ItemOutcome(Top)
    BY <2>2, <2>3, <2>5, DictItem
  <2> QED BY <2>1, <2>2, <2>5, <2>6, ResumedReason
<1>5. CASE Finish
  <2>1. result' = Ok
    BY <1>5 DEF Finish
  <2> QED BY <2>1, Tags, Zenon DEF FailInv, Explained, HasReason
<1>6. CASE Fail
  <2>1. result = Running /\ last.tag = "Err" /\ result' = last /\ UNCHANGED <<heap, root, hook, check>>
    BY <1>6 DEF Fail
  <2>2. HasReason(last)
    BY <2>1 DEF FailInv
  <2>3. /\ Reachable' = Reachable /\ Cyclic' = Cyclic /\ Faulty' = Faulty /\ check' = check
    BY <2>1, FrozenGraph DEF Frozen
  <2>4. result' # Running /\ result' # Killed /\ result' # Aborted
    BY <2>1, Tags
  <2>5. HasReason(result)'
    <3>1. result' = Err("cycle detected") => check /\ Cyclic
      BY <2>1, <2>2, Zenon DEF HasReason
    <3>2. result' = Err("ValueError") => Faulty
      BY <2>1, <2>2, Zenon DEF HasReason
    <3> QED BY <2>3, <3>1, <3>2, Zenon DEF HasReason
  <2>6. Explained'
    BY <2>4, <2>5, Zenon DEF Explained
  <2> QED BY <2>4, <2>6 DEF FailInv
<1>7. CASE Exhausted
  <2>1. /\ result = Running /\ last.tag = "Thunk" /\ Len(stack) = MaxStack
        /\ result' = Killed /\ UNCHANGED <<heap, root, hook, check>>
    BY <1>7 DEF Exhausted
  <2>2. Inward(Pending) /\ heap \in Graphs /\ root \in Values
    BY <2>1, GoesOn
  <2>3. Pending \in Seq(Frames) /\ Len(Pending) = MaxStack + 1
    <3>1. stack \in Seq(Frames) /\ last \in [tag : {"Thunk"}, item : Values, continuation : Frames]
      BY <2>1 DEF IInv, TypeOK, Ok, Failures
    <3> QED BY <2>1, <3>1 DEF Pending
  <2>4. Cardinality(Addresses) < Len(Pending) - 1
    BY <2>3
  <2>5. Cyclic /\ ~check
    BY <2>2, <2>3, <2>4, FullIsCyclic
  <2>6. Cyclic' = Cyclic /\ check' = check
    BY <2>1, FrozenGraph DEF Frozen
  <2>7. result' # Running /\ result' # Aborted /\ \A e : result' # Err(e)
    BY <2>1, Tags
  <2>8. Explained'
    BY <2>5, <2>6, <2>7, Zenon DEF Explained, HasReason
  <2> QED BY <2>7, <2>8 DEF FailInv
<1>8. CASE UNCHANGED vars
  <2>1. UNCHANGED <<heap, root, hook, check, stack, last, result>>
    BY <1>8 DEF vars
  <2>2. /\ Below' = Below /\ Counted' = Counted /\ Reachable' = Reachable
        /\ Cyclic' = Cyclic /\ Faulty' = Faulty /\ check' = check
    BY <2>1, FrozenGraph DEF Frozen
  <2>3. Pending' = Pending
    BY <2>1 DEF Pending
  <2>4. /\ Inward(Pending)' <=> Inward(Pending)
        /\ InsideAll(Pending, last.item)' <=> InsideAll(Pending, last.item)
    BY <2>1, <2>2, <2>3 DEF Inward, InsideAll
  <2>5. last' = last /\ result' = result
    BY <2>1
  <2>6. HasReason(last)' <=> HasReason(last)
    BY <2>2, <2>5, Zenon DEF HasReason
  <2>7. HasReason(result)' <=> HasReason(result)
    BY <2>2, <2>5, Zenon DEF HasReason
  <2>8. Explained'
    BY <2>2, <2>5, <2>7, Zenon DEF FailInv, Explained
  <2> QED BY <2>4, <2>5, <2>6, <2>8 DEF FailInv
<1> QED BY <1>1, <1>2, <1>3, <1>4, <1>5, <1>6, <1>7, <1>8 DEF Next, Iterate, Returned

\* When the hook changes nothing, dumps fails only for a reason, for every
\* graph of finitely many objects (ser.rs:105-129, 202-251, 418-540): "cycle
\* detected" is never raised for an object that merely occurs twice, a
\* ValueError is for a value that cannot be written, no iterator of a dict
\* panics, and where there is room for a thunk of every object only a cycle
\* nobody looked for fills the memory (lib.rs:155-165).
THEOREM FailuresCorrect ==
  ASSUME HookIsStatic, IsFiniteSet(Addresses), MaxStack \in Nat, Cardinality(Addresses) < MaxStack
  PROVE  Spec => []FailsForAReason
<1>1. Init => IInv /\ FailInv
  BY InitIInv, InitFailInv
<1>2. IInv /\ FailInv /\ [Next]_vars => IInv' /\ FailInv'
  BY StepIInv, StepFailInv
<1>3. FailInv => FailsForAReason
  BY Zenon DEF FailInv, Explained, HasReason, Faulty, FailsForAReason
<1> QED BY <1>1, <1>2, <1>3, PTL DEF Spec
----------------------------------------------------------------------------
(***************************************************************************)
(* What dumps writes, when the hook changes nothing: the values that have  *)
(* a document.                                                             *)
(***************************************************************************)
\* v can be written when the values inside it can.
Writable(v) ==
  /\ TypeIn(heap, v) = "scalar" => v \in Scalars
  /\ TypeIn(heap, v) = "dict" => \A e \in Range(heap[v].items) \ {Hole} : e.key \in Keys
  /\ TypeIn(heap, v) = "other" => hook /\ heap[v].items # <<>>

\* The least set of values that has v as soon as it has those inside it.
Built(C) == \A v \in Values : Writable(v) /\ Children(v) \subseteq C => v \in C
Unfoldable == {v \in Values : \A C \in SUBSET Values : Built(C) => v \in C}

LEMMA UnfoldableIsBuilt ==
  /\ Built(Unfoldable)
  /\ \A v \in Unfoldable : v \in Values /\ Writable(v) /\ Children(v) \subseteq Unfoldable
<1> DEFINE U == Unfoldable
<1>1. \A v : v \in U <=> v \in Values /\ \A C \in SUBSET Values : Built(C) => v \in C
  BY DEF Unfoldable
<1> HIDE DEF U
<1>2. Built(U)
  <2> SUFFICES ASSUME NEW v \in Values, Writable(v), Children(v) \subseteq U PROVE v \in U
    BY DEF Built
  <2>1. ASSUME NEW C \in SUBSET Values, Built(C) PROVE v \in C
    <3>1. Children(v) \subseteq C
      BY <1>1, <2>1
    <3> QED BY <2>1, <3>1 DEF Built
  <2> QED BY <1>1, <2>1
<1>3. ASSUME NEW v \in U PROVE Writable(v) /\ Children(v) \subseteq U
  <2> DEFINE C == {w \in U : Writable(w) /\ Children(w) \subseteq U}
  <2>1. C \in SUBSET Values /\ C \subseteq U
    BY <1>1
  <2>2. ASSUME NEW w \in Values, Writable(w), Children(w) \subseteq C PROVE w \in C
    <3>1. Children(w) \subseteq U
      BY <2>1, <2>2
    <3>2. w \in U
      BY <1>2, <2>2, <3>1 DEF Built
    <3> QED BY <2>2, <3>1, <3>2
  <2>3. Built(C)
    <3> HIDE DEF C
    <3> QED BY <2>2 DEF Built
  <2>4. v \in C
    <3> HIDE DEF C
    <3> QED BY <1>1, <2>1, <2>3
  <2> QED BY <2>4
<1> QED BY <1>1, <1>2, <1>3 DEF U

LEMMA UnfoldableInduction ==
  ASSUME NEW C \in SUBSET Values, \A v \in Unfoldable : Children(v) \subseteq C => v \in C
  PROVE  Unfoldable \subseteq C
<1> DEFINE D == C \cap Unfoldable
<1>1. D \in SUBSET Values /\ D \subseteq C /\ D \subseteq Unfoldable
  OBVIOUS
<1>2. ASSUME NEW v \in Values, Writable(v), Children(v) \subseteq D PROVE v \in D
  <2>1. v \in Unfoldable
    BY <1>1, <1>2, UnfoldableIsBuilt DEF Built
  <2>2. Children(v) \subseteq C
    BY <1>1, <1>2
  <2> QED BY <2>1, <2>2
<1> HIDE DEF D
<1>3. Built(D)
  BY <1>2 DEF Built
<1> QED BY <1>1, <1>3 DEF Unfoldable

LEMMA WithinIsLeast ==
  ASSUME NEW S, NEW C \in SUBSET Values, S \subseteq C, \A v \in C : Children(v) \subseteq C
  PROVE  Within(S) \subseteq C
BY DEF Within

LEMMA UnfoldableHasNoCycle ==
  ASSUME heap \in Graphs
  PROVE  \A v \in Unfoldable : ~Cycle(v)
<1> DEFINE C == {v \in Unfoldable : ~Cycle(v)}
<1>1. C \in SUBSET Values
  BY UnfoldableIsBuilt
<1>2. ASSUME NEW v \in Unfoldable, Children(v) \subseteq C, Cycle(v) PROVE FALSE
  <2>1. v \in Values /\ \A c \in Children(v) : c \in Values /\ ~Cycle(c)
    BY <1>2, UnfoldableIsBuilt, ChildrenAreValues
  <2> HIDE DEF C
  <2> DEFINE D == {x \in Values : \E c \in Children(v) : x = c \/ x \in Below[c]}
  <2>2. \A c \in Children(v) : /\ Children(c) \subseteq Below[c] /\ Below[c] = Within(Children(c))
                               /\ \A w \in Below[c] : w \in Values /\ Children(w) \subseteq Below[c]
    BY <2>1, BelowIsClosed DEF Below
  <2>3. Children(v) \subseteq D /\ D \in SUBSET Values
    BY <2>1
  <2>4. ASSUME NEW x \in D PROVE Children(x) \subseteq D
    <3>1. PICK c \in Children(v) : x = c \/ x \in Below[c]
      BY <2>4
    <3>2. Children(x) \subseteq Below[c]
      BY <2>2, <3>1
    <3> QED BY <2>2, <3>2
  <2>5. v \in D
    <3> HIDE DEF D
    <3>1. Within(Children(v)) \subseteq D
      BY <2>3, <2>4, WithinIsLeast
    <3> QED BY <1>2, <3>1 DEF Cycle
  <2>6. PICK c \in Children(v) : v = c \/ v \in Below[c]
    BY <2>5
  <2>7. v \in Below[c] => c \in Below[c]
    BY <2>2
  <2> QED BY <1>2, <2>1, <2>2, <2>6, <2>7 DEF Cycle
<1>3. Unfoldable \subseteq C
  BY <1>1, <1>2, UnfoldableInduction
<1> QED BY <1>3

\* A graph that unfolds has no cycle.
LEMMA ReachableUnfolds ==
  ASSUME heap \in Graphs, root \in Unfoldable
  PROVE  Reachable \subseteq Unfoldable /\ ~Cyclic
<1>1. Unfoldable \in SUBSET Values /\ \A v \in Unfoldable : Children(v) \subseteq Unfoldable
  BY UnfoldableIsBuilt
<1>2. Reachable \subseteq Unfoldable
  BY <1>1, WithinIsLeast DEF Reachable
<1> QED BY <1>2, UnfoldableHasNoCycle DEF Cyclic
----------------------------------------------------------------------------
(***************************************************************************)
(* Their documents.                                                        *)
(***************************************************************************)
PairsUpTo(g, unfold, items, n) ==
  g = [k \in 0 .. n |-> IF k = 0 THEN <<>>
                        ELSE IF items[k] = Hole THEN g[k - 1]
                        ELSE Append(g[k - 1], <<Grammar!Leaf(items[k].key), unfold[items[k].value]>>)]

LEMMA PairsEquation ==
  ASSUME NEW unfold, NEW S, NEW items \in Seq(S)
  PROVE  /\ Pairs(unfold, items)[0] = <<>>
         /\ \A n \in 1 .. Len(items) :
              Pairs(unfold, items)[n] =
                IF items[n] = Hole THEN Pairs(unfold, items)[n - 1]
                ELSE Append(Pairs(unfold, items)[n - 1],
                            <<Grammar!Leaf(items[n].key), unfold[items[n].value]>>)
<1> DEFINE Pair(k) == <<Grammar!Leaf(items[k].key), unfold[items[k].value]>>
           T == {n \in Nat : \E g : PairsUpTo(g, unfold, items, n)}
<1>0. \A g, n : PairsUpTo(g, unfold, items, n) <=>
        g = [k \in 0 .. n |-> IF k = 0 THEN <<>>
                              ELSE IF items[k] = Hole THEN g[k - 1]
                              ELSE Append(g[k - 1], Pair(k))]
  BY DEF PairsUpTo
<1> HIDE DEF Pair
<1>1. 0 \in T
  <2>1. PairsUpTo([k \in 0 .. 0 |-> <<>>], unfold, items, 0)
    BY <1>0
  <2> QED BY <2>1
<1>2. ASSUME NEW n \in T PROVE n + 1 \in T
  <2>1. PICK g : PairsUpTo(g, unfold, items, n)
    OBVIOUS
  <2> DEFINE next == IF items[n + 1] = Hole THEN g[n] ELSE Append(g[n], Pair(n + 1))
             h == [k \in 0 .. n + 1 |-> IF k <= n THEN g[k] ELSE next]
  <2>2. \A k \in 0 .. n : g[k] = IF k = 0 THEN <<>>
                                  ELSE IF items[k] = Hole THEN g[k - 1]
                                  ELSE Append(g[k - 1], Pair(k))
    BY <1>0, <2>1
  <2>3. ASSUME NEW k \in 0 .. n + 1
        PROVE  h[k] = IF k = 0 THEN <<>>
                      ELSE IF items[k] = Hole THEN h[k - 1]
                      ELSE Append(h[k - 1], Pair(k))
    <3>1. CASE k \in 0 .. n
      <4>1. k \in Nat /\ k <= n /\ h[k] = g[k]
        BY <3>1
      <4>2. k # 0 => h[k - 1] = g[k - 1]
        BY <3>1
      <4> QED BY <2>2, <3>1, <4>1, <4>2
    <3>2. CASE k = n + 1
      <4>1. n + 1 \in 0 .. n + 1 /\ n \in 0 .. n + 1 /\ ~(n + 1 <= n) /\ n + 1 # 0 /\ (n + 1) - 1 = n
        OBVIOUS
      <4>2. h[n + 1] = next /\ h[n] = g[n]
        BY <4>1
      <4> QED BY <3>2, <4>1, <4>2
    <3> QED BY <3>1, <3>2
  <2>4. h = [k \in 0 .. n + 1 |-> h[k]]
    OBVIOUS
  <2>5. PairsUpTo(h, unfold, items, n + 1)
    <3> HIDE DEF h
    <3> QED BY <2>3, <2>4 DEF PairsUpTo, Pair
  <2> QED BY <2>5
<1> HIDE DEF T
<1>3. T = Nat
  <2>1. T \in SUBSET Nat
    BY DEF T
  <2> QED BY <1>1, <1>2, <2>1, NatSetInduction
<1>4. Len(items) \in T
  BY <1>3
<1>5. \E g : PairsUpTo(g, unfold, items, Len(items))
  BY <1>4 DEF T
<1>6. Pairs(unfold, items) = CHOOSE g : PairsUpTo(g, unfold, items, Len(items))
  BY DEF Pairs, PairsUpTo
<1>7. PairsUpTo(Pairs(unfold, items), unfold, items, Len(items))
  BY <1>5, <1>6
<1>8. \A n \in 1 .. Len(items) : n \in 0 .. Len(items) /\ n # 0
  OBVIOUS
<1>9. 0 \in 0 .. Len(items)
  OBVIOUS
<1> DEFINE P == Pairs(unfold, items)
<1> HIDE DEF P
<1>10. \A n \in 0 .. Len(items) : P[n] = IF n = 0 THEN <<>>
                                         ELSE IF items[n] = Hole THEN P[n - 1]
                                         ELSE Append(P[n - 1], Pair(n))
  <2>1. P = [k \in 0 .. Len(items) |-> IF k = 0 THEN <<>>
                                       ELSE IF items[k] = Hole THEN P[k - 1]
                                       ELSE Append(P[k - 1], Pair(k))]
    BY <1>0, <1>7 DEF P
  <2> QED BY <2>1
<1>11. P[0] = <<>> /\ \A n \in 1 .. Len(items) : P[n] = IF items[n] = Hole THEN P[n - 1]
                                                        ELSE Append(P[n - 1], Pair(n))
  BY <1>8, <1>9, <1>10
<1> QED BY <1>11 DEF P, Pair

\* The pairs are those of the values inside.
LEMMA PairsSame ==
  ASSUME NEW items \in Seq(Entries), NEW f, NEW g,
         \A i \in 1 .. Len(items) : items[i] # Hole => f[items[i].value] = g[items[i].value]
  PROVE  Pairs(f, items)[Len(items)] = Pairs(g, items)[Len(items)]
<1> DEFINE P == Pairs(f, items)
           Q == Pairs(g, items)
           T == {n \in Nat : n <= Len(items) => P[n] = Q[n]}
<1>1. 0 \in T
  BY PairsEquation
<1>2. ASSUME NEW n \in T PROVE n + 1 \in T
  <2> SUFFICES ASSUME n + 1 <= Len(items) PROVE P[n + 1] = Q[n + 1]
    OBVIOUS
  <2>1. n + 1 \in 1 .. Len(items) /\ (n + 1) - 1 = n /\ n <= Len(items)
    OBVIOUS
  <2>2. PICK m \in 1 .. Len(items) : m = n + 1 /\ m - 1 = n
    BY <2>1
  <2>3. /\ P[m] = IF items[m] = Hole THEN P[m - 1]
                  ELSE Append(P[m - 1], <<Grammar!Leaf(items[m].key), f[items[m].value]>>)
        /\ Q[m] = IF items[m] = Hole THEN Q[m - 1]
                  ELSE Append(Q[m - 1], <<Grammar!Leaf(items[m].key), g[items[m].value]>>)
    BY PairsEquation
  <2>4. P[n] = Q[n]
    BY <2>1
  <2> HIDE DEF P, Q
  <2> QED BY <2>2, <2>3, <2>4
<1>3. T \in SUBSET Nat
  OBVIOUS
<1> HIDE DEF P, Q, T
<1>4. T = Nat
  BY <1>1, <1>2, <1>3, NatSetInduction
<1>5. Len(items) \in T
  BY <1>4
<1> QED BY <1>5 DEF P, Q, T

\* Deleted entries have no pairs.
LEMMA PairsSkip ==
  ASSUME NEW f, NEW items \in Seq(Entries), NEW n \in 0 .. Len(items), NEW m \in n .. Len(items),
         \A i \in n + 1 .. m : items[i] = Hole
  PROVE  Pairs(f, items)[m] = Pairs(f, items)[n]
<1> DEFINE P == Pairs(f, items)
           T == {k \in Nat : n + k <= m => P[n + k] = P[n]}
<1>1. 0 \in T
  OBVIOUS
<1>2. ASSUME NEW k \in T PROVE k + 1 \in T
  <2> SUFFICES ASSUME n + (k + 1) <= m PROVE P[n + (k + 1)] = P[n]
    OBVIOUS
  <2>1. PICK i \in 1 .. Len(items) : i = n + (k + 1) /\ i - 1 = n + k
    OBVIOUS
  <2>2. items[i] = Hole
    BY <2>1
  <2>3. P[i] = P[i - 1]
    BY <2>2, PairsEquation
  <2>4. P[n + k] = P[n]
    OBVIOUS
  <2> HIDE DEF P
  <2> QED BY <2>1, <2>3, <2>4
<1>3. T \in SUBSET Nat
  OBVIOUS
<1>4. m - n \in Nat /\ n + (m - n) = m
  OBVIOUS
<1> HIDE DEF T, P
<1>5. m - n \in T
  BY <1>1, <1>2, <1>3, <1>4, NatSetInduction
<1> QED BY <1>4, <1>5 DEF T, P

\* What v denotes depends on what the values inside it do.
LEMMA UnfoldedSame ==
  ASSUME heap \in Graphs, NEW v \in Values, Writable(v), NEW f, NEW g,
         \A c \in Children(v) : f[c] = g[c]
  PROVE  Unfolded(f, v) = Unfolded(g, v)
<1>1. CASE TypeIn(heap, v) = "scalar"
  BY <1>1 DEF Unfolded
<1>2. ASSUME v \in Addresses
      PROVE  Unfolded(f, v) = Unfolded(g, v)
  <2> DEFINE items == heap[v].items
  <2>1. heap[v] \in Objects /\ TypeIn(heap, v) = heap[v].type
    BY <1>2 DEF Graphs, TypeIn
  <2>2. CASE heap[v].type = "other"
    <3>1. items \in Seq(Values) /\ hook /\ items # <<>>
      BY <2>1, <2>2 DEF Objects, Writable
    <3>2. 1 \in DOMAIN items
      BY <3>1, EmptySeq
    <3>3. items[1] \in Children(v)
      BY <2>1, <2>2, <3>1, <3>2 DEF Children
    <3> QED BY <2>1, <2>2, <3>3 DEF Unfolded
  <2>3. CASE heap[v].type = "dict"
    <3>1. items \in Seq(Entries)
      BY <1>2, <2>3, ItemsOfKind
    <3>2. ASSUME NEW i \in 1 .. Len(items), items[i] # Hole PROVE f[items[i].value] = g[items[i].value]
      <4>1. items[i] \in Range(items) \ {Hole}
        BY <3>1, <3>2 DEF Range
      <4>2. items[i].value \in Children(v)
        BY <2>1, <2>3, <4>1 DEF Children
      <4> QED BY <4>2
    <3>3. Pairs(f, items)[Len(items)] = Pairs(g, items)[Len(items)]
      <4> HIDE DEF items
      <4> QED BY <3>1, <3>2, PairsSame
    <3> QED BY <2>1, <2>3, <3>3 DEF Unfolded
  <2>4. CASE heap[v].type \in {"list", "tuple"}
    <3>1. \A i \in DOMAIN items : items[i] \in Children(v)
      BY <2>1, <2>4 DEF Children, Range
    <3>2. [i \in DOMAIN items |-> f[items[i]]] = [i \in DOMAIN items |-> g[items[i]]]
      BY <3>1
    <3> QED BY <2>1, <2>4, <3>2 DEF Unfolded
  <2> QED BY <2>1, <2>2, <2>3, <2>4 DEF Objects
<1> QED BY <1>1, <1>2 DEF TypeIn

\* f gives the values of S, and those inside them, what they denote.
Solution(f, S) ==
  \A v \in S : v \in Unfoldable /\ Children(v) \subseteq S /\ f[v] = Unfolded(f, v)

Documents == [v \in Unfoldable |-> CHOOSE x : \E f, S : Solution(f, S) /\ v \in S /\ x = f[v]]

LEMMA SolutionsAgree ==
  ASSUME heap \in Graphs, NEW f, NEW S, Solution(f, S), NEW g, NEW T, Solution(g, T)
  PROVE  \A v \in S \cap T : f[v] = g[v]
<1> DEFINE C == {v \in Unfoldable : v \in S \cap T => f[v] = g[v]}
<1>1. C \in SUBSET Values
  BY UnfoldableIsBuilt
<1>2. ASSUME NEW v \in Unfoldable, Children(v) \subseteq C PROVE v \in C
  <2> SUFFICES ASSUME v \in S, v \in T PROVE f[v] = g[v]
    OBVIOUS
  <2>1. /\ Children(v) \subseteq S /\ Children(v) \subseteq T
        /\ f[v] = Unfolded(f, v) /\ g[v] = Unfolded(g, v)
    BY DEF Solution
  <2>2. \A c \in Children(v) : f[c] = g[c]
    BY <1>2, <2>1
  <2> HIDE DEF C
  <2>3. Unfolded(f, v) = Unfolded(g, v)
    BY <2>2, UnfoldableIsBuilt, UnfoldedSame
  <2> QED BY <2>1, <2>3
<1>3. Unfoldable \subseteq C
  <2> HIDE DEF C
  <2> QED BY <1>1, <1>2, UnfoldableInduction
<1> QED BY <1>3 DEF Solution

LEMMA DocumentsAgree ==
  ASSUME heap \in Graphs, NEW f, NEW S, Solution(f, S), NEW v \in S
  PROVE  v \in Unfoldable /\ Documents[v] = f[v]
<1>1. v \in Unfoldable
  BY DEF Solution
<1> DEFINE P(x) == \E g, T : Solution(g, T) /\ v \in T /\ x = g[v]
<1>2. P(f[v])
  OBVIOUS
<1>3. \A x : P(x) => x = f[v]
  BY SolutionsAgree
<1>4. Documents[v] = CHOOSE x : P(x)
  BY <1>1 DEF Documents
<1> HIDE DEF P
<1> QED BY <1>1, <1>2, <1>3, <1>4

\* Every value that can be unfolded has a document.
LEMMA SolutionExists ==
  ASSUME heap \in Graphs
  PROVE  \A v \in Unfoldable : \E f, S : Solution(f, S) /\ v \in S
<1> DEFINE C == {v \in Unfoldable : \E f, S : Solution(f, S) /\ v \in S}
<1>1. C \in SUBSET Values /\ C \subseteq Unfoldable
  BY UnfoldableIsBuilt
<1>2. ASSUME NEW w \in C
      PROVE  /\ w \in Unfoldable /\ Children(w) \subseteq C
             /\ Documents[w] = Unfolded(Documents, w)
  <2>1. PICK g, T : Solution(g, T) /\ w \in T
    OBVIOUS
  <2>2. T \subseteq C
    BY <2>1 DEF Solution
  <2>3. w \in Unfoldable /\ Children(w) \subseteq T /\ g[w] = Unfolded(g, w)
    BY <2>1 DEF Solution
  <2> HIDE DEF C
  <2>4. \A c \in Children(w) : g[c] = Documents[c]
    BY <2>1, <2>3, DocumentsAgree
  <2>5. Unfolded(g, w) = Unfolded(Documents, w)
    BY <2>3, <2>4, UnfoldableIsBuilt, UnfoldedSame
  <2>6. Documents[w] = g[w]
    BY <2>1, DocumentsAgree
  <2> QED BY <2>2, <2>3, <2>5, <2>6
<1>3. ASSUME NEW v \in Unfoldable, Children(v) \subseteq C PROVE v \in C
  <2> DEFINE S == C \cup {v}
             f == [w \in Values |-> IF w \in C THEN Documents[w] ELSE Unfolded(Documents, w)]
  <2>1. \A w \in S : w \in Values /\ w \in Unfoldable /\ Writable(w)
    BY <1>1, UnfoldableIsBuilt
  <2>2. C \subseteq S /\ v \in S /\ \A w \in S : w \in C \/ w = v
    OBVIOUS
  <2>3. \A w \in C : f[w] = Documents[w]
    BY <1>1
  <2>4. f[v] = Documents[v] \/ f[v] = Unfolded(Documents, v)
    BY <2>1, <2>2
  <2>5. v \notin C => f[v] = Unfolded(Documents, v)
    BY <2>1, <2>2
  <2> HIDE DEF C, S, f
  <2>6. ASSUME NEW w \in S
        PROVE  Children(w) \subseteq C /\ f[w] = Unfolded(Documents, w)
    <3>1. CASE w \in C
      BY <1>2, <2>3, <3>1
    <3>2. CASE w \notin C
      BY <1>3, <2>2, <2>5, <3>2
    <3> QED BY <3>1, <3>2
  <2>7. ASSUME NEW w \in S PROVE Unfolded(Documents, w) = Unfolded(f, w)
    <3>1. \A c \in Children(w) : Documents[c] = f[c]
      BY <2>3, <2>6
    <3> QED BY <2>1, <3>1, UnfoldedSame
  <2>8. Solution(f, S)
    BY <2>1, <2>2, <2>6, <2>7 DEF Solution
  <2> QED BY <2>2, <2>8 DEF C
<1>4. Unfoldable \subseteq C
  <2> HIDE DEF C
  <2> QED BY <1>1, <1>3, UnfoldableInduction
<1> QED BY <1>4

LEMMA DocumentsEquation ==
  ASSUME heap \in Graphs, NEW v \in Unfoldable
  PROVE  Documents[v] = Unfolded(Documents, v)
<1>1. PICK f, S : Solution(f, S) /\ v \in S
  BY SolutionExists
<1>2. Children(v) \subseteq S /\ f[v] = Unfolded(f, v)
  BY <1>1 DEF Solution
<1>3. Documents[v] = f[v] /\ \A c \in Children(v) : f[c] = Documents[c]
  BY <1>1, <1>2, DocumentsAgree
<1>4. Unfolded(f, v) = Unfolded(Documents, v)
  BY <1>3, UnfoldableIsBuilt, UnfoldedSame
<1> QED BY <1>2, <1>3, <1>4

\* The document of the whole graph.
LEMMA UnfoldIsDocument ==
  ASSUME heap \in Graphs, root \in Unfoldable
  PROVE  Unfold = Documents[root]
<1>1. /\ Reachable \subseteq Unfoldable /\ root \in Reachable
      /\ \A v \in Reachable : v \in Values /\ Writable(v) /\ Children(v) \subseteq Reachable
  BY ReachableUnfolds, ReachableIsClosed, UnfoldableIsBuilt
<1> DEFINE Is(u) == u = [v \in Reachable |-> Unfolded(u, v)]
           d == [v \in Reachable |-> Documents[v]]
<1>2. Is(d)
  <2>1. \A v \in Reachable : d[v] = Documents[v]
    OBVIOUS
  <2>2. d = [v \in Reachable |-> d[v]]
    OBVIOUS
  <2> HIDE DEF d
  <2>3. ASSUME NEW v \in Reachable PROVE d[v] = Unfolded(d, v)
    <3>1. \A c \in Children(v) : Documents[c] = d[c]
      BY <1>1, <2>1
    <3>2. Unfolded(Documents, v) = Unfolded(d, v)
      BY <1>1, <3>1, UnfoldedSame
    <3>3. Documents[v] = Unfolded(Documents, v)
      BY <1>1, DocumentsEquation
    <3> QED BY <2>1, <3>2, <3>3
  <2> QED BY <2>2, <2>3
<1> DEFINE u == CHOOSE f : Is(f)
<1>3. Unfold = u[root]
  BY DEF Unfold
<1>4. Is(u)
  <2> HIDE DEF Is, d
  <2> QED BY <1>2
<1> HIDE DEF u
<1>5. \A v \in Reachable : u[v] = Unfolded(u, v)
  BY <1>4
<1>6. Solution(u, Reachable)
  BY <1>1, <1>5 DEF Solution
<1> QED BY <1>1, <1>3, <1>6, DocumentsAgree
----------------------------------------------------------------------------
(***************************************************************************)
(* What the iterators have yielded.                                        *)
(***************************************************************************)
\* The item at place i of the object of f has a document.
Fine(f, i) ==
  LET item == ItemsIn(heap, f)[i] IN
  /\ f.op = "SerializingSequence" => item \in Unfoldable
  /\ f.op = "SerializingDict" /\ item # Hole => item.key \in Keys /\ item.value \in Unfoldable

InStep(f) == f.op = "SerializingSequence" => f.length = Len(ItemsIn(heap, f))

\* f can be asked for its next item: those that it has yielded are written.
Ready(f) ==
  /\ InStep(f)
  /\ f.index - 1 \in 0 .. Len(ItemsIn(heap, f))
  /\ \A i \in 1 .. f.index - 1 : Fine(f, i)

\* The iterators that wait until the last item they yielded is written, and
\* the value that each frame waits for.
Begun ==
  {f \in Iterators :
     /\ InStep(f)
     /\ f.index - 1 \in 1 .. Len(ItemsIn(heap, f))
     /\ \A i \in 1 .. f.index - 2 : Fine(f, i)
     /\ f.op = "SerializingDict" =>
          LET item == ItemsIn(heap, f)[f.index - 1] IN item # Hole /\ item.key \in Keys}

Awaited ==
  [f \in Frames |->
     IF f.op = "Done" THEN root
     ELSE LET item == ItemsIn(heap, f)[f.index - 1] IN
          IF f.op = "SerializingSequence" THEN item ELSE item.value]

\* The documents of the items that f has yielded; for a dict with their keys.
Part ==
  [f \in Iterators |->
     IF f.op = "SerializingSequence" THEN [i \in 1 .. f.index - 1 |-> Documents[ItemsIn(heap, f)[i]]]
     ELSE Pairs(Documents, ItemsIn(heap, f))[f.index - 1]]

LEMMA BegunIsReady ==
  ASSUME NEW f \in Begun, Awaited[f] \in Unfoldable
  PROVE  Ready(f)
<1>1. /\ f \in Iterators /\ InStep(f)
      /\ f.index - 1 \in 1 .. Len(ItemsIn(heap, f))
      /\ \A i \in 1 .. f.index - 2 : Fine(f, i)
      /\ f.op = "SerializingDict" => ItemsIn(heap, f)[f.index - 1].key \in Keys
  BY DEF Begun
<1>2. f.index \in Nat /\ f.op \in {"SerializingSequence", "SerializingDict"} /\ f \in Frames
  BY <1>1, FrameKinds DEF Iterators, SequenceFrames, DictFrames
<1>3. Fine(f, f.index - 1)
  <2>1. Awaited[f] = IF f.op = "SerializingSequence" THEN ItemsIn(heap, f)[f.index - 1]
                     ELSE ItemsIn(heap, f)[f.index - 1].value
    BY <1>2 DEF Awaited
  <2> QED BY <1>1, <2>1 DEF Fine
<1>4. ASSUME NEW i \in 1 .. f.index - 1 PROVE Fine(f, i)
  <2>1. i = f.index - 1 \/ i \in 1 .. f.index - 2
    BY <1>2
  <2> QED BY <1>1, <1>3, <2>1
<1>5. f.index - 1 \in 0 .. Len(ItemsIn(heap, f))
  BY <1>1
<1> QED BY <1>1, <1>4, <1>5 DEF Ready

LEMMA SequenceFacts ==
  ASSUME heap \in Graphs, NEW f \in SequenceFrames, KindIn(heap, f)
  PROVE  /\ f \in Iterators /\ f \in Frames /\ f.op = "SerializingSequence"
         /\ f.object \in Addresses /\ f.object \in Values /\ f.index \in Nat \ {0}
         /\ TypeIn(heap, f.object) \in {"list", "tuple"}
         /\ ItemsIn(heap, f) = heap[f.object].items /\ ItemsIn(heap, f) \in Seq(Values)
<1>1. /\ f.op = "SerializingSequence" /\ f.object \in Addresses /\ f.index \in Nat \ {0}
  BY DEF SequenceFrames
<1>2. f \in Iterators /\ f \in Frames
  BY FrameKinds DEF Iterators
<1> QED BY <1>1, <1>2, ItemsOfKind DEF KindIn, ItemsIn, TypeIn, Values

LEMMA DictFacts ==
  ASSUME heap \in Graphs, NEW f \in DictFrames, KindIn(heap, f)
  PROVE  /\ f \in Iterators /\ f \in Frames /\ f.op = "SerializingDict"
         /\ f.object \in Addresses /\ f.object \in Values /\ f.index \in Nat \ {0}
         /\ TypeIn(heap, f.object) = "dict"
         /\ ItemsIn(heap, f) = heap[f.object].items /\ ItemsIn(heap, f) \in Seq(Entries)
<1>1. /\ f.op = "SerializingDict" /\ f.object \in Addresses /\ f.index \in Nat \ {0}
  BY DEF DictFrames
<1>2. f \in Iterators /\ f \in Frames
  BY FrameKinds DEF Iterators
<1> QED BY <1>1, <1>2, ItemsOfKind DEF KindIn, ItemsIn, TypeIn, Values

LEMMA InitialAppend ==
  ASSUME NEW n \in Nat, NEW D, NEW items
  PROVE  [i \in 1 .. n + 1 |-> D[items[i]]] = Append([i \in 1 .. n |-> D[items[i]]], D[items[n + 1]])
<1> DEFINE s == [i \in 1 .. n |-> D[items[i]]]
           t == Append(s, D[items[n + 1]])
           E == {D[items[i]] : i \in 1 .. n + 1}
<1>1. s \in Seq(E) /\ Len(s) = n /\ D[items[n + 1]] \in E
  OBVIOUS
<1> HIDE DEF E
<1>2. t = [i \in 1 .. n + 1 |-> IF i = n + 1 THEN D[items[n + 1]] ELSE s[i]]
  BY <1>1
<1>3. \A i \in 1 .. n + 1 : (IF i = n + 1 THEN D[items[n + 1]] ELSE s[i]) = D[items[i]]
  <2> TAKE i \in 1 .. n + 1
  <2>1. i = n + 1 \/ i \in 1 .. n
    OBVIOUS
  <2> QED BY <2>1
<1> QED BY <1>2, <1>3

\* The iterator of a list or tuple yields another item.
LEMMA SequenceGoesOn ==
  ASSUME heap \in Graphs, NEW f \in SequenceFrames, KindIn(heap, f), Ready(f), ~SequenceEnded(heap, f)
  PROVE  /\ [f EXCEPT !.index = @ + 1] \in Begun
         /\ Awaited[[f EXCEPT !.index = @ + 1]] = ItemsIn(heap, f)[f.index]
         /\ Part[[f EXCEPT !.index = @ + 1]] = Append(Part[f], Documents[ItemsIn(heap, f)[f.index]])
<1> DEFINE g == [f EXCEPT !.index = @ + 1]
           items == ItemsIn(heap, f)
<1>1. /\ f \in Iterators /\ f.op = "SerializingSequence" /\ f.index \in Nat \ {0}
      /\ items \in Seq(Values)
  BY SequenceFacts
<1>2. /\ g \in SequenceFrames /\ g.object = f.object /\ g.op = f.op /\ g.length = f.length
      /\ g.index = f.index + 1
  BY <1>1 DEF SequenceFrames
<1>3. g \in Iterators /\ g \in Frames /\ ItemsIn(heap, g) = items
  BY <1>2, FrameKinds DEF Iterators, ItemsIn
<1>4. f.index \in 1 .. Len(items)
  BY <1>1 DEF SequenceEnded
<1> HIDE DEF g
<1>5. \A i : Fine(g, i) <=> Fine(f, i)
  BY <1>2, <1>3 DEF Fine
<1> HIDE DEF items
<1>6. g.index - 1 = f.index /\ g.index - 2 = f.index - 1
  BY <1>1, <1>2
<1>7. InStep(g)
  BY <1>2, <1>3 DEF Ready, InStep, items
<1>8. g \in Begun
  BY <1>1, <1>2, <1>3, <1>4, <1>5, <1>6, <1>7 DEF Begun, Ready
<1>9. Awaited[g] = items[f.index]
  BY <1>1, <1>2, <1>3, <1>6 DEF Awaited
<1>10. Part[g] = Append(Part[f], Documents[items[f.index]])
  <2>1. Part[g] = [i \in 1 .. f.index |-> Documents[items[i]]]
    BY <1>1, <1>2, <1>3, <1>6 DEF Part
  <2>2. Part[f] = [i \in 1 .. f.index - 1 |-> Documents[items[i]]]
    BY <1>1 DEF Part, items
  <2>3. PICK n \in Nat : f.index - 1 = n /\ f.index = n + 1
    BY <1>1
  <2> QED BY <2>1, <2>2, <2>3, InitialAppend
<1> QED BY <1>8, <1>9, <1>10 DEF g, items

\* It has ended, and with it its object.
LEMMA SequenceIsOver ==
  ASSUME heap \in Graphs, NEW f \in SequenceFrames, KindIn(heap, f), Ready(f), SequenceEnded(heap, f)
  PROVE  /\ f.object \in Unfoldable
         /\ Documents[f.object] = Grammar!PyList(Part[f])
<1> DEFINE items == ItemsIn(heap, f)
           v == f.object
<1>1. /\ f \in Iterators /\ f.op = "SerializingSequence" /\ f.index \in Nat \ {0}
      /\ items \in Seq(Values) /\ items = heap[v].items /\ v \in Values
      /\ TypeIn(heap, v) \in {"list", "tuple"}
  BY SequenceFacts
<1>2. f.length = Len(items) /\ f.index - 1 \in 0 .. Len(items)
  BY <1>1 DEF Ready, InStep
<1>3. f.index - 1 = Len(items) /\ DOMAIN items = 1 .. Len(items)
  BY <1>1, <1>2 DEF SequenceEnded
<1> HIDE DEF v
<1>4. \A i \in DOMAIN items : items[i] \in Unfoldable
  <2>1. ASSUME NEW i \in 1 .. f.index - 1 PROVE items[i] \in Unfoldable
    BY <1>1 DEF Ready, Fine
  <2> HIDE DEF items
  <2> QED BY <1>3, <2>1
<1> HIDE DEF items
<1>5. Children(v) \subseteq Unfoldable
  BY <1>1, <1>4 DEF Children, Range
<1>6. Writable(v)
  BY <1>1 DEF Writable
<1>7. v \in Unfoldable
  BY <1>1, <1>5, <1>6, UnfoldableIsBuilt DEF Built
<1>8. Unfolded(Documents, v) = Grammar!PyList([i \in DOMAIN items |-> Documents[items[i]]])
  BY <1>1 DEF Unfolded
<1>9. Part[f] = [i \in DOMAIN items |-> Documents[items[i]]]
  BY <1>1, <1>3 DEF Part, items
<1> QED BY <1>7, <1>8, <1>9, DocumentsEquation DEF v

\* The next entry of a dict, and the holes in front of it.
LEMMA NextEntryIs ==
  ASSUME heap \in Graphs, NEW f \in DictFrames, KindIn(heap, f), EntriesLeft(heap, f) # {}
  PROVE  /\ NextEntry(heap, f) \in f.index .. Len(ItemsIn(heap, f))
         /\ ItemsIn(heap, f)[NextEntry(heap, f)] # Hole
         /\ \A j \in f.index .. NextEntry(heap, f) - 1 : ItemsIn(heap, f)[j] = Hole
<1> DEFINE items == ItemsIn(heap, f)
           i == NextEntry(heap, f)
<1>1. f.index \in Nat \ {0} /\ items \in Seq(Entries) /\ EntriesLeft(heap, f) \in SUBSET Nat
  BY DictFacts, EntriesLeftType
<1>2. i \in EntriesLeft(heap, f) /\ \A j \in EntriesLeft(heap, f) : i <= j
  <2>1. \E k \in EntriesLeft(heap, f) : \A j \in EntriesLeft(heap, f) : k <= j
    BY <1>1, LeastElement
  <2> QED BY <2>1 DEF NextEntry
<1>3. PICK n \in Nat : n = Len(items)
  BY <1>1
<1>4. EntriesLeft(heap, f) = {j \in f.index .. n : items[j] # Hole}
  BY <1>3 DEF EntriesLeft
<1> HIDE DEF i, items
<1>5. i \in f.index .. n /\ items[i] # Hole
  BY <1>2, <1>4
<1>6. ASSUME NEW j \in f.index .. i - 1 PROVE items[j] = Hole
  <2>1. j \in f.index .. n /\ ~(i <= j)
    BY <1>1, <1>5
  <2> QED BY <1>2, <1>4, <2>1
<1> QED BY <1>3, <1>5, <1>6 DEF i, items

\* The iterator of a dict yields another entry.
LEMMA DictGoesOn ==
  ASSUME heap \in Graphs, NEW f \in DictFrames, KindIn(heap, f), Ready(f), EntriesLeft(heap, f) # {},
         NEW item, item = ItemsIn(heap, f)[NextEntry(heap, f)], item.key \in Keys,
         NEW g, g = DictFrame(f.object, NextEntry(heap, f) + 1, f.used, f.remaining - 1)
  PROVE  /\ g \in Begun
         /\ Awaited[g] = item.value
         /\ Part[g] = Append(Part[f], <<Grammar!Leaf(item.key), Documents[item.value]>>)
<1> DEFINE items == ItemsIn(heap, f)
<1>1. /\ f \in Iterators /\ f.op = "SerializingDict" /\ f.index \in Nat \ {0} /\ f.object \in Addresses
      /\ items \in Seq(Entries) /\ f.used \in Nat /\ f.remaining \in Int
  BY DictFacts DEF DictFrames
<1>2. PICK i \in Nat : /\ i = NextEntry(heap, f) /\ i \in f.index .. Len(items)
                       /\ items[i] # Hole /\ \A j \in f.index .. i - 1 : items[j] = Hole
  BY <1>1, NextEntryIs
<1>3. /\ g \in DictFrames /\ g.object = f.object /\ g.op = "SerializingDict" /\ g.index = i + 1
  BY <1>1, <1>2 DEF DictFrame, DictFrames
<1>4. g \in Iterators /\ g \in Frames /\ ItemsIn(heap, g) = items
  BY <1>3, FrameKinds DEF Iterators, ItemsIn
<1>5. \A j : Fine(g, j) <=> Fine(f, j)
  BY <1>1, <1>3, <1>4 DEF Fine
<1>6. Ready(f) /\ item = items[i]
  BY <1>2
<1>7. f.index - 1 \in 0 .. Len(items) /\ \A j \in 1 .. f.index - 1 : Fine(f, j)
  BY <1>6 DEF Ready
<1>8. \A j \in f.index .. i - 1 : Fine(f, j)
  BY <1>1, <1>2 DEF Fine
<1>0. PICK x \in Nat \ {0}, n \in Nat : x = f.index /\ n = Len(items)
  BY <1>1
<1> HIDE DEF items
<1>15. i \in x .. n /\ i \in 1 .. n
  BY <1>0, <1>2
<1>9. g.index - 1 = i /\ g.index - 2 = i - 1 /\ i \in 1 .. Len(items)
  <2>1. (i + 1) - 1 = i /\ (i + 1) - 2 = i - 1
    OBVIOUS
  <2> QED BY <1>0, <1>3, <1>15, <2>1
<1>10. \A j \in 1 .. i - 1 : Fine(g, j)
  <2> TAKE j \in 1 .. i - 1
  <2>1. j \in 1 .. f.index - 1 \/ j \in f.index .. i - 1
    BY <1>1, <1>2
  <2> QED BY <1>5, <1>7, <1>8, <2>1
<1>11. g.op # "SerializingSequence" /\ g.op # "Done"
  BY <1>3
<1>12. g \in Begun
  BY <1>2, <1>3, <1>4, <1>6, <1>9, <1>10, <1>11, SMTT(30) DEF Begun, InStep
<1>13. Awaited[g] = item.value
  BY <1>4, <1>6, <1>9, <1>11 DEF Awaited
<1>14. Part[g] = Append(Part[f], <<Grammar!Leaf(item.key), Documents[item.value]>>)
  <2> DEFINE P == Pairs(Documents, items)
  <2>1. Part[g] = P[i] /\ Part[f] = P[f.index - 1]
    BY <1>1, <1>4, <1>9, <1>11 DEF Part, items
  <2>2. P[i] = IF items[i] = Hole THEN P[i - 1]
               ELSE Append(P[i - 1], <<Grammar!Leaf(items[i].key), Documents[items[i].value]>>)
    BY <1>1, <1>9, PairsEquation
  <2>3. P[i - 1] = P[x - 1]
    <3>1. x - 1 \in 0 .. Len(items) /\ i - 1 \in x - 1 .. Len(items)
      BY <1>0, <1>15
    <3>2. \A j \in (x - 1) + 1 .. i - 1 : items[j] = Hole
      <4>1. (x - 1) + 1 = x
        OBVIOUS
      <4> QED BY <1>0, <1>2, <4>1
    <3> QED BY <1>1, <3>1, <3>2, PairsSkip
  <2> HIDE DEF P
  <2> QED BY <1>0, <1>2, <1>6, <2>1, <2>2, <2>3
<1> QED BY <1>12, <1>13, <1>14

\* It has ended, and with it its object.
LEMMA DictIsOver ==
  ASSUME heap \in Graphs, NEW f \in DictFrames, KindIn(heap, f), Ready(f), EntriesLeft(heap, f) = {}
  PROVE  /\ f.object \in Unfoldable
         /\ Documents[f.object] = Grammar!DictOf(Part[f])
<1> DEFINE items == ItemsIn(heap, f)
           v == f.object
<1>1. /\ f \in Iterators /\ f.op = "SerializingDict" /\ f.index \in Nat \ {0}
      /\ items \in Seq(Entries) /\ items = heap[v].items /\ v \in Values
      /\ TypeIn(heap, v) = "dict"
  BY DictFacts
<1>2. f.index - 1 \in 0 .. Len(items) /\ \A i \in 1 .. f.index - 1 : Fine(f, i)
  BY DEF Ready
<1>3. PICK n \in Nat : n = Len(items) /\ DOMAIN items = 1 .. n
  BY <1>1
<1>4. EntriesLeft(heap, f) = {j \in f.index .. n : items[j] # Hole}
  BY <1>3 DEF EntriesLeft
<1>5. \A j \in f.index .. n : items[j] = Hole
  BY <1>4
<1>6. \A i \in 1 .. n : items[i] # Hole => items[i].key \in Keys /\ items[i].value \in Unfoldable
  <2> TAKE i \in 1 .. n
  <2>1. i \in 1 .. f.index - 1 \/ i \in f.index .. n
    BY <1>1
  <2>2. i \in 1 .. f.index - 1 => Fine(f, i)
    BY <1>2
  <2> QED BY <1>1, <1>5, <2>1, <2>2 DEF Fine
<1> HIDE DEF v, items
<1>7. Children(v) \subseteq Unfoldable
  BY <1>1, <1>3, <1>6 DEF Children, Range
<1>8. Writable(v)
  BY <1>1, <1>3, <1>6 DEF Writable, Range
<1>9. v \in Unfoldable
  BY <1>1, <1>7, <1>8, UnfoldableIsBuilt DEF Built
<1>10. Unfolded(Documents, v) = Grammar!DictOf(Pairs(Documents, items)[Len(items)])
  BY <1>1 DEF Unfolded
<1>11. Part[f] = Pairs(Documents, items)[f.index - 1]
  BY <1>1 DEF Part, items
<1>12. Pairs(Documents, items)[n] = Pairs(Documents, items)[f.index - 1]
  <2>1. PICK x \in Nat \ {0} : x = f.index
    BY <1>1
  <2>2. x - 1 \in 0 .. Len(items) /\ n \in x - 1 .. Len(items)
    BY <1>2, <1>3, <2>1
  <2>3. \A j \in (x - 1) + 1 .. n : items[j] = Hole
    <3>1. (x - 1) + 1 = x
      OBVIOUS
    <3> QED BY <1>5, <2>1, <3>1
  <2>4. Pairs(Documents, items)[n] = Pairs(Documents, items)[x - 1]
    BY <1>1, <2>2, <2>3, PairsSkip
  <2> QED BY <2>1, <2>4
<1> QED BY <1>3, <1>9, <1>10, <1>11, <1>12, DocumentsEquation DEF v

\* The iterators as they are made.
LEMMA SequenceIsReady ==
  ASSUME heap \in Graphs, NEW v \in Addresses, heap[v].type \in {"list", "tuple"},
         NEW f, f = SequenceFrame(v, 1, Len(heap[v].items))
  PROVE  /\ f \in SequenceFrames /\ KindIn(heap, f) /\ f.object = v
         /\ Ready(f) /\ Part[f] = <<>>
<1>1. PICK n \in Nat : Len(heap[v].items) = n
  BY ItemsOfKind
<1>2. /\ f \in SequenceFrames /\ f.object = v /\ f.op = "SerializingSequence" /\ f.index = 1
      /\ f.length = n
  BY <1>1 DEF SequenceFrame, SequenceFrames
<1>3. ItemsIn(heap, f) = heap[v].items /\ KindIn(heap, f) /\ f \in Iterators
  BY <1>2 DEF ItemsIn, KindIn, Iterators
<1>4. f.index - 1 = 0
  BY <1>2
<1>5. Ready(f)
  BY <1>1, <1>2, <1>3, <1>4 DEF Ready, InStep
<1>6. Part[f] = [i \in 1 .. 0 |-> Documents[ItemsIn(heap, f)[i]]]
  BY <1>2, <1>3, <1>4 DEF Part
<1> QED BY <1>2, <1>3, <1>5, <1>6

LEMMA DictIsReady ==
  ASSUME heap \in Graphs, NEW v \in Addresses, heap[v].type = "dict",
         NEW f, f = DictFrame(v, 1, DictLen(heap[v].items), DictLen(heap[v].items))
  PROVE  /\ f \in DictFrames /\ KindIn(heap, f) /\ f.object = v
         /\ Ready(f) /\ Part[f] = <<>>
<1>1. heap[v].items \in Seq(Entries) /\ DictLen(heap[v].items) \in Nat
  BY ItemsOfKind, DictLenNat
<1>2. /\ f \in DictFrames /\ f.object = v /\ f.op = "SerializingDict" /\ f.index = 1
  BY <1>1 DEF DictFrame, DictFrames
<1>3. ItemsIn(heap, f) = heap[v].items /\ KindIn(heap, f) /\ f \in Iterators
  BY <1>2 DEF ItemsIn, KindIn, Iterators
<1>4. f.index - 1 = 0
  BY <1>2
<1>5. Ready(f)
  BY <1>1, <1>2, <1>3, <1>4 DEF Ready, InStep
<1>6. Part[f] = Pairs(Documents, ItemsIn(heap, f))[0]
  BY <1>2, <1>3, <1>4 DEF Part
<1>7. Pairs(Documents, ItemsIn(heap, f))[0] = <<>>
  BY <1>1, <1>3, PairsEquation
<1> QED BY <1>2, <1>3, <1>5, <1>6, <1>7
----------------------------------------------------------------------------
(***************************************************************************)
(* How the iterators follow the graph, when the hook changes nothing.      *)
(***************************************************************************)
\* The hook, if there is one, changes nothing.
Static == ~hook \/ HookIsStatic

\* The values with what is written for them: what the hook returns, for an
\* object that needs it, and otherwise the value itself.
Turned ==
  {x \in Values \X Values :
     IF TypeIn(heap, x[1]) = "other"
     THEN hook /\ heap[x[1]].items # <<>> /\ x[2] = heap[x[1]].items[1]
     ELSE x[2] = x[1]}

\* Each iterator of s is over what is written for the value that the frame
\* under it waits for.
Chained(s) ==
  \A j \in 2 .. Len(s) : s[j] \in Begun /\ <<Awaited[s[j - 1]], s[j].object>> \in Turned

\* What the innermost frame waits for is written or about to be.
UnfoldInv ==
  /\ result = Running /\ last.tag = "Thunk" =>
       Chained(Pending) /\ last.item = Awaited[Pending[Len(Pending)]]
  /\ result = Running /\ last.tag = "Ok" =>
       Chained(stack) /\ Awaited[stack[Len(stack)]] \in Unfoldable
  /\ result = Ok => root \in Unfoldable

LEMMA TurnsBack ==
  ASSUME heap \in Graphs, NEW x, NEW v \in Unfoldable, <<x, v>> \in Turned
  PROVE  x \in Unfoldable /\ Documents[x] = Documents[v]
<1>1. /\ x \in Values
      /\ TypeIn(heap, x) = "other" => hook /\ heap[x].items # <<>> /\ v = heap[x].items[1]
      /\ TypeIn(heap, x) # "other" => v = x
  BY DEF Turned
<1>2. CASE TypeIn(heap, x) = "other"
  <2>1. x \in Addresses /\ heap[x].type = "other"
    BY <1>2 DEF TypeIn
  <2>2. heap[x].items \in Seq(Values)
    <3>1. heap[x] \in Objects
      BY <2>1 DEF Graphs
    <3> QED BY <2>1, <3>1 DEF Objects
  <2>3. Children(x) \subseteq {v}
    BY <1>1, <1>2 DEF Children
  <2>4. Writable(x)
    BY <1>1, <1>2 DEF Writable
  <2>5. x \in Unfoldable
    BY <1>1, <2>3, <2>4, UnfoldableIsBuilt DEF Built
  <2>6. Unfolded(Documents, x) = Documents[v]
    BY <1>1, <1>2 DEF Unfolded
  <2> QED BY <2>5, <2>6, DocumentsEquation
<1> QED BY <1>1, <1>2

\* A scalar that can be written denotes what it is written as.
LEMMA ScalarUnfolds ==
  ASSUME heap \in Graphs, NEW v \in Scalars
  PROVE  /\ v \in Unfoldable
         /\ Documents[v] = CHOOSE x \in Grammar!Values(Grammar!NoSpace(Written(v))) : TRUE
<1>1. v \in Values /\ TypeIn(heap, v) = "scalar"
  BY GraphsAssumption DEF TypeIn, Values
<1>2. Children(v) = {} /\ Writable(v)
  BY <1>1 DEF Children, Writable
<1>3. v \in Unfoldable
  BY <1>1, <1>2, UnfoldableIsBuilt DEF Built
<1>4. Unfolded(Documents, v) = CHOOSE x \in Grammar!Values(Grammar!NoSpace(Written(v))) : TRUE
  BY <1>1 DEF Unfolded
<1> QED BY <1>3, <1>4, DocumentsEquation

\* An iterator is pushed, and the iterators under the innermost one.
LEMMA ChainedPush ==
  ASSUME NEW s \in Seq(Frames), s # <<>>, Chained(s),
         NEW g \in Begun, <<Awaited[s[Len(s)]], g.object>> \in Turned
  PROVE  /\ Chained(Append(s, g))
         /\ Append(s, g)[Len(Append(s, g))] = g
<1> DEFINE t == Append(s, g)
<1>1. PICK n \in Nat \ {0} : Len(s) = n
  BY EmptySeq
<1>2. g \in Frames
  BY FrameKinds DEF Begun
<1>3. /\ Len(t) = n + 1
      /\ \A i \in 1 .. n : t[i] = s[i]
      /\ t[n + 1] = g
  BY <1>1, <1>2
<1> HIDE DEF t
<1>4. ASSUME NEW j \in 2 .. n + 1
      PROVE  t[j] \in Begun /\ <<Awaited[t[j - 1]], t[j].object>> \in Turned
  <2>1. CASE j = n + 1
    <3>1. t[j] = g /\ t[j - 1] = s[n]
      BY <1>3, <2>1
    <3> QED BY <1>1, <3>1
  <2>2. CASE j \in 2 .. n
    <3>1. t[j] = s[j] /\ t[j - 1] = s[j - 1]
      BY <1>3, <2>2
    <3> QED BY <1>1, <2>2, <3>1 DEF Chained
  <2>3. j = n + 1 \/ j \in 2 .. n
    OBVIOUS
  <2> QED BY <2>1, <2>2, <2>3
<1>5. Chained(t) /\ t[Len(t)] = g
  BY <1>3, <1>4 DEF Chained
<1> QED BY <1>5 DEF t

LEMMA ChainedFront ==
  ASSUME NEW s \in Seq(Frames), s # <<>>, NEW f \in Frames, Chained(Append(s, f))
  PROVE  /\ Chained(s) /\ f \in Begun
         /\ <<Awaited[s[Len(s)]], f.object>> \in Turned
         /\ Append(s, f)[Len(Append(s, f))] = f
<1> DEFINE t == Append(s, f)
<1>1. PICK n \in Nat \ {0} : Len(s) = n
  BY EmptySeq
<1>2. /\ Len(t) = n + 1
      /\ \A i \in 1 .. n : t[i] = s[i]
      /\ t[n + 1] = f
  BY <1>1
<1>3. Chained(t)
  OBVIOUS
<1> HIDE DEF t
<1>4. /\ n + 1 \in 2 .. n + 1 /\ (n + 1) - 1 = n /\ n \in 1 .. n
      /\ \A j \in 2 .. n : j \in 2 .. n + 1 /\ j \in 1 .. n /\ j - 1 \in 1 .. n
  OBVIOUS
<1>5. t[n + 1] \in Begun /\ <<Awaited[t[n]], t[n + 1].object>> \in Turned
  BY <1>2, <1>3, <1>4 DEF Chained
<1>6. Chained(s)
  BY <1>1, <1>2, <1>3, <1>4 DEF Chained
<1> QED BY <1>1, <1>2, <1>4, <1>5, <1>6 DEF t

\* Nothing of this changes unless the heap does.
LEMMA FrozenDocuments ==
  ASSUME Frozen
  PROVE  /\ Begun' = Begun /\ Awaited' = Awaited /\ Part' = Part /\ Turned' = Turned
         /\ Unfoldable' = Unfoldable /\ Documents' = Documents
<1> USE DEF Frozen
<1>1. \A v : Children(v)' = Children(v) /\ (Writable(v)' <=> Writable(v))
  BY DEF Children, Writable, TypeIn
<1>2. \A C : Built(C)' <=> Built(C)
  BY <1>1 DEF Built
<1>3. Unfoldable' = Unfoldable
  BY <1>2 DEF Unfoldable
<1>4. \A f, v : Unfolded(f, v)' = Unfolded(f, v)
  BY DEF Unfolded, TypeIn
<1>5. \A f, S : Solution(f, S)' <=> Solution(f, S)
  BY <1>1, <1>3, <1>4 DEF Solution
<1>6. Documents' = Documents
  BY <1>3, <1>5 DEF Documents
<1>7. \A f, i : Fine(f, i)' <=> Fine(f, i)
  BY <1>3 DEF Fine
<1>8. Begun' = Begun
  BY <1>7 DEF Begun, InStep
<1>9. Awaited' = Awaited
  BY DEF Awaited
<1>10. Part' = Part
  BY <1>6 DEF Part
<1>11. Turned' = Turned
  BY DEF Turned, TypeIn
<1> QED BY <1>3, <1>6, <1>8, <1>9, <1>10, <1>11

\* The iterator f is asked for its next item: what it writes is the bracket
\* when it has ended, and otherwise comma, for a dict with the key.  When the
\* hook changes nothing, its object has a document then, and otherwise one
\* item more is about to be written.
SequenceText(f, out, comma) ==
  \/ /\ last' = Ok /\ buffer' = Append(out, "]")
     /\ Static => f.object \in Unfoldable /\ Documents[f.object] = Grammar!PyList(Part[f])
  \/ \E v, g :
       /\ last' = Thunk(v, g) /\ g.op = "SerializingSequence" /\ buffer' = out \o comma
       /\ Static => /\ g \in Begun /\ g.object = f.object /\ v = Awaited[g]
                    /\ Part[g] = Append(Part[f], Documents[v])

DictText(f, out, comma) ==
  \/ /\ last' = Ok /\ buffer' = Append(out, "rbrace")
     /\ Static => f.object \in Unfoldable /\ Documents[f.object] = Grammar!DictOf(Part[f])
  \/ last'.tag = "Err" /\ buffer' = out \o comma
  \/ \E v, g : \E k \in Keys :
       /\ last' = Thunk(v, g) /\ g.op = "SerializingDict" /\ buffer' = out \o comma \o <<k, ":">>
       /\ Static => /\ g \in Begun /\ g.object = f.object /\ v = Awaited[g]
                    /\ Part[g] = Append(Part[f], <<Grammar!Leaf(k), Documents[v]>>)

LEMMA SequenceWrites ==
  ASSUME NEW h, NEW f \in SequenceFrames, NEW out, NEW os, NEW comma,
         NextOfSequence(h, f, out, os, comma),
         Static => heap \in Graphs /\ h = heap /\ KindIn(heap, f) /\ Ready(f)
  PROVE  SequenceText(f, out, comma)
<1>1. CASE SequenceEnded(h, f) /\ Close(out, os, "]")
  <2>1. last' = Ok /\ buffer' = Append(out, "]")
    BY <1>1 DEF Close, Yield
  <2>2. Static => f.object \in Unfoldable /\ Documents[f.object] = Grammar!PyList(Part[f])
    BY <1>1, SequenceIsOver
  <2> QED BY <2>1, <2>2 DEF SequenceText
<1>2. CASE /\ ~SequenceEnded(h, f)
           /\ Yield(Thunk(ItemsIn(h, f)[f.index], [f EXCEPT !.index = @ + 1]), out \o comma, os)
  <2> DEFINE g == [f EXCEPT !.index = @ + 1]
             v == ItemsIn(h, f)[f.index]
  <2>1. g.op = "SerializingSequence" /\ g.object = f.object
    BY DEF SequenceFrames
  <2>2. last' = Thunk(v, g) /\ buffer' = out \o comma
    BY <1>2 DEF Yield
  <2>3. ASSUME Static
        PROVE  g \in Begun /\ v = Awaited[g] /\ Part[g] = Append(Part[f], Documents[v])
    BY <1>2, <2>3, SequenceGoesOn
  <2> HIDE DEF g, v
  <2> QED BY <2>1, <2>2, <2>3 DEF SequenceText
<1> QED BY <1>1, <1>2 DEF NextOfSequence

LEMMA DictWrites ==
  ASSUME NEW h, NEW f, NEW out, NEW os, NEW comma, NextOfDict(h, f, out, os, comma),
         Static => heap \in Graphs /\ h = heap /\ f \in DictFrames /\ KindIn(heap, f) /\ Ready(f)
  PROVE  DictText(f, out, comma)
<1>1. CASE EntriesLeft(h, f) = {} /\ Close(out, os, "rbrace")
  <2>1. last' = Ok /\ buffer' = Append(out, "rbrace")
    BY <1>1 DEF Close, Yield
  <2>2. Static => f.object \in Unfoldable /\ Documents[f.object] = Grammar!DictOf(Part[f])
    BY <1>1, DictIsOver
  <2> QED BY <2>1, <2>2 DEF DictText
<1>2. CASE EntriesLeft(h, f) # {}
  <2>1. PICK item, g : /\ item = ItemsIn(h, f)[NextEntry(h, f)]
                       /\ g = DictFrame(f.object, NextEntry(h, f) + 1, f.used, f.remaining - 1)
    OBVIOUS
  <2>2. \/ /\ item.key \in Keys
           /\ Yield(Thunk(item.value, g), out \o comma \o <<item.key, ":">>, os)
        \/ item.key \notin Keys /\ Yield(Err("ValueError"), out \o comma, os)
    BY <1>1, <1>2, <2>1 DEF NextOfDict
  <2>3. CASE Yield(Err("ValueError"), out \o comma, os)
    BY <2>3 DEF Yield, DictText, Err
  <2>4. CASE /\ item.key \in Keys
             /\ Yield(Thunk(item.value, g), out \o comma \o <<item.key, ":">>, os)
    <3>1. last' = Thunk(item.value, g) /\ buffer' = out \o comma \o <<item.key, ":">>
      BY <2>4 DEF Yield
    <3>2. g.op = "SerializingDict" /\ g.object = f.object
      BY <2>1 DEF DictFrame
    <3>3. ASSUME Static
          PROVE  /\ g \in Begun /\ item.value = Awaited[g]
                 /\ Part[g] = Append(Part[f], <<Grammar!Leaf(item.key), Documents[item.value]>>)
      <4>1. /\ heap \in Graphs /\ h = heap /\ f \in DictFrames /\ KindIn(heap, f) /\ Ready(f)
            /\ item.key \in Keys
        BY <2>4, <3>3
      <4>2. /\ EntriesLeft(heap, f) # {} /\ item = ItemsIn(heap, f)[NextEntry(heap, f)]
            /\ g = DictFrame(f.object, NextEntry(heap, f) + 1, f.used, f.remaining - 1)
        BY <1>2, <2>1, <4>1, Zenon
      <4> QED BY <4>1, <4>2, DictGoesOn, ZenonT(60)
    <3>4. PICK v : v = item.value
      OBVIOUS
    <3>5. PICK k \in Keys : k = item.key
      BY <2>4
    <3> QED BY <3>1, <3>2, <3>3, <3>4, <3>5 DEF DictText
  <2> QED BY <2>2, <2>3, <2>4
<1> QED BY <1>1, <1>2 DEF NextOfDict

LEMMA InitUnfoldInv == Init => UnfoldInv
<1> SUFFICES ASSUME Init PROVE UnfoldInv
  OBVIOUS
<1>1. /\ result = Running /\ last.tag = "Thunk" /\ last.item = root
      /\ Len(Pending) = 1 /\ Pending[1] = DoneFrame
  BY DEF Init, Pending, Thunk
<1>2. Chained(Pending)
  BY <1>1 DEF Chained
<1>3. Awaited[DoneFrame] = root
  BY DEF Awaited, Frames, DoneFrame
<1>4. result # Ok /\ last.tag # "Ok"
  BY <1>1 DEF Running, Ok
<1> QED BY <1>1, <1>2, <1>3, <1>4 DEF UnfoldInv

\* An iteration that goes on.
LEMMA UnfoldInvAfter ==
  ASSUME Frozen, result' = Running,
         \/ last' = Ok /\ Chained(stack') /\ Awaited[stack'[Len(stack')]] \in Unfoldable
         \/ \E g \in Begun :
              /\ last' = Thunk(Awaited[g], g)
              /\ stack' \in Seq(Frames) /\ stack' # <<>> /\ Chained(stack')
              /\ <<Awaited[stack'[Len(stack')]], g.object>> \in Turned
         \/ last'.tag = "Err"
  PROVE  UnfoldInv'
<1>1. /\ Begun' = Begun /\ Awaited' = Awaited /\ Turned' = Turned /\ Unfoldable' = Unfoldable
  BY FrozenDocuments
<1>2. result' # Ok
  BY DEF Running, Ok
<1>3. CASE last' = Ok /\ Chained(stack') /\ Awaited[stack'[Len(stack')]] \in Unfoldable
  <2>1. last'.tag = "Ok"
    BY <1>3 DEF Ok
  <2>2. Chained(stack)'
    BY <1>1, <1>3 DEF Chained
  <2> QED BY <1>1, <1>2, <1>3, <2>1, <2>2 DEF UnfoldInv
<1>4. ASSUME NEW g \in Begun, last' = Thunk(Awaited[g], g),
             stack' \in Seq(Frames), stack' # <<>>, Chained(stack'),
             <<Awaited[stack'[Len(stack')]], g.object>> \in Turned
      PROVE  UnfoldInv'
  <2>1. PICK t : t = Append(stack', g)
    OBVIOUS
  <2>2. Chained(t) /\ t[Len(t)] = g
    BY <1>4, <2>1, ChainedPush
  <2>3. last'.tag = "Thunk" /\ last'.item = Awaited[g] /\ Pending' = t
    BY <1>4, <2>1 DEF Thunk, Pending
  <2>4. Chained(Pending)'
    BY <1>1, <2>2, <2>3 DEF Chained
  <2> QED BY <1>1, <1>2, <2>2, <2>3, <2>4 DEF UnfoldInv
<1>5. CASE last'.tag = "Err"
  BY <1>2, <1>5 DEF UnfoldInv
<1> QED BY <1>3, <1>4, <1>5

\* any_to_json_native for v, which is written for the value that is awaited.
LEMMA NativeUnfolds ==
  ASSUME Static, Frozen, heap \in Graphs, result' = Running,
         stack' \in Seq(Frames), stack' # <<>>, Chained(stack'),
         NEW v \in Values, <<Awaited[stack'[Len(stack')]], v>> \in Turned, WriteNative(heap, v)
  PROVE  UnfoldInv'
<1>1. ASSUME v \in Unfoldable, last' = Ok PROVE UnfoldInv'
  <2>1. Awaited[stack'[Len(stack')]] \in Unfoldable
    BY <1>1, TurnsBack
  <2> QED BY <1>1, <2>1, UnfoldInvAfter
<1>2. ASSUME NEW g \in Begun, NEW w, last' = Thunk(w, g), g.object = v, w = Awaited[g]
      PROVE  UnfoldInv'
  BY <1>2, UnfoldInvAfter
<1>3. CASE v \in Scalars /\ last' = Ok
  BY <1>1, <1>3, ScalarUnfolds
<1>4. ASSUME NEW e, last' = Err(e) PROVE UnfoldInv'
  BY <1>4, UnfoldInvAfter DEF Err
<1>5. CASE /\ TypeIn(heap, v) \in {"list", "tuple"}
           /\ NextOfSequence(heap, SequenceFrame(v, 1, Len(heap[v].items)),
                             Append(buffer, "["), PushObject(v), <<>>)
  <2>1. v \in Addresses /\ heap[v].type \in {"list", "tuple"}
    BY <1>5 DEF TypeIn
  <2>2. PICK f : f = SequenceFrame(v, 1, Len(heap[v].items))
    OBVIOUS
  <2>3. f \in SequenceFrames /\ KindIn(heap, f) /\ f.object = v /\ Ready(f)
    BY <2>1, <2>2, SequenceIsReady
  <2>4. SequenceText(f, Append(buffer, "["), <<>>)
    BY <1>5, <2>2, <2>3, SequenceWrites
  <2> QED BY <1>1, <1>2, <2>3, <2>4 DEF SequenceText
<1>6. CASE /\ TypeIn(heap, v) = "dict"
           /\ LET n == DictLen(heap[v].items) IN
              NextOfDict(heap, DictFrame(v, 1, n, n), Append(buffer, "lbrace"), PushObject(v), <<>>)
  <2>1. v \in Addresses /\ heap[v].type = "dict"
    BY <1>6 DEF TypeIn
  <2>2. PICK f : f = DictFrame(v, 1, DictLen(heap[v].items), DictLen(heap[v].items))
    OBVIOUS
  <2>3. f \in DictFrames /\ KindIn(heap, f) /\ f.object = v /\ Ready(f)
    BY <2>1, <2>2, DictIsReady
  <2>4. DictText(f, Append(buffer, "lbrace"), <<>>)
    BY <1>6, <2>2, <2>3, DictWrites
  <2>5. CASE last'.tag = "Err"
    BY <2>5, UnfoldInvAfter
  <2> QED BY <1>1, <1>2, <2>3, <2>4, <2>5 DEF DictText
<1> QED BY <1>3, <1>4, <1>5, <1>6, Zenon DEF WriteNative, WriteScalar, Yield

LEMMA WriteItemUnfolds ==
  ASSUME Static, IInv, UnfoldInv, WriteItem
  PROVE  UnfoldInv'
<1>1. /\ Push /\ Frozen /\ result = Running /\ last.tag = "Thunk" /\ result' = Running
      /\ heap \in Graphs /\ stack' = Pending
  BY DEF WriteItem, Push, Frozen, Pending, IInv, TypeOK
<1>2. stack' \in Seq(Frames) /\ stack' # <<>> /\ last.item \in Values
  BY <1>1, AfterPush DEF WellFormed
<1>3. Chained(stack') /\ last.item = Awaited[stack'[Len(stack')]]
  BY <1>1 DEF UnfoldInv
<1>4. CASE WriteNative(heap, last.item)
  <2>1. TypeIn(heap, last.item) # "other"
    BY <1>4, GraphsAssumption, Zenon DEF WriteNative, TypeIn
  <2>2. <<last.item, last.item>> \in Turned
    BY <1>2, <2>1 DEF Turned
  <2> QED BY <1>1, <1>2, <1>3, <1>4, <2>2, NativeUnfolds
<1>5. CASE last' = Err("ValueError")
  BY <1>1, <1>5, UnfoldInvAfter DEF Err
<1> QED BY <1>4, <1>5, Zenon DEF WriteItem, Yield

\* What a hook that changes nothing returns is written for its argument.
LEMMA HookedUnfolds ==
  ASSUME Static, IInv, WriteHooked
  PROVE  /\ Frozen
         /\ \/ last'.tag = "Err" /\ buffer' = buffer /\ embedded' = embedded
            \/ \E v \in Values : <<last.item, v>> \in Turned /\ WriteNative(heap, v)
<1>1. /\ Push /\ hook /\ HookIsStatic /\ UNCHANGED <<root, hook, check>>
      /\ TypeIn(heap, last.item) = "other"
  <2>1. Push /\ hook /\ TypeIn(heap, last.item) = "other"
    BY Zenon DEF WriteHooked, Unsupported
  <2> QED BY <2>1 DEF Push, Static
<1>2. /\ stack' \in Seq(Frames) /\ heap \in Graphs /\ root \in Values
      /\ last.item \in Values /\ last.item \in Addresses
  BY <1>1, AfterPush DEF IInv, TypeOK, TypeIn
<1>3. CASE last' = Err("cycle detected") /\ UNCHANGED buffer /\ UNCHANGED embedded /\ UNCHANGED heap
  <2>1. last'.tag = "Err" /\ buffer' = buffer /\ embedded' = embedded
    BY <1>3, Tags, Zenon
  <2>2. Frozen
    <3>1. UNCHANGED heap
      BY <1>3, Zenon
    <3> QED BY <1>1, <3>1 DEF Frozen
  <2> QED BY <2>1, <2>2
<1>4. ASSUME NEW e \in HookResults(Owned(stack') \cup {root, last.item}, last.item),
             heap' = e.heap,
             \/ buffer' = buffer /\ embedded' = embedded /\ \E x : last' = Err(x)
             \/ WriteNative(e.heap, e.value)
      PROVE  /\ Frozen
             /\ \/ last'.tag = "Err" /\ buffer' = buffer /\ embedded' = embedded
                \/ \E v \in Values : <<last.item, v>> \in Turned /\ WriteNative(heap, v)
  <2>1. PICK used : used = Owned(stack') \cup {root, last.item}
    OBVIOUS
  <2>2. used \in SUBSET Values
    <3>1. Owned(stack') \subseteq Addresses
      <4>1. \A i \in DOMAIN stack' : stack'[i] \in Frames
        BY <1>2
      <4> QED BY <4>1, FrameKinds DEF Owned
    <3> QED BY <1>2, <2>1, <3>1 DEF Values
  <2>3. e \in HookEffects(heap, used, last.item) /\ e.value \in Values
    BY <2>1 DEF HookResults
  <2>4. /\ e.heap = heap
        /\ heap[last.item].items # <<>> /\ e.value = heap[last.item].items[1]
    BY <1>1, <1>2, <2>2, <2>3 DEF HookIsStatic
  <2>5. <<last.item, e.value>> \in Turned
    BY <1>1, <1>2, <2>3, <2>4 DEF Turned
  <2>6. Frozen
    BY <1>1, <1>4, <2>4 DEF Frozen
  <2>7. (\E x : last' = Err(x)) => last'.tag = "Err"
    BY DEF Err
  <2> QED BY <1>4, <2>3, <2>4, <2>5, <2>6, <2>7, Zenon
<1> QED BY <1>3, <1>4, Zenon DEF WriteHooked, Yield

LEMMA WriteHookedUnfolds ==
  ASSUME Static, IInv, UnfoldInv, WriteHooked
  PROVE  UnfoldInv'
<1>1. Push
  BY Zenon DEF WriteHooked
<1>2. /\ result = Running /\ last.tag = "Thunk" /\ result' = Running
      /\ heap \in Graphs /\ stack' = Pending
  BY <1>1 DEF Push, Pending, IInv, TypeOK
<1>3. stack' \in Seq(Frames) /\ stack' # <<>>
  BY <1>1, AfterPush DEF WellFormed
<1>4. Chained(stack') /\ last.item = Awaited[stack'[Len(stack')]]
  BY <1>2 DEF UnfoldInv
<1>5. Frozen
  BY HookedUnfolds
<1>6. CASE last'.tag = "Err"
  BY <1>2, <1>5, <1>6, UnfoldInvAfter
<1>7. ASSUME NEW v \in Values, <<last.item, v>> \in Turned, WriteNative(heap, v)
      PROVE  UnfoldInv'
  BY <1>2, <1>3, <1>4, <1>5, <1>7, NativeUnfolds
<1> QED BY <1>6, <1>7, HookedUnfolds

\* The iterator that is resumed: the item it waited for has a document.
LEMMA ResumedIsReady ==
  ASSUME Static, IInv, UnfoldInv, NEW op, Resume(op), op # "Done"
  PROVE  /\ stack' \in Seq(Frames) /\ stack' # <<>> /\ Frozen /\ result = Running
         /\ heap \in Graphs /\ Chained(stack')
         /\ Top \in Begun /\ Top.op = op /\ KindIn(heap, Top) /\ Ready(Top)
         /\ <<Awaited[stack'[Len(stack')]], Top.object>> \in Turned
<1>1. /\ stack' \in Seq(Frames) /\ stack' # <<>> /\ Top \in Iterators /\ Top.op = op
      /\ KindIn(heap, Top) /\ stack = Append(stack', Top) /\ Frozen
      /\ heap \in Graphs /\ result = Running
  BY AfterResume DEF WellFormed, Frozen, IInv, TypeOK
<1>2. Chained(stack) /\ Awaited[stack[Len(stack)]] \in Unfoldable
  BY <1>1 DEF Resume, UnfoldInv
<1>3. Top \in Frames
  BY <1>1, FrameKinds
<1>4. /\ Chained(stack') /\ Top \in Begun /\ Awaited[Top] \in Unfoldable
      /\ <<Awaited[stack'[Len(stack')]], Top.object>> \in Turned
  BY <1>1, <1>2, <1>3, ChainedFront
<1>5. Ready(Top)
  BY <1>4, BegunIsReady
<1> QED BY <1>1, <1>4, <1>5

\* Its object has a document, or it has yielded another item.
LEMMA ResumedUnfolds ==
  ASSUME Static, IInv, UnfoldInv, NEW op, Resume(op), op # "Done", result' = Running,
         \/ last' = Ok /\ Top.object \in Unfoldable
         \/ last'.tag = "Err"
         \/ \E v, g : last' = Thunk(v, g) /\ g \in Begun /\ g.object = Top.object /\ v = Awaited[g]
  PROVE  UnfoldInv'
<1>1. /\ stack' \in Seq(Frames) /\ stack' # <<>> /\ Frozen /\ heap \in Graphs /\ Chained(stack')
      /\ <<Awaited[stack'[Len(stack')]], Top.object>> \in Turned
  BY ResumedIsReady
<1>2. CASE last' = Ok /\ Top.object \in Unfoldable
  <2>1. Awaited[stack'[Len(stack')]] \in Unfoldable
    BY <1>1, <1>2, TurnsBack
  <2> QED BY <1>1, <1>2, <2>1, UnfoldInvAfter
<1>3. CASE last'.tag = "Err"
  BY <1>1, <1>3, UnfoldInvAfter
<1>4. ASSUME NEW v, NEW g \in Begun, last' = Thunk(v, g), g.object = Top.object, v = Awaited[g]
      PROVE  UnfoldInv'
  BY <1>1, <1>4, UnfoldInvAfter
<1> QED BY <1>2, <1>3, <1>4

\* Done is resumed when it is the only frame.
LEMMA DoneIsLast ==
  ASSUME IInv, Resume("Done")
  PROVE  stack = <<DoneFrame>>
<1>1. result = Running /\ last.tag = "Ok" /\ Top.op = "Done"
  BY DEF Resume
<1>2. WellFormed(heap, stack) /\ stack \in Seq(Frames)
  <2>1. Pending = stack
    BY <1>1 DEF Pending
  <2> QED BY <1>1, <2>1, Readings DEF IInv, TypeOK
<1>3. Len(stack) \in Nat \ {0}
  BY <1>2, EmptySeq DEF WellFormed
<1>4. Top \in Frames /\ (Top = DoneFrame <=> Len(stack) = 1)
  <2>1. Len(stack) \in 1 .. Len(stack) /\ Top = stack[Len(stack)]
    BY <1>3 DEF Top
  <2>2. stack[Len(stack)] = DoneFrame <=> Len(stack) = 1
    BY <1>2, <2>1 DEF WellFormed
  <2>3. stack[Len(stack)] \in Frames
    BY <1>2, <2>1
  <2> QED BY <2>1, <2>2, <2>3
<1>5. Top = DoneFrame
  BY <1>1, <1>4 DEF Frames, SequenceFrames, DictFrames
<1>6. Len(stack) = 1 /\ stack[1] = DoneFrame
  BY <1>4, <1>5 DEF Top
<1> QED BY <1>2, <1>6

LEMMA StepUnfoldInv == Static /\ IInv /\ UnfoldInv /\ [Next]_vars => UnfoldInv' /\ Frozen
<1> SUFFICES ASSUME Static, IInv, UnfoldInv, [Next]_vars PROVE UnfoldInv' /\ Frozen
  OBVIOUS
<1>1. CASE WriteItem
  BY <1>1, WriteItemUnfolds DEF WriteItem, Push, Frozen
<1>2. CASE WriteHooked
  BY <1>2, WriteHookedUnfolds, HookedUnfolds
<1>3. CASE ContinueSequence
  <2>1. /\ Resume("SerializingSequence") /\ UNCHANGED result
        /\ NextOfSequence(heap, Top, buffer, objectStack, <<"comma">>)
    BY <1>3 DEF ContinueSequence
  <2>2. /\ Frozen /\ result' = Running /\ heap \in Graphs
        /\ Top \in Begun /\ Top.op = "SerializingSequence" /\ KindIn(heap, Top) /\ Ready(Top)
    BY <2>1, ResumedIsReady
  <2>3. Top \in SequenceFrames
    BY <2>2, FrameKinds DEF Begun, Iterators
  <2>4. SequenceText(Top, buffer, <<"comma">>)
    BY <2>1, <2>2, <2>3, SequenceWrites
  <2> QED BY <2>1, <2>2, <2>4, ResumedUnfolds DEF SequenceText
<1>4. CASE ContinueDict
  <2>1. Resume("SerializingDict")
    BY <1>4 DEF ContinueDict
  <2>2. /\ Frozen /\ result = Running /\ heap \in Graphs
        /\ Top \in Begun /\ Top.op = "SerializingDict" /\ KindIn(heap, Top) /\ Ready(Top)
    BY <2>1, ResumedIsReady
  <2>3. Top \in DictFrames
    BY <2>2, FrameKinds DEF Begun, Iterators
  <2>4. CASE result' = Aborted
    BY <2>2, <2>4 DEF UnfoldInv, Aborted, Running, Ok
  <2>5. CASE UNCHANGED result /\ NextOfDict(heap, Top, buffer, objectStack, <<"comma">>)
    <3>1. DictText(Top, buffer, <<"comma">>)
      BY <2>2, <2>3, <2>5, DictWrites
    <3> QED BY <2>1, <2>2, <2>5, <3>1, ResumedUnfolds DEF DictText
  <2> QED BY <1>4, <2>4, <2>5 DEF ContinueDict, Panic
<1>5. CASE Finish
  <2>1. /\ Resume("Done") /\ result = Running /\ last.tag = "Ok" /\ result' = Ok /\ Frozen
    BY <1>5 DEF Finish, Resume, Frozen
  <2>2. Awaited[stack[Len(stack)]] \in Unfoldable /\ stack = <<DoneFrame>>
    BY <2>1, DoneIsLast DEF UnfoldInv
  <2>3. Awaited[DoneFrame] = root
    BY DEF Awaited, Frames, DoneFrame
  <2>4. root' \in Unfoldable'
    <3>1. root' = root /\ Unfoldable' = Unfoldable
      BY <2>1, FrozenDocuments DEF Frozen
    <3> QED BY <2>2, <2>3, <3>1
  <2> QED BY <2>1, <2>4 DEF UnfoldInv, Ok, Running
<1>6. CASE Fail \/ Exhausted
  <2>1. Frozen /\ result' # Running /\ result' # Ok
    BY <1>6 DEF Fail, Exhausted, Frozen, Running, Ok, Killed
  <2> QED BY <2>1 DEF UnfoldInv
<1>7. CASE UNCHANGED vars
  <2>1. Frozen /\ UNCHANGED <<stack, last, result>>
    BY <1>7 DEF vars, Frozen
  <2>2. /\ Begun' = Begun /\ Awaited' = Awaited /\ Turned' = Turned /\ Unfoldable' = Unfoldable
        /\ root' = root
    BY <2>1, FrozenDocuments DEF Frozen
  <2>3. Pending' = Pending
    BY <2>1 DEF Pending
  <2>4. (Chained(Pending)' <=> Chained(Pending)) /\ (Chained(stack)' <=> Chained(stack))
    BY <2>1, <2>2, <2>3 DEF Chained
  <2> QED BY <2>1, <2>2, <2>3, <2>4 DEF UnfoldInv
<1> QED BY <1>1, <1>2, <1>3, <1>4, <1>5, <1>6, <1>7 DEF Next, Iterate, Returned
=============================================================================
