------------------------------ MODULE MCDumps ------------------------------
(***************************************************************************)
(* Object graphs for dumps, and the hooks of its runs.                     *)
(***************************************************************************)
EXTENDS Dumps, SequencesExt

MCScalars == {"1"}
MCBadScalars == {"nan"}
MCKeys == {"s", "t"}
MCBadKeys == {"1.5"}
MCNoText == <<>>

Object(type, items) == [type |-> type, items |-> items]
Entry(k, v) == [key |-> k, value |-> v]

\* Graphs of small lists, dicts and other objects, of which every value can be
\* written.
Lists == {Object("list", s) : s \in SeqOf(Values \ BadScalars, 2)}
Dicts == {Object("dict", <<Entry("s", v), Entry("t", w)>>) : v \in Addresses, w \in {"B", "1"}}
Others == {Object("other", <<v>>) : v \in Values \ BadScalars}
WritableHeaps == [Addresses -> Lists \cup Dicts \cup Others]

\* Graphs of one list, tuple or dict and one other object, with values and
\* keys that cannot be written and keys that collide.
OddObjects ==
  {Object(type, s) : type \in {"list", "tuple"}, s \in SeqOf(Values, 2)}
  \cup {Object("dict", <<>>)} \cup {Object("dict", <<Hole, Entry("s", v)>>) : v \in Values}
  \cup {Object("dict", <<Entry(k, v), Entry(l, w)>>) :
          k \in {"s", "1.5"}, v \in Values, l \in {"s", "t"}, w \in Values}
OddHeaps ==
  {[a \in Addresses |-> IF a = "A" THEN o ELSE Object("other", <<v>>)] :
     o \in OddObjects, v \in Values}

StaticHeaps == WritableHeaps \cup OddHeaps

\* A hook that changes nothing: it returns the first item of its argument.
StaticHook(h, used, a) ==
  {[heap |-> h, value |-> v, raises |-> r] : v \in Range(SubSeq(h[a].items, 1, 1)), r \in BOOLEAN}

----------------------------------------------------------------------------
(***************************************************************************)
(* The usual hook: it converts an object to a new list of its attributes   *)
(* (here one), which lies where no object in use is.                       *)
(***************************************************************************)
Instances == {"A", "B"}
ConvertingHeaps ==
  {[a \in Addresses |-> IF a \in Instances THEN Object("other", <<v[a]>>) ELSE Object("list", <<>>)] :
     v \in [Instances -> Instances \cup {"1", "nan"}]}

ConvertingHook(h, used, a) ==
  LET new == CHOOSE x \in Addresses \ (used \cup Instances) : TRUE IN
  {[heap |-> [h EXCEPT ![new] = Object("list", h[a].items)], value |-> new, raises |-> FALSE]}
----------------------------------------------------------------------------
(***************************************************************************)
(* A hook that changes objects while they are being written.  A call ends  *)
(* with any value and after at most one change of the heap; the items of   *)
(* the object it is called with bound how often it changes anything.       *)
(***************************************************************************)
Closure(h, S) ==
  LET inside(v) ==
        IF TypeIn(h, v) \in {"list", "tuple"} THEN Range(h[v].items)
        ELSE IF TypeIn(h, v) = "dict" THEN {e.value : e \in Range(h[v].items) \ {Hole}}
        ELSE {}
      more[n \in 0 .. Cardinality(Addresses)] ==
        IF n = 0 THEN S ELSE more[n - 1] \cup UNION {inside(v) : v \in more[n - 1]}
  IN more[Cardinality(Addresses)]

With(h, a, items) == [h EXCEPT ![a].items = items]

ChangedLists(h, x) ==
  {With(h, x, Append(h[x].items, v)) : v \in {n \in {"1", "C"} : Len(h[x].items) < 3}}
  \cup {With(h, x, SubSeq(h[x].items, 1, n)) : n \in {Len(h[x].items) - 1} \cap Nat}

ChangedDicts(h, x) ==
  {With(h, x, Append(h[x].items, Entry("t", v))) :
     v \in {n \in {"1", "C"} : Len(h[x].items) < 4 /\ \A e \in Range(h[x].items) : e.key # "t"}}
  \cup {With(h, x, [h[x].items EXCEPT ![i] = Hole]) : i \in DOMAIN h[x].items}
  \cup {With(h, x, [h[x].items EXCEPT ![i].value = "1"]) :
          i \in {n \in DOMAIN h[x].items : h[x].items[n] # Hole}}

\* A list made by the hook lies where no object in use is.
Allocations(h, used) ==
  {[h EXCEPT ![x] = Object("list", s)] :
     x \in Addresses \ Closure(h, used), s \in {<<>>, <<"1">>, <<"C">>}}

Changes(h, used) ==
  {h} \cup Allocations(h, used)
  \cup UNION {ChangedLists(h, x) : x \in {y \in Addresses : h[y].type = "list"}}
  \cup UNION {ChangedDicts(h, x) : x \in {y \in Addresses : h[y].type = "dict"}}

ChangingHook(h, used, a) ==
  {[heap |-> h, value |-> "1", raises |-> r] : r \in BOOLEAN}
  \cup (IF h[a].items = <<>> THEN {}
        ELSE LET spent == With(h, a, Tail(h[a].items)) IN
             {[heap |-> g, value |-> v, raises |-> FALSE] :
                g \in Changes(spent, used), v \in Addresses})

MCHookCalls == <<"1", "1">>
ChangedObjects == {Object("list", s) : s \in {<<"C">>, <<"C", "B">>, <<"B", "C">>, <<"C", "C">>}}
          \cup {Object("dict", <<Entry("s", "C")>>),
                Object("dict", <<Entry("s", "C"), Entry("t", "B")>>)}
ChangingHeaps ==
  {[a \in Addresses |-> IF a = "A" THEN o ELSE IF a = "B" THEN p ELSE Object("other", MCHookCalls)] :
     o \in ChangedObjects, p \in {Object("list", <<>>), Object("list", <<"C">>)}}
============================================================================
