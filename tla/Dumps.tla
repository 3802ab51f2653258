------------------------------- MODULE Dumps -------------------------------
(***************************************************************************)
(* dumps, compared with the object graph it was given and with the grammar *)
(* of JSON.  The properties about the graph are for an object hook that    *)
(* changes no object: its result for the object at a is heap[a].items[1].  *)
(***************************************************************************)
EXTENDS Output, Functions

\* The values that are written inside v.
Children(v) ==
  IF TypeIn(heap, v) \in {"list", "tuple"} THEN Range(heap[v].items)
  ELSE IF TypeIn(heap, v) = "dict" THEN {e.value : e \in Range(heap[v].items) \ {Hole}}
  ELSE IF TypeIn(heap, v) = "other" /\ hook THEN {heap[v].items[i] : i \in {1} \cap DOMAIN heap[v].items}
  ELSE {}

\* The values of S, those inside them, and so on: the least set that holds S
\* and the children of its values.
Within(S) ==
  LET closed == {C \in SUBSET Values : S \subseteq C /\ \A v \in C : Children(v) \subseteq C}
  IN {v \in Values : \A C \in closed : v \in C}

Reachable == Within({root})
Cycle(v) == v \in Within(Children(v))
Cyclic == \E v \in Reachable : Cycle(v)

\* Values that can be written neither as they are nor through the hook.
Unwritable(v) ==
  \/ TypeIn(heap, v) = "scalar" /\ v \notin Scalars
  \/ TypeIn(heap, v) = "dict" /\ \E e \in Range(heap[v].items) \ {Hole} : e.key \notin Keys
  \/ TypeIn(heap, v) = "other" /\ (hook => TypeIn(heap, heap[v].items[1]) = "other")

\* The entries of a dict as pairs, up to each of its places, and the document
\* that v denotes, as JsonGrammar writes it, unfold being what those inside do.
Pairs(unfold, items) ==
  LET pairs[n \in 0 .. Len(items)] ==
        IF n = 0 THEN <<>>
        ELSE IF items[n] = Hole THEN pairs[n - 1]
        ELSE Append(pairs[n - 1], <<Grammar!Leaf(items[n].key), unfold[items[n].value]>>)
  IN pairs

Unfolded(unfold, v) ==
  LET items == heap[v].items IN
  CASE TypeIn(heap, v) = "scalar" -> CHOOSE x \in Grammar!Values(Grammar!NoSpace(Written(v))) : TRUE
    [] TypeIn(heap, v) = "other" -> unfold[items[1]]
    [] TypeIn(heap, v) = "dict" -> Grammar!DictOf(Pairs(unfold, items)[Len(items)])
    [] OTHER -> Grammar!PyList([i \in DOMAIN items |-> unfold[items[i]]])

\* The document that the whole graph denotes.
Unfold ==
  LET unfold[v \in Reachable] == Unfolded(unfold, v) IN unfold[root]
----------------------------------------------------------------------------
\* What dumps returns is the JSON text of the graph it was given, which has no
\* cycle: read back it gives the same document, objects that occur twice are
\* written twice, deleted entries are not written, and a key written twice
\* counts once (ser.rs:202-251, 418-584).
ReadsBack ==
  result = Ok =>
    /\ ~Cyclic
    /\ HoldsUnvalidated \/ Grammar!Values(Grammar!NoSpace(buffer)) = {Unfold}

\* dumps fails only for a reason: a cycle, with check_circular, or a value it
\* cannot write.  With check_circular off a cycle is never detected and only
\* the end of the process ends the call (lib.rs:155-165).
FailsForAReason ==
  /\ result = Err("cycle detected") => check /\ Cyclic
  /\ result = Err("ValueError") => \E v \in Reachable : Unwritable(v)
  /\ result = Killed => Cyclic /\ ~check
  /\ result # Aborted

\* With check_circular and without a hook a call ends, and not by the end of
\* the process, whatever cycles the graph has.
CheckedTerminates ==
  check /\ ~hook => <>(result \notin {Running, Killed})

\* What the documentation of check_circular says (lib.rs:155-156): a cycle in
\* the object graph to be serialized will result in a ValueError.
CycleIsValueError ==
  check /\ Cyclic /\ result # Running => result.tag = "Err"
============================================================================
