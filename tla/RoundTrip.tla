----------------------------- MODULE RoundTrip -----------------------------
(***************************************************************************)
(* The Python API, compared with the object graph that it was given.       *)
(***************************************************************************)
EXTENDS PythonApi, Dumps

\* The value that comes back from a dump that did not fail is the object graph
\* itself, when no hook ran: with every container where it was, a tuple as a
\* list, and of keys that are written alike the last (lib.rs:48-57,
\* ser.rs:543-584, de.rs:852-902).
RoundTrips ==
  loaded.tag = "Ok" /\ returned.tag # "Err" /\ ~hook /\ ~HoldsUnvalidated =>
    loaded.value = Unfold
============================================================================
