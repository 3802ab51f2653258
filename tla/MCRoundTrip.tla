---------------------------- MODULE MCRoundTrip ----------------------------
(***************************************************************************)
(* Graphs that hold Fragments, two validated, one of them an int of too    *)
(* many digits, and two that are not: one that is JSON only inside a list, *)
(* and one that is no UTF-8.                                               *)
(***************************************************************************)
EXTENDS RoundTrip, MCDumps

MCLongInts == {"10^9999"}
MCFragments == {"list", "long", "pair", "latin"}
MCText ==
  [f \in MCFragments |->
     CASE f = "list" -> <<"ws", "[", "1", "]", "ws">>
       [] f = "long" -> <<"10^9999">>
       [] f = "pair" -> <<"1", "comma", "1">>
       [] f = "latin" -> <<"s-latin">>]
RoundTripScalars == MCScalars \cup MCFragments

\* Two containers, and an object that a hook replaces without any change.
Inside(S) ==
  {Object("list", s) : s \in SeqOf(S, 2)}
  \cup {Object("dict", <<Entry("s", v), Entry(l, w)>>) : v \in S, l \in {"s", "t"}, w \in S}
RoundTripHeaps ==
  {[a \in Addresses |-> IF a = "A" THEN o ELSE IF a = "B" THEN p ELSE Object("other", <<>>)] :
     o \in Inside(RoundTripScalars \cup {"B"}),
     p \in {Object("list", <<v>>) : v \in RoundTripScalars \cup {"C"}}}
FragmentHeaps == ChangingHeaps \cup RoundTripHeaps
============================================================================
