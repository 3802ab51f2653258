------------------------------ MODULE MCNumbers ------------------------------
(***************************************************************************)
(* Numbers for TLC: every short text over the bytes that matter, and every *)
(* combination of a sign, an integer part, a fraction, an exponent and what *)
(* follows, complete or not.                                               *)
(***************************************************************************)
EXTENDS Numbers, SequencesExt

CONSTANTS MaxLen, MaxInt

Alphabet == {Minus, Plus, Dot, Zero, 57, 69, 101, 44, 195}
Short == {s \in SeqOf(Alphabet, MaxLen) : s # <<>> /\ s[1] \in Digit \cup {Minus}}

Combined ==
  {a \o b \o c \o d \o e :
     a \in {<<>>, <<45>>}, b \in {<<48>>, <<55>>, <<56>>, <<49, 53>>, <<49, 54>>, <<57, 57>>, <<49, 48, 48>>},
     c \in {<<>>, <<46>>, <<46, 48>>, <<46, 50, 53>>},
     d \in {<<>>, <<101>>, <<69, 43>>, <<69, 45, 57>>, <<101, 43, 57, 57>>, <<101, 57, 57>>},
     e \in {<<>>, <<44>>, <<46>>, <<101>>, <<45>>}}

MCInputs == Short \cup Combined
MCInts == -MaxInt .. MaxInt

\* Two digits of exponent are too much for this f64, but for a zero.
MCFloatOverflows(s) ==
  \E i \in 1 .. Len(s) - 2 :
    /\ s[i] \in Exponents /\ \E j \in 1 .. i : s[j] \in Digit \ {Zero}
    /\ s[Len(s) - 1] \in Digit \ {Zero} /\ \A j \in i .. Len(s) : s[j] # Minus
=============================================================================
