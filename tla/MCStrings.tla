------------------------------ MODULE MCStrings ------------------------------
(***************************************************************************)
(* Strings for TLC, put together from pieces: every sequence of at most    *)
(* MaxPieces pieces, closed, and one piece less not closed or with another *)
(* byte behind; every text that is one byte away from two escapes; a       *)
(* special byte at every place around the chunks of the scan; and what is  *)
(* written for short strs.                                                 *)
(***************************************************************************)
EXTENDS Strings

CONSTANT MaxPieces

\* Raw characters of one to four bytes.
Raw == {<<97>>, <<195, 169>>, <<226, 130, 172>>, <<240, 159, 152, 128>>}
\* Bytes that are no UTF-8: a piece of a character, a surrogate, an overlong
\* encoding, a code point that is too large.
Broken == {<<195>>, <<169>>, <<237, 160, 128>>, <<192, 128>>, <<244, 144, 128, 128>>}
Escape(c) == <<92, c>>
Word(w) == <<92, 117>> \o w
Words == {<<48, 48, 52, 49>>, <<102, 70, 102, 102>>,    \* 0041, fFff
          <<100, 56, 48, 48>>, <<68, 66, 102, 102>>,    \* d800, DBff
          <<100, 99, 48, 48>>, <<68, 70, 102, 102>>}    \* dc00, DFff
OddWords == {<<43, 48, 52, 49>>, <<43, 43, 52, 49>>,    \* +041, ++41
             <<48, 48, 52, 103>>, <<48, 48, 195, 169>>, <<48, 48, 52, 195>>}
Pieces ==
  Raw \cup Broken \cup {Word(w) : w \in Words \cup OddWords}
  \cup {Escape(c) : c \in {110, 34, 92, 120}} \cup {<<31>>, <<34>>, <<92>>}

Joined(n) == {FlattenSeq(p) : p \in SeqOf(Pieces, n) \ {<<>>}} \cup {<<>>}
Pieced ==
  {s \o <<34>> : s \in Joined(MaxPieces)}
  \cup {s \o e : s \in Joined(MaxPieces - 1), e \in {<<>>, <<34, 97>>}}

\* Pairs of escapes with a byte removed or replaced.
Pairs == {Word(v) \o Word(w) \o <<34>> : v, w \in Words}
Damaged ==
  {RemoveAt(s, i) : s \in Pairs, i \in 1 .. 12}
  \cup {ReplaceAt(s, i, b) : s \in Pairs, i \in 1 .. 12, b \in {31, 34, 43, 92, 100, 195}}
  \cup {SubSeq(s, 1, i) : s \in Pairs, i \in 1 .. 12}

Padding(n) == [i \in 1 .. n |-> 97]
Padded == {Padding(m) \o s \o Padding(n) \o <<34>> :
             m \in 0 .. 17, n \in 0 .. 9, s \in {<<31>>, <<34>>, Escape(110), <<195>>, <<195, 169>>}}

Written1 == Raw \cup {<<c>> : c \in {0, 9, 15, 16, 31, 34, 47, 92, 127}}
MCTexts ==
  {FlattenSeq(p) : p \in SeqOf(Written1, 3) \ {<<>>}} \cup {<<>>}
  \cup {Padding(m) \o s \o Padding(n) : m \in 0 .. 17, n \in 0 .. 9, s \in Written1}

MCInputs == Pieced \cup Damaged \cup Padded
=============================================================================
