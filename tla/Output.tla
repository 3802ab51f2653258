------------------------------- MODULE Output -------------------------------
(***************************************************************************)
(* What the serializer writes, as a text of the JSON grammar.              *)
(***************************************************************************)
EXTENDS Serializer

CONSTANTS
  Unvalidated,  \* the Fragments made with validate=False
  BadStrings,   \* strings that are not UTF-8, which only such a Fragment holds
  LongInts      \* ints of too many digits for Python, which only Fragments hold

Grammar == INSTANCE JsonGrammar WITH
  GoodStrings <- Keys, GoodScalars <- (Scalars \ Fragments) \cup LongInts,
  LexErrors <- {}, NotUtf8 <- {}, Infinite <- {}, TooManyDigits <- LongInts,
  Hook <- FALSE, Raises <- FALSE

FragmentTokens == Grammar!Alphabet \cup {"ws"} \cup BadStrings

\* Fragment::new lets only JSON through, unless validate is False: the tokens of
\* its text are in the order of the grammar.  That each token is JSON itself
\* holds but for the \u+041 that parse_str takes for an escape (de.rs:745).
ASSUME FragmentsAssumption ==
  /\ Unvalidated \subseteq Fragments
  /\ Text \in [Fragments -> Seq(FragmentTokens)]
  /\ \A f \in Fragments \ Unvalidated : Grammar!Values(Grammar!NoSpace(Text[f])) # {}
  /\ "ws" \notin Grammar!Alphabet
  /\ BadStrings \cap (Grammar!Alphabet \cup {"ws"}) = {}
  /\ LongInts \cap Scalars = {}

\* A Fragment that nobody validated has been written.
HoldsUnvalidated == embedded \cap Unvalidated # {}
----------------------------------------------------------------------------
WritesJson == Grammar!Values(Grammar!NoSpace(buffer)) # {} \/ HoldsUnvalidated

\* Whatever the hook does to the objects while they are being written, the text
\* is one JSON value when the call returns it: a list that grows or shrinks
\* under its iterator leaves no comma and no bracket out of place (ser.rs:
\* 418-540).  Only a Fragment made with validate=False can spoil it (ser.rs:
\* 244-245).
OutputIsJson ==
  [][result = Running /\ result' = Ok => WritesJson']_vars
============================================================================
