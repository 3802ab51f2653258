----------------------------- MODULE Agreement -----------------------------
(***************************************************************************)
(* Fragment and loads on the same text: the parser runs once over          *)
(* ValidateDeserialization, when the Fragment is made, and once over       *)
(* PyDeserialization, when what a dump embedded is read back.              *)
(***************************************************************************)
EXTENDS PyParser

VARIABLES
  vpos, vstack, vlast, vfinished, vresult   \* the validating parser

agreementVars ==
  <<input, limit, pos, stack, last, finished, result,
    vpos, vstack, vlast, vfinished, vresult>>

V == INSTANCE ValidateDeserialization

Validator == INSTANCE Parser WITH
  pos <- vpos, stack <- vstack, last <- vlast,
  finished <- vfinished, result <- vresult,
  Any <- V!UnitType, String <- V!UnitType,
  BuildingList <- V!UnitType, Map <- V!UnitType,
  EmptyList <- V!Unit, ExtendList <- V!UnitExtendList, FinishList <- V!UnitFinish,
  EmptyMap <- V!Unit, ExtendMap <- V!UnitExtendMap, FinishMap <- V!UnitFinish,
  ParseStr <- V!UnitParseStr, ParseScalar <- V!UnitParseScalar

\* Both calls of parse_json_with begin in the same state.
AInit ==
  /\ Init
  /\ vpos = pos /\ vstack = stack /\ vlast = last
  /\ vfinished = finished /\ vresult = result

\* The calls share the text and nothing else, so that what they return does not
\* depend on the order of their iterations: they are taken in pairs.
ANext == Next /\ Validator!Next

ASpec == AInit /\ [][ANext]_agreementVars
----------------------------------------------------------------------------
\* The same verdict, reached at the same place: bytes that are not UTF-8 raise
\* InvalidUtf8 in the one and Python's own exception in the other.
SameVerdict ==
  \/ result.tag = "Ok" /\ vresult.tag = "Ok"
  \/ /\ result.tag = "Err" /\ vresult.tag = "Err"
     /\ pos = vpos
     /\ \/ result.err = vresult.err
        \/ result.err = "Custom" /\ vresult.err = "InvalidUtf8"

StoppedAtLongInt ==
  result = Err("Custom") /\ pos > 1 /\ input[pos - 1] \in TooManyDigits

\* Fragment accepts exactly the texts that loads accepts, and both stop at the
\* same place of the others, unless loads meets an int too long for Python: the
\* two implementations of create_string and create_number agree
\* (de.rs:237-290 and de.rs:344-369).
FragmentAgreesWithLoads ==
  vresult # Running /\ result # Running => SameVerdict \/ StoppedAtLongInt

\* What the comment of de.rs:365-366 says: a text of ASCII digits is a valid
\* Python int, so what Fragment accepts loads accepts.
ValidatedTextLoads ==
  vresult.tag = "Ok" /\ result # Running => result.tag = "Ok"
============================================================================
