----------------------------- MODULE MCValidate -----------------------------
(***************************************************************************)
(* Fragment's validation: the parser over ValidateDeserialization.         *)
(***************************************************************************)
EXTENDS Parser, ValidateDeserialization, MCDocuments
============================================================================
