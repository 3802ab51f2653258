------------------------------- MODULE MCLoads -------------------------------
EXTENDS Loads, MCDocuments

==============================================================================
