----------------------------- MODULE MCAgreement -----------------------------
EXTENDS Agreement, MCDocuments
==============================================================================
