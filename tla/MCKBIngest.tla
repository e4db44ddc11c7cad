---------------------------- MODULE MCKBIngest -----------------------------
(* KBIngest for TLC: two resumes saved by one request.                      *)
EXTENDS KBIngest

CONSTANTS d1, d2

MCBatches == {<<d1, d2>>}
=============================================================================
