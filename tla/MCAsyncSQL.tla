----------------------------- MODULE MCAsyncSQL -----------------------------
(* Small instances of AsyncSQL for TLC: four queries, one without result.   *)
EXTENDS AsyncSQL
=============================================================================
