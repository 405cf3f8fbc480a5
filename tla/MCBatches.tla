----------------------------- MODULE MCBatches ------------------------------
(* Batches: one of residents, with three lines of which one is malformed,  *)
(* and one of a type that is processed elsewhere; two requests, which may  *)
(* meet on either.                                                         *)
EXTENDS ImportBatches
CONSTANTS b1, b2, w1, w2
=============================================================================
