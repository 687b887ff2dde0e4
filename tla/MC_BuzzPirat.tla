---------------------------- MODULE MC_BuzzPirat ----------------------------
(* The helper with reads of one byte; a call after a cancelled one.     *)
EXTENDS BuzzPirat
=============================================================================
