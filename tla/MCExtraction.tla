---------------------------- MODULE MCExtraction ----------------------------
(* Extraction for TLC: two handlers and two answers of the model.          *)
EXTENDS Extraction
=============================================================================
