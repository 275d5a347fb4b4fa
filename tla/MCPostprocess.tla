---------------------------- MODULE MCPostprocess ---------------------------
(* Postprocess for TLC: two handlers on any stage of one document.         *)
EXTENDS Postprocess
=============================================================================
