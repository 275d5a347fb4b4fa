-------------------------- MODULE MCClassification --------------------------
(* Classification for TLC: two classifiers, two messages of one document.  *)
EXTENDS Classification
=============================================================================
