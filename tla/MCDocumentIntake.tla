-------------------------- MODULE MCDocumentIntake --------------------------
(* DocumentIntake for TLC.                                                 *)
EXTENDS DocumentIntake
=============================================================================
