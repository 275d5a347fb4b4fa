-------------------------- MODULE MCOperationLedger --------------------------
(* OperationLedger for TLC.                                                *)
EXTENDS OperationLedger
==============================================================================
