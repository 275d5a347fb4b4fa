--------------------------- MODULE MCPhaseLedger ---------------------------
(* Small instances of PhaseLedger. *)
EXTENDS PhaseLedger

\* Two operations in every phase.
TwoEach == [l \in 1 .. NPhases |-> 2]

=============================================================================
