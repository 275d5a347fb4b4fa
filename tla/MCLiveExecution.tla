-------------------------- MODULE MCLiveExecution --------------------------
(* Small instances of LiveExecution. *)
EXTENDS LiveExecution, TLC

\* Every execution has a configuration of its own.
OwnConfig(e) == e

Symmetry == Permutations(Runs)

=============================================================================
