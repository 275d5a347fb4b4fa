----------------------- MODULE MCIdentityControlPlane -----------------------
(* Small instances of IdentityControlPlane. *)
EXTENDS IdentityControlPlane, TLC

Symmetry == Permutations(Requests) \cup Permutations(Callers)

=============================================================================
