-------------------------- MODULE MCUserLifecycle --------------------------
(***************************************************************************)
(* Small instances of UserLifecycle: two administrators, ann and bob, and  *)
(* eve, who has no membership yet.                                         *)
(***************************************************************************)
EXTENDS UserLifecycle, TLC

CONSTANTS ann, bob, eve, member

Row(states, role) ==
  [v \in DOMAIN states |-> [state |-> states[v], role |-> role, by |-> None]]

MCSeed ==
  ann :> Row(<<"invited", "active">>, Admin) @@
  bob :> Row(<<"invited", "active">>, Admin) @@ eve :> << >>

Cmd(kind, target, version, role, replacement) ==
  [kind |-> kind, target |-> target, version |-> version, role |-> role,
   replacement |-> replacement]

\* Two administrators, each removed with the other as the replacement.
AdminCommands ==
  {Cmd("suspend", ann, 2, Admin, bob), Cmd("reactivate", ann, 3, Admin, None),
   Cmd("revoke_sessions", ann, 2, Admin, None),
   Cmd("change_role", bob, 2, member, ann),
   Cmd("revoke", bob, 2, Admin, ann), Cmd("suspend", bob, 2, Admin, None)}

\* One member from the invitation, sent again, to the activation.
InviteeCommands ==
  {Cmd("invite", eve, 0, member, None),
   Cmd("resend_invitation", eve, 1, member, None),
   Cmd("activate", eve, 1, member, None),
   Cmd("activate", eve, 2, member, None)}

MCCommands == AdminCommands \cup InviteeCommands

Symmetry == Permutations(Ops) \cup Permutations(Callers)

\* The operations of a behaviour are about the administrators or about eve.
MCInit ==
  Init /\ \E C \in {AdminCommands, InviteeCommands} : \A o \in Ops : cmd[o] \in C

MCSpec == MCInit /\ [][Next]_vars

=============================================================================
