--------------------------- MODULE UserLifecycle ---------------------------
(***************************************************************************)
(* The administration of an organisation's users: UserLifecycleService     *)
(* (user_lifecycle.py) over its DynamoDB rows and Cognito                  *)
(* (user_lifecycle_adapters.py).                                           *)
(*                                                                         *)
(* An operation is one idempotency key with the one command it is bound    *)
(* to.  Its row records a stage; every call made with the key reads the    *)
(* row, performs the effect that leads to the next stage and moves the     *)
(* stage by a compare-and-swap, so that a repeated call takes up where an  *)
(* earlier one stopped.  A call is cut into one step per remote request,   *)
(* so calls with the same key, and operations on the same member, may      *)
(* interleave between any two of them, and a call may end (an exception,   *)
(* a timeout, a refused approval, an expired invitation) after any one.    *)
(*                                                                         *)
(* The authorization of the caller, taken from the claims of its token, is *)
(* left out: any call may be made.                                         *)
(***************************************************************************)
EXTENDS Naturals, Sequences, FiniteSets, SequencesExt

CONSTANTS
  Members,      \* subjects that have, or may be given, a membership
  Ops,          \* idempotency keys
  Callers,      \* concurrent executions of the service
  Roles, Admin, \* HumanRole, and its CUSTOMER_ADMIN
  Commands,     \* the commands clients may bind to a key
  Seed,         \* the membership rows the run starts from, by version
  MaxSends,     \* bound on the requests the SDK sends for one call of its API
  MaxFaults,    \* bound on calls that end early for an outside reason
  None

Kinds == {"invite", "resend_invitation", "activate", "change_role",
          "suspend", "reactivate", "revoke", "revoke_sessions"}

States == {"invited", "active", "suspended", "revoked"}

Stages == {"reserved", "approval_validated", "provider_effect_reserved",
           "provider_applied", "membership_applied", "sessions_revoked",
           "audit_committed", "completed"}

\* The request payload: expected version, replacement and role included.
Command == [kind: Kinds, target: Members, version: Nat, role: Roles,
            replacement: Members \cup {None}]

\* One version of a membership row, and the operation that wrote it
\* (last_operation_reference).  A row is the sequence of its versions.
Version == [state: States, role: Roles, by: Ops \cup {None}]

ActiveAdmin(v) == v.state = "active" /\ v.role = Admin

ASSUME LifecycleAssumption ==
  /\ None \notin Members \cup Ops
  /\ Admin \in Roles
  /\ Commands \subseteq Command
  /\ \A x \in Commands : x.kind = "invite" => x.version = 0
  /\ {MaxSends, MaxFaults} \subseteq Nat
  /\ Seed \in [Members -> Seq(Version)]
  /\ \E m \in Members : Seed[m] # << >> /\ ActiveAdmin(Last(Seed[m]))

\* No transition of the code leads back to an invitation.
ASSUME SeedAssumption ==
  \A m \in Members : \A v \in DOMAIN Seed[m] :
    Seed[m][v].state = "active" => Last(Seed[m]).state # "invited"

VARIABLES
  cmd,       \* the command each key is bound to
  members,   \* membership rows, each the sequence of its versions
  provider,  \* Cognito users
  stage,     \* stage of each operation row
  evidence,  \* what the approval_validated checkpoint stored in it
  effects,   \* provider effect reservations <<target, version, winner>>
  audit,     \* operations whose audit event is stored
  call,      \* the executions in progress
  resends,   \* per operation, the RESENDs asked for: how often Cognito got each
  signedOut, \* membership version at the last global sign-out
  faults

vars == <<cmd, members, provider, stage, evidence, effects, audit, call,
          resends, signedOut, faults>>

-----------------------------------------------------------------------------
(* Cognito. *)

ProviderUser == [exists: BOOLEAN, enabled: BOOLEAN, confirmed: BOOLEAN]

\* _receipt: the state an AdminGetUser answer is read as.
ProviderState(u) ==
  CASE ~u.exists -> "absent"
    [] u.exists /\ ~u.enabled -> "disabled"
    [] u.exists /\ u.enabled /\ u.confirmed -> "active"
    [] OTHER -> "invited"

SeedUser(row) ==
  [exists    |-> row # << >>,
   enabled   |-> row # << >> /\ Last(row).state \in {"invited", "active"},
   confirmed |-> row # << >> /\ Last(row).state # "invited"]

\* The receipt state each operation asks for.
ExpectedProviderState(kind) ==
  CASE kind \in {"invite", "resend_invitation"} -> "invited"
    [] kind \in {"activate", "reactivate"} -> "active"
    [] OTHER -> "disabled"

\* The user has opened the invitation and set a password.
UserConfirms(m) ==
  /\ ProviderState(provider[m]) = "invited"
  /\ provider' = [provider EXCEPT ![m].confirmed = TRUE]
  /\ UNCHANGED <<cmd, members, stage, evidence, effects, audit, call,
                 resends, signedOut, faults>>

-----------------------------------------------------------------------------
(* Effect order: the stage that follows a stage, per operation. *)

\* Bug: a suspension asks the provider first, as an activation does.
ProviderFirstSuspends == {"activate", "reactivate", "suspend"}

ProviderFirst == {"activate", "reactivate"}

ProviderLast == {"suspend", "revoke"}

SessionsRevoked == {"change_role", "suspend", "reactivate", "revoke",
                    "revoke_sessions"}

\* invite_user
InviteStage ==
  [reserved |-> "approval_validated",
   approval_validated |-> "provider_applied",
   provider_applied |-> "membership_applied",
   membership_applied |-> "audit_committed"]

\* resend_invitation
ResendStage ==
  [reserved |-> "approval_validated",
   approval_validated |-> "provider_effect_reserved",
   provider_effect_reserved |-> "provider_applied",
   provider_applied |-> "membership_applied",
   membership_applied |-> "audit_committed"]

\* Bug: sessions are revoked before the membership is written, so that the
\* token of a new session may still carry the old one.
TransitionStageSessionsFirst(kind) ==
  [reserved |-> "approval_validated",
   approval_validated |-> IF kind \in {"change_role", "revoke_sessions"}
                          THEN "sessions_revoked" ELSE "membership_applied",
   sessions_revoked |-> "membership_applied",
   membership_applied |-> "audit_committed"]

\* _transition
TransitionStage(kind) ==
  [reserved |-> "approval_validated",
   approval_validated |->
     IF kind \in ProviderFirst THEN "provider_applied"
     ELSE "membership_applied",
   provider_applied |->
     IF kind \in ProviderLast THEN "sessions_revoked"
     ELSE "membership_applied",
   membership_applied |->
     IF kind \in ProviderLast THEN "provider_applied"
     ELSE IF kind \in SessionsRevoked THEN "sessions_revoked"
     ELSE "audit_committed",
   sessions_revoked |-> "audit_committed"]

\* The stage after s, with _audit_and_complete at the end of each.
NextStage(kind, s) ==
  LET order == CASE kind = "invite" -> InviteStage
                 [] kind = "resend_invitation" -> ResendStage
                 [] OTHER -> TransitionStage(kind)
  IN IF s \in DOMAIN order THEN order[s] ELSE "completed"

-----------------------------------------------------------------------------
(* What the checks before the approval establish, kept as evidence. *)

NoEvidence == [from |-> "none", to |-> "none", role |-> Admin,
               replacement |-> None, replacementVersion |-> 0]

Evidence == [from: States \cup {"none"}, to: States \cup {"none"},
             role: Roles, replacement: Members \cup {None},
             replacementVersion: Nat]

\* _ALLOWED_TRANSITIONS with the three operations outside it.
DesiredState(kind, state) ==
  CASE kind \in {"activate", "reactivate"} -> "active"
    [] kind = "suspend" -> "suspended"
    [] kind = "revoke" -> "revoked"
    [] kind = "invite" -> "invited"
    [] OTHER -> state

ExpectedStates(kind) ==
  CASE kind \in {"activate", "resend_invitation"} -> {"invited"}
    [] kind \in {"suspend", "revoke", "change_role"} -> {"active"}
    [] kind = "reactivate" -> {"suspended"}
    [] OTHER -> {"active", "suspended"}

\* The request is admissible for the membership row it names.
Admissible(x, row) ==
  /\ Len(row) = x.version
  /\ row # << >>
  /\ Last(row).state \in ExpectedStates(x.kind)
  /\ x.kind = "change_role" => x.role # Last(row).role

EvidenceFor(x, row) ==
  IF x.kind = "invite"
  THEN [NoEvidence EXCEPT !.to = "invited", !.role = x.role]
  ELSE [NoEvidence EXCEPT
         !.from = Last(row).state,
         !.to = DesiredState(x.kind, Last(row).state),
         !.role = IF x.kind = "change_role" THEN x.role ELSE Last(row).role]

\* _require_last_admin_safe: the change would take an active administrator away.
RemovesAdmin(v, ev) ==
  ActiveAdmin(v) /\ ~(ev.to = "active" /\ ev.role = Admin)

\* The row already shows the change, whichever call made it.
AlreadyApplied(x, ev, row) ==
  /\ Len(row) = x.version + 1
  /\ Last(row).state = ev.to
  /\ Last(row).role = ev.role

-----------------------------------------------------------------------------
(* Calls. *)

Idle == [op |-> None, pc |-> "idle", stage |-> "reserved",
         evidence |-> NoEvidence, won |-> FALSE]

Call == [op: Ops \cup {None},
         pc: {"idle", "effect", "replacement", "readback", "write",
              "checkpoint"},
         stage: Stages, evidence: Evidence, won: BOOLEAN]

Target(c) == cmd[call[c].op].target
Kind(c) == cmd[call[c].op].kind
Goal(c) == NextStage(Kind(c), call[c].stage)
At(c, pc, goals) == call[c].pc = pc /\ Goal(c) \in goals

Goto(c, pc) == call' = [call EXCEPT ![c].pc = pc]

Init ==
  /\ cmd \in [Ops -> Commands]
  /\ members = Seed
  /\ provider = [m \in Members |-> SeedUser(Seed[m])]
  /\ stage = [o \in Ops |-> "absent"]
  /\ evidence = [o \in Ops |-> NoEvidence]
  /\ effects = {}
  /\ audit = {}
  /\ call = [c \in Callers |-> Idle]
  /\ resends = [o \in Ops |-> << >>]
  /\ signedOut = [m \in Members |-> 0]
  /\ faults = 0

\* _reserve: the row is created, or the one an earlier call left is taken up.
\* A completed operation is only answered again.
Reserve(c, o) ==
  /\ call[c].pc = "idle"
  /\ stage[o] # "completed"
  /\ stage' = [stage EXCEPT ![o] = IF @ = "absent" THEN "reserved" ELSE @]
  /\ call' = [call EXCEPT ![c] =
                [op |-> o,
                 pc |-> IF stage[o] = "audit_committed"
                        THEN "checkpoint" ELSE "effect",
                 stage |-> stage'[o], evidence |-> evidence[o],
                 won |-> FALSE]]
  /\ UNCHANGED <<cmd, members, provider, evidence, effects, audit, resends,
                 signedOut, faults>>

\* The checks of a reserved operation on the membership row it loads.
Validate(c) ==
  LET x == cmd[call[c].op]
      row == members[Target(c)]
      ev == EvidenceFor(x, row)
  IN /\ At(c, "effect", {"approval_validated"})
     /\ x.kind = "invite" \/ Admissible(x, row)
     /\ call' = [call EXCEPT
          ![c].evidence = ev,
          ![c].pc = IF x.kind # "invite" /\ RemovesAdmin(Last(row), ev)
                    THEN "replacement" ELSE "checkpoint"]
     /\ UNCHANGED <<cmd, members, provider, stage, evidence, effects, audit,
                    resends, signedOut, faults>>

\* The replacement administrator is loaded after the member.
LoadReplacement(c) ==
  LET r == cmd[call[c].op].replacement
  IN /\ call[c].pc = "replacement"
     /\ r # None /\ r # Target(c)
     /\ members[r] # << >> /\ ActiveAdmin(Last(members[r]))
     /\ call' = [call EXCEPT
          ![c].evidence.replacement = r,
          ![c].evidence.replacementVersion = Len(members[r]),
          ![c].pc = "checkpoint"]
     /\ UNCHANGED <<cmd, members, provider, stage, evidence, effects, audit,
                    resends, signedOut, faults>>

EffectKey(c) == <<Target(c), cmd[call[c].op].version>>

\* Bug: a reservation that is found is taken for one's own.
ReserveProviderEffectAnyway(c) ==
  /\ At(c, "effect", {"provider_effect_reserved"})
  /\ effects' = effects \cup
       {<<Target(c), cmd[call[c].op].version, call[c].op>>}
  /\ Goto(c, "checkpoint")
  /\ UNCHANGED <<cmd, members, provider, stage, evidence, audit, resends,
                 signedOut, faults>>

\* reserve_provider_effect: one winner per member and version; a call that
\* finds a reservation stops.
ReserveProviderEffect(c) ==
  /\ At(c, "effect", {"provider_effect_reserved"})
  /\ \A e \in effects : <<e[1], e[2]>> # EffectKey(c)
  /\ effects' = effects \cup
       {<<Target(c), cmd[call[c].op].version, call[c].op>>}
  /\ Goto(c, "checkpoint")
  /\ UNCHANGED <<cmd, members, provider, stage, evidence, audit, resends,
                 signedOut, faults>>

\* The provider request of the operation: a user created unless it exists,
\* an invitation sent again, a user enabled or disabled, or (activation)
\* nothing but the read that follows.  A RESEND whose answer is lost is sent
\* again by the SDK, whose client has no retry limit set: Cognito may get the
\* one that is asked for several times.
ProviderEffect(c) ==
  LET m == Target(c)
      o == call[c].op
  IN /\ At(c, "effect", {"provider_applied"})
     /\ Kind(c) # "invite" => provider[m].exists
     /\ Kind(c) = "resend_invitation" =>
          call[c].won /\ ProviderState(provider[m]) = "invited"
     /\ provider' = [provider EXCEPT ![m] =
          CASE Kind(c) = "invite" /\ ~@.exists ->
                 [exists |-> TRUE, enabled |-> TRUE, confirmed |-> FALSE]
            [] Kind(c) = "reactivate" -> [@ EXCEPT !.enabled = TRUE]
            [] Kind(c) \in ProviderLast -> [@ EXCEPT !.enabled = FALSE]
            [] OTHER -> @]
     /\ IF Kind(c) = "resend_invitation"
        THEN \E n \in 1..MaxSends :
               resends' = [resends EXCEPT ![o] = Append(@, n)]
        ELSE UNCHANGED resends
     /\ Goto(c, "readback")
     /\ UNCHANGED <<cmd, members, stage, evidence, effects, audit, signedOut,
                    faults>>

\* The receipt: the user is read again and must be in the expected state.
ReadBack(c) ==
  /\ call[c].pc = "readback"
  /\ ProviderState(provider[Target(c)]) = ExpectedProviderState(Kind(c))
  /\ Goto(c, "checkpoint")
  /\ UNCHANGED <<cmd, members, provider, stage, evidence, effects, audit,
                 resends, signedOut, faults>>

\* Bug: the transaction has no condition check on the replacement.
ReplacementUnchecked(ev) == TRUE

\* The replacement row is still the one the evidence names.
ReplacementStands(ev) ==
  ev.replacement # None =>
    /\ Len(members[ev.replacement]) = ev.replacementVersion
    /\ members[ev.replacement] # << >>
    /\ ActiveAdmin(Last(members[ev.replacement]))

\* What transition_membership asks before it writes over the row it was given.
Writable(ev, row) ==
  /\ ReplacementStands(ev)
  /\ row # << >> /\ RemovesAdmin(Last(row), ev) => ev.replacement # None

\* The resent invitation is recognised by the expiry its operation stamped.
Recognised(c, row) ==
  /\ AlreadyApplied(cmd[call[c].op], call[c].evidence, row)
  /\ Kind(c) = "resend_invitation" => Last(row).by = call[c].op

\* The membership row is loaded; when it shows the change, it is not written.
LoadMembership(c) ==
  LET row == members[Target(c)]
  IN /\ At(c, "effect", {"membership_applied"})
     /\ Kind(c) # "invite" => row # << >>
     /\ Recognised(c, row) \/ Writable(call[c].evidence, row)
     /\ Goto(c, IF Kind(c) # "invite" /\ Recognised(c, row)
                THEN "checkpoint" ELSE "write")
     /\ UNCHANGED <<cmd, members, provider, stage, evidence, effects, audit,
                    resends, signedOut, faults>>

\* transition_membership: the update's condition, and the transaction's check.
TransitionCondition(x, ev, row) ==
  /\ row # << >> /\ Len(row) = x.version
  /\ Last(row).state = ev.from
  /\ ReplacementStands(ev)

\* refresh_invitation
RefreshCondition(x, row) ==
  row # << >> /\ Len(row) = x.version /\ Last(row).state = "invited"

\* The condition of the write; create_invited_membership wants no row.
MembershipCondition(x, ev, row) ==
  CASE x.kind = "invite" -> row = << >>
    [] x.kind = "resend_invitation" -> RefreshCondition(x, row)
    [] OTHER -> TransitionCondition(x, ev, row)

\* create_invited_membership, transition_membership, refresh_invitation: the
\* conditional write, or the row this operation wrote already.
WriteMembership(c) ==
  LET o == call[c].op
      x == cmd[o]
      ev == call[c].evidence
      row == members[Target(c)]
  IN /\ call[c].pc = "write"
     /\ \/ /\ MembershipCondition(x, ev, row)
           /\ members' = [members EXCEPT ![x.target] = Append(@,
                [state |-> ev.to, role |-> ev.role, by |-> o])]
        \/ /\ ~MembershipCondition(x, ev, row)
           /\ AlreadyApplied(x, ev, row)
           /\ Last(row).by = o
           /\ UNCHANGED members
     /\ Goto(c, "checkpoint")
     /\ UNCHANGED <<cmd, provider, stage, evidence, effects, audit, resends,
                    signedOut, faults>>

\* AdminUserGlobalSignOut.
RevokeSessions(c) ==
  /\ At(c, "effect", {"sessions_revoked"})
  /\ provider[Target(c)].exists
  /\ signedOut' = [signedOut EXCEPT ![Target(c)] = Len(members[Target(c)])]
  /\ Goto(c, "checkpoint")
  /\ UNCHANGED <<cmd, members, provider, stage, evidence, effects, audit,
                 resends, faults>>

\* The audit event has a deterministic key and content, so that a repeated
\* emission finds itself.
EmitAudit(c) ==
  /\ At(c, "effect", {"audit_committed"})
  /\ audit' = audit \cup {call[c].op}
  /\ Goto(c, "checkpoint")
  /\ UNCHANGED <<cmd, members, provider, stage, evidence, effects, resends,
                 signedOut, faults>>

\* The losing checkpoint carries what the stored one carries.  The expiry of
\* an invitation is stamped from the caller's clock, so two calls differ.
SameEvidence(c) ==
  /\ evidence[call[c].op] = call[c].evidence
  /\ ~(Kind(c) \in {"invite", "resend_invitation"}
       /\ Goal(c) = "approval_validated")

\* checkpoint_operation: the compare-and-swap of the stage.  A call that finds
\* the stage moved by an equal checkpoint goes on with it; so does one whose
\* own write was applied, and sent again by the SDK.
Checkpoint(c) ==
  LET o == call[c].op
  IN /\ call[c].pc = "checkpoint"
     /\ \E won \in BOOLEAN :
          /\ \/ /\ stage[o] = call[c].stage
                /\ stage' = [stage EXCEPT ![o] = Goal(c)]
                /\ evidence' = [evidence EXCEPT ![o] = call[c].evidence]
             \/ /\ ~won
                /\ stage[o] # call[c].stage
                /\ stage[o] = Goal(c) /\ SameEvidence(c)
                /\ UNCHANGED <<stage, evidence>>
          /\ call' = [call EXCEPT ![c] =
               IF Goal(c) = "completed" THEN Idle
               ELSE [@ EXCEPT !.stage = Goal(c), !.won = won,
                       !.pc = IF Goal(c) = "audit_committed"
                              THEN "checkpoint" ELSE "effect"]]
     /\ UNCHANGED <<cmd, members, provider, effects, audit, resends,
                    signedOut, faults>>

\* A check of the step the call is at fails, and the call answers an error.
Refused(c) ==
  LET o == call[c].op
      x == cmd[o]
      row == members[x.target]
      r == x.replacement
  IN CASE call[c].pc = "effect" /\ Goal(c) = "approval_validated" ->
            x.kind # "invite" /\ ~Admissible(x, row)
       [] call[c].pc = "effect" /\ Goal(c) = "provider_effect_reserved" ->
            \E e \in effects : <<e[1], e[2]>> = EffectKey(c)
       [] call[c].pc = "effect" /\ Goal(c) = "provider_applied" ->
            \/ x.kind # "invite" /\ ~provider[x.target].exists
            \/ /\ x.kind = "resend_invitation"
               /\ ~call[c].won \/ ProviderState(provider[x.target]) # "invited"
       [] call[c].pc = "effect" /\ Goal(c) = "membership_applied" ->
            \/ x.kind # "invite" /\ row = << >>
            \/ ~Recognised(c, row) /\ ~Writable(call[c].evidence, row)
       [] call[c].pc = "replacement" ->
            ~(/\ r # None /\ r # x.target
              /\ members[r] # << >> /\ ActiveAdmin(Last(members[r])))
       [] call[c].pc = "readback" ->
            ProviderState(provider[x.target]) # ExpectedProviderState(x.kind)
       [] call[c].pc = "write" ->
            /\ ~MembershipCondition(x, call[c].evidence, row)
            /\ ~(AlreadyApplied(x, call[c].evidence, row) /\ Last(row).by = o)
       [] call[c].pc = "checkpoint" ->
            /\ stage[o] # call[c].stage
            /\ ~(stage[o] = Goal(c) /\ SameEvidence(c))
       [] OTHER -> FALSE

Refuse(c) ==
  /\ call[c].pc # "idle" /\ Refused(c)
  /\ call' = [call EXCEPT ![c] = Idle]
  /\ UNCHANGED <<cmd, members, provider, stage, evidence, effects, audit,
                 resends, signedOut, faults>>

\* The call ends for a reason outside the state: a dependency that is not
\* available, an approval that is refused, an invitation past its expiry.
Fail(c) ==
  /\ call[c].pc # "idle" /\ faults < MaxFaults
  /\ call' = [call EXCEPT ![c] = Idle]
  /\ faults' = faults + 1
  /\ UNCHANGED <<cmd, members, provider, stage, evidence, effects, audit,
                 resends, signedOut>>

Step(c) ==
  \/ Validate(c) \/ LoadReplacement(c)
  \/ ReserveProviderEffect(c) \/ ProviderEffect(c) \/ ReadBack(c)
  \/ LoadMembership(c) \/ WriteMembership(c)
  \/ RevokeSessions(c) \/ EmitAudit(c)
  \/ Checkpoint(c) \/ Refuse(c)

Next ==
  \/ \E c \in Callers :
       \/ \E o \in Ops : Reserve(c, o)
       \/ Step(c)
       \/ Fail(c)
  \/ \E m \in Members : UserConfirms(m)

Spec == Init /\ [][Next]_vars

-----------------------------------------------------------------------------
(* Properties. *)

TypeOK ==
  /\ cmd \in [Ops -> Commands]
  /\ members \in [Members -> Seq(Version)]
  /\ provider \in [Members -> ProviderUser]
  /\ stage \in [Ops -> Stages \cup {"absent"}]
  /\ evidence \in [Ops -> Evidence]
  /\ effects \subseteq Members \X Nat \X Ops
  /\ audit \subseteq Ops
  /\ call \in [Callers -> Call]
  /\ resends \in [Ops -> Seq(Nat)]
  /\ signedOut \in [Members -> Nat]
  /\ faults \in Nat

\* The organisation is never left without an active administrator, whichever
\* administrators are suspended, revoked or given another role at once, each
\* with the other named as the one who stays (_require_last_admin_safe and the
\* condition check of the transaction).
AdminRemains ==
  \E m \in Members : members[m] # << >> /\ ActiveAdmin(Last(members[m]))

\* The provider is asked at most once to send the invitation of one member at
\* one version again, by whatever number of keys, calls and retries: Cognito's
\* RESEND has neither a token nor a receipt that would tell a second one.  All
\* the RESENDs Cognito gets are then the SDK's sends of this one request.
ResendOnce ==
  \A o \in Ops :
    /\ Len(resends[o]) <= 1
    /\ resends[o] # << >> => \A p \in Ops \ {o} :
         cmd[p].target = cmd[o].target /\ cmd[p].version = cmd[o].version
           => resends[p] = << >>

\* A completed operation has had its effect: the version after the one it was
\* asked to change is in the state and role it asked for, the event is in the
\* audit trail, and where the operation revokes sessions they were revoked
\* after that version was written.
CompletedTookEffect ==
  \A o \in Ops : stage[o] = "completed" =>
    LET x == cmd[o]
        row == members[x.target]
    IN /\ Len(row) > x.version
       /\ row[x.version + 1].state = evidence[o].to
       /\ row[x.version + 1].role = evidence[o].role
       /\ o \in audit
       /\ x.kind \in SessionsRevoked => signedOut[x.target] > x.version

\* A membership is active only once the user has been seen confirmed in
\* Cognito, and a user is disabled only once a version of the membership has
\* taken the access away: the provider is asked first to give access and last
\* to take it.
RestrictedFirst ==
  \A m \in Members :
    LET was(S) == \E v \in DOMAIN members[m] : members[m][v].state \in S
    IN /\ was({"active"}) => provider[m].confirmed
       /\ provider[m].exists /\ ~provider[m].enabled =>
            was({"suspended", "revoked"})

\* The next states of enterprise-authorization.md, for the states the code has.
MayFollow ==
  [invited |-> {"invited", "active", "revoked"},
   active |-> {"active", "suspended", "revoked"},
   suspended |-> {"suspended", "active", "revoked"},
   revoked |-> {}]

\* Every write of a membership row, a late one of an overtaken operation too,
\* is a step of the state table, and a revoked membership is never written.
LegalTransitions ==
  [][\A m \in Members :
       members[m] # << >> /\ members'[m] # members[m] =>
         Last(members'[m]).state \in MayFollow[Last(members[m]).state]]_vars

Reported == {o \in Ops : stage[o] = "completed"}

Promise == INSTANCE Administration WITH
  asked <- cmd, rows <- members, sessions <- signedOut, logged <- audit,
  done <- Reported

\* The calls, checkpoints and retries of the service keep the promise of
\* Administration: every version is written for the version it was asked of,
\* and no operation is completed before all it stands for is in place.
ImplementsAdministration == Promise!Spec

=============================================================================
