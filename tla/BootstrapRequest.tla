-------------------------- MODULE BootstrapRequest --------------------------
(***************************************************************************)
(* The one-use bootstrap of a first administrator: BootstrapProcessor      *)
(* (bootstrap.py) over its DynamoDB rows (aws_adapters.py).  A reviewed    *)
(* request is claimed, the user is checked in Cognito, the membership is   *)
(* written, the effects are checkpointed, the decision is audited and the  *)
(* request is consumed.  An invocation takes up the request in the state   *)
(* it finds; several may run at once, and each may end after any step.     *)
(* The requests of a run are all for one subject, whose membership row is  *)
(* one.  Invocations read the clock once, when they start; timestamps have *)
(* the resolution of the clock.                                            *)
(***************************************************************************)
EXTENDS Naturals, FiniteSets

CONSTANTS
  Requests,     \* reviewed bootstrap requests for one subject
  Callers,      \* concurrent invocations of the processor
  Deadline,     \* first instant at which request and approvals have expired
  MaxRecovery,  \* max_recovery_seconds
  MaxTime,      \* bound on the clock
  MaxFaults,    \* bound on failed dependencies and lost invocations
  Tokens,       \* claim tokens, more than calls and requests can hold
  None

VARIABLES
  request,    \* bootstrap rows
  membership, \* the subject's membership row: None, or who wrote it and when
  events,     \* allow events in the audit trail: <<request, timestamp>>
  call,       \* invocations in progress
  clock, faults

vars == <<request, membership, events, call, clock, faults>>

Idle == [pc |-> "idle", request |-> None, token |-> None, now |-> 0,
         outcome |-> None]

\* Reviewed requests, and nothing written for the subject.
Reviewed ==
  /\ request = [r \in Requests |->
       [state |-> "approved", token |-> None, outcome |-> None]]
  /\ membership = None
  /\ events = {}

Init ==
  /\ Reviewed
  /\ call = [c \in Callers |-> Idle]
  /\ clock = 0 /\ faults = 0

-----------------------------------------------------------------------------
(* Invocations. *)

\* _validate_request: what is left of the request and its approvals must be
\* valid now, or, once the effects are recorded, when they were applied.
Valid(row) ==
  CASE row.state \in {"approved", "claimed"} -> clock < Deadline
    [] row.state \in {"effects_applied", "audit_committed"} ->
         /\ clock >= row.outcome /\ clock - row.outcome <= MaxRecovery
         /\ row.outcome < Deadline
    [] OTHER -> FALSE

\* Where an invocation takes up a request.
FirstStep == [approved |-> "claim", claimed |-> "user",
              effects_applied |-> "audit", audit_committed |-> "consume"]

\* process: the request is loaded and validated; a stored claim is taken up.
Load(c, r) ==
  /\ call[c].pc = "idle"
  /\ Valid(request[r])
  /\ call' = [call EXCEPT ![c] =
       [pc |-> FirstStep[request[r].state], request |-> r,
        token |-> request[r].token, now |-> clock,
        outcome |-> request[r].outcome]]
  /\ UNCHANGED <<request, membership, events, clock, faults>>

\* A claim token is a UUID: one that no row and no invocation holds.
FreshToken ==
  CHOOSE t \in Tokens : /\ \A r \in Requests : request[r].token # t
                        /\ \A c \in Callers : call[c].token # t

Goto(c, pc) == call' = [call EXCEPT ![c].pc = pc]
Return(c) == call' = [call EXCEPT ![c] = Idle]

\* A conditional update of the request row: taken when the row is in the state
\* from and holds the caller's claim, refused (and the call denied) otherwise.
Conditional(c, from, row, pc) ==
  LET r == call[c].request
  IN \/ /\ request[r].state = from /\ request[r].token = call[c].token
        /\ request' = [request EXCEPT ![r] = row]
        /\ Goto(c, pc)
     \/ /\ ~(request[r].state = from /\ request[r].token = call[c].token)
        /\ Return(c)
        /\ UNCHANGED request

Claim(c) ==
  LET r == call[c].request
      token == FreshToken
  IN /\ call[c].pc = "claim"
     /\ \/ /\ request[r].state = "approved" /\ request[r].token = None
           /\ request' = [request EXCEPT ![r].state = "claimed",
                                         ![r].token = token]
           /\ call' = [call EXCEPT ![c].pc = "user", ![c].token = token]
        \/ /\ ~(request[r].state = "approved" /\ request[r].token = None)
           /\ Return(c)
           /\ UNCHANGED request
     /\ UNCHANGED <<membership, events, clock, faults>>

\* ensure_user: Cognito is only read.
EnsureUser(c) ==
  /\ call[c].pc = "user"
  /\ Goto(c, "membership")
  /\ UNCHANGED <<request, membership, events, clock, faults>>

\* Bug: a row that another request wrote is taken for one's own.
AnyMembership(c) == IF membership = None
                    THEN [by |-> call[c].request, at |-> call[c].now]
                    ELSE membership

\* The row this invocation would write: every field is compared with the row
\* found, created_at included.
OwnMembership(c) == [by |-> call[c].request, at |-> call[c].now]

\* ensure_membership: written unless it exists; a different row is an error,
\* after which the claim is released.
EnsureMembership(c) ==
  /\ call[c].pc = "membership"
  /\ \/ /\ membership \in {None, OwnMembership(c)}
        /\ membership' = OwnMembership(c)
        /\ Goto(c, "effects")
     \/ /\ membership \notin {None, OwnMembership(c)}
        /\ Goto(c, "release")
        /\ UNCHANGED membership
  /\ UNCHANGED <<request, events, clock, faults>>

\* Bug: the release is not conditioned on the state, nor on the claim.
ReleaseAnyway(c) ==
  /\ call[c].pc = "release"
  /\ request' = [request EXCEPT ![call[c].request] =
       [state |-> "approved", token |-> None, outcome |-> None]]
  /\ Goto(c, "idle")
  /\ UNCHANGED <<membership, events, clock, faults>>

\* _release_claim
Release(c) ==
  /\ call[c].pc = "release"
  /\ Conditional(c, "claimed",
       [state |-> "approved", token |-> None, outcome |-> None], "idle")
  /\ UNCHANGED <<membership, events, clock, faults>>

MarkEffectsApplied(c) ==
  /\ call[c].pc = "effects"
  /\ LET r == call[c].request
     IN \/ /\ request[r].state = "claimed"
           /\ request[r].token = call[c].token
           /\ request' = [request EXCEPT ![r].state = "effects_applied",
                                         ![r].outcome = call[c].now]
           /\ call' = [call EXCEPT ![c].pc = "audit",
                                   ![c].outcome = call[c].now]
        \/ /\ ~(request[r].state = "claimed"
                /\ request[r].token = call[c].token)
           /\ Return(c)
           /\ UNCHANGED request
  /\ UNCHANGED <<membership, events, clock, faults>>

\* The timestamp, and with it the key, of the allow event.
AuditTime(c) == call[c].outcome

AuditAllow(c) ==
  /\ call[c].pc = "audit"
  /\ events' = events \cup {<<call[c].request, AuditTime(c)>>}
  /\ Goto(c, "mark_audit")
  /\ UNCHANGED <<request, membership, clock, faults>>

\* The row with a later state.
Advanced(c, state) == [request[call[c].request] EXCEPT !.state = state]

MarkAuditCommitted(c) ==
  /\ call[c].pc = "mark_audit"
  /\ Conditional(c, "effects_applied", Advanced(c, "audit_committed"),
                 "consume")
  /\ UNCHANGED <<membership, events, clock, faults>>

Consume(c) ==
  /\ call[c].pc = "consume"
  /\ Conditional(c, "audit_committed",
       [Advanced(c, "consumed") EXCEPT !.token = None], "idle")
  /\ UNCHANGED <<membership, events, clock, faults>>

\* A dependency fails, before or after the membership was written: the claim
\* is released while the effects are attempted, and kept afterwards.
DependencyFails(c) ==
  /\ call[c].pc # "idle" /\ faults < MaxFaults
  /\ faults' = faults + 1
  /\ \/ /\ call[c].pc \in {"user", "membership"}
        /\ Goto(c, "release")
        /\ \/ UNCHANGED membership
           \/ /\ call[c].pc = "membership" /\ membership = None
              /\ membership' = OwnMembership(c)
     \/ /\ call[c].pc \notin {"user", "membership"}
        /\ Return(c)
        /\ UNCHANGED membership
  /\ UNCHANGED <<request, events, clock>>

\* The invocation itself is lost.
Lost(c) ==
  /\ call[c].pc # "idle" /\ faults < MaxFaults
  /\ faults' = faults + 1
  /\ Return(c)
  /\ UNCHANGED <<request, membership, events, clock>>

Tick ==
  /\ clock < MaxTime
  /\ clock' = clock + 1
  /\ UNCHANGED <<request, membership, events, call, faults>>

Step(c) ==
  \/ Claim(c) \/ EnsureUser(c) \/ EnsureMembership(c) \/ Release(c)
  \/ MarkEffectsApplied(c) \/ AuditAllow(c) \/ MarkAuditCommitted(c)
  \/ Consume(c)

Next ==
  \/ \E c \in Callers :
       \/ \E r \in Requests : Load(c, r)
       \/ Step(c) \/ DependencyFails(c) \/ Lost(c)
  \/ Tick

-----------------------------------------------------------------------------
(* Properties. *)

\* The one membership of the subject is what a request reports: the effects of
\* at most one request are ever recorded, and it is the request that wrote the
\* row, however invocations of both overlap.
OneBeneficiary ==
  \A r \in Requests :
    request[r].state \in {"effects_applied", "audit_committed", "consumed"}
      => membership # None /\ membership.by = r

\* Once the effects are recorded no late release or claim of an overtaken
\* invocation takes the request back, and a consumed request stays consumed.
NeverReopened ==
  [][\A r \in Requests :
       request[r].state \in {"effects_applied", "audit_committed", "consumed"}
         => request'[r].state \notin {"approved", "claimed"}
            /\ (request[r].state = "consumed" => request'[r] = request[r])]_vars

=============================================================================
