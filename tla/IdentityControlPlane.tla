------------------------ MODULE IdentityControlPlane ------------------------
(***************************************************************************)
(* The two commands of the identity control plane.  They share neither a   *)
(* row nor a provider object, so a behaviour is about one of them: the     *)
(* invocations that bootstrap a first administrator, or those that         *)
(* provision a machine credential.                                         *)
(***************************************************************************)
EXTENDS Naturals, FiniteSets

CONSTANTS
  Requests, Deadline, MaxRecovery,   \* of BootstrapRequest
  Clients, Lease, Timeout,           \* of M2MProvisioning
  Callers, Tokens, MaxTime, MaxFailures, Nil

ASSUME ControlPlaneAssumption ==
  /\ {Deadline, MaxRecovery, Lease, Timeout, MaxTime, MaxFailures} \subseteq Nat
  /\ Timeout < Lease
  /\ Nil \notin Requests \cup Clients \cup Callers \cup Tokens \cup Nat
  /\ Nil \notin [by : Requests, at : Nat]

\* A token is left when every call and every row holds one (a call of the
\* provisioner two).
ASSUME TokenAssumption ==
  /\ IsFiniteSet(Callers) /\ IsFiniteSet(Requests) /\ IsFiniteSet(Tokens)
  /\ Cardinality(Tokens) > Cardinality(Callers) + Cardinality(Requests)
  /\ Cardinality(Tokens) > 2 * Cardinality(Callers) + 1

VARIABLES
  command,                     \* what the behaviour is about
  requests, membership, events, \* of BootstrapRequest
  binding, clients, used, strays, \* of M2MProvisioning
  secret, lateSecrets, audited, answered,
  call, clock, failures

Bootstrap == INSTANCE BootstrapRequest
               WITH request <- requests, faults <- failures,
                    MaxFaults <- MaxFailures, None <- Nil
M2M == INSTANCE M2MProvisioning
         WITH pending <- lateSecrets, faults <- failures,
              MaxFaults <- MaxFailures, None <- Nil

bootstrapRows == <<requests, membership, events>>
m2mRows ==
  <<binding, clients, used, strays, secret, lateSecrets, audited, answered>>

planeVars == <<command, bootstrapRows, m2mRows, call, clock, failures>>

PlaneInit ==
  /\ \/ command = "bootstrap" /\ Bootstrap!Init /\ M2M!Unprovisioned
     \/ command = "provision" /\ M2M!Init /\ Bootstrap!Reviewed

BootstrapStep ==
  command = "bootstrap" /\ Bootstrap!Next /\ UNCHANGED <<command, m2mRows>>

ProvisionStep ==
  command = "provision" /\ M2M!Next /\ UNCHANGED <<command, bootstrapRows>>

PlaneSpec == PlaneInit /\ [][BootstrapStep \/ ProvisionStep]_planeVars

-----------------------------------------------------------------------------
\* The effects of at most one of the reviewed requests for a subject are ever
\* recorded, and it is the request that wrote the membership.
OneBeneficiary == Bootstrap!OneBeneficiary

\* No late release or claim of an overtaken invocation takes a request back
\* whose effects are recorded, and a consumed request stays consumed.
NeverReopened == Bootstrap!NeverReopened

\* The name never has two Cognito clients whose creation was answered: a second
\* one is the work of a request whose answer was lost.
OneKnownClient == M2M!OneKnownClient

\* An active binding names a client that exists and whose secret is in escrow.
ActiveIsUsable == M2M!ActiveIsUsable

=============================================================================
