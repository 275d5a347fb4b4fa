-------------------------- MODULE M2MProvisioning --------------------------
(***************************************************************************)
(* The provisioning of one workload's machine credential, for one          *)
(* idempotency key: M2MProvisioner.provision (m2m.py) with the binding row *)
(* (DynamoM2MBindingStore) and the Cognito client and secret               *)
(* (CognitoSecretsM2MClientProvider, aws_adapters.py).  The Cognito        *)
(* request that creates a client has no idempotency token, and the SDK     *)
(* sends it again when its answer is lost: the clients that carry the      *)
(* deterministic name are listed before the call, and after it when it     *)
(* failed.  A claim of the binding is a lease, longer than an invocation   *)
(* can last.                                                               *)
(***************************************************************************)
EXTENDS Naturals, FiniteSets

CONSTANTS
  Callers,   \* concurrent invocations
  Clients,   \* Cognito client identifiers to come
  Tokens,    \* claim tokens, more than the calls and the row can hold
  Lease,     \* CLAIM_LEASE_SECONDS
  Timeout,   \* the Lambda timeout
  MaxTime,   \* bound on the clock
  MaxFaults, \* bound on ambiguous answers and failed dependencies
  None

VARIABLES
  binding,  \* the row of the idempotency key
  clients,  \* Cognito clients with the deterministic name
  used,     \* identifiers of the clients that were ever asked for
  strays,   \* those of the requests whose answer was lost
  secret,   \* client the escrowed secret is tagged with
  pending,  \* secret creations that were given up, and may yet be applied
  audited,  \* an allow event is stored
  answered, \* clients reported to a caller as provisioned
  call, clock, faults

vars == <<binding, clients, used, strays, secret, pending, audited, answered,
          call, clock, faults>>

Idle == [pc |-> "idle", now |-> 0, token |-> None, seen |-> None,
         client |-> None, created |-> FALSE]

NoBinding == [status |-> "none", token |-> None, claimedAt |-> 0,
              client |-> None]

\* The workload has no credential.
Unprovisioned ==
  /\ binding = NoBinding
  /\ clients = {} /\ used = {} /\ strays = {}
  /\ secret = None /\ pending = {}
  /\ audited = FALSE /\ answered = {}

Init ==
  /\ Unprovisioned
  /\ call = [c \in Callers |-> Idle]
  /\ clock = 0 /\ faults = 0

Goto(c, pc) == call' = [call EXCEPT ![c].pc = pc]
Return(c) == call' = [call EXCEPT ![c] = Idle]

FreshToken ==
  CHOOSE t \in Tokens : binding.token # t
    /\ \A c \in Callers : call[c].token # t /\ call[c].seen # t

\* Bug: a claim is taken over as soon as it is found.
LeaseIgnored == TRUE

\* _reacquire_stale_claim: a lease still running is not taken over.
LeaseExpired == clock > binding.claimedAt + Lease

\* provision: the binding row decides what the invocation does.
Load(c) ==
  /\ call[c].pc = "idle"
  /\ binding.status = "provisioning" => LeaseExpired
  /\ call' = [call EXCEPT ![c] =
       [Idle EXCEPT
          !.pc = CASE binding.status = "none" -> "claim"
                   [] binding.status = "active" -> "audit"
                   [] OTHER -> "reacquire",
          !.now = clock, !.seen = binding.token, !.client = binding.client]]
  /\ UNCHANGED <<binding, clients, used, strays, secret, pending, audited,
                 answered, clock, faults>>

\* The conditions of the put and of the update: the row is what was loaded.
Free(c) ==
  \/ call[c].pc = "claim" /\ binding.status = "none"
  \/ /\ call[c].pc = "reacquire"
     /\ binding.status = "provisioning"
     /\ binding.token = call[c].seen

\* claim and reacquire: the row is put, or its token replaced, when it is still
\* what was loaded.
Acquire(c) ==
  /\ call[c].pc \in {"claim", "reacquire"}
  /\ \/ /\ Free(c)
        /\ binding' = [status |-> "provisioning", token |-> FreshToken,
                       claimedAt |-> call[c].now, client |-> None]
        /\ call' = [call EXCEPT ![c].pc = "describe",
                                ![c].token = FreshToken]
     \/ ~Free(c) /\ Return(c) /\ UNCHANGED binding
  /\ UNCHANGED <<clients, used, strays, secret, pending, audited, answered,
                 clock, faults>>

\* Bug: a secret found is taken to be complete, its client not looked for.
DescribeSecretTrusting(c) ==
  /\ call[c].pc = "describe"
  /\ \/ /\ secret = None
        /\ Goto(c, "list")
     \/ /\ secret # None
        /\ call' = [call EXCEPT ![c].client = secret, ![c].pc = "complete"]
  /\ UNCHANGED <<binding, clients, used, strays, secret, pending, audited,
                 answered, clock, faults>>

\* ensure_client: a secret found must be tagged with the one listed client.
DescribeSecret(c) ==
  /\ call[c].pc = "describe"
  /\ \/ /\ secret = None
        /\ Goto(c, "list")
     \/ /\ secret # None /\ clients = {secret}
        /\ call' = [call EXCEPT ![c].client = secret, ![c].pc = "complete"]
     \/ /\ secret # None /\ clients # {secret}
        /\ Return(c)
  /\ UNCHANGED <<binding, clients, used, strays, secret, pending, audited,
                 answered, clock, faults>>

\* _list_matching_clients, before the creation: none, exactly one, or a
\* contract error.
ListClients(c) ==
  /\ call[c].pc = "list"
  /\ \/ clients = {} /\ Goto(c, "create")
     \/ \E k \in clients :
          /\ clients = {k}
          /\ call' = [call EXCEPT ![c].client = k, ![c].pc = "secret"]
     \/ Cardinality(clients) > 1 /\ Return(c)
  /\ UNCHANGED <<binding, clients, used, strays, secret, pending, audited,
                 answered, clock, faults>>

NewClient == CHOOSE k \in Clients : k \notin used

CreateClient(c) ==
  /\ call[c].pc = "create" /\ used # Clients
  /\ used' = used \cup {NewClient}
  /\ clients' = clients \cup {NewClient}
  /\ call' = [call EXCEPT ![c].client = NewClient, ![c].created = TRUE,
                          ![c].pc = "secret"]
  /\ UNCHANGED <<binding, strays, secret, pending, audited, answered, clock,
                 faults>>

\* The answer to the request is lost.  The SDK sends it again, or, its attempts
\* at an end, leaves the provider to list the name.
CreateClientUnanswered(c) ==
  /\ call[c].pc = "create" /\ used # Clients /\ faults < MaxFaults
  /\ faults' = faults + 1
  /\ used' = used \cup {NewClient}
  /\ strays' = strays \cup {NewClient}
  /\ Goto(c, "create") \/ Goto(c, "relist")
  /\ UNCHANGED <<binding, clients, secret, pending, audited, answered, clock>>

\* A request whose answer was lost is applied, soon, late or never.
StrayCreated(k) ==
  /\ k \in strays \ clients
  /\ clients' = clients \cup {k}
  /\ UNCHANGED <<binding, used, strays, secret, pending, audited, answered,
                 call, clock, faults>>

\* The one client found after a failed creation is not one this invocation may
\* delete; none, or several, are a contract error.
RelistClients(c) ==
  /\ call[c].pc = "relist"
  /\ \/ \E k \in clients :
          /\ clients = {k}
          /\ call' = [call EXCEPT ![c].client = k, ![c].pc = "secret"]
     \/ Cardinality(clients) # 1 /\ Return(c)
  /\ UNCHANGED <<binding, clients, used, strays, secret, pending, audited,
                 answered, clock, faults>>

\* _create_secret, with its readback; the secret of another client is an error.
CreateSecret(c) ==
  /\ call[c].pc = "secret"
  /\ \/ /\ secret \in {None, call[c].client}
        /\ secret' = call[c].client
        /\ Goto(c, "complete")
     \/ /\ secret \notin {None, call[c].client}
        /\ IF call[c].created THEN Goto(c, "delete") ELSE Return(c)
        /\ UNCHANGED secret
  /\ UNCHANGED <<binding, clients, used, strays, pending, audited, answered,
                 clock, faults>>

\* The request fails and no secret is found; it may still arrive.
CreateSecretFails(c) ==
  /\ call[c].pc = "secret" /\ secret = None /\ faults < MaxFaults
  /\ faults' = faults + 1
  /\ pending' \in {pending, pending \cup {call[c].client}}
  /\ IF call[c].created THEN Goto(c, "delete") ELSE Return(c)
  /\ UNCHANGED <<binding, clients, used, strays, secret, audited, answered,
                 clock>>

LateSecret(k) ==
  /\ k \in pending
  /\ pending' = pending \ {k}
  /\ secret' = IF secret = None THEN k ELSE secret
  /\ UNCHANGED <<binding, clients, used, strays, audited, answered, call,
                 clock, faults>>

\* The client this invocation created is deleted when its secret could not be
\* escrowed.
DeleteClient(c) ==
  /\ call[c].pc = "delete"
  /\ clients' = clients \ {call[c].client}
  /\ Return(c)
  /\ UNCHANGED <<binding, used, strays, secret, pending, audited, answered,
                 clock, faults>>

\* The row of a completed binding.
Activated(c) ==
  [binding EXCEPT !.status = "active", !.token = None,
                  !.client = call[c].client]

ClaimHeld(c) ==
  binding.status = "provisioning" /\ binding.token = call[c].token

Complete(c) ==
  /\ call[c].pc = "complete"
  /\ \/ /\ ClaimHeld(c)
        /\ binding' = Activated(c)
        /\ Goto(c, "audit")
     \/ ~ClaimHeld(c) /\ Return(c) /\ UNCHANGED binding
  /\ UNCHANGED <<clients, used, strays, secret, pending, audited, answered,
                 clock, faults>>

\* The event of a new or of a replayed result comes before the answer.
AuditAllow(c) ==
  /\ call[c].pc = "audit"
  /\ audited' = TRUE
  /\ answered' = answered \cup {call[c].client}
  /\ Return(c)
  /\ UNCHANGED <<binding, clients, used, strays, secret, pending, clock,
                 faults>>

\* A dependency fails, or the invocation is lost.
Fail(c) ==
  /\ call[c].pc # "idle" /\ faults < MaxFaults
  /\ faults' = faults + 1
  /\ Return(c)
  /\ UNCHANGED <<binding, clients, used, strays, secret, pending, audited,
                 answered, clock>>

Overdue(c) == call[c].pc # "idle" /\ clock - call[c].now >= Timeout

\* Lambda ends an invocation at its timeout.
Kill(c) ==
  /\ Overdue(c)
  /\ Return(c)
  /\ UNCHANGED <<binding, clients, used, strays, secret, pending, audited,
                 answered, clock, faults>>

Tick ==
  /\ clock < MaxTime /\ \A c \in Callers : ~Overdue(c)
  /\ clock' = clock + 1
  /\ UNCHANGED <<binding, clients, used, strays, secret, pending, audited,
                 answered, call, faults>>

Step(c) ==
  \/ Acquire(c) \/ DescribeSecret(c) \/ ListClients(c) \/ CreateClient(c)
  \/ RelistClients(c) \/ CreateSecret(c) \/ DeleteClient(c) \/ Complete(c)
  \/ AuditAllow(c)

Next ==
  \/ \E c \in Callers :
       \/ Load(c) \/ Step(c) \/ CreateClientUnanswered(c)
       \/ CreateSecretFails(c) \/ Fail(c) \/ Kill(c)
  \/ \E k \in Clients : StrayCreated(k) \/ LateSecret(k)
  \/ Tick

-----------------------------------------------------------------------------
(* Properties. *)

\* Of the clients whose creation was answered the name never has two, whatever
\* invocations fail, are ended or are overtaken: a second client of the name is
\* always the work of a request whose answer the SDK lost.
OneKnownClient == Cardinality(clients \ strays) <= 1

\* A binding reported as active names a client that exists and whose secret is
\* the one in escrow, also when a request given up makes another client of the
\* name, and when an invocation deletes the client it could not escrow.
ActiveIsUsable ==
  binding.status = "active" =>
    binding.client \in clients /\ secret = binding.client

=============================================================================
