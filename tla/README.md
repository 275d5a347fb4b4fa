# TLA+ specifications of the Scanalyze platform

Scanalyze takes a document from a client, reads its text with Amazon Textract,
decides its domain (bank, personal, gov), has a model extract the fields and
gives the document an outcome. Each stage is a worker that consumes one SQS
queue, changes one DynamoDB item with conditional writes, stores objects in S3
and sends a message to the next queue. No two of these services share a
transaction, every message can come twice, every call can fail after it took
effect and every task can stop between two calls. What these specifications
are about is that the record, the objects and the messages stay consistent all
the same. The same question comes back around the pipeline: in the idempotent
mutations of the API, the administration of users, the one-use commands of the
identity control plane, the employee profiles add-on, and the two ledgers under
which operators change infrastructure. Each of them is a protocol of
compare-and-swaps and retries over services that share no transaction, and each
has a module of its own.

## The system

| Component | State it keeps | Operations | Hard behaviour |
|---|---|---|---|
| Submission API (`backend/workers/scanalyze-ingest-api`, documents) | document item: `status`, `stages.ingest` | create, submit: claim, send, record, release | racing and retried calls, an answer lost after the effect, a task that stops in the middle |
| OCR worker, INGEST mode | `textractJobId`, `ocrPollHandoff` | start Textract, record the job, send and checkpoint the poll | duplicate messages, a poll that overtakes the write that names it |
| OCR worker, OCR_POLL mode | `status`, `artifacts.ocr`, the next stage's message id, usage tables | poll, replace the poll message, store, meter, hand over, complete | poll chain across messages, double metering, a refused completion |
| Classifier worker | `processing_domain`, `classification`, `status` | decide, checkpoint, send, record | two deliveries that disagree, resuming a checkpoint |
| Domain workers (bank, personal, gov) | `stages.<domain>_extract`, the structured object in S3 | reserve, extract, put if absent, prove, complete, send | S3 and DynamoDB without a transaction, two results for one document |
| Postprocess worker | `validation`, `completedAt`, `notifiedAt`, `stages.*` | validate, persist, notify | repeated stages with another verdict or clock |
| Stage queues (`modules/data-foundation`) | messages and their receive counts | send, receive, delete, redrive | any order, duplicates, three deliveries |
| Operation ledger (`repositories/operations.py`, `services/journey.py`) | the ledger record of an idempotency key, the business record | reserve, write once, settle, reconcile, expire | a replay beside its original, writes that land late, skewed clocks |
| User lifecycle (`user_lifecycle.py`) | membership rows by version, operation rows by stage, Cognito users | invite, activate, change, suspend, reactivate, deprovision | operations that overtake each other on one member, the last administrator |
| Identity control plane: bootstrap | request, membership, audit rows | claim, write, checkpoint, audit, consume, release | recovery window, two requests for one subject |
| Identity control plane: machine credentials | binding row, Cognito clients, secret | claim, list, create, adopt, store, activate | a create without an idempotency token, leases |
| Employee profiles add-on (`services/employee_profiles.py`) | job records, the list, one object per profile in S3 | generate | several objects without a transaction, documents that change meanwhile |
| Non-production live engine (`tooling/nonprod_live_*`) | saved plan, execution ledger, approvals, receipts | plan, approve, apply, finalize, reconcile | overlapping workflow runs, a lost run between intent and effect |
| Phase execution ledger (`tooling/platform_authority_gug365_phase_execution_ledger.py`) | one ledger file per phase, its staging name, its lease | create, claim, run, recover, reconcile | processes that die anywhere, a call that is carried out after them |

Components talk through the queues and through the one document item. The
direction is fixed: submission, INGEST, OCR_POLL, then the classifier (routes
`platform` and `default`) or directly a domain worker, then the postprocess
worker. Every worker follows the same discipline, and the properties are about
that discipline: read the item, do the effect, send, record what was sent by a
conditional write, and only then delete the message. The send comes before the
record, so the next worker may be at work while the previous one still has its
write to do.

What makes each of them correct:

- submission: one sender at a time, the recorded message is the recorded
  call's, and a record is final;
- OCR: while the document waits, the one message that may move it on is not
  deleted; pages counted once;
- classification: one domain for ever, no matter who decides;
- extraction: the digest the record claims is that of the object that is there,
  and it can always be recovered;
- postprocess: one verdict, one outcome, every notification tells it;
- all together: the record only moves forward, and a stage acknowledges its
  message only when the next stage's message is safe;
- operation ledger: one resource per key, and all who are told a result are
  told the same;
- user lifecycle: an active administrator remains, access is taken away before
  it is reported as taken away, and a completed operation took effect;
- control plane: one beneficiary, one client, and a credential that works;
- profiles: what a completed job lists is there;
- live engine and phase ledger: a change is attempted once, after the ledger
  says so, and the ledger claims no effect it has no evidence for.

## The modules

| Module | Models | Extended by |
|---|---|---|
| `SqsQueue` | a Standard queue with a redrive policy, as its consumers see it (external service; the parameters are the repository's) | every component, `SqsQueueProofs` |
| `Submission` | `create_document`, `submit_document` and the three conditional writes of `DocumentsRepository` | `DocumentIntake` |
| `OcrWorker` | `process_ingest_message` and `process_ocr_poll_message` | (instantiated by the next two) |
| `DocumentIntake` | Submission and OcrWorker of one document, joined by its record and the ingest queue | `MCDocumentIntake`, `DocumentIntakeProofs` |
| `Classification` | the classifier's `process_message` | `MCClassification`, `ClassificationProofs` |
| `Extraction` | `process_bank_extract_message`; the personal and gov workers have the same steps | `MCExtraction`, `ExtractionProofs` |
| `Postprocess` | `process_validate_message`, `process_persist_message`, `process_notify_message` | `MCPostprocess`, `PostprocessProofs` |
| `DocumentLifecycle` | abstract: what a reader of the record may rely on | (instantiated) |
| `DocumentPipeline` | OcrWorker, Classification and Extraction of one document, joined | `MCDocumentPipeline`, `DocumentPipelineProofs` |
| `OnceOperation` | abstract: an operation that happens once and has one result | (instantiated) |
| `OperationLedger` | `/api/v2/documents`, `/api/v2/batches` and the reconciliation endpoint of one idempotency key | `MCOperationLedger`, `ApiProofs` |
| `Administration` | abstract: what an organisation may rely on when its users are administered | (instantiated) |
| `UserLifecycle` | `UserLifecycleService` with its DynamoDB and Cognito adapters | `MCUserLifecycle`, `ApiProofs` |
| `BootstrapRequest` | `BootstrapProcessor` and its rows | (instantiated) |
| `M2MProvisioning` | `M2MProvisioner.provision`, the binding store and the Cognito/Secrets provider | (instantiated) |
| `IdentityControlPlane` | the dispatcher of the control processor over those two | `MCIdentityControlPlane`, `ControlProofs` |
| `EmployeeProfiles` | `EmployeeProfileService.generate_profiles` | `MCEmployeeProfiles`, `ApiProofs` |
| `LiveExecution` | `run_plan_controller`, `run_apply_controller` and the settling of an execution | `MCLiveExecution`, `ControlProofs` |
| `OrderedEffects` | abstract: the operations of a plan are sent once and in order, and reported truly | (instantiated) |
| `PhaseLedger` | the phase execution ledger and the executor over it | `MCPhaseLedger`, `ControlProofs` |

Each component module of the pipeline has the same layout. A variable is an attribute (or a
group that is always written together) of the document item, an object, a
queue or the control of the handlers. A handler is a record with a `pc`, and
**one action is one remote call** with everything the code does up to the next
one. `<Handler>Fails` ends a handler at any point after the receive: an
exception, an answer lost after its effect (the effect is the action, the loss
the failure after it), the end of the task. The message then stays and comes
back, as the poll loops leave it. A delivery may run while an earlier one of the
same message does; the visibility timeout is not relied on. Every worker module
is about one document: all keys, conditions and messages carry the document's id
and no write touches two documents' items.

The other modules cut a call in the same way, one step per remote request. Their
faults are counted by `faults` and bounded by `MaxFaults` (`losses` and `MaxLosses`
in `LiveExecution`, `errors` and `MaxErrors` in `OperationLedger`, `mishaps` and
`MaxMishaps` in `EmployeeProfiles`, `failures` and `MaxFailures` in
`IdentityControlPlane`): a request that fails
without effect, one that takes effect and whose answer is lost, one that is
applied after its caller gave it up (`lateWrites`, `late`, `pending`), and the end of the
process. Where the client library repeats a request whose answer was lost, the
repetition meets the effect of the first one, and the model lets it; where the
provider has no token to recognise it by (`CreateUserPoolClient`, the RESEND of an
invitation) it has its effect again.

Environment steps stand for a neighbour (`OcrCompletes`, `HandoffRecorded`,
`DocumentEnds`...). In `DocumentIntake` and `DocumentPipeline` the neighbours'
real actions take their place, except the postprocess worker's. The two join at
the write that names the poll message: `DocumentIntake` follows a document from
its creation to the end of OCR, `DocumentPipeline` from that write on. The two
commands of the control plane share neither a row nor a provider object, so a
behaviour of `IdentityControlPlane` is about one of them, chosen in Init.

Definitions introduced as a seeded fault, a bug or a mutant stand before the
definition they would break. They show that each property can fail; no
specification uses them.

### Abstractions

- A uuid or a timestamp is named by the delivery that makes it.
- The model's answer, the classifier's decision and a validator's verdict are
  free choices, made again on every delivery.
- Domain statuses `BANK_EXTRACTED`, `PERSONAL_EXTRACTED`, ... are one status
  beside `processing_domain`, which every write that sets them also checks.
- Ownership fields (customer, deployment, schema version) never change after
  creation; their conditions always hold and are left out, with poison messages,
  which change nothing and end in the dead-letter queue.
- A message without deliveries left stays in the queue value: whether it is
  still in the queue or already in the dead-letter queue makes no difference to
  a consumer, and a handler under way may delete it in time.
- Operation ledger: a call is its own resource id and candidate record; what a
  request says is its digest. Clocks differ by at most `Skew`.
- User lifecycle: a member's row is the sequence of its versions; an operation
  is its idempotency key with the one command bound to it. The authorization of
  the caller is left out, so any call may be made.
- Bootstrap and machine credentials: a request, a claim token and a client are
  names. `strays` are the clients of create requests whose answer was lost: each
  is made soon, late or never, and the SDK may have sent its request again.
- Profiles: the documents of the batch are a version number, a fingerprint is
  the options and the version; the job id, a digest of the options, is the
  options. The artifacts found and the verdict of the merge are free choices.
- Live engine: documents carry no times and do not expire; Terraform's own lock
  and stale-plan check, the S3 object store and GitHub's approval are external;
  the concurrency group of the workflow is not relied upon. The observation that
  brackets a health check is one step because the serial of the state only grows.
- Phase ledger: the digest of a record is its version; all processes act under
  the one authorization of the phase. A ledger's id contains the authority session
  (`build_prepared_ledger`), so another authorization would have a ledger of its own:
  what is said to happen once happens once for an authorization. Processes die; the host does not lose
  what was written (fsync is not modelled).

## The runs

Deadlock checking is off where behaviours end by themselves: deliveries, calls,
time and faults are finitely many.

| Run | Question | States | Result |
|---|---|---|---|
| `intake` | a submit call and its retry, an INGEST and an OCR_POLL handler, a late upload, one replaced poll | 560 K | holds |
| `pipeline_routed` | two OCR_POLL handlers, a classifier, a domain worker | 2.5 M | refines `DocumentLifecycle` |
| `pipeline_overtaken` | is a poll delivery that was overtaken acknowledged? | - | violated, see below |
| `classification` | two classifiers, two messages, three deliveries | 67 K | holds |
| `extraction` | two handlers, two messages, two possible results | 72 K | holds |
| `postprocess` | two handlers on three stages, repeats | 459 K | holds |
| `ledger` | two create calls with one key, alike or not, and a reconciling client | 919 K | refines `OnceOperation` |
| `lifecycle` | three operations and two calls, about two administrators or about an invitee | 2.5 M | refines `Administration` |
| `identity` | two invocations of one command, up to three faults, leases and a recovery window | 459 K | holds |
| `live` | two workflow runs, two executions of one layer | 1.0 M | holds |
| `phase` | three processes, two phases of two operations, two faults | 70 K | refines `OrderedEffects` |
| `profiles` | two generations of a batch whose documents grow, forced or not | 2.8 M | holds |

### What the properties say

- **OneSender, RecordedTogether, EnqueuedIsFinal** (Submission, in `intake`):
  between the claim and the record a submit call is alone; `enqueueId` and
  `sqsMessageId` belong together although messages of earlier calls are in the
  queue, and may have been consumed; no delayed recovery write releases a
  recorded stage.
- **CarrierRetained** (OcrWorker, in `intake`): the ingest message that
  `stages.ingest` names, then the poll message that `ocrPollHandoff` names, is
  not deleted while the document waits for it. **UsageCountedOnce**: the pages of a
  document enter the roll-ups once, with the event that proves it. **OcrSettles**:
  a document whose submission is recorded leaves OCR with an outcome, or the
  message it waits for is used up, where the dead-letter runbook finds it.
- **DecisionStands, HandoffBacked** (Classification): the pending write is the
  only decision, and the recorded message was sent to its queue.
  **WorkRetained**: while the classifier (or the domain worker) has to act, a
  message that lets it is not deleted. **ClassificationSettles**,
  **ExtractionSettles**, **PostprocessSettles** as above.
- **ArtifactProven, ObjectRecoverable** (Extraction): record and object agree,
  and the object belongs to the reservation in force (otherwise its create-only
  key would block every retry).
- **AnnouncesTruth, OutcomeStands** (Postprocess): a repeated stage takes the
  stored outcome for its own only if it is the same outcome.
- **ImplementsLifecycle, RecordedMessageCarries** (DocumentPipeline): the three
  workers together refine `DocumentLifecycle` under the mapping
  `result <- stage.digest`, and the chain of recorded messages never breaks.
- **AtMostOneResource, AnswersAgree** (OperationLedger): however create calls,
  replays and reconcilers interleave, one business record exists for the key,
  and nobody is told another result than somebody else. **PendingIsDecided**: a
  client that keeps reconciling gets a decision. **ImplementsOnce**: the ledger
  refines `OnceOperation`.
- **ImplementsAdministration, AdminRemains, RestrictedFirst, ResendOnce**
  (UserLifecycle): the service refines `Administration` with `rows <- members`,
  `sessions <- signedOut`, `logged <- audit` and `done <- Reported` (operations whose
  stage is `completed`): every version of a row was asked for of the version before it,
  and an operation is completed once, after its version, its audit event and the end of
  the sessions that rest on the old version. Administrators who remove each other at
  the same time do not both succeed; access is withdrawn at Cognito only after the
  membership says so; the service asks Cognito at most once per version to send an
  invitation again, which is not to say that one mail is sent (see below).
- **OneBeneficiary, NeverReopened** (BootstrapRequest): what a one-use command may
  leave behind although its invocations overlap and end anywhere.
- **OneKnownClient, ActiveIsUsable** (M2MProvisioning): however invocations overlap
  and are taken over, the name never has two clients whose creation was answered, so a
  second one is always the work of a request whose answer was lost; and the client of
  an active binding exists and its secret is the one in escrow.
- **ProfilesBacked, OneJobPerBatch** (EmployeeProfiles): a completed job lists
  only profiles that can be opened, and the batch keeps its job.
- **OneApply, EvidenceBacked, LedgerForward** (LiveExecution): Terraform is
  started once for an execution, APPLIED, SUCCEEDED or NO_EFFECT rest on what the
  state really was, and no late or repeated swap takes a ledger back.
- **ImplementsOrderedEffects, EffectsInOrder, FlightSettles** (PhaseLedger): the
  ledger refines `OrderedEffects` with `effect <- EffectSeen` (what became of each
  request, whether it came in the window or after it), `report <- outcome` and
  `closed <- expired`: an operation is sent once and in its turn, and what is reported
  of it is what happened at the provider. A process that died leaves nothing in
  flight that another cannot take up.

### Where a run disagrees with the code's own words

`pipeline_overtaken`: the OCR poll handler sends to the next stage, and records
the completion afterwards. When two deliveries race, the classifier may already
have moved the document to `CLASSIFY_PENDING` when the second handler's write is
refused and it reads the item again. `HANDOFF_CONFIRMED_STATUSES`
(`ocr_poll.py:33`) has neither `CLASSIFY_PENDING` nor `*_EXTRACTING`, so the
handler raises and the message is delivered again until it is dead-lettered.
The test `test_downstream_advanced_after_send_is_treated_as_confirmed` states
the intent. The document itself is not harmed (`pipeline_routed`).

Other behaviours the models reach, which the properties above allow. The first
eight go against a comment, an answer text, a runbook or another document of the
repository:

- `reserve` (`operations.py:655-659`) says that a caller whose put raised must
  still perform the business write, but a put that the client library repeats
  after a lost answer reports a failed condition, so the owner takes itself for a
  replay. The key is safe and is quarantined after the grace, with no resource;
- a suspension that stopped after its membership checkpoint disables the Cognito
  user whenever its retry comes, also after a reactivation has completed; the
  active member keeps a disabled user (`user_lifecycle.py:1179`);
- `ensure_membership` (`aws_adapters.py:479`) compares `created_at` with the time
  of the present invocation, so an exact retry after a lost checkpoint does not
  recognise the row it wrote, and gives the claim up;
- the id of a profile job contains the options, `force` included, so the forced
  call that the STALE answer recommends does not own the job it should replace
  and is refused as not found (`employee_profiles.py:629`, `:698`);
- `CreateUserPoolClient` has no token (`aws_adapters.py:1042`) and its client is built
  with the SDK's default retries (`entrypoints.py:306`), so a lost answer can leave two
  clients of one name. If a repetition was answered its client goes active and the other
  is an orphan; if the invocation ends before it completes the binding, every later one
  stops on the contract error of the listing. `identity-control-plane.md:243` calls the
  provider adapter idempotent;
- the SDK may repeat the RESEND of an invitation when its answer is lost
  (`user_lifecycle_adapters.py:1266`, a client given from outside, `:1376`, with no limit
  on its retries), and the invitee gets two. `user-lifecycle-recovery.md:87-97` says an
  ambiguous attempt fails closed "instead of sending a duplicate notification": that is
  true of the service's own requests (`ResendOnce`);
- an older generation of profiles can put its list between the list and the job of
  a newer one, and the next request is told "existing, not stale" about a list of
  older documents (`employee_profiles.py:817`);
- the branch without eligible documents completes the job before it empties the
  list, with the same effect when it stops in between (`:738`);
- a task that stops after the claim leaves `ENQUEUE_PENDING` for ever;
- the poll can finish the document while the ingest handler's mark is not
  written; the mark is then refused and the ingest message is dead-lettered;
- Textract asked before the client's upload fails and uses up deliveries;
- metering failures are logged and skipped: counted at most once, not exactly once;
- a poll past its deadline leaves the status `OCR`;
- a classifier delivery that comes after the domain worker began raises, too;
- a generation of profiles that meets a conflict leaves its job RUNNING; the next
  request takes it up, whoever still runs;
- a batch first generated with force answers STALE to every call without it;
- in the live engine `recover_stale_applying` has no caller, and REJECTED,
  EXPIRED, FAILED and FAILED_HEALTH are never written by the controllers;
- a phase of kind revocation has a ledger that no path can claim; creating a
  ledger releases the lease before the staging name is unlinked; a
  NO_EFFECT_PROVEN reconciliation can be overtaken by a delayed request, and
  nothing acts on it.

## Bounds, and why they are enough

| Bound | Value | Why |
|---|---|---|
| `MaxReceive` | 3 where it is the subject, else 2 | 3 is the real value (`locals.tf`); with 2 a message still has a first delivery that fails anywhere and a retry, and two deliveries can overlap |
| handlers | 2 of a stage; 1 of each OCR mode in `intake`, where the submit calls race | the races are between a first and a second delivery; a third adds only losers |
| `Copies` | 1 or 2 | a second message comes from a producer that retried |
| `MaxPolls` | 0 or 1 | one replacement shows the chain; the real bound is one hour |
| `MaxSends` | 2 | sends to one queue in the joined runs: the first and the duplicate or the replacement; in `lifecycle`, how often the SDK sends one RESEND |
| `Digests` | 2 | equal or different results |
| `MaxFaults`, `MaxLosses`, `MaxErrors`, `MaxMishaps`, `MaxFailures` | 1 (`ledger`, `lifecycle`, `live`, `profiles`), 2 (`phase`), 3 (`identity`) | one fault shows each partial failure, the second hits the recovery from it |
| calls, callers, processes | 2 or 3 | an original, the one that overtakes it and one that takes up what both left |
| `MaxTime`, `Grace`, `Retention`, `Deadline`, `MaxRecovery`, `Lease`, `Timeout` | 1 to 6 | only the order of these instants matters; the values let them come in every order the real ones allow, and keep `Lease > Timeout` |
| `Skew` | 0 | the safety theorems of `ApiProofs` cover every skew; it multiplies the states of the liveness check, whose deadlines are compared on one clock |
| `Tokens`, `Clients` | more tokens than can be held at once; 4 clients | a token that is in use is never given out again; three faults lose at most three answers, and a fourth client can still be answered |
| `Runs`, `Executions` | 2, 2 | a run that overtakes another, on the same or on the other execution of the layer |
| `NPhases`, `OpCount` | 2, 2 | order within a phase and between phases |
| `Sources`, `MaxActive`, `MaxGenerations` | 2, 2, 2 | one change of the documents; two overlapping generations |

`MaxSends` is a guard of the two sends in `Postprocess` and a guard of the next
step in `DocumentPipeline` and `DocumentIntake`. No liveness property is about
what lies beyond it: a handler that cannot send may still fail.

## Fairness

Weak fairness of "this handler takes a step or fails": the services keep their
consumers running (ECS restarts tasks, the poll loops never end by themselves)
and a call returns or times out. No step is assumed to succeed, Textract, the
client and the neighbours owe nothing. Hence liveness says that a stage ends
with its outcome *or with its message out of deliveries*, never that it ends well.

Outside the pipeline two runs check liveness. In OperationLedger a call that has
begun goes on, time passes (`Tick`) and the client keeps reconciling a pending
key, as the retry contract of the API asks it to. In PhaseLedger a process that
has begun goes on unless it dies, and operators take up a half-created, in-flight
or ambiguous ledger (weak fairness: the recovery stays possible until somebody
makes it). Deaths and faults are finitely many. Without a client or an
operator that comes back nothing in the code moves an abandoned record, and no
liveness is claimed. The other modules state no fairness.

## What is proved

The theorems hold for every value of the constants: any set of handlers or submit
calls, any number of copies of a message, any redrive budget. The assumptions are
the named ones of the modules: `MaxReceive` is a positive number
(`MaxReceiveAssumption`), `Copies` and the send bounds are numbers, the value that
stands for "no digest" is no digest (`DigestAssumption`), the domain worker of the pipeline
is one of the three (`WorkerAssumption`), the value that stands for
an absent record is no record (`AbsentAssumption`), the rows a run of the user
lifecycle starts from are such rows (`SeedAssumption`), the people of a batch are
finitely many (`ProfilesAssumption`), the lease of a credential outlives the Lambda
timeout and the value that stands for "nothing" is no request, token, client or
membership (`ControlPlaneAssumption`), there are more claim tokens than the calls and
rows can hold at once (`TokenAssumption`: the code draws a random UUID for each claim), and those on
the constants of `Submission`. `SqsQueueProofs` states once what a send, a delivery
and a deletion do to a queue; the component proofs cite it. Each component has
one inductive invariant; its parts say why the property alone would not be one.

- `DocumentIntakeProofs`: `OneSenderHolds`, `EnqueuedIsFinalHolds` and
  `RecordedTogetherHolds` of the API alone; `IntakeOneSender`,
  `IntakeEnqueuedIsFinal`, `IntakeRecordedTogether` and `IntakeCarrierRetained` of the API and the OCR worker together. Nothing in OneSender
  ties a sender to the record, so `ClaimInv` adds that a call between claim and record
  holds the claim that is stored (its own enqueue id under `ENQUEUE_PENDING`); two
  holders are then equal because the record has one enqueue id. `RecordInv` adds that
  a call which has sent knows the id of a message with its own body and that ids are
  not reused. `IntakeInv` carries both over the steps of the worker. CarrierRetained
  speaks of the message the checkpoint names, and a replacement becomes that message
  only when it is bound: `PollKept` therefore keeps every poll message from the named
  one on, and `IngestHandler` and `PollHandler` say that a handler about to delete
  holds an older one. All starts of Textract carry the
  token of the document, and Textract has one job for a token (`WorkerTypes`).
- `ClassificationProofs`: `OneDomainHolds`, `HandoffBackedHolds`,
  `DecisionStandsHolds`. `RoutingInv` adds that the domain is stored exactly
  from the pending checkpoint on, and that a handler about to send, or to record
  a send, works for the stored domain and (the latter) has really sent.
  `WorkRetainedHolds`: the message goes only from a handler that read, or made, the
  record of the handoff (`RetainInv`).
- `ExtractionProofs`: `ArtifactProvenHolds`, `ObjectRecoverableHolds`,
  `ProofStandsHolds`. Neither the object nor the record alone is enough:
  `BindingInv` says that status and stage change together, that every handler
  past the reservation carries the checkpoint that is stored, and that one about
  to complete carries the digest of the object. The create-only put and the
  condition on the checkpoint then leave one value for each.
  `WorkRetainedHolds` is proved as in classification.
- `PostprocessProofs`: `AnnouncesTruthHolds`, `OutcomeStandsHolds`. `PostInv`
  adds that completedAt is stored exactly with a terminal status and that a
  handler about to send a notification carries what is stored, which is where
  the resolving read of a refused write matters. `WorkRetainedHolds`: `ChainInv`
  follows the messages down the three queues (nothing is deleted from a queue before
  the next one was sent to, nor from the last before the notification), and
  `PassedOnInv` says it of the handlers that are about to delete.

Each of the four also proves `Typing`, the type invariant. The guards of the handlers'
decisions (`IngestDecision`, `PollDecision`, `Decision`) are disjoint: the terms of the
code's `if` chain exclude those above them, which the proofs need and a CASE of TLA+
requires.

- `DocumentPipelineProofs`: `PipelineUsageCountedOnce`, `PipelineMessageCarries` and the
  refinement `PipelineImplementsLifecycle`, for either kind of route and any handlers,
  redrive budget and bound on the sends. RecordedMessageCarries names one message of each
  queue, and a retry may record any of those that were sent: `PipelineInv` therefore keeps
  every message of a queue until the next stage's record (`KeptFrom`), and says that a
  handler about to delete has read, or made, that record. One part of the invariant belongs
  to each worker. A step of a worker keeps its own part and has one of a few effects on
  what the others share (`OcrEffect`, `ClassifierEffect`, `ExtractorEffect`); those effects
  keep the other parts, and are the steps of `DocumentLifecycle`. What makes them so are
  facts across workers: a document is reserved only with its domain, which the
  classifier stored with the decision and never changes (`ClassifierRow`); a result is
  bound exactly while the status says so (`ExtractorRow`); a poll handler that stores or
  meters has seen Textract succeed (`PollHandler`).
- `ApiProofs`, the operation ledger: `LedgerTypes`, `LedgerOneResource`,
  `LedgerSuccessBacked`, `LedgerAnswersAgree`, `LedgerReadable`,
  `LedgerMovesForward` and the refinement `LedgerImplementsOnce`. `Bound` says
  that a business record belongs to the call that owns the reservation; one
  invariant per kind of call step says what the call may still do (a call that
  has not written holds nothing; one that works owns the reservation; one that
  moves or swaps carries a record that is a legal successor of the one it read;
  one that tells repeats what is stored). For the refinement every step either
  leaves result and effect alone or is one of `OnceOperation`'s. Clocks,
  skew, grace and retention are arbitrary numbers.
- `ApiProofs`, the user lifecycle: `LifecycleAdminRemains`, `LifecycleLegal`,
  `LifecycleCompleted`. The evidence that an operation's row stores, or a caller
  holds, is grounded in the membership rows, which only grow; the write
  of a membership is conditional on the version and, for an administrator, on
  the other's. `EInv` follows an operation along its path of stages to show that
  the stages after the membership write have its effect behind them.
  `LifecycleImplementsAdministration`: evidence that is past the first stage is what the
  abstract specification computes from the command and the version it names (`WInv`),
  which no later write touches; so a write is the abstract one, an operation that
  reaches its last stage may be completed, and every other step is a stutter.
  `LifecycleResendOnce`: an invitation is asked for again under a reservation of the
  member and version, and only the call that won it may ask, however often the SDK sends
  what it asked (`SInv`: one reservation for each,
  one call that may send for an operation). `LifecycleRestrictedFirst`: a confirmation
  that was seen stays true, since no provider step undoes it, and travels with the
  evidence of the call and of the row (`PInv`); a disable belongs to an operation
  whose membership write, or its replacement, is in the history of the row.
- `ApiProofs`, the employee profiles: `ProfilesBackedHolds`, `ProfilesOneJob`,
  `ProfilesTypingHolds`, for any runs, options, people and changes of the documents. Both
  properties rest on the order of a run's steps. `TagRead`: the version a put is
  conditioned on was read after the identity of the object was compared, so that
  while the ETag holds the comparison does, and no run overwrites the job of other
  options. `ProfilesFirst`: the writes ahead of a run that will
  complete the job are a sequence in which every listed profile that is not stored
  yet precedes the job record.
- `ControlProofs`, the live engine: `LiveOneApply`, `LiveEvidenceBacked`,
  `LiveLedgerForward`, `LiveTyping`, for any runs, executions and losses. Runs hold
  documents they read long ago, so `Behind` says what is still true of such a document:
  it is an earlier version, and if its attempt was consumed the ledger's is, under the
  same approval. `Proposal` says that a swap under way is one step of the table with
  its evidence already recorded; it holds of runs and of `lateWrites` alike, which is
  why a write that arrives late does no harm. OneApply follows from `Started`: a
  consumed ledger names the run that started Terraform, that run is past the start,
  and a run in front of it finds its own approval in the ledger. `Receipts` keeps the
  serial a receipt names, since the state only gains serials.
- `ControlProofs`, the phase ledger: types, EffectsInOrder, the refinement
  `PhaseImplementsOrderedEffects`, and four facts that no run repeats: an operation is
  attempted once (`PhaseAttemptedOnce`), IN_FLIGHT is on disk before the call
  (`PhaseWriteAhead`), a recorded success came in the window (`PhaseSuccessInWindow`), a
  finished phase stays finished (`PhaseOver`). They hold for any number of phases,
  operations and processes. The parts are `Exclusive` (who runs a phase holds its
  lease), `Snapshots` (what a holder read is what is stored), `Progress` (calls,
  outcomes and `nextOp` agree), `Windows` and `Predecessors`. AttemptedOnce needs the
  first three together: a second send would have to come from a holder whose snapshot
  is older than the IN_FLIGHT record. For the refinement `Fates` adds that an
  operation which was not sent has no fate and that a late one was carried out; most
  steps then change nothing an operator sees (`Silent`), a send is one in its turn
  (`InFlightTurn`), and a record is true of the operation it names (`Records`).
- `ControlProofs`, the identity control plane: `PlaneOneBeneficiary`,
  `PlaneNeverReopened`, `PlaneOneKnownClient`, `PlaneActiveIsUsable`, for any requests,
  invocations, clients, deadlines and failures. In the bootstrap an invocation
  about to record the effects has found, or written, the membership of its own request
  (`BootCaller`), which nothing overwrites. For a credential the properties hold only
  because one invocation provisions at a time, and that is a matter of time: one that
  provisions began within the Lambda timeout (`Timely`) and the claim in the row is its
  own (`HoldsClaim`), so a claim that another finds expired belongs to none that still
  runs. What the one that provisions has read of the clients and the secret then stays
  true of the clients that are known (`Knows`), lost create requests can only add to
  `strays`, and a secret that arrives late finds none there or has no effect. That
  a claim token is fresh is a count of those in use (`BootFreshToken`, `M2MFreshToken`).

Some theorems state what no run checks any more, because the proof covers it for
every instance: the type invariants, `OneDomain`, `ProofStands`, `SuccessBacked`
(a success names the business record), `RecordReadable` (no writes by tasks with
different clocks leave a record whose times the parser refuses), the forward
order of the operation ledger, `CompletedTookEffect` (a completed operation has had
its effect) and `LegalTransitions` of the memberships, the four of the phase ledger and
`WorkRetained` of the postprocess stages.

Only model-checked: liveness (out of the prover's reach, as is ENABLED). Every
safety property of a passing run is a theorem.

## Not modelled

- Poison messages and schema validation of envelopes, authentication and the
  authorization decisions of the API, the pre-token hook: decisions over one
  request, without state of their own.
- The projection of a record to a journey, listings, analytics and exports: they
  only read. The upload capability minted after a v2 create (a presigned URL).
- Grouping, merging, masking and export of employee profiles, prompts, key
  templates, logging and metrics: they decide the content of a payload, which
  the models leave free.
- Most of `tooling/` (brokers, materializers, verifiers and routes of one change
  programme, some 240,000 lines and nine tenths of the repository's code). Each is
  a single process that compares documents with constants and schemas, byte by
  byte, around a few provider calls; the parts with a protocol of their own, the
  live engine and the phase ledger, are modelled. This is why the definitions
  stand for a small share of the repository's lines.
- Terraform and CloudFormation sources (declarative; the queue parameters are in
  `SqsQueue`) and the frontend (its calls are the free requests of the models).

## Plan

Done: the pipeline, with its intake; the operation ledger with the mutations of
the journey; the user lifecycle; the identity control plane's two commands; the
employee profiles; the live engine; the phase ledger. What would come next:

1. `DocumentPipeline` with Postprocess behind, so that no environment step is left;
   the operator's return of a dead-lettered message.
2. The materialization and retirement brokers of the tooling that keep a claim
   across processes, over a common module for the claim they share.
