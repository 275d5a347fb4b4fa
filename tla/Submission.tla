----------------------------- MODULE Submission -----------------------------
(***************************************************************************)
(* POST /documents/{id}/submit of scanalyze-ingest-api: a document is      *)
(* created, its file uploaded, and any number of concurrent requests try   *)
(* to hand it to the ingest queue.                                         *)
(*                                                                         *)
(* submit_document (app/services/documents.py) is four remote calls with   *)
(* nothing that makes them atomic: the conditional write that claims the   *)
(* stage, the SQS send, the conditional write that records the MessageId,  *)
(* and, after any error, the conditional write that releases the claim.    *)
(* Each call can fail without effect, take effect and lose its answer, or  *)
(* be the last thing the process does.  A request is its own enqueue id    *)
(* (uuid4 per call).                                                       *)
(***************************************************************************)
EXTENDS SqsQueue

CONSTANTS Requests,      \* the submit calls clients make
          NoRequest      \* no enqueue id stored

ASSUME RequestAssumption == NoRequest \notin Requests

VARIABLES status,        \* the document's status attribute, "ABSENT" before
                         \* the item exists
          ingest,        \* its stages.ingest attribute
          uploaded,      \* the raw object is in S3
          ingestQ,       \* the ingest queue
          request        \* the progress of each submit call

submissionVars == <<status, ingest, uploaded, ingestQ, request>>

StageStatus == {"none", "ENQUEUE_PENDING", "ENQUEUED", "ENQUEUE_FAILED"}

NoStage == [state |-> "none", enqueueId |-> NoRequest, messageId |-> NoMessage]

Idle == [pc |-> "idle", messageId |-> NoMessage]

At(r, pc) == request[r].pc = pc

Goto(r, pc) == request' = [request EXCEPT ![r].pc = pc]

Init ==
    /\ status = "ABSENT"
    /\ ingest = NoStage
    /\ uploaded = FALSE
    /\ ingestQ = EmptyQueue
    /\ request = [r \in Requests |-> Idle]

-----------------------------------------------------------------------------
(* create_document: a put conditioned on the key being absent.             *)
CreateDocument ==
    /\ status = "ABSENT"
    /\ status' = "CREATED"
    /\ UNCHANGED <<ingest, uploaded, ingestQ, request>>

(* The client PUTs the file to the presigned URL it was given; nothing     *)
(* orders this with the submit calls.                                      *)
Upload ==
    /\ status # "ABSENT"
    /\ ~uploaded
    /\ uploaded' = TRUE
    /\ UNCHANGED <<status, ingest, ingestQ, request>>

(* Seeded fault: a retry may also take over a claim that is only pending.  *)
FaultClaimPending ==
    \/ status \in {"CREATED", "UPLOADED"} /\ ingest.state = "none"
    \/ status = "SUBMITTED" /\ ingest.state \in {"ENQUEUE_FAILED", "ENQUEUE_PENDING"}

(* The condition of set_stage_enqueue_pending.                             *)
CanClaim ==
    \/ status \in {"CREATED", "UPLOADED"} /\ ingest.state = "none"
    \/ status = "SUBMITTED" /\ ingest.state = "ENQUEUE_FAILED"

(* Seeded fault: the conditions forget the stage's own status.             *)
FaultHoldsAnyStage(r) ==
    /\ status = "SUBMITTED"
    /\ ingest.enqueueId = r

(* The condition of set_stage_enqueued and set_stage_enqueue_failed.       *)
HoldsClaim(r) ==
    /\ status = "SUBMITTED"
    /\ ingest.state = "ENQUEUE_PENDING"
    /\ ingest.enqueueId = r

ClaimWrite(r) ==
    /\ CanClaim
    /\ status' = "SUBMITTED"
    /\ ingest' = [state |-> "ENQUEUE_PENDING", enqueueId |-> r,
                  messageId |-> NoMessage]

(* The claim succeeds and the call goes on to send; or its answer is lost, *)
(* and the error handler releases it, or the client library's own retry of *)
(* the write meets its first attempt and the call answers "already         *)
(* submitted" although nobody will send.                                   *)
Claim(r) ==
    /\ At(r, "idle")
    /\ status # "ABSENT"
    /\ ClaimWrite(r)
    /\ \E pc \in {"send", "recover", "answered"} : Goto(r, pc)
    /\ UNCHANGED <<uploaded, ingestQ>>

(* "Already submitted for this stage", or the write failed without effect. *)
ClaimRefused(r) ==
    /\ At(r, "idle")
    /\ status # "ABSENT"
    /\ \/ ~CanClaim /\ Goto(r, "answered")
       \/ Goto(r, "recover")
    /\ UNCHANGED <<status, ingest, uploaded, ingestQ>>

(* Seeded fault: the call keeps the answer to an earlier send.             *)
FaultSendIngest(r) ==
    /\ At(r, "send")
    /\ ingestQ' = Sent(ingestQ, r)
    /\ \/ request' = [request EXCEPT ![r] =
                [pc |-> "record",
                 messageId |-> IF ingestQ.next > 1 THEN ingestQ.next - 1 ELSE 1]]
       \/ Goto(r, "recover")
    /\ UNCHANGED <<status, ingest, uploaded>>

(* send_message: accepted and acknowledged; accepted, but the answer is    *)
(* lost or has no MessageId; or refused.                                   *)
SendIngest(r) ==
    /\ At(r, "send")
    /\ \/ /\ ingestQ' = Sent(ingestQ, r)
          /\ request' = [request EXCEPT ![r] = [pc |-> "record",
                                                messageId |-> ingestQ.next]]
       \/ /\ ingestQ' = Sent(ingestQ, r)
          /\ Goto(r, "recover")
       \/ /\ ingestQ' = ingestQ
          /\ Goto(r, "recover")
    /\ UNCHANGED <<status, ingest, uploaded>>

(* set_stage_enqueued; its answer may be lost too.                         *)
MarkEnqueued(r) ==
    /\ At(r, "record")
    /\ HoldsClaim(r)
    /\ ingest' = [ingest EXCEPT !.state = "ENQUEUED",
                                !.messageId = request[r].messageId]
    /\ \E pc \in {"answered", "recover"} : Goto(r, pc)
    /\ UNCHANGED <<status, uploaded, ingestQ>>

(* set_stage_enqueued fails without effect.                                *)
MarkEnqueuedRefused(r) ==
    /\ At(r, "record")
    /\ Goto(r, "recover")
    /\ UNCHANGED <<status, ingest, uploaded, ingestQ>>

(* The exception handler: set_stage_enqueue_failed.  Whether or not the    *)
(* write is refused the call ends in a 502.                                *)
MarkFailed(r) ==
    /\ At(r, "recover")
    /\ ingest' = IF HoldsClaim(r)
                 THEN [ingest EXCEPT !.state = "ENQUEUE_FAILED"]
                 ELSE ingest
    /\ Goto(r, "answered")
    /\ UNCHANGED <<status, uploaded, ingestQ>>

(* The task is stopped in the middle of the call, or the recovery write    *)
(* itself fails (SQS_ENQUEUE_RECOVERY_FAILED).                             *)
Crash(r) ==
    /\ request[r].pc \in {"send", "record", "recover"}
    /\ Goto(r, "crashed")
    /\ UNCHANGED <<status, ingest, uploaded, ingestQ>>

RequestStep(r) ==
    \/ Claim(r) \/ ClaimRefused(r)
    \/ SendIngest(r)
    \/ MarkEnqueued(r) \/ MarkEnqueuedRefused(r)
    \/ MarkFailed(r)

Next ==
    \/ CreateDocument
    \/ Upload
    \/ \E r \in Requests : RequestStep(r) \/ Crash(r)

(* A request that started runs to its end unless the process dies.         *)
Fairness == \A r \in Requests :
    WF_submissionVars(SendIngest(r) \/ MarkEnqueued(r)
                        \/ MarkEnqueuedRefused(r) \/ MarkFailed(r))

Spec == Init /\ [][Next]_submissionVars /\ Fairness

-----------------------------------------------------------------------------
(* The type invariant of the submission state.                             *)
TypeOK ==
    /\ status \in {"ABSENT", "CREATED", "SUBMITTED"}
    /\ ingest \in [state : StageStatus, enqueueId : Requests \cup {NoRequest},
                   messageId : Nat]
    /\ uploaded \in BOOLEAN
    /\ ingestQ \in Queue(Requests)
    /\ request \in [Requests -> [pc : {"idle", "send", "record", "recover",
                                     "answered", "crashed"},
                                messageId : Nat]]

(* Two calls never have the right to send at once: between the claim and   *)
(* the record of its MessageId a call is alone, whatever errors the calls  *)
(* before it met and however their recovery writes are ordered with the    *)
(* new claim (set_stage_enqueue_pending against set_stage_enqueue_failed). *)
OneSender ==
    \A r, s \in Requests :
        /\ request[r].pc \in {"send", "record"}
        /\ request[s].pc \in {"send", "record"}
        => r = s

(* The message recorded for the stage is the one the recorded call sent:   *)
(* the OCR worker can trust enqueueId and sqsMessageId together, also when *)
(* messages of earlier calls are still in the queue.                       *)
RecordedTogether ==
    ingest.state = "ENQUEUED" =>
        \A m \in ingestQ.messages :
            m.id = ingest.messageId => m.body = ingest.enqueueId

(* A recorded handoff is never taken back: the recovery write of a call    *)
(* whose success was lost on the way does not release the stage, so no     *)
(* second submission can follow a recorded one.                            *)
EnqueuedIsFinal ==
    [][ingest.state = "ENQUEUED" => ingest' = ingest]_submissionVars

=============================================================================
