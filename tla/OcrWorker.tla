----------------------------- MODULE OcrWorker ------------------------------
(***************************************************************************)
(* scanalyze-ocr-worker: the INGEST consumer starts Textract for a         *)
(* submitted document and hands it to the OCR_POLL consumer, which polls   *)
(* the job, writes the OCR artifact, meters the pages and hands the        *)
(* document to the classifier or to a domain worker.                       *)
(*                                                                         *)
(* One document; every key, condition and message names it.  A handler is  *)
(* a sequence of remote calls; between two of them any other delivery of   *)
(* the same or another message may run, the task may die, or the call may  *)
(* fail: IngestFails and PollFails end a handler after any of its calls    *)
(* and leave its message to be delivered again (main.py, poll_queue).      *)
(***************************************************************************)
EXTENDS SqsQueue

CONSTANTS IngestWorkers, PollWorkers,
          MaxPolls,             \* polls that fit in the one-hour deadline
          DocumentRoute         \* the document's documentRoute attribute

Domains == {"bank", "personal", "gov"}

VARIABLES status,      \* the document's status attribute
          ingest,      \* stages.ingest, written by submit_document
          uploaded,    \* the raw object is in S3
          ingestQ,     \* queue to the INGEST consumer
          jobs,        \* client tokens Textract started a job for
          textract,    \* how far Textract is with the document
          job,         \* the textractJobId attribute
          poll,        \* the ocrPollHandoff attribute
          ocrQ,        \* queue to the OCR_POLL consumer
          ocrObject,   \* the job whose result is the OCR object in S3
          ocrArtifact, \* the artifacts.ocr attribute is stored
          usage,       \* the usage event and the roll-up it feeds
          handoff,     \* message id stored in the next stage's attribute
          classifyQ, extractQ,    \* queues to the next stage
          ingestor, poller        \* the handlers under way

ocrVars == <<status, ingest, uploaded, ingestQ, jobs, textract, job, poll, ocrQ,
             ocrObject, ocrArtifact, usage, handoff, classifyQ, extractQ,
             ingestor, poller>>

document == <<status, job, poll, ocrArtifact, handoff>>

NoJob == 0

(* Textract returns the running job for a token it has seen: the token is  *)
(* the document id, whatever message the handler works on.                 *)
ClientRequestToken(message) == 1

(* Statuses that prove the handoff; EXTRACTED is BANK_, PERSONAL_ or       *)
(* GOV_EXTRACTED (_HANDOFF_CONFIRMED_STATUSES).                 *)
HandoffConfirmed == {"OCR_COMPLETED", "CLASSIFY_COMPLETED", "EXTRACTED", "COMPLETED",
                     "FAILED"}

NoPoll == [state |-> "none", messageId |-> NoMessage]

IdleWorker == [pc |-> "idle", message |-> NoMessage, job |-> NoJob,
               attempt |-> 0, sent |-> NoMessage]

(* get_next_stage (routing.py).                                            *)
NextStage == IF DocumentRoute \in Domains THEN DocumentRoute ELSE "classify"

(* Nothing of a document has reached the workers.                          *)
Untouched ==
    /\ job = NoJob /\ jobs = {} /\ textract = "NOT_STARTED"
    /\ poll = NoPoll
    /\ ocrQ = EmptyQueue

(* The ingest message is consumed and its handoff to the poll recorded.    *)
Polling ==
    /\ job = ClientRequestToken(1) /\ jobs = {job} /\ textract = "IN_PROGRESS"
    /\ poll = [state |-> "ENQUEUED", messageId |-> 1]
    /\ ocrQ = Sent(EmptyQueue, [job |-> job, attempt |-> 0])

(* The handlers are idle and the next stages have nothing.                 *)
Idle ==
    /\ classifyQ = EmptyQueue
    /\ extractQ = [d \in Domains |-> EmptyQueue]
    /\ ocrObject = NoJob /\ ocrArtifact = FALSE
    /\ usage = [event |-> FALSE, documents |-> 0]
    /\ handoff = NoMessage
    /\ ingestor = [w \in IngestWorkers |-> IdleWorker]
    /\ poller = [w \in PollWorkers |-> IdleWorker]

-----------------------------------------------------------------------------
(* The INGEST consumer, process_ingest_message.                            *)

IngestGoto(w, pc) == ingestor' = [ingestor EXCEPT ![w].pc = pc]

IngestEnds(w) == ingestor' = [ingestor EXCEPT ![w] = IdleWorker]

(* The message is the one the submit call recorded.                        *)
IngestAccepts(m) ==
    /\ ingest.state = "ENQUEUED"
    /\ ingest.enqueueId = m.body
    /\ ingest.messageId = m.id

(* Seeded fault: a pending checkpoint counts as durable.                   *)
FaultPollIsDurable == poll.state # "none"

(* _checkpoint_is_durable.                                                 *)
PollIsDurable == poll.state = "ENQUEUED" /\ poll.messageId # NoMessage

(* What the handler does after its consistent read; it raises when no      *)
(* case applies.                                                           *)
IngestDecision(m) ==
    IF ~IngestAccepts(m) THEN "idle" ELSE
    CASE status \in HandoffConfirmed \cup {"OCR"} /\ PollIsDurable -> "ack"
      [] status = "OCR" /\ ~PollIsDurable -> "send"
      [] status = "SUBMITTED" -> "start"
      [] OTHER -> "idle"

ReceiveIngest(w, m) ==
    /\ ingestor[w].pc = "idle"
    /\ CanDeliver(m)
    /\ ingestQ' = Delivered(ingestQ, m)
    /\ ingestor' = IF IngestDecision(m) = "idle" THEN ingestor
                   ELSE [ingestor EXCEPT ![w] =
                            [IdleWorker EXCEPT !.pc = IngestDecision(m),
                                               !.message = m.id, !.job = job]]
    /\ UNCHANGED <<document, ingest, uploaded, jobs, textract, ocrQ, ocrObject,
                   usage, classifyQ, extractQ, poller>>

(* start_document_text_detection; it raises when the object is missing.    *)
StartTextract(w) ==
    /\ ingestor[w].pc = "start"
    /\ uploaded
    /\ LET token == ClientRequestToken(ingestor[w].message) IN
        /\ jobs' = jobs \cup {token}
        /\ ingestor' = [ingestor EXCEPT ![w].pc = "record", ![w].job = token]
    /\ textract' = IF textract = "NOT_STARTED" THEN "IN_PROGRESS" ELSE textract
    /\ UNCHANGED <<document, ingest, uploaded, ingestQ, ocrQ, ocrObject, usage,
                   classifyQ, extractQ, poller>>

(* SUBMITTED -> OCR with a pending poll checkpoint, in one write.          *)
RecordJob(w) ==
    /\ ingestor[w].pc = "record"
    /\ IF status = "SUBMITTED"
       THEN /\ status' = "OCR"
            /\ job' = ingestor[w].job
            /\ poll' = [state |-> "PENDING", messageId |-> NoMessage]
            /\ IngestGoto(w, "send")
       ELSE /\ UNCHANGED <<status, job, poll>>
            /\ IngestEnds(w)
    /\ UNCHANGED <<ocrArtifact, handoff, ingest, uploaded, ingestQ, jobs, textract,
                   ocrQ, ocrObject, usage, classifyQ, extractQ, poller>>

SendPoll(w) ==
    /\ ingestor[w].pc = "send"
    /\ ocrQ' = Sent(ocrQ, [job |-> ingestor[w].job, attempt |-> 0])
    /\ ingestor' = [ingestor EXCEPT ![w].pc = "mark", ![w].sent = ocrQ.next]
    /\ UNCHANGED <<document, ingest, uploaded, ingestQ, jobs, textract, ocrObject,
                   usage, classifyQ, extractQ, poller>>

(* The checkpoint names the message that was sent.                         *)
MarkPoll(w) ==
    /\ ingestor[w].pc = "mark"
    /\ IF status = "OCR" /\ job = ingestor[w].job /\ poll.state = "PENDING"
       THEN /\ poll' = [state |-> "ENQUEUED", messageId |-> ingestor[w].sent]
            /\ IngestGoto(w, "ack")
       ELSE /\ UNCHANGED poll
            /\ IngestEnds(w)
    /\ UNCHANGED <<status, job, ocrArtifact, handoff, ingest, uploaded, ingestQ, jobs,
                   textract, ocrQ, ocrObject, usage, classifyQ, extractQ, poller>>

AckIngest(w) ==
    /\ ingestor[w].pc = "ack"
    /\ ingestQ' = Deleted(ingestQ, ingestor[w].message)
    /\ IngestEnds(w)
    /\ UNCHANGED <<document, ingest, uploaded, jobs, textract, ocrQ, ocrObject, usage,
                   classifyQ, extractQ, poller>>

(* An exception, a lost answer or the end of the task.                     *)
IngestFails(w) ==
    /\ ingestor[w].pc # "idle"
    /\ IngestEnds(w)
    /\ UNCHANGED <<document, ingest, uploaded, ingestQ, jobs, textract, ocrQ,
                   ocrObject, usage, classifyQ, extractQ, poller>>

-----------------------------------------------------------------------------
(* The OCR_POLL consumer, process_ocr_poll_message.                        *)

PollGoto(w, pc) == poller' = [poller EXCEPT ![w].pc = pc]

PollEnds(w) == poller' = [poller EXCEPT ![w] = IdleWorker]

(* require_poll_checkpoint: once the checkpoint names a message only that  *)
(* message may drive the poll.                                             *)
PollAccepts(m) ==
    /\ poll.state \in {"PENDING", "ENQUEUED"}
    /\ poll.state = "ENQUEUED" => poll.messageId = m.id
    /\ job = m.body.job

PollDecision(m) ==
    IF ~PollAccepts(m) THEN "idle" ELSE
    CASE status \in HandoffConfirmed -> "ack"
      [] status = "OCR" -> "check"
      [] OTHER -> "idle"

ReceivePoll(w, m) ==
    /\ poller[w].pc = "idle"
    /\ CanDeliver(m)
    /\ ocrQ' = Delivered(ocrQ, m)
    /\ poller' = IF PollDecision(m) = "idle" THEN poller
                 ELSE [poller EXCEPT ![w] =
                          [pc |-> PollDecision(m), message |-> m.id,
                           job |-> m.body.job, attempt |-> m.body.attempt,
                           sent |-> NoMessage]]
    /\ UNCHANGED <<document, ingest, uploaded, ingestQ, jobs, textract, ocrObject,
                   usage, classifyQ, extractQ, ingestor>>

(* get_document_text_detection.  A job in progress after the deadline      *)
(* raises (PollFails); MaxPolls is where the growing delays reach it.      *)
(* FAILED stands for PARTIAL_SUCCESS too.                                  *)
CheckTextract(w) ==
    /\ poller[w].pc = "check"
    /\ \/ textract = "IN_PROGRESS" /\ poller[w].attempt < MaxPolls /\ PollGoto(w, "requeue")
       \/ textract = "FAILED" /\ PollGoto(w, "fail")
       \/ textract = "SUCCEEDED" /\ PollGoto(w, "store")
    /\ UNCHANGED <<document, ingest, uploaded, ingestQ, jobs, textract, ocrQ,
                   ocrObject, usage, classifyQ, extractQ, ingestor>>

(* Seeded fault: the old message is acknowledged once its replacement is   *)
(* sent, without binding the checkpoint to it.                             *)
FaultRequeuePoll(w) ==
    /\ poller[w].pc = "requeue"
    /\ ocrQ' = Sent(ocrQ, [job |-> poller[w].job, attempt |-> poller[w].attempt + 1])
    /\ PollGoto(w, "ack")
    /\ UNCHANGED <<document, ingest, uploaded, ingestQ, jobs, textract, ocrObject,
                   usage, classifyQ, extractQ, ingestor>>

(* Send the replacement, bind the checkpoint to it, only then acknowledge. *)
RequeuePoll(w) ==
    /\ poller[w].pc = "requeue"
    /\ ocrQ' = Sent(ocrQ, [job |-> poller[w].job, attempt |-> poller[w].attempt + 1])
    /\ poller' = [poller EXCEPT ![w].pc = "rebind", ![w].sent = ocrQ.next]
    /\ UNCHANGED <<document, ingest, uploaded, ingestQ, jobs, textract, ocrObject,
                   usage, classifyQ, extractQ, ingestor>>

RebindPoll(w) ==
    /\ poller[w].pc = "rebind"
    /\ IF status = "OCR" /\ job = poller[w].job /\ poll.messageId = poller[w].message
       THEN /\ poll' = [poll EXCEPT !.messageId = poller[w].sent]
            /\ PollGoto(w, "ack")
       ELSE /\ UNCHANGED poll
            /\ PollEnds(w)
    /\ UNCHANGED <<status, job, ocrArtifact, handoff, ingest, uploaded, ingestQ, jobs,
                   textract, ocrQ, ocrObject, usage, classifyQ, extractQ, ingestor>>

MarkOcrFailed(w) ==
    /\ poller[w].pc = "fail"
    /\ IF status = "OCR"
       THEN status' = "OCR_FAILED" /\ PollGoto(w, "ack")
       ELSE status' = status /\ PollEnds(w)
    /\ UNCHANGED <<job, poll, ocrArtifact, handoff, ingest, uploaded, ingestQ, jobs,
                   textract, ocrQ, ocrObject, usage, classifyQ, extractQ, ingestor>>

(* put_object: the key is the document's, so duplicates overwrite.         *)
StoreArtifact(w) ==
    /\ poller[w].pc = "store"
    /\ ocrObject' = poller[w].job
    /\ PollGoto(w, "meter")
    /\ UNCHANGED <<document, ingest, uploaded, ingestQ, jobs, textract, ocrQ, usage,
                   classifyQ, extractQ, ingestor>>

(* Seeded fault: every delivery adds to the roll-ups.                      *)
FaultMetered == [event |-> TRUE, documents |-> usage.documents + 1]

(* record_usage_metering_with_idempotency: one transaction puts the event  *)
(* if it is absent and adds to the roll-ups.  Its failure is logged and    *)
(* the handler goes on.                                                    *)
Metered == IF usage.event THEN usage
           ELSE [event |-> TRUE, documents |-> usage.documents + 1]

MeterUsage(w) ==
    /\ poller[w].pc = "meter"
    /\ usage' \in {Metered, usage}
    /\ PollGoto(w, "handoff")
    /\ UNCHANGED <<document, ingest, uploaded, ingestQ, jobs, textract, ocrQ,
                   ocrObject, classifyQ, extractQ, ingestor>>

NextQueue == IF NextStage = "classify" THEN classifyQ ELSE extractQ[NextStage]

SendDownstream(w) ==
    /\ poller[w].pc = "handoff"
    /\ poller' = [poller EXCEPT ![w].pc = "complete", ![w].sent = NextQueue.next]
    /\ IF NextStage = "classify"
       THEN classifyQ' = Sent(classifyQ, DocumentRoute) /\ UNCHANGED extractQ
       ELSE extractQ' = [extractQ EXCEPT ![NextStage] = Sent(@, NextStage)]
                /\ UNCHANGED classifyQ
    /\ UNCHANGED <<document, ingest, uploaded, ingestQ, jobs, textract, ocrQ,
                   ocrObject, usage, ingestor>>

(* Seeded fault: the completion is not conditioned on the status.          *)
FaultMayFinish(w) == job = poller[w].job

(* The condition of the completing write.                                  *)
MayFinish(w) == status = "OCR" /\ job = poller[w].job

(* OCR -> OCR_COMPLETED with the artifact and the next stage's message id. *)
CompleteOcr(w) ==
    /\ poller[w].pc = "complete"
    /\ IF MayFinish(w)
       THEN /\ status' = "OCR_COMPLETED"
            /\ ocrArtifact' = TRUE
            /\ handoff' = poller[w].sent
            /\ PollGoto(w, "ack")
       ELSE /\ UNCHANGED <<status, ocrArtifact, handoff>>
            /\ PollGoto(w, "reread")
    /\ UNCHANGED <<job, poll, ingest, uploaded, ingestQ, jobs, textract, ocrQ,
                   ocrObject, usage, classifyQ, extractQ, ingestor>>

(* After a refused write: another delivery may have finished the work.     *)
RereadDocument(w) ==
    /\ poller[w].pc = "reread"
    /\ IF status \in HandoffConfirmed THEN PollGoto(w, "ack") ELSE PollEnds(w)
    /\ UNCHANGED <<document, ingest, uploaded, ingestQ, jobs, textract, ocrQ,
                   ocrObject, usage, classifyQ, extractQ, ingestor>>

AckPoll(w) ==
    /\ poller[w].pc = "ack"
    /\ ocrQ' = Deleted(ocrQ, poller[w].message)
    /\ PollEnds(w)
    /\ UNCHANGED <<document, ingest, uploaded, ingestQ, jobs, textract, ocrObject,
                   usage, classifyQ, extractQ, ingestor>>

PollFails(w) ==
    /\ poller[w].pc # "idle"
    /\ PollEnds(w)
    /\ UNCHANGED <<document, ingest, uploaded, ingestQ, jobs, textract, ocrQ,
                   ocrObject, usage, classifyQ, extractQ, ingestor>>

-----------------------------------------------------------------------------
(* What the workers do not control.                                        *)

TextractEnds ==
    /\ textract = "IN_PROGRESS"
    /\ textract' \in {"SUCCEEDED", "FAILED"}
    /\ UNCHANGED <<document, ingest, uploaded, ingestQ, jobs, ocrQ, ocrObject, usage,
                   classifyQ, extractQ, ingestor, poller>>

IngestStep(w) ==
    \/ \E m \in ingestQ.messages : ReceiveIngest(w, m)
    \/ StartTextract(w) \/ RecordJob(w) \/ SendPoll(w) \/ MarkPoll(w) \/ AckIngest(w)

PollStep(w) ==
    \/ \E m \in ocrQ.messages : ReceivePoll(w, m)
    \/ CheckTextract(w) \/ RequeuePoll(w) \/ RebindPoll(w) \/ MarkOcrFailed(w)
    \/ StoreArtifact(w) \/ MeterUsage(w) \/ SendDownstream(w) \/ CompleteOcr(w)
    \/ RereadDocument(w) \/ AckPoll(w)

Workers ==
    \/ \E w \in IngestWorkers : IngestStep(w) \/ IngestFails(w)
    \/ \E w \in PollWorkers : PollStep(w) \/ PollFails(w)

Next == Workers \/ TextractEnds

(* The service keeps its consumers running and each handler ends, one way  *)
(* or another; SQS delivers what it holds.  Textract owes nothing.         *)
Fairness ==
    /\ \A w \in IngestWorkers : WF_ocrVars(IngestStep(w) \/ IngestFails(w))
    /\ \A w \in PollWorkers : WF_ocrVars(PollStep(w) \/ PollFails(w))

-----------------------------------------------------------------------------
(* The document waits for the ingest message the submit call recorded, or  *)
(* for the poll message its checkpoint names.                              *)
AwaitsIngest ==
    \/ status = "SUBMITTED" /\ ingest.state = "ENQUEUED"
    \/ status = "OCR" /\ poll.state = "PENDING"
AwaitsPoll == status = "OCR" /\ poll.state = "ENQUEUED"

(* While OCR is not settled, the one message that may move the document on *)
(* has not been deleted: no order of acknowledgements, of two deliveries   *)
(* of one message, of a poll overtaking the write that names it, loses the *)
(* document ("Acknowledge the current message only after the replacement   *)
(* and checkpoint are both durable", ocr_poll.py).                         *)
CarrierRetained ==
    /\ AwaitsIngest => ingest.messageId \in Retained(ingestQ)
    /\ AwaitsPoll => poll.messageId \in Retained(ocrQ)

(* The pages of a document are added to the roll-ups at most once, with    *)
(* the event that proves it, and only for OCR that succeeded.              *)
UsageCountedOnce ==
    /\ usage.documents = IF usage.event THEN 1 ELSE 0
    /\ usage.event => textract = "SUCCEEDED"

(* No delivery is left of the awaited message and no handler has it.       *)
CarrierDead ==
    \/ /\ AwaitsIngest /\ ingest.messageId \in Exhausted(ingestQ)
       /\ \A w \in IngestWorkers : ingestor[w].message # ingest.messageId
    \/ /\ AwaitsPoll /\ poll.messageId \in Exhausted(ocrQ)
       /\ \A w \in PollWorkers : poller[w].message # poll.messageId

(* A document that was submitted leaves OCR with an outcome, or the        *)
(* message it waits for is in the dead-letter queue where the runbook      *)
(* finds it; it never just stops.                                          *)
OcrSettles ==
    ingest.state = "ENQUEUED" ~>
        status \notin {"SUBMITTED", "OCR"} \/ CarrierDead
=============================================================================
