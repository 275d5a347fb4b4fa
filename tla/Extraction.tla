----------------------------- MODULE Extraction -----------------------------
(***************************************************************************)
(* A domain worker (scanalyze-bank-worker; the personal and gov workers    *)
(* have the same steps): turns the OCR text of a document into one         *)
(* structured object in S3 and hands it to validation.                     *)
(*                                                                         *)
(* DynamoDB and S3 share no transaction.  The worker reserves the document *)
(* (status EXTRACTING, stages.<domain>_extract = WRITING with a checkpoint *)
(* id), puts the object under a fixed key if there is none, and completes  *)
(* the stage with the digest of the object if the reservation is still     *)
(* unchanged.  A retry that finds the object there reads it back and       *)
(* completes with the digest it proved (ADR-022, two-phase binding).       *)
(*                                                                         *)
(* Between two calls other deliveries run; HandlerFails ends a handler     *)
(* after any of them, an exception or the end of the task, and the message *)
(* comes back.  A checkpoint id is a uuid4 of the delivery that makes it   *)
(* and is named by that delivery.                                          *)
(***************************************************************************)
EXTENDS SqsQueue

CONSTANTS Domain,         \* the worker's domain
          Extractors,     \* handlers that can be under way at once
          Copies,         \* extract messages sent for the document
          Digests         \* results the model can give for its text

ASSUME CopiesAssumption == Copies \in Nat

VARIABLES status,      \* the document's status attribute
          domain,      \* its processing_domain
          extractQ,    \* one extract queue per domain
          stage,       \* stages.<domain>_extract: state, checkpoint, digest
          object,      \* the S3 object: its checkpoint metadata and digest
          validateQ,   \* queue to the validation of the postprocess worker
          extractor    \* the handlers under way

extractionVars == <<status, domain, extractQ, stage, object, validateQ, extractor>>

NoDigest == "none"

ASSUME DigestAssumption == NoDigest \notin Digests

(* The delivery of a message that generates a checkpoint id.               *)
Checkpoint == Nat \X Nat
NoCheckpoint == <<0, 0>>

NoStage == [state |-> "none", checkpoint |-> NoCheckpoint, digest |-> NoDigest]
NoObject == [checkpoint |-> NoCheckpoint, digest |-> NoDigest]

IdleExtractor == [pc |-> "idle", message |-> NoMessage,
                  checkpoint |-> NoCheckpoint, digest |-> NoDigest]

Terminal == {"COMPLETED", "FAILED"}
Ready == {"OCR_COMPLETED", "CLASSIFY_COMPLETED"}

(* The producer sends before it records the handoff: the messages are in   *)
(* the queue while the document is not ready yet.                          *)
Init ==
    /\ status = "CLASSIFY_PENDING"
    /\ domain = Domain
    /\ extractQ = [d \in {Domain} |->
          [next |-> Copies + 1,
           messages |-> {[id |-> i, body |-> Domain, received |-> 0] : i \in 1..Copies}]]
    /\ stage = NoStage
    /\ object = NoObject
    /\ validateQ = EmptyQueue
    /\ extractor = [e \in Extractors |-> IdleExtractor]

-----------------------------------------------------------------------------
Goto(e, pc) == extractor' = [extractor EXCEPT ![e].pc = pc]

Ends(e) == extractor' = [extractor EXCEPT ![e] = IdleExtractor]

ObjectExists == object # NoObject

(* What the status of the consistent read calls for; a document of another *)
(* domain or in any other state raises.                                    *)
Decision ==
    IF domain # Domain THEN "idle" ELSE
    CASE status \in Terminal -> "proveEnd"
      [] status = "EXTRACTED" -> "headDone"
      [] status \in Ready -> "headNew"
      [] status = "EXTRACTING" -> "headWriting"
      [] OTHER -> "idle"

(* require_authorized_document.  The checkpoint a handler works under is   *)
(* the stored one, or a new one it will try to reserve.                    *)
Receive(e, m) ==
    /\ extractor[e].pc = "idle"
    /\ CanDeliver(m)
    /\ extractQ' = [extractQ EXCEPT ![Domain] = Delivered(@, m)]
    /\ extractor' =
          IF Decision = "idle" THEN extractor
          ELSE [extractor EXCEPT ![e] =
                  [pc |-> Decision, message |-> m.id,
                   checkpoint |-> IF Decision = "headNew" THEN <<m.id, m.received + 1>>
                                  ELSE stage.checkpoint,
                   digest |-> stage.digest]]
    /\ UNCHANGED <<status, domain, stage, object, validateQ>>

(* is_already_extracted: HeadObject, some time after the read.  An object  *)
(* nobody reserved is a conflict and raises.                               *)
HeadObject(e) ==
    /\ \/ extractor[e].pc = "headDone" /\ Goto(e, "proveDone")
       \/ extractor[e].pc = "headNew" /\ ~ObjectExists /\ Goto(e, "reserve")
       \/ extractor[e].pc = "headWriting" /\ ObjectExists /\ Goto(e, "proveWritten")
       \/ extractor[e].pc = "headWriting" /\ ~ObjectExists /\ Goto(e, "extract")
    /\ UNCHANGED <<status, domain, extractQ, stage, object, validateQ>>

(* Seeded fault: a document being written may be reserved again.           *)
FaultMayReserve == status \in Ready \cup {"EXTRACTING"}

(* The condition of reserve_structured_artifact (artifacts.structured is   *)
(* written only with a completed stage).                                   *)
MayReserve == status \in Ready /\ stage.state = "none"

(* reserve_structured_artifact.                                            *)
Reserve(e) ==
    /\ extractor[e].pc = "reserve"
    /\ IF domain = Domain /\ MayReserve
       THEN /\ status' = "EXTRACTING"
            /\ stage' = [state |-> "WRITING", checkpoint |-> extractor[e].checkpoint,
                         digest |-> NoDigest]
            /\ Goto(e, "extract")
       ELSE /\ UNCHANGED <<status, stage>>
            /\ Ends(e)
    /\ UNCHANGED <<domain, extractQ, object, validateQ>>

(* The model reads the text; two calls may answer differently.             *)
Extract(e) ==
    /\ extractor[e].pc = "extract"
    /\ \E d \in Digests :
          extractor' = [extractor EXCEPT ![e].pc = "put", ![e].digest = d]
    /\ UNCHANGED <<status, domain, extractQ, stage, object, validateQ>>

(* Seeded fault: a collision keeps the digest of the body just computed.   *)
FaultKeepDigest(e) ==
    /\ extractor[e].pc = "put"
    /\ object' = IF ObjectExists THEN object
                 ELSE [checkpoint |-> extractor[e].checkpoint,
                       digest |-> extractor[e].digest]
    /\ Goto(e, "complete")
    /\ UNCHANGED <<status, domain, extractQ, stage, validateQ>>

(* save_structured_artifact: put_object if there is none; a collision goes *)
(* to the readback.                                                        *)
PutObject(e) ==
    /\ extractor[e].pc = "put"
    /\ IF ObjectExists
       THEN UNCHANGED object /\ Goto(e, "proveWritten")
       ELSE /\ object' = [checkpoint |-> extractor[e].checkpoint,
                          digest |-> extractor[e].digest]
            /\ Goto(e, "complete")
    /\ UNCHANGED <<status, domain, extractQ, stage, validateQ>>

(* require_structured_artifact_proof: GetObject; the metadata must name    *)
(* the checkpoint, and of a completed stage the digest too; the digest of  *)
(* a stage still being written is taken from the object.                   *)
ProveObject(e) ==
    /\ UNCHANGED <<status, domain, extractQ, stage, object, validateQ>>
    /\ LET proves(next) ==
             /\ object.checkpoint = extractor[e].checkpoint
             /\ extractor' = [extractor EXCEPT ![e].pc = next,
                                               ![e].digest = object.digest]
       IN \/ extractor[e].pc = "proveWritten" /\ ObjectExists /\ proves("complete")
          \/ /\ object.digest = extractor[e].digest
             /\ \/ extractor[e].pc = "proveDone" /\ proves("send")
                \/ extractor[e].pc = "proveEnd" /\ proves("ack")

(* Seeded fault: the reservation's checkpoint is all that is compared.     *)
FaultMayComplete(e) == stage.checkpoint = extractor[e].checkpoint

(* The condition of update_document_status: the reservation is unchanged.  *)
MayComplete(e) ==
    /\ status = "EXTRACTING"
    /\ stage = [state |-> "WRITING", checkpoint |-> extractor[e].checkpoint,
                digest |-> NoDigest]

(* update_document_status.                                                 *)
CompleteStage(e) ==
    /\ extractor[e].pc = "complete"
    /\ IF domain = Domain /\ MayComplete(e)
       THEN /\ status' = "EXTRACTED"
            /\ stage' = [state |-> "COMPLETED", checkpoint |-> extractor[e].checkpoint,
                         digest |-> extractor[e].digest]
            /\ Goto(e, "send")
       ELSE /\ UNCHANGED <<status, stage>>
            /\ Ends(e)
    /\ UNCHANGED <<domain, extractQ, object, validateQ>>

(* Seeded fault: the message is acknowledged without the handoff.          *)
FaultSendValidate(e) ==
    /\ extractor[e].pc = "send"
    /\ Goto(e, "ack")
    /\ UNCHANGED <<status, domain, extractQ, stage, object, validateQ>>

(* The validate message carries the location of the object.                *)
SendValidate(e) ==
    /\ extractor[e].pc = "send"
    /\ validateQ' = Sent(validateQ, Domain)
    /\ Goto(e, "ack")
    /\ UNCHANGED <<status, domain, extractQ, stage, object>>

Acknowledge(e) ==
    /\ extractor[e].pc = "ack"
    /\ extractQ' = [extractQ EXCEPT ![Domain] = Deleted(@, extractor[e].message)]
    /\ Ends(e)
    /\ UNCHANGED <<status, domain, stage, object, validateQ>>

HandlerFails(e) ==
    /\ extractor[e].pc # "idle"
    /\ Ends(e)
    /\ UNCHANGED <<status, domain, extractQ, stage, object, validateQ>>

ExtractorStep(e) ==
    \/ \E m \in extractQ[Domain].messages : Receive(e, m)
    \/ HeadObject(e) \/ Reserve(e) \/ Extract(e) \/ PutObject(e) \/ ProveObject(e)
    \/ CompleteStage(e) \/ SendValidate(e) \/ Acknowledge(e)

-----------------------------------------------------------------------------
(* The neighbours: the classifier records its handoff; the postprocess     *)
(* worker, which has a validate message, gives the document its outcome.   *)
HandoffRecorded ==
    /\ status = "CLASSIFY_PENDING"
    /\ status' = "CLASSIFY_COMPLETED"
    /\ UNCHANGED <<domain, extractQ, stage, object, validateQ, extractor>>

DocumentEnds ==
    /\ status = "EXTRACTED"
    /\ validateQ.messages # {}
    /\ status' \in Terminal
    /\ UNCHANGED <<domain, extractQ, stage, object, validateQ, extractor>>

Next ==
    \/ \E e \in Extractors : ExtractorStep(e) \/ HandlerFails(e)
    \/ HandoffRecorded
    \/ DocumentEnds

(* Consumers keep running and every handler ends, one way or another.      *)
Fairness ==
    \A e \in Extractors : WF_extractionVars(ExtractorStep(e) \/ HandlerFails(e))

Spec == Init /\ [][Next]_extractionVars /\ Fairness

-----------------------------------------------------------------------------
(* The type invariant of the extraction stage.                             *)
TypeOK ==
    /\ status \in {"CLASSIFY_PENDING", "EXTRACTING", "EXTRACTED"} \cup Ready \cup Terminal
    /\ domain = Domain
    /\ extractQ \in [{Domain} -> Queue({Domain})]
    /\ stage \in [state : {"none", "WRITING", "COMPLETED"}, checkpoint : Checkpoint,
                  digest : Digests \cup {NoDigest}]
    /\ object \in [checkpoint : Checkpoint, digest : Digests \cup {NoDigest}]
    /\ validateQ \in Queue({Domain})
    /\ extractor \in [Extractors ->
          [pc : {"idle", "headDone", "headNew", "headWriting", "proveDone", "proveEnd",
                 "proveWritten", "reserve", "extract", "put", "complete", "send", "ack"},
           message : Nat, checkpoint : Checkpoint, digest : Digests \cup {NoDigest}]]

(* What validation was told of, and what the document claims, is proven:   *)
(* the completed stage stores the digest and the checkpoint of the object  *)
(* that is in S3, not those of a result another delivery computed, lost    *)
(* the race to store, or reserved for (save_structured_artifact against    *)
(* update_document_status).                                                *)
ArtifactProven ==
    (status \in {"EXTRACTED"} \cup Terminal \/ validateQ.next > 1) =>
        /\ stage.state = "COMPLETED"
        /\ object = [checkpoint |-> stage.checkpoint, digest |-> stage.digest]
        /\ ObjectExists

(* The object always belongs to the reservation in force, so that a retry  *)
(* can recover it: no interleaving of two reservations and two puts leaves *)
(* an object whose proof fails for ever (the key is create-only).          *)
ObjectRecoverable ==
    ObjectExists => stage.state # "none" /\ object.checkpoint = stage.checkpoint

(* Until validation has a message every extract message is still there.    *)
WorkRetained ==
    validateQ.next = 1 => Retained(extractQ[Domain]) = 1..Copies

(* What validation was told of is never replaced: after the stage is       *)
(* complete neither the object nor its binding changes, although slow      *)
(* deliveries may still be about to put or to complete.                    *)
ProofStands ==
    [][stage.state = "COMPLETED" => UNCHANGED <<stage, object>>]_extractionVars

(* Extraction ends with a message to validation, or every message for it   *)
(* is used up and lies in the dead-letter queue.                           *)
ExtractionSettles ==
    <>(\/ validateQ.next > 1
       \/ /\ Retained(extractQ[Domain]) = Exhausted(extractQ[Domain])
          /\ Exhausted(extractQ[Domain]) # {}
          /\ \A e \in Extractors : extractor[e].pc = "idle")
=============================================================================
