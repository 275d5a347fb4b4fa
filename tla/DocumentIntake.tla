--------------------------- MODULE DocumentIntake ---------------------------
(***************************************************************************)
(* One document from its creation to the end of OCR: the submit calls of   *)
(* the API and the two consumers of the OCR worker, which share the        *)
(* document record and the ingest queue.  The consumer may receive the     *)
(* message of a call before the call has recorded it, or the message of a  *)
(* call that gave its claim up, and a recovery write of the API may come   *)
(* while the worker has moved the document on.                             *)
(***************************************************************************)
EXTENDS Submission

CONSTANTS IngestWorkers, PollWorkers, MaxPolls, DocumentRoute, \* of OcrWorker
          MaxSends                      \* bound on the poll messages

VARIABLES jobs, textract, job, poll, ocrQ, ocrObject, ocrArtifact, usage, handoff,
          classifyQ, extractQ, ingestor, poller

Ocr == INSTANCE OcrWorker

ASSUME IntakeAssumption ==
    /\ DocumentRoute \in Ocr!Domains \cup {"platform", "default"}
    /\ MaxPolls \in Nat /\ MaxSends \in Nat

workerVars == <<jobs, textract, job, poll, ocrQ, ocrObject, ocrArtifact, usage, handoff,
                classifyQ, extractQ, ingestor, poller>>

intakeVars == <<submissionVars, workerVars>>

IntakeInit == Init /\ Ocr!Untouched /\ Ocr!Idle

ApiStep == Next /\ UNCHANGED workerVars

(* Retries past the bound are not explored; a handler that may not send    *)
(* may still fail.                                                         *)
WorkerStep == Ocr!Next /\ ocrQ'.next <= MaxSends + 1 /\ UNCHANGED request

IntakeSpec ==
    /\ IntakeInit
    /\ [][ApiStep \/ WorkerStep]_intakeVars
    /\ Fairness /\ Ocr!Fairness

-----------------------------------------------------------------------------
(* While OCR is not settled, the one message that may move the document on *)
(* has not been deleted, also when the messages of several submit calls    *)
(* are in the queue and one is delivered before it is recorded.            *)
CarrierRetained == Ocr!CarrierRetained

(* A document whose submission is recorded leaves OCR with an outcome, or  *)
(* its message is in the dead-letter queue.                                *)
OcrSettles == Ocr!OcrSettles
=============================================================================
