-------------------------- MODULE DocumentPipeline --------------------------
(***************************************************************************)
(* One document through three workers: the OCR_POLL consumer finishes its  *)
(* OCR, the classifier decides its domain, the domain worker extracts it.  *)
(* Each component is its own module; here they share the document record   *)
(* and the queues between them, and every environment step a module took   *)
(* for its neighbour is now the neighbour's own.  The postprocess worker   *)
(* alone is left to the environment (Extraction's DocumentEnds).           *)
(***************************************************************************)
EXTENDS SqsQueue

CONSTANTS IngestWorkers, PollWorkers, MaxPolls, DocumentRoute,  \* of OcrWorker
          Classifiers,                  \* of Classification
          Domain, Extractors, Digests,  \* of Extraction
          Copies,                       \* of both; no message is there at first
          MaxSends                      \* bound on the sends to one queue

ASSUME SendsAssumption == MaxSends \in Nat

VARIABLES status, domain,
          ingest, uploaded, ingestQ, jobs, textract, job, poll, ocrQ, ocrObject,
          ocrArtifact, usage, handoff, ingestor, poller,
          classifyQ, classification, classifier,
          extractQ, stage, object, validateQ, extractor

Ocr == INSTANCE OcrWorker
Cls == INSTANCE Classification
Ext == INSTANCE Extraction

(* The domain worker is one of the three, and no digest is the absent one. *)
ASSUME WorkerAssumption ==
    Domain \in Cls!Domains /\ Ext!NoDigest \notin Digests

classifierVars == <<domain, classification, classifier>>
extractorVars == <<stage, object, validateQ, extractor>>
ocrWorkerVars == <<ingest, uploaded, ingestQ, jobs, textract, job, poll, ocrQ, ocrObject,
                   ocrArtifact, usage, handoff, ingestor, poller>>

pipelineVars == <<status, classifyQ, extractQ, classifierVars, extractorVars, ocrWorkerVars>>

(* The INGEST consumer is done with the document (DocumentIntake).         *)
(* create_document stores processing_domain for a direct route only.       *)
Init ==
    /\ status = "OCR" /\ uploaded = TRUE
    /\ ingest = [state |-> "ENQUEUED", enqueueId |-> "call", messageId |-> 1]
    /\ ingestQ = Deleted(Sent(EmptyQueue, "call"), 1)
    /\ Ocr!Polling /\ Ocr!Idle
    /\ domain = IF DocumentRoute \in Cls!Domains THEN DocumentRoute ELSE Cls!NoDomain
    /\ classification = Cls!NoHandoff
    /\ classifier = [c \in Classifiers |-> Cls!IdleClassifier]
    /\ stage = Ext!NoStage
    /\ object = Ext!NoObject
    /\ validateQ = EmptyQueue
    /\ extractor = [e \in Extractors |-> Ext!IdleExtractor]

OcrStep == Ocr!Next /\ UNCHANGED <<classifierVars, extractorVars>>

ClassifierStep ==
    /\ \E c \in Classifiers : Cls!ClassifierStep(c) \/ Cls!HandlerFails(c)
    /\ UNCHANGED <<extractorVars, ocrWorkerVars>>

ExtractorStep ==
    /\ \E e \in Extractors : Ext!ExtractorStep(e) \/ Ext!HandlerFails(e)
    /\ UNCHANGED <<classifyQ, classification, classifier, ocrWorkerVars>>

PostprocessStep ==
    /\ Ext!DocumentEnds
    /\ UNCHANGED <<classifyQ, classification, classifier, ocrWorkerVars>>

(* Retries past the bound are not explored.                                *)
SendBound ==
    \A q \in {classifyQ, validateQ} \cup {extractQ[d] : d \in Cls!Domains} :
        q.next <= MaxSends + 1

Next ==
    /\ OcrStep \/ ClassifierStep \/ ExtractorStep \/ PostprocessStep
    /\ SendBound'

Spec == Init /\ [][Next]_pipelineVars

-----------------------------------------------------------------------------
(* The record of the document as the abstract lifecycle sees it.           *)
Lifecycle == INSTANCE DocumentLifecycle
    WITH Domains <- Cls!Domains, NoDomain <- Cls!NoDomain,
         Results <- Digests, NoResult <- Ext!NoDigest, result <- stage.digest

(* The three workers together keep the promise of DocumentLifecycle:       *)
(* whatever is duplicated, late or half done in one of them, the document  *)
(* moves forward only, goes to one domain and gets one result.             *)
ImplementsLifecycle == Lifecycle!Spec

(* The domain worker has not passed the document on.                       *)
AwaitsExtraction ==
    \/ status \in {"CLASSIFY_COMPLETED", "EXTRACTING"}
    \/ status = "EXTRACTED" /\ validateQ.next = 1

(* While a stage has to act on the document the message that was recorded  *)
(* for it is not deleted: the poll message its checkpoint names, then the  *)
(* message CompleteOcr recorded, then the one the classifier recorded.     *)
(* A stage acknowledges its message only when the next stage's is safe.    *)
RecordedMessageCarries ==
    /\ status = "OCR" => poll.messageId \in Retained(ocrQ)
    /\ IF DocumentRoute \in Cls!Domains
       THEN status = "OCR_COMPLETED" \/ AwaitsExtraction =>
               handoff \in Retained(extractQ[domain])
       ELSE /\ status \in {"OCR_COMPLETED", "CLASSIFY_PENDING"} =>
                  handoff \in Retained(classifyQ)
            /\ AwaitsExtraction =>
                  classification.messageId \in Retained(extractQ[domain])

(* The pages of the document are added to the roll-ups at most once, with  *)
(* the next stages at work on it and two deliveries of its poll message    *)
(* racing through the completion.                                          *)
UsageCountedOnce == Ocr!UsageCountedOnce

(* test_downstream_advanced_after_send_is_treated_as_confirmed: a poll     *)
(* handler whose completion is refused because the document has advanced   *)
(* downstream acknowledges its message.                                    *)
AdvancedIsConfirmed ==
    [][\A w \in PollWorkers :
          Ocr!RereadDocument(w) /\ status \notin {"OCR", "OCR_FAILED"} =>
             poller'[w].pc = "ack"]_pipelineVars
=============================================================================
