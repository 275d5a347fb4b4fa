--------------------------- MODULE Classification ---------------------------
(***************************************************************************)
(* scanalyze-classifier-worker: decides the domain of a document whose     *)
(* OCR is complete and hands it to that domain's extract queue.            *)
(*                                                                         *)
(* One delivery is a consistent read, a conditional write of the decision  *)
(* (CLASSIFY_PENDING, the checkpoint a retry resumes from), an SQS send, a *)
(* conditional write of the handoff (CLASSIFY_COMPLETED) and the delete.   *)
(* Between two of them other deliveries run; HandlerFails ends a handler   *)
(* after any of them (process_message returns False and the message comes  *)
(* back).  A delete that fails is swallowed: it is HandlerFails at "ack".  *)
(*                                                                         *)
(* A route "bank-extract" is named by its domain, "bank" (ROUTE_TO_DOMAIN  *)
(* is one-to-one); routingTarget, processing_domain and                    *)
(* classification.route are always written together and are one variable.  *)
(***************************************************************************)
EXTENDS SqsQueue

CONSTANTS Classifiers,    \* handlers that can be under way at once
          Copies          \* messages the OCR worker sent for the document

Domains == {"bank", "personal", "gov"}

NoDomain == "none"

ASSUME CopiesAssumption == Copies \in Nat

VARIABLES status,          \* the document's status attribute
          domain,          \* processing_domain, routingTarget and route
          classification,  \* enqueuedTo and messageId of its classification
          classifyQ,       \* queue from the OCR worker
          extractQ,        \* one queue per domain
          classifier       \* the handlers under way

classificationVars ==
    <<status, domain, classification, classifyQ, extractQ, classifier>>

NoHandoff == [enqueuedTo |-> NoDomain, messageId |-> NoMessage]

IdleClassifier == [pc |-> "idle", message |-> NoMessage, route |-> NoDomain,
                   sent |-> NoMessage]

(* n messages for the document.                                            *)
QueueOf(n, body) ==
    [next |-> n + 1,
     messages |-> {[id |-> i, body |-> body, received |-> 0] : i \in 1..n}]

(* The OCR worker sends before it records: the messages are there while    *)
(* the document is still in OCR.                                           *)
Init ==
    /\ status = "OCR"
    /\ domain = NoDomain
    /\ classification = NoHandoff
    /\ classifyQ = QueueOf(Copies, "platform")
    /\ extractQ = [d \in Domains |-> EmptyQueue]
    /\ classifier = [c \in Classifiers |-> IdleClassifier]

-----------------------------------------------------------------------------
Goto(c, pc) == classifier' = [classifier EXCEPT ![c].pc = pc]

Ends(c) == classifier' = [classifier EXCEPT ![c] = IdleClassifier]

(* Seeded fault: the checkpoint before the send counts as a handoff.       *)
FaultHandoffConfirmed == status \in {"CLASSIFY_PENDING", "CLASSIFY_COMPLETED"}

(* _classification_handoff_confirmed.                                      *)
HandoffConfirmed ==
    /\ status = "CLASSIFY_COMPLETED"
    /\ classification.enqueuedTo \in Domains
    /\ classification.enqueuedTo = domain
    /\ classification.messageId # NoMessage

(* _pending_classification_route finds a route to resume.                  *)
PendingRoute ==
    /\ status = "CLASSIFY_PENDING"
    /\ domain \in Domains
    /\ classification = NoHandoff

(* What the handler does after its consistent read.  A document still in   *)
(* OCR has no artifacts.ocr and is "unavailable"; one that moved on past   *)
(* CLASSIFY_COMPLETED is "unavailable" too: both raise.                    *)
Decision ==
    CASE HandoffConfirmed -> "ack"
      [] PendingRoute -> "send"
      [] status = "OCR_COMPLETED" /\ domain = NoDomain -> "classify"
      [] OTHER -> "idle"

Receive(c, m) ==
    /\ classifier[c].pc = "idle"
    /\ CanDeliver(m)
    /\ classifyQ' = Delivered(classifyQ, m)
    /\ classifier' = IF Decision = "idle" THEN classifier
                     ELSE [classifier EXCEPT ![c] =
                              [IdleClassifier EXCEPT !.pc = Decision,
                                                     !.message = m.id,
                                                     !.route = domain]]
    /\ UNCHANGED <<status, domain, classification, extractQ>>

(* get_ocr_text and classify_document: the model's answer, or the keyword  *)
(* heuristic's when Bedrock fails, so two deliveries may disagree.         *)
Classify(c) ==
    /\ classifier[c].pc = "classify"
    /\ \E d \in Domains :
          classifier' = [classifier EXCEPT ![c].pc = "save", ![c].route = d]
    /\ UNCHANGED <<status, domain, classification, classifyQ, extractQ>>

(* Seeded fault: a later decision may replace a pending one.               *)
FaultMaySave == status \in {"OCR_COMPLETED", "CLASSIFY_PENDING"}

(* The condition of save_classification_evidence.                          *)
MaySave == status = "OCR_COMPLETED"

(* save_classification_evidence replaces the whole classification map.     *)
SaveDecision(c) ==
    /\ classifier[c].pc = "save"
    /\ IF MaySave
       THEN /\ status' = "CLASSIFY_PENDING"
            /\ domain' = classifier[c].route
            /\ classification' = NoHandoff
            /\ Goto(c, "send")
       ELSE /\ UNCHANGED <<status, domain, classification>>
            /\ Ends(c)
    /\ UNCHANGED <<classifyQ, extractQ>>

(* Seeded fault: the handoff is recorded without a send.                   *)
FaultSendExtract(c) ==
    /\ classifier[c].pc = "send"
    /\ classifier' = [classifier EXCEPT ![c].pc = "mark",
                                        ![c].sent = extractQ[classifier[c].route].next]
    /\ UNCHANGED <<status, domain, classification, classifyQ, extractQ>>

(* enqueue_message to the queue of the route.                              *)
SendExtract(c) ==
    /\ classifier[c].pc = "send"
    /\ LET d == classifier[c].route IN
        /\ extractQ' = [extractQ EXCEPT ![d] = Sent(@, d)]
        /\ classifier' = [classifier EXCEPT ![c].pc = "mark",
                                            ![c].sent = extractQ[d].next]
    /\ UNCHANGED <<status, domain, classification, classifyQ>>

(* mark_classification_enqueued.                                           *)
MarkEnqueued(c) ==
    /\ classifier[c].pc = "mark"
    /\ IF status = "CLASSIFY_PENDING" /\ domain = classifier[c].route
       THEN /\ status' = "CLASSIFY_COMPLETED"
            /\ classification' = [enqueuedTo |-> classifier[c].route,
                                  messageId |-> classifier[c].sent]
            /\ Goto(c, "ack")
       ELSE /\ UNCHANGED <<status, classification>>
            /\ Ends(c)
    /\ UNCHANGED <<domain, classifyQ, extractQ>>

Acknowledge(c) ==
    /\ classifier[c].pc = "ack"
    /\ classifyQ' = Deleted(classifyQ, classifier[c].message)
    /\ Ends(c)
    /\ UNCHANGED <<status, domain, classification, extractQ>>

HandlerFails(c) ==
    /\ classifier[c].pc # "idle"
    /\ Ends(c)
    /\ UNCHANGED <<status, domain, classification, classifyQ, extractQ>>

ClassifierStep(c) ==
    \/ \E m \in classifyQ.messages : Receive(c, m)
    \/ Classify(c) \/ SaveDecision(c) \/ SendExtract(c) \/ MarkEnqueued(c)
    \/ Acknowledge(c)

-----------------------------------------------------------------------------
(* The neighbours: the OCR worker records its completion; a domain worker  *)
(* whose message arrived reserves the document (reserve_structured_        *)
(* artifact), which a late classifier delivery then meets.                 *)
OcrCompletes ==
    /\ status = "OCR"
    /\ status' = "OCR_COMPLETED"
    /\ UNCHANGED <<domain, classification, classifyQ, extractQ, classifier>>

ExtractionStarts ==
    /\ status = "CLASSIFY_COMPLETED"
    /\ extractQ[domain].messages # {}
    /\ status' = "EXTRACTING"
    /\ UNCHANGED <<domain, classification, classifyQ, extractQ, classifier>>

Next ==
    \/ \E c \in Classifiers : ClassifierStep(c) \/ HandlerFails(c)
    \/ OcrCompletes
    \/ ExtractionStarts

(* Consumers keep running and every handler ends, one way or another.      *)
Fairness ==
    \A c \in Classifiers : WF_classificationVars(ClassifierStep(c) \/ HandlerFails(c))

Spec == Init /\ [][Next]_classificationVars /\ Fairness

-----------------------------------------------------------------------------
(* The type invariant of the classification stage.                         *)
TypeOK ==
    /\ status \in {"OCR", "OCR_COMPLETED", "CLASSIFY_PENDING", "CLASSIFY_COMPLETED",
                   "EXTRACTING"}
    /\ domain \in Domains \cup {NoDomain}
    /\ classification \in [enqueuedTo : Domains \cup {NoDomain}, messageId : Nat]
    /\ classifyQ \in Queue({"platform"})
    /\ extractQ \in [Domains -> Queue(Domains)]
    /\ classifier \in [Classifiers ->
          [pc : {"idle", "classify", "save", "send", "mark", "ack"},
           message : Nat, route : Domains \cup {NoDomain}, sent : Nat]]

(* A document goes to one domain: no extract queue ever got a message for  *)
(* it but the queue of the domain it stores, although two deliveries can   *)
(* classify it differently at the same time and either can stop anywhere   *)
(* (the OCR_COMPLETED condition of save_classification_evidence).          *)
OneDomain ==
    \A d \in Domains : extractQ[d].next > 1 => domain = d

(* The recorded handoff is a message that was sent to the stored domain's  *)
(* queue, whichever of several senders recorded its own.                   *)
HandoffBacked ==
    status \in {"CLASSIFY_COMPLETED", "EXTRACTING"} =>
        /\ classification.enqueuedTo = domain
        /\ domain \in Domains
        /\ WasSent(extractQ[domain], classification.messageId)

(* Until the handoff is recorded every message of the OCR worker is still  *)
(* there to resume it: none is acknowledged on the pending checkpoint.     *)
WorkRetained ==
    status \in {"OCR", "OCR_COMPLETED", "CLASSIFY_PENDING"} =>
        Retained(classifyQ) = 1..Copies

(* The decision stands once a message may have carried it away: no retry   *)
(* reclassifies, and a late delivery does not undo what a domain worker    *)
(* began (the status conditions of both classifier writes).                *)
DecisionStands ==
    [][/\ domain # NoDomain => domain' = domain
       /\ status = "EXTRACTING" => UNCHANGED <<status, classification>>
      ]_classificationVars

(* Classification ends in a recorded handoff, or every message for it is   *)
(* used up and lies in the dead-letter queue.                              *)
ClassificationSettles ==
    <>(\/ status \in {"CLASSIFY_COMPLETED", "EXTRACTING"}
       \/ /\ Retained(classifyQ) = Exhausted(classifyQ) /\ Exhausted(classifyQ) # {}
          /\ \A c \in Classifiers : classifier[c].pc = "idle")
=============================================================================
