----------------------- MODULE DocumentPipelineProofs -----------------------
(***************************************************************************)
(* One document through the three workers, for any number of handlers of   *)
(* each and of deliveries of each message: a stage acknowledges its        *)
(* message only when the next stage's is safe, the pages are counted once, *)
(* and the workers together implement DocumentLifecycle.                   *)
(***************************************************************************)
EXTENDS DocumentPipeline, SqsQueueProofs, TLAPS

Domains == Cls!Domains

(* create_document stored the domain; the classifier gets no message.      *)
Direct == DocumentRoute \in Domains

(* Classification is over, and so is extraction.                           *)
Handed == {"CLASSIFY_COMPLETED", "EXTRACTING", "EXTRACTED", "COMPLETED", "FAILED"}

Done == {"EXTRACTED", "COMPLETED", "FAILED"}

Statuses == {"OCR", "OCR_FAILED", "OCR_COMPLETED", "CLASSIFY_PENDING"} \cup Handed

Holds(q, Body) == q \in Queue(Body) /\ IdsBefore(q)

(* Every message from the first one given is there.                        *)
KeptFrom(q, first) == \A i \in Nat : first <= i /\ i < q.next => i \in Retained(q)

HasSent(q, id) == id \in Nat /\ 1 <= id /\ id < q.next

Token == 1

PollBody == [job : {Token}, attempt : Nat]

Poller == [pc : {"idle", "check", "requeue", "rebind", "fail", "store", "meter", "handoff",
                 "complete", "reread", "ack"}, message : Nat, job : {Ocr!NoJob, Token},
           attempt : Nat, sent : Nat]

ClassifierRecord == [pc : {"idle", "classify", "save", "send", "mark", "ack"},
                     message : Nat, route : Domains \cup {Cls!NoDomain}, sent : Nat]

Digest == Digests \cup {Ext!NoDigest}

ExtractorRecord ==
    [pc : {"idle", "headDone", "headNew", "headWriting", "proveDone", "proveEnd",
           "proveWritten", "reserve", "extract", "put", "complete", "send", "ack"},
     message : Nat, checkpoint : Ext!Checkpoint, digest : Digest]

-----------------------------------------------------------------------------
(* The queue CompleteOcr's message is in.                                  *)
Downstream == IF Direct THEN extractQ[DocumentRoute] ELSE classifyQ

(* The INGEST consumer has nothing left to do.                             *)
Quiet ==
    /\ ingestQ.messages = {}
    /\ \A w \in IngestWorkers : ingestor[w].pc = "idle"

OcrTypes ==
    /\ textract \in {"IN_PROGRESS", "SUCCEEDED", "FAILED"}
    /\ job = Token
    /\ poll \in [state : {"ENQUEUED"}, messageId : Nat]
    /\ Holds(ocrQ, PollBody)
    /\ poller \in [PollWorkers -> Poller]

(* A handler of the OCR_POLL consumer sends a message later than its own;  *)
(* while OCR runs it acknowledges only a message the checkpoint has left   *)
(* behind.                                                                 *)
PollHandler(w) ==
    poller[w].pc # "idle" =>
        /\ HasSent(ocrQ, poller[w].message)
        /\ poller[w].job = Token
        /\ poller[w].pc = "rebind" =>
              poller[w].message < poller[w].sent /\ HasSent(ocrQ, poller[w].sent)
        /\ poller[w].pc \in {"store", "meter"} => textract = "SUCCEEDED"
        /\ poller[w].pc = "complete" => HasSent(Downstream, poller[w].sent)
        /\ poller[w].pc = "ack" /\ status = "OCR" => poller[w].message < poll.messageId

(* While OCR runs every poll message from the one the checkpoint names on  *)
(* is there.                                                               *)
OcrKept ==
    /\ HasSent(ocrQ, poll.messageId)
    /\ status = "OCR" => KeptFrom(ocrQ, poll.messageId)

OcrPart ==
    /\ Quiet /\ OcrTypes /\ OcrKept /\ UsageCountedOnce
    /\ \A w \in PollWorkers : PollHandler(w)

-----------------------------------------------------------------------------
ClassifierTypes ==
    /\ domain \in Domains \cup {Cls!NoDomain}
    /\ classification \in [enqueuedTo : Domains \cup {Cls!NoDomain}, messageId : Nat]
    /\ Holds(classifyQ, {DocumentRoute})
    /\ classifier \in [Classifiers -> ClassifierRecord]

(* A handler of the classifier has work only without a direct route; it    *)
(* marks a message it sent, and acknowledges a recorded handoff.           *)
ClassifierHandler(c) ==
    classifier[c].pc # "idle" =>
        /\ ~Direct
        /\ classifier[c].pc \in {"save", "send", "mark"} => classifier[c].route \in Domains
        /\ classifier[c].pc = "mark" =>
              HasSent(extractQ[classifier[c].route], classifier[c].sent)
        /\ classifier[c].pc = "ack" => status \in Handed

(* The domain is decided once, and the messages of the OCR worker stay     *)
(* until it is handed over.                                                *)
ClassifierRow ==
    /\ Direct => /\ domain = DocumentRoute /\ classifyQ.next = 1
                 /\ status \notin {"CLASSIFY_PENDING", "CLASSIFY_COMPLETED"}
    /\ ~Direct => (domain = Cls!NoDomain <=> status \in {"OCR", "OCR_FAILED", "OCR_COMPLETED"})
    /\ ~Direct /\ status \in Handed => HasSent(extractQ[domain], classification.messageId)
    /\ status \notin Handed => KeptFrom(classifyQ, 1)

ClassifierPart ==
    /\ ClassifierTypes /\ ClassifierRow
    /\ \A c \in Classifiers : ClassifierHandler(c)

-----------------------------------------------------------------------------
ExtractorTypes ==
    /\ extractQ \in [Domains -> Queue(Domains)]
    /\ \A d \in Domains : IdsBefore(extractQ[d])
    /\ stage \in [state : {"none", "WRITING", "COMPLETED"}, checkpoint : Ext!Checkpoint,
                  digest : Digest]
    /\ object \in [checkpoint : Ext!Checkpoint, digest : Digest]
    /\ Holds(validateQ, {Domain})
    /\ extractor \in [Extractors -> ExtractorRecord]

(* A handler of the domain worker completes with a digest, and             *)
(* acknowledges when validation has a message.                             *)
ExtractorHandler(e) ==
    /\ extractor[e].pc \in {"put", "complete"} => extractor[e].digest \in Digests
    /\ extractor[e].pc \in {"headDone", "proveDone", "send", "proveEnd", "ack"} =>
          status \in Done
    /\ extractor[e].pc \in {"proveEnd", "ack"} => validateQ.next > 1

(* The stage follows the status, and the extract messages stay until       *)
(* validation has one.                                                     *)
ExtractorRow ==
    /\ stage.state = "COMPLETED" <=> status \in Done
    /\ stage.state = "COMPLETED" <=> stage.digest \in Digests
    /\ stage.state = "WRITING" <=> status = "EXTRACTING"
    /\ object = Ext!NoObject \/ object.digest \in Digests
    /\ validateQ.next > 1 => status \in Done
    /\ status \in Ext!Terminal => validateQ.next > 1
    /\ \A d \in Domains : d # Domain \/ validateQ.next = 1 => KeptFrom(extractQ[d], 1)

ExtractorPart ==
    /\ ExtractorTypes /\ ExtractorRow
    /\ \A e \in Extractors : ExtractorHandler(e)

(* The message CompleteOcr recorded was sent.                              *)
Handoff ==
    /\ status \in Statuses
    /\ status \notin {"OCR", "OCR_FAILED"} => HasSent(Downstream, handoff)

PipelineInv == OcrPart /\ ClassifierPart /\ ExtractorPart /\ Handoff
-----------------------------------------------------------------------------
(* The components use the same queues.                                     *)
LEMMA SameQueue ==
    ASSUME NEW q, NEW b, NEW m
    PROVE  /\ Ocr!Sent(q, b) = Sent(q, b) /\ Cls!Sent(q, b) = Sent(q, b)
           /\ Ext!Sent(q, b) = Sent(q, b)
           /\ Ocr!Delivered(q, m) = Delivered(q, m) /\ Cls!Delivered(q, m) = Delivered(q, m)
           /\ Ext!Delivered(q, m) = Delivered(q, m)
           /\ Ocr!Deleted(q, m) = Deleted(q, m) /\ Cls!Deleted(q, m) = Deleted(q, m)
           /\ Ext!Deleted(q, m) = Deleted(q, m)
           /\ Ocr!CanDeliver(m) <=> CanDeliver(m)
           /\ Cls!CanDeliver(m) <=> CanDeliver(m)
           /\ Ext!CanDeliver(m) <=> CanDeliver(m)
  <1>1. /\ Ocr!Sent(q, b) = Sent(q, b) /\ Cls!Sent(q, b) = Sent(q, b)
        /\ Ext!Sent(q, b) = Sent(q, b)
    BY DEF Ocr!Sent, Ocr!Fresh, Cls!Sent, Cls!Fresh, Ext!Sent, Ext!Fresh, Sent, Fresh
  <1>2. /\ Ocr!Delivered(q, m) = Delivered(q, m) /\ Cls!Delivered(q, m) = Delivered(q, m)
        /\ Ext!Delivered(q, m) = Delivered(q, m)
    BY DEF Ocr!Delivered, Cls!Delivered, Ext!Delivered, Delivered
  <1>3. /\ Ocr!Deleted(q, m) = Deleted(q, m) /\ Cls!Deleted(q, m) = Deleted(q, m)
        /\ Ext!Deleted(q, m) = Deleted(q, m)
    BY DEF Ocr!Deleted, Cls!Deleted, Ext!Deleted, Deleted
  <1>4. /\ Ocr!CanDeliver(m) <=> CanDeliver(m)
        /\ Cls!CanDeliver(m) <=> CanDeliver(m)
        /\ Ext!CanDeliver(m) <=> CanDeliver(m)
    BY DEF Ocr!CanDeliver, Cls!CanDeliver, Ext!CanDeliver, CanDeliver
  <1> QED
    BY <1>1, <1>2, <1>3, <1>4

(* A message more: the ids stay ids that were sent, and are kept.          *)
LEMMA SentHolds ==
    ASSUME NEW Body, NEW q, Holds(q, Body), NEW b \in Body
    PROVE  /\ Holds(Sent(q, b), Body)
           /\ Sent(q, b).next = q.next + 1 /\ q.next \in Nat /\ 1 <= q.next
           /\ HasSent(Sent(q, b), q.next)
           /\ \A id : HasSent(q, id) => HasSent(Sent(q, b), id)
           /\ \A first \in Nat : KeptFrom(q, first) => KeptFrom(Sent(q, b), first)
  <1>1. /\ Sent(q, b) \in Queue(Body) /\ Sent(q, b).next = q.next + 1
        /\ Sent(q, b).messages = q.messages \cup {Fresh(q, b)} /\ Fresh(q, b).id = q.next
    BY SentType DEF Holds
  <1>2. q.next \in Nat /\ 1 <= q.next /\ \A m \in q.messages : m.id \in Nat /\ m.id < q.next
    BY DEF Holds, Queue, Message, NoMessage, IdsBefore
  <1>3. Retained(Sent(q, b)) = Retained(q) \cup {q.next}
    BY <1>1, Zenon DEF Retained
  <1>4. IdsBefore(Sent(q, b))
    BY <1>1, <1>2 DEF IdsBefore
  <1>5. \A first \in Nat : KeptFrom(q, first) => KeptFrom(Sent(q, b), first)
    BY <1>1, <1>2, <1>3 DEF KeptFrom
  <1> QED
    BY <1>1, <1>2, <1>4, <1>5 DEF Holds, HasSent

(* A delivery: nothing is sent and nothing is lost.                        *)
LEMMA DeliveredHolds ==
    ASSUME NEW Body, NEW q, Holds(q, Body), NEW m \in q.messages, CanDeliver(m)
    PROVE  /\ Holds(Delivered(q, m), Body)
           /\ Delivered(q, m).next = q.next
           /\ HasSent(q, m.id) /\ m.body \in Body /\ m.received \in Nat
           /\ \A id : HasSent(q, id) <=> HasSent(Delivered(q, m), id)
           /\ \A first : KeptFrom(q, first) => KeptFrom(Delivered(q, m), first)
  <1>1. /\ Delivered(q, m) \in Queue(Body) /\ Delivered(q, m).next = q.next
        /\ Retained(Delivered(q, m)) = Retained(q)
        /\ IdsBefore(Delivered(q, m))
    BY DeliveredType DEF Holds
  <1>2. HasSent(q, m.id) /\ m.body \in Body /\ m.received \in Nat
    BY MaxReceiveAssumption DEF Holds, Queue, Message, NoMessage, IdsBefore, HasSent
  <1> QED
    BY <1>1, <1>2 DEF Holds, HasSent, KeptFrom

(* A deletion: only the message is lost.                                   *)
LEMMA DeletedHolds ==
    ASSUME NEW Body, NEW q, Holds(q, Body), NEW id
    PROVE  /\ Holds(Deleted(q, id), Body)
           /\ Deleted(q, id).next = q.next
           /\ \A i : HasSent(q, i) <=> HasSent(Deleted(q, id), i)
           /\ \A first \in Nat : id \in Nat /\ id < first /\ KeptFrom(q, first) =>
                  KeptFrom(Deleted(q, id), first)
  <1>1. /\ Deleted(q, id) \in Queue(Body) /\ Deleted(q, id).next = q.next
        /\ Retained(Deleted(q, id)) = Retained(q) \ {id} /\ IdsBefore(Deleted(q, id))
    BY DeletedType DEF Holds
  <1>2. q.next \in Nat
    BY DEF Holds, Queue, NoMessage
  <1>3. \A first \in Nat : id \in Nat /\ id < first /\ KeptFrom(q, first) =>
            KeptFrom(Deleted(q, id), first)
    BY <1>1, <1>2 DEF KeptFrom
  <1> QED
    BY <1>1, <1>3 DEF Holds, HasSent

(* A new queue.                                                            *)
LEMMA EmptyHolds ==
    ASSUME NEW Body
    PROVE  /\ Holds(EmptyQueue, Body) /\ EmptyQueue.next = 1
           /\ \A first \in Nat \ {0} : KeptFrom(EmptyQueue, first)
  BY EmptyQueueType DEF EmptyQueue, Holds, KeptFrom

(* Where the OCR worker sends to.                                          *)
LEMMA NextStageRoute ==
    /\ Ocr!Domains = Domains /\ Ext!NoMessage = 0 /\ Ocr!NoMessage = 0 /\ Cls!NoMessage = 0
    /\ (Ocr!NextStage = "classify") <=> ~Direct
    /\ Direct => Ocr!NextStage = DocumentRoute
    /\ Ocr!NextQueue = Downstream
  <1>1. Ocr!Domains = Domains /\ "classify" \notin Domains
    BY DEF Ocr!Domains, Domains, Cls!Domains
  <1>2. (Ocr!NextStage = "classify") <=> ~Direct
    BY <1>1 DEF Ocr!NextStage, Direct
  <1>3. Direct => Ocr!NextStage = DocumentRoute
    BY <1>1 DEF Ocr!NextStage, Direct
  <1> QED
    BY <1>1, <1>2, <1>3
    DEF Ocr!NextQueue, Downstream, Ext!NoMessage, Ocr!NoMessage, Cls!NoMessage

-----------------------------------------------------------------------------
(* The steps of the OCR worker.  What one handler does leaves the others   *)
(* as they are.                                                            *)
LEMMA OtherPollers ==
    ASSUME OcrPart, NEW w \in PollWorkers,
           \A v \in PollWorkers : v # w => poller'[v] = poller[v],
           \A id : HasSent(ocrQ, id) => HasSent(ocrQ', id),
           \A id : HasSent(Downstream, id) => HasSent(Downstream', id),
           textract' = textract, status' = "OCR" => status = "OCR",
           poll'.messageId \in Nat, poll.messageId <= poll'.messageId
    PROVE  \A v \in PollWorkers : v # w => PollHandler(v)'
  <1> SUFFICES ASSUME NEW v \in PollWorkers, v # w PROVE PollHandler(v)'
    OBVIOUS
  <1>1. /\ poller'[v] = poller[v] /\ PollHandler(v) /\ poll.messageId \in Nat
        /\ poller[v].message \in Nat
    BY DEF OcrPart, OcrTypes, Poller
  <1> QED
    BY <1>1 DEF PollHandler

(* A step of one handler.                                                  *)
LEMMA PollerStep ==
    ASSUME OcrPart, NEW w \in PollWorkers, NEW r \in Poller,
           poller' = [poller EXCEPT ![w] = r],
           UNCHANGED <<ingestQ, ingestor, job, textract>>,
           status' = "OCR" => status = "OCR",
           poll' \in [state : {"ENQUEUED"}, messageId : Nat],
           poll.messageId <= poll'.messageId,
           Holds(ocrQ', PollBody),
           \A id : HasSent(ocrQ, id) => HasSent(ocrQ', id),
           \A id : HasSent(Downstream, id) => HasSent(Downstream', id),
           PollHandler(w)', OcrKept', UsageCountedOnce'
    PROVE  OcrPart'
  <1>1. /\ poller' \in [PollWorkers -> Poller]
        /\ \A v \in PollWorkers : v # w => poller'[v] = poller[v]
    BY DEF OcrPart, OcrTypes
  <1>2. OcrTypes'
    BY <1>1 DEF OcrPart, OcrTypes, Holds, IdsBefore
  <1>3. Quiet'
    BY DEF OcrPart, Quiet
  <1>4. \A v \in PollWorkers : v # w => PollHandler(v)'
    BY <1>1, OtherPollers
  <1> QED
    BY <1>2, <1>3, <1>4 DEF OcrPart

(* A handler that writes neither the document nor a queue.                 *)
LEMMA PollerMoves ==
    ASSUME OcrPart, NEW w \in PollWorkers, NEW r \in Poller,
           poller' = [poller EXCEPT ![w] = r],
           UNCHANGED <<ingestQ, ingestor, job, textract, status, poll, ocrQ, classifyQ,
                       extractQ, usage>>,
           PollHandler(w)'
    PROVE  OcrPart'
  <1>1. /\ poll' \in [state : {"ENQUEUED"}, messageId : Nat]
        /\ poll.messageId <= poll'.messageId
        /\ Holds(ocrQ', PollBody)
    BY DEF OcrPart, OcrTypes, Holds, IdsBefore
  <1>2. /\ \A id : HasSent(ocrQ, id) => HasSent(ocrQ', id)
        /\ \A id : HasSent(Downstream, id) => HasSent(Downstream', id)
    BY DEF HasSent, Downstream
  <1>3. OcrKept' /\ UsageCountedOnce'
    BY DEF OcrPart, OcrKept, UsageCountedOnce, Ocr!UsageCountedOnce, HasSent, KeptFrom,
           Retained
  <1> QED
    BY <1>1, <1>2, <1>3, PollerStep

LEMMA IdlePoller == Ocr!IdleWorker \in Poller /\ Ocr!IdleWorker.pc = "idle"
  BY DEF Ocr!IdleWorker, Poller, Ocr!NoMessage, Ocr!NoJob

(* The record of a handler that goes to its next call.                     *)
LEMMA PollerGoto ==
    ASSUME OcrTypes, NEW w \in PollWorkers,
           NEW pc \in {"requeue", "fail", "store", "meter", "handoff", "complete", "reread",
                       "ack"},
           Ocr!PollGoto(w, pc)
    PROVE  \E r \in Poller :
              /\ poller' = [poller EXCEPT ![w] = r] /\ poller'[w] = r
              /\ r.pc = pc /\ r.message = poller[w].message /\ r.job = poller[w].job
              /\ r.sent = poller[w].sent
  <1> DEFINE r == [poller[w] EXCEPT !.pc = pc]
  <1>1. poller[w] \in Poller /\ poller' = [poller EXCEPT ![w] = r] /\ poller'[w] = r
    BY DEF OcrTypes, Ocr!PollGoto
  <1>2. r \in Poller /\ r.pc = pc /\ r.message = poller[w].message /\ r.job = poller[w].job
        /\ r.sent = poller[w].sent
    BY <1>1 DEF Poller
  <1> QED
    BY <1>1, <1>2

(* A handler that ends.                                                    *)
LEMMA PollerEnds ==
    ASSUME OcrPart, NEW w \in PollWorkers, Ocr!PollEnds(w),
           UNCHANGED <<ingestQ, ingestor, job, textract, status, poll, ocrQ, classifyQ,
                       extractQ, usage>>
    PROVE  OcrPart'
  <1>1. /\ poller' = [poller EXCEPT ![w] = Ocr!IdleWorker] /\ PollHandler(w)'
    BY IdlePoller DEF Ocr!PollEnds, PollHandler, OcrPart, OcrTypes
  <1> QED
    BY <1>1, IdlePoller, PollerMoves

(* A handler that goes on to a call that needs no more than it knows.      *)
LEMMA PollerGoesOn ==
    ASSUME OcrPart, NEW w \in PollWorkers, poller[w].pc # "idle",
           NEW pc \in {"requeue", "fail", "store", "meter", "handoff", "reread", "ack"},
           Ocr!PollGoto(w, pc),
           pc \in {"store", "meter"} => textract = "SUCCEEDED", pc = "ack" => status # "OCR",
           UNCHANGED <<ingestQ, ingestor, job, textract, status, poll, ocrQ, classifyQ,
                       extractQ, usage>>
    PROVE  OcrPart'
  <1>1. PICK r \in Poller :
              /\ poller' = [poller EXCEPT ![w] = r] /\ poller'[w] = r
              /\ r.pc = pc /\ r.message = poller[w].message /\ r.job = poller[w].job
              /\ r.sent = poller[w].sent
    BY PollerGoto DEF OcrPart
  <1>2. PollHandler(w)'
    BY <1>1 DEF PollHandler, OcrPart, HasSent
  <1> QED
    BY <1>1, <1>2, PollerMoves

-----------------------------------------------------------------------------
(* What the next stages see of a step of the OCR worker: nothing, a        *)
(* message more, or the end of OCR.                                        *)
OcrEffect ==
    \/ UNCHANGED <<status, handoff, classifyQ, extractQ>>
    \/ /\ ~Direct /\ classifyQ' = Sent(classifyQ, DocumentRoute)
       /\ UNCHANGED <<status, handoff, extractQ>>
    \/ /\ Direct
       /\ extractQ' = [extractQ EXCEPT ![DocumentRoute] = Sent(@, DocumentRoute)]
       /\ UNCHANGED <<status, handoff, classifyQ>>
    \/ /\ status = "OCR" /\ UNCHANGED <<classifyQ, extractQ>>
       /\ \/ status' = "OCR_FAILED" /\ UNCHANGED handoff
          \/ status' = "OCR_COMPLETED" /\ HasSent(Downstream, handoff')

(* A delivery of a poll message: what it finds was sent.                   *)
LEMMA ReceivePollKeeps ==
    ASSUME OcrPart, NEW w \in PollWorkers, NEW m \in ocrQ.messages, Ocr!ReceivePoll(w, m)
    PROVE  OcrPart' /\ OcrEffect
  <1> DEFINE next == Ocr!PollDecision(m)
             r == [pc |-> next, message |-> m.id, job |-> m.body.job,
                   attempt |-> m.body.attempt, sent |-> Ocr!NoMessage]
  <1>1. /\ CanDeliver(m) /\ ocrQ' = Delivered(ocrQ, m) /\ OcrTypes
        /\ UNCHANGED <<status, job, poll, handoff, ingestQ, textract, usage, classifyQ,
                       extractQ, ingestor>>
        /\ poller' = IF next = "idle" THEN poller ELSE [poller EXCEPT ![w] = r]
    BY SameQueue DEF Ocr!ReceivePoll, Ocr!document, OcrPart
  <1>2. /\ Holds(ocrQ', PollBody) /\ HasSent(ocrQ, m.id) /\ m.body \in PollBody
        /\ ocrQ'.next = ocrQ.next
        /\ \A id : HasSent(ocrQ, id) <=> HasSent(ocrQ', id)
        /\ \A first : KeptFrom(ocrQ, first) => KeptFrom(ocrQ', first)
    BY <1>1, DeliveredHolds DEF OcrTypes
  <1>3. next \in {"idle", "ack", "check"} /\ (next = "ack" => status # "OCR")
    <2>1. CASE ~Ocr!PollAccepts(m)
      BY <2>1 DEF Ocr!PollDecision
    <2>2. CASE Ocr!PollAccepts(m)
      BY <2>2 DEF Ocr!PollDecision, Ocr!HandoffConfirmed
    <2> QED
      BY <2>1, <2>2
  <1>4. /\ r \in Poller /\ r.pc = next /\ r.message = m.id /\ r.job = Token
    BY <1>2, <1>3, NextStageRoute DEF Poller, PollBody, HasSent
  <1> HIDE DEF next, r
  <1>5. PICK new \in Poller : /\ poller' = [poller EXCEPT ![w] = new] /\ poller'[w] = new
                              /\ new = poller[w] \/ new = r
    BY <1>1, <1>4 DEF OcrTypes
  <1>6. PollHandler(w)'
    BY <1>1, <1>2, <1>3, <1>4, <1>5 DEF PollHandler, OcrPart, Downstream
  <1>7. /\ poll' \in [state : {"ENQUEUED"}, messageId : Nat]
        /\ poll.messageId <= poll'.messageId
    BY <1>1 DEF OcrTypes
  <1>8. \A id : HasSent(Downstream, id) => HasSent(Downstream', id)
    BY <1>1 DEF Downstream
  <1>9. OcrKept' /\ UsageCountedOnce'
    BY <1>1, <1>2 DEF OcrPart, OcrKept, UsageCountedOnce, Ocr!UsageCountedOnce
  <1>10. OcrPart'
    BY <1>1, <1>2, <1>5, <1>6, <1>7, <1>8, <1>9, PollerStep
  <1> QED
    BY <1>1, <1>10 DEF OcrEffect

(* The replacement of a poll message.                                      *)
LEMMA RequeuePollKeeps ==
    ASSUME OcrPart, NEW w \in PollWorkers, Ocr!RequeuePoll(w)
    PROVE  OcrPart' /\ OcrEffect
  <1> DEFINE b == [job |-> poller[w].job, attempt |-> poller[w].attempt + 1]
             r == [poller[w] EXCEPT !.pc = "rebind", !.sent = ocrQ.next]
  <1>1. /\ OcrTypes /\ PollHandler(w) /\ poller[w].pc = "requeue" /\ poller[w] \in Poller
        /\ ocrQ' = Sent(ocrQ, b)
        /\ UNCHANGED <<status, job, poll, handoff, ingestQ, textract, usage, classifyQ,
                       extractQ, ingestor>>
        /\ poller' = [poller EXCEPT ![w] = r] /\ poller'[w] = r
    BY SameQueue DEF Ocr!RequeuePoll, Ocr!document, OcrPart, OcrTypes
  <1>2. b \in PollBody /\ HasSent(ocrQ, poller[w].message) /\ poller[w].job = Token
    BY <1>1 DEF PollHandler, PollBody, Poller
  <1> HIDE DEF b
  <1>3. /\ Holds(ocrQ', PollBody) /\ ocrQ.next \in Nat /\ HasSent(ocrQ', ocrQ.next)
        /\ \A id : HasSent(ocrQ, id) => HasSent(ocrQ', id)
        /\ \A first \in Nat : KeptFrom(ocrQ, first) => KeptFrom(ocrQ', first)
    BY <1>1, <1>2, SentHolds DEF OcrTypes
  <1>4. /\ r \in Poller /\ r.pc = "rebind" /\ r.message = poller[w].message
        /\ r.job = Token /\ r.sent = ocrQ.next
    BY <1>1, <1>2, <1>3 DEF Poller
  <1> HIDE DEF r
  <1>5. PollHandler(w)'
    BY <1>1, <1>2, <1>3, <1>4 DEF PollHandler, HasSent
  <1>6. /\ poll' \in [state : {"ENQUEUED"}, messageId : Nat] /\ poll.messageId \in Nat
        /\ poll.messageId <= poll'.messageId
    BY <1>1 DEF OcrTypes
  <1>7. \A id : HasSent(Downstream, id) => HasSent(Downstream', id)
    BY <1>1 DEF Downstream
  <1>8. OcrKept' /\ UsageCountedOnce'
    BY <1>1, <1>3, <1>6 DEF OcrPart, OcrKept, UsageCountedOnce, Ocr!UsageCountedOnce
  <1>9. OcrPart'
    BY <1>1, <1>3, <1>4, <1>5, <1>6, <1>7, <1>8, PollerStep
  <1> QED
    BY <1>1, <1>9 DEF OcrEffect

(* The checkpoint moves on to the replacement.                             *)
LEMMA RebindPollKeeps ==
    ASSUME OcrPart, NEW w \in PollWorkers, Ocr!RebindPoll(w)
    PROVE  OcrPart' /\ OcrEffect
  <1>1. /\ OcrTypes /\ PollHandler(w) /\ poller[w].pc = "rebind" /\ poller[w] \in Poller
        /\ UNCHANGED <<status, job, handoff, ingestQ, ocrQ, textract, usage, classifyQ,
                       extractQ, ingestor>>
    BY DEF Ocr!RebindPoll, OcrPart, OcrTypes
  <1>2. CASE UNCHANGED poll /\ Ocr!PollEnds(w)
    BY <1>1, <1>2, PollerEnds DEF OcrEffect
  <1>3. CASE /\ poll.messageId = poller[w].message
             /\ poll' = [poll EXCEPT !.messageId = poller[w].sent]
             /\ Ocr!PollGoto(w, "ack")
    <2>1. PICK r \in Poller :
              /\ poller' = [poller EXCEPT ![w] = r] /\ poller'[w] = r
              /\ r.pc = "ack" /\ r.message = poller[w].message /\ r.job = poller[w].job
              /\ r.sent = poller[w].sent
      BY <1>1, <1>3, PollerGoto
    <2>2. /\ poller[w].message < poller[w].sent /\ HasSent(ocrQ, poller[w].sent)
          /\ HasSent(ocrQ, poller[w].message) /\ poller[w].job = Token
      BY <1>1 DEF PollHandler
    <2>3. /\ poll' \in [state : {"ENQUEUED"}, messageId : Nat]
          /\ poll'.messageId = poller[w].sent /\ poll.messageId < poll'.messageId
          /\ poll.messageId \in Nat /\ poll'.messageId \in Nat
      BY <1>1, <1>3, <2>2 DEF OcrTypes, HasSent
    <2>4. PollHandler(w)'
      BY <1>1, <1>3, <2>1, <2>2, <2>3 DEF PollHandler
    <2>5. KeptFrom(ocrQ, poll.messageId) => KeptFrom(ocrQ, poll'.messageId)
      BY <2>3 DEF KeptFrom
    <2>6. OcrKept' /\ UsageCountedOnce'
      BY <1>1, <2>2, <2>3, <2>5 DEF OcrPart, OcrKept, UsageCountedOnce, Ocr!UsageCountedOnce
    <2>7. /\ Holds(ocrQ', PollBody) /\ poll.messageId <= poll'.messageId
          /\ \A id : HasSent(ocrQ, id) => HasSent(ocrQ', id)
          /\ \A id : HasSent(Downstream, id) => HasSent(Downstream', id)
      BY <1>1, <2>3 DEF OcrTypes, Downstream
    <2>8. OcrPart'
      BY <1>1, <2>1, <2>3, <2>4, <2>6, <2>7, PollerStep
    <2> QED
      BY <1>1, <2>8 DEF OcrEffect
  <1> QED
    BY <1>2, <1>3 DEF Ocr!RebindPoll

(* A message is deleted when the checkpoint has left it behind, or after   *)
(* OCR.                                                                    *)
LEMMA AckPollKeeps ==
    ASSUME OcrPart, NEW w \in PollWorkers, Ocr!AckPoll(w)
    PROVE  OcrPart' /\ OcrEffect
  <1>1. /\ OcrTypes /\ PollHandler(w) /\ poller[w].pc = "ack" /\ poller[w] \in Poller
        /\ ocrQ' = Deleted(ocrQ, poller[w].message)
        /\ UNCHANGED <<status, job, poll, handoff, ingestQ, textract, usage, classifyQ,
                       extractQ, ingestor>>
        /\ poller' = [poller EXCEPT ![w] = Ocr!IdleWorker]
        /\ poller'[w] = Ocr!IdleWorker
    BY SameQueue DEF Ocr!AckPoll, Ocr!document, Ocr!PollEnds, OcrPart, OcrTypes
  <1>2. /\ Holds(ocrQ', PollBody)
        /\ \A id : HasSent(ocrQ, id) <=> HasSent(ocrQ', id)
        /\ \A first \in Nat : poller[w].message \in Nat /\ poller[w].message < first
                /\ KeptFrom(ocrQ, first) => KeptFrom(ocrQ', first)
    BY <1>1, DeletedHolds DEF OcrTypes
  <1>3. PollHandler(w)'
    BY <1>1, IdlePoller DEF PollHandler
  <1>4. /\ poll' \in [state : {"ENQUEUED"}, messageId : Nat] /\ poll.messageId \in Nat
        /\ poll.messageId <= poll'.messageId /\ poller[w].message \in Nat
    BY <1>1 DEF OcrTypes, Poller
  <1>5. status = "OCR" => poller[w].message < poll.messageId
    BY <1>1 DEF PollHandler
  <1>6. OcrKept' /\ UsageCountedOnce'
    BY <1>1, <1>2, <1>4, <1>5
    DEF OcrPart, OcrKept, UsageCountedOnce, Ocr!UsageCountedOnce
  <1>7. \A id : HasSent(Downstream, id) => HasSent(Downstream', id)
    BY <1>1 DEF Downstream
  <1>8. OcrPart'
    BY <1>1, <1>2, <1>3, <1>4, <1>6, <1>7, IdlePoller, PollerStep
  <1> QED
    BY <1>1, <1>8 DEF OcrEffect

(* OCR ends: nothing of the poll is awaited any more.                      *)
LEMMA OcrEnds ==
    ASSUME OcrPart, NEW w \in PollWorkers, poller[w].pc # "idle",
           Ocr!PollGoto(w, "ack"), status' # "OCR",
           UNCHANGED <<job, poll, ingestQ, ocrQ, textract, usage, classifyQ, extractQ,
                       ingestor>>
    PROVE  OcrPart'
  <1>1. PICK r \in Poller :
              /\ poller' = [poller EXCEPT ![w] = r] /\ poller'[w] = r
              /\ r.pc = "ack" /\ r.message = poller[w].message /\ r.job = poller[w].job
              /\ r.sent = poller[w].sent
    BY PollerGoto DEF OcrPart
  <1>2. PollHandler(w)'
    BY <1>1 DEF PollHandler, OcrPart, HasSent
  <1>3. /\ poll' \in [state : {"ENQUEUED"}, messageId : Nat]
        /\ poll.messageId <= poll'.messageId
        /\ Holds(ocrQ', PollBody)
    BY DEF OcrPart, OcrTypes, Holds, IdsBefore
  <1>4. /\ \A id : HasSent(ocrQ, id) => HasSent(ocrQ', id)
        /\ \A id : HasSent(Downstream, id) => HasSent(Downstream', id)
    BY DEF HasSent, Downstream
  <1>5. OcrKept' /\ UsageCountedOnce'
    BY DEF OcrPart, OcrKept, UsageCountedOnce, Ocr!UsageCountedOnce, HasSent
  <1> QED
    BY <1>1, <1>2, <1>3, <1>4, <1>5, PollerStep

LEMMA MarkOcrFailedKeeps ==
    ASSUME OcrPart, NEW w \in PollWorkers, Ocr!MarkOcrFailed(w)
    PROVE  OcrPart' /\ OcrEffect
  <1>1. /\ poller[w].pc # "idle"
        /\ UNCHANGED <<job, poll, handoff, ingestQ, ocrQ, textract, usage, classifyQ,
                       extractQ, ingestor>>
    BY DEF Ocr!MarkOcrFailed
  <1>2. CASE status = "OCR" /\ status' = "OCR_FAILED" /\ Ocr!PollGoto(w, "ack")
    BY <1>1, <1>2, OcrEnds DEF OcrEffect
  <1>3. CASE UNCHANGED status /\ Ocr!PollEnds(w)
    BY <1>1, <1>3, PollerEnds DEF OcrEffect
  <1> QED
    BY <1>2, <1>3 DEF Ocr!MarkOcrFailed

LEMMA CompleteOcrKeeps ==
    ASSUME OcrPart, NEW w \in PollWorkers, Ocr!CompleteOcr(w)
    PROVE  OcrPart' /\ OcrEffect
  <1>1. /\ poller[w].pc = "complete"
        /\ UNCHANGED <<job, poll, ingestQ, ocrQ, textract, usage, classifyQ, extractQ,
                       ingestor>>
    BY DEF Ocr!CompleteOcr
  <1>2. HasSent(Downstream, poller[w].sent)
    BY <1>1 DEF OcrPart, PollHandler
  <1>3. CASE /\ status = "OCR" /\ status' = "OCR_COMPLETED"
             /\ handoff' = poller[w].sent /\ Ocr!PollGoto(w, "ack")
    <2>1. HasSent(Downstream, handoff')
      BY <1>2, <1>3
    <2> QED
      BY <1>1, <1>3, <2>1, OcrEnds DEF OcrEffect
  <1>4. CASE UNCHANGED <<status, handoff>> /\ Ocr!PollGoto(w, "reread")
    <2>1. PICK pc \in {"reread"} : Ocr!PollGoto(w, pc)
      BY <1>4
    <2> QED
      BY <1>1, <1>4, <2>1, PollerGoesOn DEF OcrEffect
  <1> QED
    BY <1>3, <1>4 DEF Ocr!CompleteOcr, Ocr!MayFinish

(* The message to the next stage.                                          *)
LEMMA SendDownstreamKeeps ==
    ASSUME OcrPart, ClassifierTypes, ExtractorTypes,
           NEW w \in PollWorkers, Ocr!SendDownstream(w)
    PROVE  OcrPart' /\ OcrEffect
  <1> DEFINE r == [poller[w] EXCEPT !.pc = "complete", !.sent = Downstream.next]
  <1>1. /\ OcrTypes /\ PollHandler(w) /\ poller[w].pc = "handoff" /\ poller[w] \in Poller
        /\ UNCHANGED <<status, job, poll, handoff, ingestQ, ocrQ, textract, usage, ingestor>>
        /\ poller' = [poller EXCEPT ![w] = r] /\ poller'[w] = r
    BY NextStageRoute DEF Ocr!SendDownstream, Ocr!document, OcrPart, OcrTypes
  <1>2. /\ ~Direct => classifyQ' = Sent(classifyQ, DocumentRoute) /\ UNCHANGED extractQ
        /\ Direct => /\ extractQ' = [extractQ EXCEPT ![DocumentRoute] =
                                         Sent(@, DocumentRoute)]
                     /\ UNCHANGED classifyQ
    BY NextStageRoute, SameQueue DEF Ocr!SendDownstream
  <1>3. PICK Body : Holds(Downstream, Body) /\ DocumentRoute \in Body
                    /\ Downstream' = Sent(Downstream, DocumentRoute)
    BY <1>2 DEF Downstream, Direct, ClassifierTypes, ExtractorTypes, Holds
  <1>4. /\ Downstream.next \in Nat /\ HasSent(Downstream', Downstream.next)
        /\ \A id : HasSent(Downstream, id) => HasSent(Downstream', id)
    BY <1>3, SentHolds
  <1>5. /\ r \in Poller /\ r.pc = "complete" /\ r.message = poller[w].message
        /\ r.job = poller[w].job /\ r.sent = Downstream.next
    BY <1>1, <1>4 DEF Poller
  <1> HIDE DEF r
  <1>6. PollHandler(w)'
    BY <1>1, <1>4, <1>5 DEF PollHandler
  <1>7. /\ poll' \in [state : {"ENQUEUED"}, messageId : Nat]
        /\ poll.messageId <= poll'.messageId
        /\ Holds(ocrQ', PollBody)
        /\ \A id : HasSent(ocrQ, id) => HasSent(ocrQ', id)
    BY <1>1 DEF OcrTypes
  <1>8. OcrKept' /\ UsageCountedOnce'
    BY <1>1 DEF OcrPart, OcrKept, UsageCountedOnce, Ocr!UsageCountedOnce
  <1>9. OcrPart'
    BY <1>1, <1>4, <1>5, <1>6, <1>7, <1>8, PollerStep
  <1> QED
    BY <1>1, <1>2, <1>9 DEF OcrEffect

(* One event, and the pages with it, for OCR that succeeded.               *)
LEMMA MeterUsageKeeps ==
    ASSUME OcrPart, NEW w \in PollWorkers, Ocr!MeterUsage(w)
    PROVE  OcrPart' /\ OcrEffect
  <1>1. /\ OcrTypes /\ poller[w].pc = "meter" /\ textract = "SUCCEEDED"
        /\ usage' \in {Ocr!Metered, usage} /\ Ocr!PollGoto(w, "handoff")
        /\ UNCHANGED <<status, job, poll, handoff, ingestQ, ocrQ, textract, classifyQ,
                       extractQ, ingestor>>
    BY DEF Ocr!MeterUsage, Ocr!document, OcrPart, PollHandler
  <1>2. PICK pc \in {"handoff"} : Ocr!PollGoto(w, pc)
    BY <1>1
  <1>3. PICK r \in Poller :
              /\ poller' = [poller EXCEPT ![w] = r] /\ poller'[w] = r
              /\ r.pc = pc /\ r.message = poller[w].message /\ r.job = poller[w].job
              /\ r.sent = poller[w].sent
    BY <1>1, <1>2, PollerGoto
  <1>4. PollHandler(w)'
    BY <1>1, <1>3 DEF PollHandler, OcrPart, HasSent
  <1>5. UsageCountedOnce'
    BY <1>1 DEF Ocr!Metered, OcrPart, UsageCountedOnce, Ocr!UsageCountedOnce
  <1>6. /\ poll' \in [state : {"ENQUEUED"}, messageId : Nat]
        /\ poll.messageId <= poll'.messageId
        /\ Holds(ocrQ', PollBody)
        /\ \A id : HasSent(ocrQ, id) => HasSent(ocrQ', id)
        /\ \A id : HasSent(Downstream, id) => HasSent(Downstream', id)
    BY <1>1 DEF OcrTypes, Downstream
  <1>7. OcrKept'
    BY <1>1 DEF OcrPart, OcrKept
  <1>8. OcrPart'
    BY <1>1, <1>3, <1>4, <1>5, <1>6, <1>7, PollerStep
  <1> QED
    BY <1>1, <1>8 DEF OcrEffect

(* The calls that change the handler alone.                                *)
LEMMA PollerRestKeeps ==
    ASSUME OcrPart, NEW w \in PollWorkers,
           Ocr!CheckTextract(w) \/ Ocr!StoreArtifact(w) \/ Ocr!RereadDocument(w)
             \/ Ocr!PollFails(w)
    PROVE  OcrPart' /\ OcrEffect
  <1>1. /\ poller[w].pc # "idle"
        /\ UNCHANGED <<ingestQ, ingestor, job, textract, status, poll, ocrQ, classifyQ,
                       extractQ, usage, handoff>>
    BY DEF Ocr!CheckTextract, Ocr!StoreArtifact, Ocr!RereadDocument, Ocr!PollFails,
           Ocr!document
  <1>2. CASE Ocr!PollEnds(w)
    BY <1>1, <1>2, PollerEnds DEF OcrEffect
  <1>3. ASSUME NEW pc \in {"requeue", "fail", "store", "meter", "handoff", "reread", "ack"},
               Ocr!PollGoto(w, pc),
               pc \in {"store", "meter"} => textract = "SUCCEEDED",
               pc = "ack" => status # "OCR"
        PROVE  OcrPart' /\ OcrEffect
    BY <1>1, <1>3, PollerGoesOn DEF OcrEffect
  <1>4. CASE Ocr!CheckTextract(w)
    BY <1>3, <1>4 DEF Ocr!CheckTextract
  <1>5. CASE Ocr!StoreArtifact(w)
    <2>1. textract = "SUCCEEDED"
      BY <1>5 DEF Ocr!StoreArtifact, OcrPart, PollHandler
    <2> QED
      BY <1>3, <1>5, <2>1 DEF Ocr!StoreArtifact
  <1>6. CASE Ocr!RereadDocument(w)
    BY <1>2, <1>3, <1>6 DEF Ocr!RereadDocument, Ocr!HandoffConfirmed
  <1> QED
    BY <1>2, <1>4, <1>5, <1>6 DEF Ocr!PollFails

(* Textract ends: what the handlers saw of it they saw after.              *)
LEMMA TextractEndsKeeps ==
    ASSUME OcrPart, Ocr!TextractEnds
    PROVE  OcrPart' /\ OcrEffect
  <1>1. /\ textract = "IN_PROGRESS" /\ textract' \in {"SUCCEEDED", "FAILED"}
        /\ UNCHANGED <<ingestQ, ingestor, job, status, poll, ocrQ, classifyQ, extractQ, usage,
                       handoff, poller>>
    BY DEF Ocr!TextractEnds, Ocr!document
  <1>2. Quiet' /\ OcrTypes' /\ OcrKept' /\ UsageCountedOnce'
    BY <1>1 DEF OcrPart, Quiet, OcrTypes, OcrKept, UsageCountedOnce, Ocr!UsageCountedOnce
  <1>3. \A w \in PollWorkers : PollHandler(w)'
    BY <1>1 DEF OcrPart, PollHandler, Downstream
  <1> QED
    BY <1>1, <1>2, <1>3 DEF OcrPart, OcrEffect

(* Every step of the OCR worker.                                           *)
LEMMA OcrNextKeeps ==
    ASSUME OcrPart, ClassifierTypes, ExtractorTypes, Ocr!Next
    PROVE  OcrPart' /\ OcrEffect
  <1>1. ASSUME NEW w \in IngestWorkers, Ocr!IngestStep(w) \/ Ocr!IngestFails(w) PROVE FALSE
    BY <1>1 DEF OcrPart, Quiet, Ocr!IngestStep, Ocr!IngestFails, Ocr!StartTextract,
       Ocr!RecordJob, Ocr!SendPoll, Ocr!MarkPoll, Ocr!AckIngest
  <1>2. ASSUME NEW w \in PollWorkers, Ocr!PollStep(w) \/ Ocr!PollFails(w)
        PROVE  OcrPart' /\ OcrEffect
    BY <1>2, ReceivePollKeeps, RequeuePollKeeps, RebindPollKeeps, AckPollKeeps,
       MarkOcrFailedKeeps, CompleteOcrKeeps, SendDownstreamKeeps, MeterUsageKeeps,
       PollerRestKeeps DEF Ocr!PollStep
  <1> QED
    BY <1>1, <1>2, TextractEndsKeeps DEF Ocr!Next, Ocr!Workers

(* What a step of another worker does to the OCR worker's part.            *)
LEMMA OcrFrame ==
    ASSUME OcrPart, UNCHANGED ocrWorkerVars, status' = "OCR" => status = "OCR",
           \A id : HasSent(Downstream, id) => HasSent(Downstream', id)
    PROVE  OcrPart'
  <1>1. UNCHANGED <<ingestQ, ingestor, job, textract, poll, ocrQ, usage, poller>>
    BY DEF ocrWorkerVars
  <1>2. Quiet' /\ OcrTypes' /\ OcrKept' /\ UsageCountedOnce'
    BY <1>1 DEF OcrPart, Quiet, OcrTypes, OcrKept, UsageCountedOnce, Ocr!UsageCountedOnce
  <1>3. \A w \in PollWorkers : PollHandler(w)'
    BY <1>1 DEF OcrPart, PollHandler
  <1> QED
    BY <1>2, <1>3 DEF OcrPart

-----------------------------------------------------------------------------
(* One extract queue gets a message, has one delivered or loses one: what  *)
(* the others need of the queues is kept.                                  *)
ExtractQueues ==
    /\ extractQ' \in [Domains -> Queue(Domains)]
    /\ \A d \in Domains : IdsBefore(extractQ'[d])
    /\ \A d \in Domains : \A id : HasSent(extractQ[d], id) => HasSent(extractQ'[d], id)

LEMMA ExtractSame == ASSUME ExtractorTypes, UNCHANGED extractQ PROVE ExtractQueues
  BY DEF ExtractorTypes, ExtractQueues

LEMMA ExtractSent ==
    ASSUME ExtractorTypes, NEW d \in Domains,
           extractQ' = [extractQ EXCEPT ![d] = Sent(@, d)]
    PROVE  /\ ExtractQueues
           /\ HasSent(extractQ'[d], extractQ[d].next) /\ extractQ[d].next \in Nat
           /\ \A c \in Domains : KeptFrom(extractQ[c], 1) => KeptFrom(extractQ'[c], 1)
  <1>1. Holds(extractQ[d], Domains)
    BY DEF ExtractorTypes, Holds
  <1>2. /\ Holds(Sent(extractQ[d], d), Domains) /\ extractQ[d].next \in Nat
        /\ HasSent(Sent(extractQ[d], d), extractQ[d].next)
        /\ \A id : HasSent(extractQ[d], id) => HasSent(Sent(extractQ[d], d), id)
        /\ KeptFrom(extractQ[d], 1) => KeptFrom(Sent(extractQ[d], d), 1)
    BY <1>1, SentHolds
  <1>3. /\ extractQ'[d] = Sent(extractQ[d], d)
        /\ \A c \in Domains : c # d => extractQ'[c] = extractQ[c]
    BY DEF ExtractorTypes
  <1> QED
    BY <1>2, <1>3 DEF ExtractorTypes, ExtractQueues, Holds

LEMMA ExtractDelivered ==
    ASSUME ExtractorTypes, NEW m \in extractQ[Domain].messages, CanDeliver(m),
           extractQ' = [extractQ EXCEPT ![Domain] = Delivered(@, m)]
    PROVE  /\ ExtractQueues /\ m.id \in Nat /\ m.received \in Nat
           /\ \A c \in Domains : KeptFrom(extractQ[c], 1) => KeptFrom(extractQ'[c], 1)
  <1>1. Holds(extractQ[Domain], Domains) /\ Domain \in Domains
    BY WorkerAssumption DEF ExtractorTypes, Holds, Domains
  <1>2. /\ Holds(Delivered(extractQ[Domain], m), Domains)
        /\ HasSent(extractQ[Domain], m.id) /\ m.received \in Nat
        /\ \A id : HasSent(extractQ[Domain], id) => HasSent(Delivered(extractQ[Domain], m), id)
        /\ KeptFrom(extractQ[Domain], 1) => KeptFrom(Delivered(extractQ[Domain], m), 1)
    BY <1>1, DeliveredHolds
  <1>3. /\ extractQ'[Domain] = Delivered(extractQ[Domain], m)
        /\ \A c \in Domains : c # Domain => extractQ'[c] = extractQ[c]
    BY <1>1 DEF ExtractorTypes
  <1> QED
    BY <1>1, <1>2, <1>3 DEF ExtractorTypes, ExtractQueues, Holds, HasSent

LEMMA ExtractDeleted ==
    ASSUME ExtractorTypes, NEW id,
           extractQ' = [extractQ EXCEPT ![Domain] = Deleted(@, id)]
    PROVE  /\ ExtractQueues
           /\ \A c \in Domains : c # Domain => extractQ'[c] = extractQ[c]
  <1>1. Holds(extractQ[Domain], Domains) /\ Domain \in Domains
    BY WorkerAssumption DEF ExtractorTypes, Holds, Domains
  <1>2. /\ Holds(Deleted(extractQ[Domain], id), Domains)
        /\ \A i : HasSent(extractQ[Domain], i) <=> HasSent(Deleted(extractQ[Domain], id), i)
    BY <1>1, DeletedHolds
  <1>3. /\ extractQ'[Domain] = Deleted(extractQ[Domain], id)
        /\ \A c \in Domains : c # Domain => extractQ'[c] = extractQ[c]
    BY <1>1 DEF ExtractorTypes
  <1> QED
    BY <1>1, <1>2, <1>3 DEF ExtractorTypes, ExtractQueues, Holds

-----------------------------------------------------------------------------
(* What the classifier's part needs of the others' steps.                  *)
LEMMA ClassifierFrame ==
    ASSUME ClassifierPart, UNCHANGED classifierVars,
           Holds(classifyQ', {DocumentRoute}),
           status \in Handed => status' \in Handed,
           ~Direct => \A d \in Domains : \A id :
                          HasSent(extractQ[d], id) => HasSent(extractQ'[d], id),
           ClassifierRow'
    PROVE  ClassifierPart'
  <1>1. UNCHANGED <<domain, classification, classifier>>
    BY DEF classifierVars
  <1>2. ClassifierTypes'
    BY <1>1 DEF ClassifierPart, ClassifierTypes
  <1>3. \A c \in Classifiers : ClassifierHandler(c)'
    BY <1>1 DEF ClassifierPart, ClassifierHandler
  <1> QED
    BY <1>2, <1>3 DEF ClassifierPart

(* What the domain worker's part needs of the others' steps.               *)
LEMMA ExtractorFrame ==
    ASSUME ExtractorPart, UNCHANGED extractorVars, ExtractQueues,
           \A d \in Domains : KeptFrom(extractQ[d], 1) => KeptFrom(extractQ'[d], 1),
           \/ status' = status
           \/ {status, status'} \cap (Done \cup {"EXTRACTING"}) = {}
           \/ status \in Done /\ status' \in Ext!Terminal /\ validateQ.next > 1
    PROVE  ExtractorPart'
  <1>1. UNCHANGED <<stage, object, validateQ, extractor>>
    BY DEF extractorVars
  <1>2. ExtractorTypes'
    BY <1>1 DEF ExtractorPart, ExtractorTypes, ExtractQueues
  <1>3. ExtractorRow'
    BY <1>1 DEF ExtractorPart, ExtractorRow, Done, Ext!Terminal
  <1>4. \A e \in Extractors : ExtractorHandler(e)'
    BY <1>1 DEF ExtractorPart, ExtractorHandler, Done, Ext!Terminal
  <1> QED
    BY <1>2, <1>3, <1>4 DEF ExtractorPart

(* A step of the OCR worker keeps the parts of the next stages.            *)
LEMMA OcrEffectKeeps ==
    ASSUME ClassifierPart, ExtractorPart, Handoff, OcrEffect,
           UNCHANGED <<classifierVars, extractorVars>>
    PROVE  ClassifierPart' /\ ExtractorPart' /\ Handoff'
  <1> USE DEF ClassifierPart, ExtractorPart
  <1>1. /\ ClassifierTypes /\ ExtractorTypes
        /\ UNCHANGED <<domain, classification>>
    BY DEF classifierVars
  <1>2. CASE UNCHANGED <<classifyQ, extractQ>>
    <2>1. Holds(classifyQ', {DocumentRoute}) /\ ExtractQueues
      BY <1>1, <1>2, ExtractSame DEF ClassifierTypes
    <2>2. /\ status \in Handed => status' \in Handed
          /\ \/ status' = status
             \/ {status, status'} \cap (Done \cup {"EXTRACTING"}) = {}
      BY <1>2 DEF OcrEffect, Handed, Done, Handoff
    <2>3. ClassifierRow'
      BY <1>1, <1>2 DEF OcrEffect, ClassifierRow, Handed
    <2>4. Handoff'
      BY <1>2 DEF OcrEffect, Handoff, Downstream, Statuses
    <2> QED
      BY <1>2, <2>1, <2>2, <2>3, <2>4, ClassifierFrame, ExtractorFrame
  <1>3. CASE /\ ~Direct /\ classifyQ' = Sent(classifyQ, DocumentRoute)
             /\ UNCHANGED <<status, handoff, extractQ>>
    <2>1. /\ Holds(classifyQ', {DocumentRoute}) /\ ExtractQueues
          /\ \A id : HasSent(classifyQ, id) => HasSent(classifyQ', id)
          /\ KeptFrom(classifyQ, 1) => KeptFrom(classifyQ', 1)
      BY <1>1, <1>3, SentHolds, ExtractSame DEF ClassifierTypes
    <2>2. ClassifierRow'
      BY <1>1, <1>3, <2>1 DEF ClassifierRow
    <2>3. Handoff'
      BY <1>3, <2>1 DEF Handoff, Downstream
    <2> QED
      BY <1>3, <2>1, <2>2, <2>3, ClassifierFrame, ExtractorFrame
  <1>4. CASE /\ Direct
             /\ extractQ' = [extractQ EXCEPT ![DocumentRoute] = Sent(@, DocumentRoute)]
             /\ UNCHANGED <<status, handoff, classifyQ>>
    <2>1. /\ ExtractQueues /\ Holds(classifyQ', {DocumentRoute})
          /\ \A d \in Domains : KeptFrom(extractQ[d], 1) => KeptFrom(extractQ'[d], 1)
      BY <1>1, <1>4, ExtractSent DEF Direct, ClassifierTypes
    <2>2. ClassifierRow'
      BY <1>1, <1>4 DEF ClassifierRow
    <2>3. Handoff'
      BY <1>4, <2>1 DEF Handoff, Downstream, ExtractQueues, Direct
    <2> QED
      BY <1>4, <2>1, <2>2, <2>3, ClassifierFrame, ExtractorFrame
  <1> QED
    BY <1>2, <1>3, <1>4 DEF OcrEffect

-----------------------------------------------------------------------------
(* The steps of the classifier, and what the others see of them.           *)
ClassifierEffect ==
    /\ ExtractQueues
    /\ \A d \in Domains : KeptFrom(extractQ[d], 1) => KeptFrom(extractQ'[d], 1)
    /\ \A id : HasSent(classifyQ, id) => HasSent(classifyQ', id)
    /\ \/ UNCHANGED <<status, domain>>
       \/ /\ status = "OCR_COMPLETED" /\ domain = Cls!NoDomain
          /\ status' = "CLASSIFY_PENDING" /\ domain' \in Domains
       \/ status = "CLASSIFY_PENDING" /\ status' = "CLASSIFY_COMPLETED" /\ UNCHANGED domain

LEMMA ClassifierStepKeeps ==
    ASSUME ClassifierPart, NEW c \in Classifiers, NEW r \in ClassifierRecord,
           classifier' = [classifier EXCEPT ![c] = r],
           domain' \in Domains \cup {Cls!NoDomain},
           classification' \in [enqueuedTo : Domains \cup {Cls!NoDomain}, messageId : Nat],
           Holds(classifyQ', {DocumentRoute}),
           status \in Handed => status' \in Handed,
           \A d \in Domains : \A id : HasSent(extractQ[d], id) => HasSent(extractQ'[d], id),
           ClassifierHandler(c)', ClassifierRow'
    PROVE  ClassifierPart'
  <1>1. /\ classifier' \in [Classifiers -> ClassifierRecord]
        /\ \A v \in Classifiers : v # c => classifier'[v] = classifier[v]
    BY DEF ClassifierPart, ClassifierTypes
  <1>2. ClassifierTypes'
    BY <1>1 DEF ClassifierPart, ClassifierTypes
  <1>3. \A v \in Classifiers : v # c => ClassifierHandler(v)'
    BY <1>1 DEF ClassifierPart, ClassifierHandler
  <1> QED
    BY <1>2, <1>3 DEF ClassifierPart

LEMMA IdleClassifierType ==
    Cls!IdleClassifier \in ClassifierRecord /\ Cls!IdleClassifier.pc = "idle"
  BY NextStageRoute DEF Cls!IdleClassifier, ClassifierRecord

(* A handler ends, or goes on knowing as much as before.                   *)
LEMMA ClassifierMoves ==
    ASSUME ClassifierPart, ExtractorTypes, NEW c \in Classifiers,
           NEW r \in ClassifierRecord, classifier' = [classifier EXCEPT ![c] = r],
           UNCHANGED <<status, domain, classification, classifyQ, extractQ>>,
           ClassifierHandler(c)'
    PROVE  ClassifierPart' /\ ClassifierEffect
  <1>1. /\ domain' \in Domains \cup {Cls!NoDomain}
        /\ classification' \in [enqueuedTo : Domains \cup {Cls!NoDomain}, messageId : Nat]
        /\ Holds(classifyQ', {DocumentRoute})
        /\ ClassifierRow'
    BY DEF ClassifierPart, ClassifierTypes, ClassifierRow
  <1>2. ClassifierPart'
    BY <1>1, ClassifierStepKeeps
  <1> QED
    BY <1>2, ExtractSame DEF ClassifierEffect

LEMMA ClassifierEnds ==
    ASSUME ClassifierPart, ExtractorTypes, NEW c \in Classifiers, Cls!Ends(c),
           UNCHANGED <<status, domain, classification, classifyQ, extractQ>>
    PROVE  ClassifierPart' /\ ClassifierEffect
  <1>1. classifier' = [classifier EXCEPT ![c] = Cls!IdleClassifier] /\ ClassifierHandler(c)'
    BY IdleClassifierType
    DEF Cls!Ends, ClassifierHandler, ClassifierPart, ClassifierTypes
  <1> QED
    BY <1>1, IdleClassifierType, ClassifierMoves

(* The record of a handler that goes to its next call.                     *)
LEMMA ClassifierGoto ==
    ASSUME ClassifierTypes, NEW c \in Classifiers, NEW pc \in {"send", "ack"}, Cls!Goto(c, pc)
    PROVE  \E r \in ClassifierRecord :
              /\ classifier' = [classifier EXCEPT ![c] = r] /\ classifier'[c] = r
              /\ r.pc = pc /\ r.route = classifier[c].route
  <1> DEFINE r == [classifier[c] EXCEPT !.pc = pc]
  <1>1. /\ classifier[c] \in ClassifierRecord
        /\ classifier' = [classifier EXCEPT ![c] = r] /\ classifier'[c] = r
    BY DEF ClassifierTypes, Cls!Goto
  <1>2. r \in ClassifierRecord /\ r.pc = pc /\ r.route = classifier[c].route
    BY <1>1 DEF ClassifierRecord
  <1> QED
    BY <1>1, <1>2

(* A delivery to the classifier.                                           *)
LEMMA ReceiveClassifyKeeps ==
    ASSUME ClassifierPart, ExtractorTypes, NEW c \in Classifiers,
           NEW m \in classifyQ.messages, Cls!Receive(c, m)
    PROVE  ClassifierPart' /\ ClassifierEffect
  <1> DEFINE next == Cls!Decision
             r == [Cls!IdleClassifier EXCEPT !.pc = next, !.message = m.id, !.route = domain]
  <1>1. /\ CanDeliver(m) /\ classifyQ' = Delivered(classifyQ, m) /\ ClassifierTypes
        /\ classifier[c].pc = "idle"
        /\ UNCHANGED <<status, domain, classification, extractQ>>
        /\ classifier' = IF next = "idle" THEN classifier ELSE [classifier EXCEPT ![c] = r]
    BY SameQueue DEF Cls!Receive, ClassifierPart
  <1>2. /\ Holds(classifyQ', {DocumentRoute}) /\ HasSent(classifyQ, m.id)
        /\ \A id : HasSent(classifyQ, id) <=> HasSent(classifyQ', id)
        /\ \A first : KeptFrom(classifyQ, first) => KeptFrom(classifyQ', first)
        /\ classifyQ'.next = classifyQ.next
    BY <1>1, DeliveredHolds DEF ClassifierTypes
  <1>3. /\ next \in {"idle", "ack", "send", "classify"}
        /\ next = "ack" => status \in Handed
        /\ next = "send" => domain \in Domains
    BY DEF Cls!Decision, Cls!HandoffConfirmed, Cls!PendingRoute, Handed, Domains
  <1>4. ~Direct
    <2>1. HasSent(classifyQ, m.id)
      BY <1>2
    <2> QED
      BY <2>1 DEF ClassifierPart, ClassifierRow, HasSent
  <1>5. /\ r \in ClassifierRecord /\ r.pc = next /\ r.route = domain
    BY <1>1, <1>2, <1>3 DEF Cls!IdleClassifier, ClassifierRecord, ClassifierTypes, HasSent,
       Cls!NoMessage
  <1> HIDE DEF next, r
  <1>6. PICK new \in ClassifierRecord :
            /\ classifier' = [classifier EXCEPT ![c] = new] /\ classifier'[c] = new
            /\ new = classifier[c] \/ new = r
    BY <1>1, <1>5 DEF ClassifierTypes
  <1>7. ClassifierHandler(c)'
    BY <1>1, <1>3, <1>4, <1>5, <1>6 DEF ClassifierHandler
  <1>8. ClassifierRow'
    BY <1>1, <1>2 DEF ClassifierPart, ClassifierRow
  <1>9. /\ domain' \in Domains \cup {Cls!NoDomain}
        /\ classification' \in [enqueuedTo : Domains \cup {Cls!NoDomain}, messageId : Nat]
    BY <1>1 DEF ClassifierTypes
  <1>10. ClassifierPart'
    BY <1>1, <1>2, <1>6, <1>7, <1>8, <1>9, ClassifierStepKeeps
  <1> QED
    BY <1>1, <1>2, <1>10, ExtractSame DEF ClassifierEffect

(* The model's answer is a domain.                                         *)
LEMMA ClassifyKeeps ==
    ASSUME ClassifierPart, ExtractorTypes, NEW c \in Classifiers, Cls!Classify(c)
    PROVE  ClassifierPart' /\ ClassifierEffect
  <1>1. PICK d \in Domains :
            classifier' = [classifier EXCEPT ![c].pc = "save", ![c].route = d]
    BY DEF Cls!Classify, Domains
  <1> DEFINE r == [classifier[c] EXCEPT !.pc = "save", !.route = d]
  <1>2. /\ classifier[c] \in ClassifierRecord /\ classifier[c].pc = "classify"
        /\ classifier' = [classifier EXCEPT ![c] = r] /\ classifier'[c] = r
        /\ UNCHANGED <<status, domain, classification, classifyQ, extractQ>>
    BY <1>1 DEF ClassifierPart, ClassifierTypes, Cls!Classify
  <1>3. r \in ClassifierRecord /\ r.pc = "save" /\ r.route \in Domains
    BY <1>2 DEF ClassifierRecord
  <1> HIDE DEF r
  <1>4. ClassifierHandler(c)'
    BY <1>2, <1>3 DEF ClassifierHandler, ClassifierPart
  <1> QED
    BY <1>2, <1>3, <1>4, ClassifierMoves

(* The decision is stored once: the document had none.                     *)
LEMMA SaveDecisionKeeps ==
    ASSUME ClassifierPart, ExtractorTypes, Handoff, NEW c \in Classifiers, Cls!SaveDecision(c)
    PROVE  ClassifierPart' /\ ClassifierEffect
  <1>1. /\ ClassifierTypes /\ ClassifierRow /\ ~Direct /\ classifier[c].route \in Domains
        /\ UNCHANGED <<classifyQ, extractQ>>
    BY DEF Cls!SaveDecision, ClassifierPart, ClassifierHandler
  <1>2. CASE UNCHANGED <<status, domain, classification>> /\ Cls!Ends(c)
    BY <1>1, <1>2, ClassifierEnds
  <1>3. CASE /\ status = "OCR_COMPLETED" /\ status' = "CLASSIFY_PENDING"
             /\ domain' = classifier[c].route /\ classification' = Cls!NoHandoff
             /\ Cls!Goto(c, "send")
    <2>1. PICK r \in ClassifierRecord :
              /\ classifier' = [classifier EXCEPT ![c] = r] /\ classifier'[c] = r
              /\ r.pc = "send" /\ r.route = classifier[c].route
      BY <1>1, <1>3, ClassifierGoto
    <2>2. ClassifierHandler(c)'
      BY <1>1, <2>1 DEF ClassifierHandler
    <2>3. /\ classification' \in [enqueuedTo : Domains \cup {Cls!NoDomain}, messageId : Nat]
          /\ Holds(classifyQ', {DocumentRoute}) /\ domain' \in Domains
      BY <1>1, <1>3 DEF Cls!NoHandoff, Cls!NoMessage, ClassifierTypes
    <2>4. domain' # Cls!NoDomain /\ domain = Cls!NoDomain
      BY <1>1, <1>3, <2>3 DEF ClassifierRow, Domains, Cls!Domains, Cls!NoDomain
    <2>5. ClassifierRow'
      BY <1>1, <1>3, <2>4 DEF ClassifierRow, Handed
    <2>6. ClassifierPart'
      BY <1>1, <1>3, <2>1, <2>2, <2>3, <2>5, ClassifierStepKeeps DEF Handed
    <2> QED
      BY <1>1, <1>3, <2>3, <2>4, <2>6, ExtractSame DEF ClassifierEffect
  <1> QED
    BY <1>2, <1>3 DEF Cls!SaveDecision, Cls!MaySave

(* The message to the domain worker.                                       *)
LEMMA SendExtractKeeps ==
    ASSUME ClassifierPart, ExtractorTypes, NEW c \in Classifiers, Cls!SendExtract(c)
    PROVE  ClassifierPart' /\ ClassifierEffect
  <1> DEFINE d == classifier[c].route
             r == [classifier[c] EXCEPT !.pc = "mark", !.sent = extractQ[d].next]
  <1>1. /\ ClassifierTypes /\ ~Direct /\ d \in Domains
        /\ UNCHANGED <<status, domain, classification, classifyQ>>
        /\ extractQ' = [extractQ EXCEPT ![d] = Sent(@, d)]
        /\ classifier[c] \in ClassifierRecord
        /\ classifier' = [classifier EXCEPT ![c] = r] /\ classifier'[c] = r
    BY SameQueue DEF Cls!SendExtract, ClassifierPart, ClassifierTypes, ClassifierHandler
  <1>2. /\ ExtractQueues
        /\ HasSent(extractQ'[d], extractQ[d].next) /\ extractQ[d].next \in Nat
        /\ \A e \in Domains : KeptFrom(extractQ[e], 1) => KeptFrom(extractQ'[e], 1)
    BY <1>1, ExtractSent
  <1>3. /\ r \in ClassifierRecord /\ r.pc = "mark" /\ r.route = d
        /\ r.sent = extractQ[d].next
    BY <1>1, <1>2 DEF ClassifierRecord
  <1> HIDE DEF d, r
  <1>4. ClassifierHandler(c)'
    BY <1>1, <1>2, <1>3 DEF ClassifierHandler
  <1>5. /\ domain' \in Domains \cup {Cls!NoDomain}
        /\ classification' \in [enqueuedTo : Domains \cup {Cls!NoDomain}, messageId : Nat]
        /\ Holds(classifyQ', {DocumentRoute})
    BY <1>1 DEF ClassifierTypes
  <1>6. status \in Handed => domain \in Domains
    BY <1>1 DEF ClassifierPart, ClassifierRow, ClassifierTypes, Handed
  <1>7. ClassifierRow'
    BY <1>1, <1>2, <1>6 DEF ClassifierPart, ClassifierRow, ExtractQueues
  <1>8. ClassifierPart'
    BY <1>1, <1>2, <1>3, <1>4, <1>5, <1>7, ClassifierStepKeeps DEF ExtractQueues
  <1> QED
    BY <1>1, <1>2, <1>8 DEF ClassifierEffect

(* The record of the handoff names a message that was sent to the domain.  *)
LEMMA MarkEnqueuedKeeps ==
    ASSUME ClassifierPart, ExtractorTypes, NEW c \in Classifiers, Cls!MarkEnqueued(c)
    PROVE  ClassifierPart' /\ ClassifierEffect
  <1>1. /\ ClassifierTypes /\ ClassifierRow /\ ~Direct /\ classifier[c].route \in Domains
        /\ HasSent(extractQ[classifier[c].route], classifier[c].sent)
        /\ UNCHANGED <<domain, classifyQ, extractQ>>
    BY DEF Cls!MarkEnqueued, ClassifierPart, ClassifierHandler
  <1>2. CASE UNCHANGED <<status, classification>> /\ Cls!Ends(c)
    BY <1>1, <1>2, ClassifierEnds
  <1>3. CASE /\ status = "CLASSIFY_PENDING" /\ domain = classifier[c].route
             /\ status' = "CLASSIFY_COMPLETED"
             /\ classification' = [enqueuedTo |-> classifier[c].route,
                                   messageId |-> classifier[c].sent]
             /\ Cls!Goto(c, "ack")
    <2>1. PICK r \in ClassifierRecord :
              /\ classifier' = [classifier EXCEPT ![c] = r] /\ classifier'[c] = r
              /\ r.pc = "ack" /\ r.route = classifier[c].route
      BY <1>1, <1>3, ClassifierGoto
    <2>2. ClassifierHandler(c)'
      BY <1>1, <1>3, <2>1 DEF ClassifierHandler, Handed
    <2>3. /\ classification' \in [enqueuedTo : Domains \cup {Cls!NoDomain}, messageId : Nat]
          /\ Holds(classifyQ', {DocumentRoute})
          /\ domain' \in Domains \cup {Cls!NoDomain}
          /\ HasSent(extractQ'[domain'], classification'.messageId)
      BY <1>1, <1>3 DEF ClassifierTypes, HasSent
    <2>4. ClassifierRow'
      BY <1>1, <1>3, <2>3 DEF ClassifierRow, Handed
    <2>5. ClassifierPart'
      BY <1>1, <1>3, <2>1, <2>2, <2>3, <2>4, ClassifierStepKeeps DEF Handed
    <2> QED
      BY <1>1, <1>3, <2>5, ExtractSame DEF ClassifierEffect
  <1> QED
    BY <1>2, <1>3 DEF Cls!MarkEnqueued

(* A message is deleted after the handoff is recorded.                     *)
LEMMA AcknowledgeClassifyKeeps ==
    ASSUME ClassifierPart, ExtractorTypes, NEW c \in Classifiers, Cls!Acknowledge(c)
    PROVE  ClassifierPart' /\ ClassifierEffect
  <1>1. /\ ClassifierTypes /\ ~Direct /\ status \in Handed
        /\ classifyQ' = Deleted(classifyQ, classifier[c].message)
        /\ UNCHANGED <<status, domain, classification, extractQ>>
        /\ classifier' = [classifier EXCEPT ![c] = Cls!IdleClassifier]
        /\ classifier'[c] = Cls!IdleClassifier
    BY SameQueue
    DEF Cls!Acknowledge, Cls!Ends, ClassifierPart, ClassifierTypes, ClassifierHandler
  <1>2. /\ Holds(classifyQ', {DocumentRoute})
        /\ \A i : HasSent(classifyQ, i) <=> HasSent(classifyQ', i)
    BY <1>1, DeletedHolds DEF ClassifierTypes
  <1>3. ClassifierHandler(c)' /\ ClassifierRow'
    BY <1>1, IdleClassifierType DEF ClassifierHandler, ClassifierPart, ClassifierRow
  <1>4. /\ domain' \in Domains \cup {Cls!NoDomain}
        /\ classification' \in [enqueuedTo : Domains \cup {Cls!NoDomain}, messageId : Nat]
    BY <1>1 DEF ClassifierTypes
  <1>5. ClassifierPart'
    BY <1>1, <1>2, <1>3, <1>4, IdleClassifierType, ClassifierStepKeeps
  <1> QED
    BY <1>1, <1>2, <1>5, ExtractSame DEF ClassifierEffect

(* Every step of the classifier.                                           *)
LEMMA ClassifierNextKeeps ==
    ASSUME ClassifierPart, ExtractorTypes, Handoff, NEW c \in Classifiers,
           Cls!ClassifierStep(c) \/ Cls!HandlerFails(c)
    PROVE  ClassifierPart' /\ ClassifierEffect
  <1>1. CASE Cls!HandlerFails(c)
    BY <1>1, ClassifierEnds DEF Cls!HandlerFails
  <1> QED
    BY <1>1, ReceiveClassifyKeeps, ClassifyKeeps, SaveDecisionKeeps, SendExtractKeeps,
       MarkEnqueuedKeeps, AcknowledgeClassifyKeeps DEF Cls!ClassifierStep

(* It keeps the parts of the other workers.                                *)
LEMMA ClassifierEffectKeeps ==
    ASSUME OcrPart, ExtractorPart, Handoff, ClassifierEffect,
           UNCHANGED <<extractorVars, ocrWorkerVars>>
    PROVE  OcrPart' /\ ExtractorPart' /\ Handoff'
  <1>1. \A id : HasSent(Downstream, id) => HasSent(Downstream', id)
    BY DEF ClassifierEffect, ExtractQueues, Downstream, Direct
  <1>2. /\ status' = "OCR" => status = "OCR"
        /\ \/ status' = status
           \/ {status, status'} \cap (Done \cup {"EXTRACTING"}) = {}
    BY DEF ClassifierEffect, Done
  <1>3. handoff' = handoff
    BY DEF ocrWorkerVars
  <1>4. Handoff'
    BY <1>1, <1>3 DEF ClassifierEffect, Handoff, Statuses, Handed
  <1> QED
    BY <1>1, <1>2, <1>4, OcrFrame, ExtractorFrame DEF ClassifierEffect

-----------------------------------------------------------------------------
(* The steps of the domain worker, and what the others see of them.        *)
ExtractorEffect ==
    /\ ExtractQueues
    /\ UNCHANGED domain
    /\ \/ status' = status /\ stage'.digest = stage.digest
       \/ /\ status \in Ext!Ready /\ domain = Domain
          /\ status' = "EXTRACTING" /\ stage'.digest = stage.digest
       \/ /\ status = "EXTRACTING" /\ stage.digest = Ext!NoDigest
          /\ status' = "EXTRACTED" /\ stage'.digest \in Digests

LEMMA ValidateNext == ASSUME ExtractorTypes PROVE validateQ.next \in Nat
  BY DEF ExtractorTypes, Holds, Queue

LEMMA ExtractorStepKeeps ==
    ASSUME ExtractorPart, NEW e \in Extractors, NEW r \in ExtractorRecord,
           extractor' = [extractor EXCEPT ![e] = r], ExtractQueues,
           stage' \in [state : {"none", "WRITING", "COMPLETED"}, checkpoint : Ext!Checkpoint,
                       digest : Digest],
           object' \in [checkpoint : Ext!Checkpoint, digest : Digest],
           Holds(validateQ', {Domain}), validateQ.next <= validateQ'.next,
           status \in Done => status' \in Done,
           ExtractorHandler(e)', ExtractorRow'
    PROVE  ExtractorPart'
  <1>1. /\ extractor' \in [Extractors -> ExtractorRecord]
        /\ \A v \in Extractors : v # e => extractor'[v] = extractor[v]
    BY DEF ExtractorPart, ExtractorTypes
  <1>2. ExtractorTypes'
    BY <1>1 DEF ExtractorTypes, ExtractQueues
  <1>3. validateQ.next \in Nat /\ validateQ'.next \in Nat
    BY DEF ExtractorPart, ExtractorTypes, Holds, Queue
  <1>4. \A v \in Extractors : v # e => ExtractorHandler(v)'
    BY <1>1, <1>3 DEF ExtractorPart, ExtractorHandler
  <1> QED
    BY <1>2, <1>4 DEF ExtractorPart

(* A handler that changes nothing else.                                    *)
LEMMA ExtractorMoves ==
    ASSUME ExtractorPart, NEW e \in Extractors, NEW r \in ExtractorRecord,
           extractor' = [extractor EXCEPT ![e] = r],
           UNCHANGED <<status, domain, extractQ, stage, object, validateQ>>,
           ExtractorHandler(e)'
    PROVE  ExtractorPart' /\ ExtractorEffect
  <1>1. /\ stage' \in [state : {"none", "WRITING", "COMPLETED"}, checkpoint : Ext!Checkpoint,
                       digest : Digest]
        /\ object' \in [checkpoint : Ext!Checkpoint, digest : Digest]
        /\ Holds(validateQ', {Domain})
    BY DEF ExtractorPart, ExtractorTypes
  <1>2. ExtractorRow' /\ ExtractQueues /\ validateQ.next <= validateQ'.next
    BY ExtractSame, ValidateNext DEF ExtractorPart, ExtractorRow
  <1>3. ExtractorPart'
    BY <1>1, <1>2, ExtractorStepKeeps
  <1> QED
    BY <1>2, <1>3 DEF ExtractorEffect

LEMMA IdleExtractorType ==
    Ext!IdleExtractor \in ExtractorRecord /\ Ext!IdleExtractor.pc = "idle"
  BY NextStageRoute
  DEF Ext!IdleExtractor, ExtractorRecord, Ext!NoCheckpoint, Ext!Checkpoint, Digest

LEMMA ExtractorEnds ==
    ASSUME ExtractorPart, NEW e \in Extractors, Ext!Ends(e),
           UNCHANGED <<status, domain, extractQ, stage, object, validateQ>>
    PROVE  ExtractorPart' /\ ExtractorEffect
  <1>1. extractor' = [extractor EXCEPT ![e] = Ext!IdleExtractor] /\ ExtractorHandler(e)'
    BY IdleExtractorType
    DEF Ext!Ends, ExtractorHandler, ExtractorPart, ExtractorTypes
  <1> QED
    BY <1>1, IdleExtractorType, ExtractorMoves

(* The record of a handler that goes to its next call.                     *)
LEMMA ExtractorGoto ==
    ASSUME ExtractorTypes, NEW e \in Extractors,
           NEW pc \in {"proveDone", "reserve", "proveWritten", "extract", "complete", "send",
                       "ack"},
           Ext!Goto(e, pc)
    PROVE  \E r \in ExtractorRecord :
              /\ extractor' = [extractor EXCEPT ![e] = r] /\ extractor'[e] = r
              /\ r.pc = pc /\ r.digest = extractor[e].digest
  <1> DEFINE r == [extractor[e] EXCEPT !.pc = pc]
  <1>1. /\ extractor[e] \in ExtractorRecord
        /\ extractor' = [extractor EXCEPT ![e] = r] /\ extractor'[e] = r
    BY DEF ExtractorTypes, Ext!Goto
  <1>2. r \in ExtractorRecord /\ r.pc = pc /\ r.digest = extractor[e].digest
    BY <1>1 DEF ExtractorRecord
  <1> QED
    BY <1>1, <1>2

(* A delivery to the domain worker.                                        *)
LEMMA ReceiveExtractKeeps ==
    ASSUME ExtractorPart, NEW e \in Extractors, NEW m \in extractQ[Domain].messages,
           Ext!Receive(e, m)
    PROVE  ExtractorPart' /\ ExtractorEffect
  <1> DEFINE next == Ext!Decision
             r == [pc |-> next, message |-> m.id,
                   checkpoint |-> IF next = "headNew" THEN <<m.id, m.received + 1>>
                                  ELSE stage.checkpoint,
                   digest |-> stage.digest]
  <1>1. /\ CanDeliver(m) /\ ExtractorTypes /\ ExtractorRow
        /\ extractQ' = [extractQ EXCEPT ![Domain] = Delivered(@, m)]
        /\ UNCHANGED <<status, domain, stage, object, validateQ>>
        /\ extractor' = IF next = "idle" THEN extractor ELSE [extractor EXCEPT ![e] = r]
    BY SameQueue DEF Ext!Receive, ExtractorPart
  <1>2. /\ ExtractQueues /\ m.id \in Nat /\ m.received \in Nat
        /\ \A c \in Domains : KeptFrom(extractQ[c], 1) => KeptFrom(extractQ'[c], 1)
    BY <1>1, ExtractDelivered
  <1>3. /\ next \in {"idle", "proveEnd", "headDone", "headNew", "headWriting"}
        /\ next = "proveEnd" => status \in Ext!Terminal
        /\ next = "headDone" => status = "EXTRACTED"
    BY DEF Ext!Decision, Ext!Terminal, Ext!Ready
  <1> HIDE DEF next
  <1>4. r \in ExtractorRecord /\ r.pc = next
    <2>1. r.checkpoint \in Ext!Checkpoint
      BY <1>1, <1>2 DEF ExtractorTypes, Ext!Checkpoint
    <2>2. r.digest \in Digest
      BY <1>1 DEF ExtractorTypes
    <2> QED
      BY <1>2, <1>3, <2>1, <2>2 DEF ExtractorRecord
  <1> HIDE DEF r
  <1>5. PICK new \in ExtractorRecord :
            /\ extractor' = [extractor EXCEPT ![e] = new] /\ extractor'[e] = new
            /\ new = extractor[e] \/ new = r
    BY <1>1, <1>4 DEF ExtractorTypes
  <1>6. /\ status \in Ext!Terminal => status \in Done /\ validateQ.next > 1
        /\ status = "EXTRACTED" => status \in Done
    BY <1>1 DEF ExtractorRow, Ext!Terminal, Done
  <1>7. ExtractorHandler(e)'
    BY <1>1, <1>3, <1>4, <1>5, <1>6 DEF ExtractorHandler, ExtractorPart
  <1>8. ExtractorRow'
    BY <1>1, <1>2 DEF ExtractorRow
  <1>9. /\ stage' \in [state : {"none", "WRITING", "COMPLETED"}, checkpoint : Ext!Checkpoint,
                       digest : Digest]
        /\ object' \in [checkpoint : Ext!Checkpoint, digest : Digest]
        /\ Holds(validateQ', {Domain}) /\ validateQ.next <= validateQ'.next
    BY <1>1, ValidateNext DEF ExtractorTypes
  <1>10. ExtractorPart'
    BY <1>1, <1>2, <1>5, <1>7, <1>8, <1>9, ExtractorStepKeeps
  <1> QED
    BY <1>1, <1>2, <1>10 DEF ExtractorEffect

(* HeadObject, and the ends of a call that need no more than is known.     *)
LEMMA HeadObjectKeeps ==
    ASSUME ExtractorPart, NEW e \in Extractors, Ext!HeadObject(e)
    PROVE  ExtractorPart' /\ ExtractorEffect
  <1>1. /\ ExtractorTypes /\ ExtractorHandler(e)
        /\ UNCHANGED <<status, domain, extractQ, stage, object, validateQ>>
        /\ \E pc \in {"proveDone", "reserve", "proveWritten", "extract"} :
              Ext!Goto(e, pc) /\ (pc = "proveDone" => extractor[e].pc = "headDone")
    BY DEF Ext!HeadObject, ExtractorPart
  <1>2. PICK pc \in {"proveDone", "reserve", "proveWritten", "extract"} :
              Ext!Goto(e, pc) /\ (pc = "proveDone" => extractor[e].pc = "headDone")
    BY <1>1
  <1>3. PICK r \in ExtractorRecord :
              /\ extractor' = [extractor EXCEPT ![e] = r] /\ extractor'[e] = r
              /\ r.pc = pc /\ r.digest = extractor[e].digest
    BY <1>1, <1>2, ExtractorGoto
  <1>4. ExtractorHandler(e)'
    BY <1>1, <1>2, <1>3 DEF ExtractorHandler
  <1> QED
    BY <1>1, <1>3, <1>4, ExtractorMoves

(* The reservation: the document is ready and has no stage.                *)
LEMMA ReserveKeeps ==
    ASSUME ExtractorPart, NEW e \in Extractors, Ext!Reserve(e)
    PROVE  ExtractorPart' /\ ExtractorEffect
  <1>1. /\ ExtractorTypes /\ ExtractorRow /\ extractor[e] \in ExtractorRecord
        /\ UNCHANGED <<domain, extractQ, object, validateQ>>
    BY DEF Ext!Reserve, ExtractorPart, ExtractorTypes
  <1>2. CASE UNCHANGED <<status, stage>> /\ Ext!Ends(e)
    BY <1>1, <1>2, ExtractorEnds
  <1>3. CASE /\ domain = Domain /\ status \in Ext!Ready /\ stage.state = "none"
             /\ status' = "EXTRACTING"
             /\ stage' = [state |-> "WRITING", checkpoint |-> extractor[e].checkpoint,
                          digest |-> Ext!NoDigest]
             /\ Ext!Goto(e, "extract")
    <2>1. PICK pc \in {"extract"} : Ext!Goto(e, pc)
      BY <1>3
    <2>2. PICK r \in ExtractorRecord :
              /\ extractor' = [extractor EXCEPT ![e] = r] /\ extractor'[e] = r
              /\ r.pc = pc /\ r.digest = extractor[e].digest
      BY <1>1, <2>1, ExtractorGoto
    <2>3. ExtractorHandler(e)'
      BY <2>2 DEF ExtractorHandler
    <2>4. /\ stage' \in [state : {"none", "WRITING", "COMPLETED"},
                         checkpoint : Ext!Checkpoint, digest : Digest]
          /\ stage'.state = "WRITING" /\ stage'.digest = Ext!NoDigest
          /\ stage.digest = Ext!NoDigest
      BY <1>1, <1>3 DEF ExtractorTypes, ExtractorRow, ExtractorRecord, Digest
    <2>5. status \notin Done /\ status' \notin Done
      BY <1>3 DEF Done, Ext!Ready
    <2>6. ExtractorRow'
      BY <1>1, <1>3, <2>4, <2>5, WorkerAssumption DEF ExtractorRow, Ext!Terminal
    <2>7. /\ object' \in [checkpoint : Ext!Checkpoint, digest : Digest]
          /\ Holds(validateQ', {Domain}) /\ validateQ.next <= validateQ'.next
          /\ ExtractQueues
      BY <1>1, ValidateNext, ExtractSame DEF ExtractorTypes
    <2>8. ExtractorPart'
      BY <2>2, <2>3, <2>4, <2>5, <2>6, <2>7, ExtractorStepKeeps
    <2> QED
      BY <1>1, <1>3, <2>4, <2>7, <2>8 DEF ExtractorEffect
  <1> QED
    BY <1>2, <1>3 DEF Ext!Reserve, Ext!MayReserve

(* The model's answer is a result.                                         *)
LEMMA ExtractKeeps ==
    ASSUME ExtractorPart, NEW e \in Extractors, Ext!Extract(e)
    PROVE  ExtractorPart' /\ ExtractorEffect
  <1>1. PICK d \in Digests :
            extractor' = [extractor EXCEPT ![e].pc = "put", ![e].digest = d]
    BY DEF Ext!Extract
  <1> DEFINE r == [extractor[e] EXCEPT !.pc = "put", !.digest = d]
  <1>2. /\ extractor[e] \in ExtractorRecord
        /\ extractor' = [extractor EXCEPT ![e] = r] /\ extractor'[e] = r
        /\ UNCHANGED <<status, domain, extractQ, stage, object, validateQ>>
    BY <1>1 DEF ExtractorPart, ExtractorTypes, Ext!Extract
  <1>3. r \in ExtractorRecord /\ r.pc = "put" /\ r.digest \in Digests
    BY <1>2 DEF ExtractorRecord, Digest
  <1> HIDE DEF r
  <1>4. ExtractorHandler(e)'
    BY <1>2, <1>3 DEF ExtractorHandler
  <1> QED
    BY <1>2, <1>3, <1>4, ExtractorMoves

(* The object is put when there is none, with a result.                    *)
LEMMA PutObjectKeeps ==
    ASSUME ExtractorPart, NEW e \in Extractors, Ext!PutObject(e)
    PROVE  ExtractorPart' /\ ExtractorEffect
  <1>1. /\ ExtractorTypes /\ ExtractorRow /\ extractor[e] \in ExtractorRecord
        /\ extractor[e].digest \in Digests
        /\ UNCHANGED <<status, domain, extractQ, stage, validateQ>>
    BY DEF Ext!PutObject, ExtractorPart, ExtractorTypes, ExtractorHandler
  <1>2. PICK pc \in {"proveWritten", "complete"} : Ext!Goto(e, pc)
    BY DEF Ext!PutObject
  <1>3. PICK r \in ExtractorRecord :
              /\ extractor' = [extractor EXCEPT ![e] = r] /\ extractor'[e] = r
              /\ r.pc = pc /\ r.digest = extractor[e].digest
    BY <1>1, <1>2, ExtractorGoto
  <1>4. ExtractorHandler(e)'
    BY <1>1, <1>3 DEF ExtractorHandler
  <1>5. /\ object' \in [checkpoint : Ext!Checkpoint, digest : Digest]
        /\ object' = Ext!NoObject \/ object'.digest \in Digests
    <2>1. CASE object' = object
      BY <1>1, <2>1 DEF ExtractorTypes, ExtractorRow
    <2>2. CASE object' = [checkpoint |-> extractor[e].checkpoint,
                          digest |-> extractor[e].digest]
      BY <1>1, <2>2 DEF ExtractorRecord
    <2> QED
      BY <2>1, <2>2 DEF Ext!PutObject
  <1>6. ExtractorRow'
    BY <1>1, <1>5 DEF ExtractorRow
  <1>7. /\ stage' \in [state : {"none", "WRITING", "COMPLETED"},
                       checkpoint : Ext!Checkpoint, digest : Digest]
        /\ Holds(validateQ', {Domain}) /\ validateQ.next <= validateQ'.next
        /\ ExtractQueues
    BY <1>1, ValidateNext, ExtractSame DEF ExtractorTypes
  <1>8. ExtractorPart'
    BY <1>1, <1>3, <1>4, <1>5, <1>6, <1>7, ExtractorStepKeeps
  <1> QED
    BY <1>1, <1>7, <1>8 DEF ExtractorEffect

(* The proof of an object that is there takes its digest.                  *)
LEMMA ProveObjectKeeps ==
    ASSUME ExtractorPart, NEW e \in Extractors, Ext!ProveObject(e)
    PROVE  ExtractorPart' /\ ExtractorEffect
  <1>1. /\ ExtractorTypes /\ ExtractorRow /\ extractor[e] \in ExtractorRecord
        /\ ExtractorHandler(e) /\ object.digest \in Digest
        /\ UNCHANGED <<status, domain, extractQ, stage, object, validateQ>>
    BY DEF Ext!ProveObject, ExtractorPart, ExtractorTypes
  <1>2. PICK pc \in {"complete", "send", "ack"} :
            /\ extractor' = [extractor EXCEPT ![e].pc = pc, ![e].digest = object.digest]
            /\ \/ pc = "complete" /\ Ext!ObjectExists
               \/ pc = "send" /\ extractor[e].pc = "proveDone"
               \/ pc = "ack" /\ extractor[e].pc = "proveEnd"
    BY DEF Ext!ProveObject
  <1> DEFINE r == [extractor[e] EXCEPT !.pc = pc, !.digest = object.digest]
  <1>3. extractor' = [extractor EXCEPT ![e] = r] /\ extractor'[e] = r
    BY <1>1, <1>2 DEF ExtractorTypes
  <1>4. r \in ExtractorRecord /\ r.pc = pc /\ r.digest = object.digest
    BY <1>1 DEF ExtractorRecord
  <1> HIDE DEF r
  <1>5. ExtractorHandler(e)'
    BY <1>1, <1>2, <1>3, <1>4 DEF ExtractorHandler, ExtractorRow, Ext!ObjectExists
  <1> QED
    BY <1>1, <1>3, <1>4, <1>5, ExtractorMoves

(* The completion binds the result.                                        *)
LEMMA CompleteStageKeeps ==
    ASSUME ExtractorPart, NEW e \in Extractors, Ext!CompleteStage(e)
    PROVE  ExtractorPart' /\ ExtractorEffect
  <1>1. /\ ExtractorTypes /\ ExtractorRow /\ extractor[e] \in ExtractorRecord
        /\ extractor[e].digest \in Digests
        /\ UNCHANGED <<domain, extractQ, object, validateQ>>
    BY DEF Ext!CompleteStage, ExtractorPart, ExtractorTypes, ExtractorHandler
  <1>2. CASE UNCHANGED <<status, stage>> /\ Ext!Ends(e)
    BY <1>1, <1>2, ExtractorEnds
  <1>3. CASE /\ status = "EXTRACTING" /\ stage.digest = Ext!NoDigest
             /\ status' = "EXTRACTED"
             /\ stage' = [state |-> "COMPLETED", checkpoint |-> extractor[e].checkpoint,
                          digest |-> extractor[e].digest]
             /\ Ext!Goto(e, "send")
    <2>1. PICK pc \in {"send"} : Ext!Goto(e, pc)
      BY <1>3
    <2>2. PICK r \in ExtractorRecord :
              /\ extractor' = [extractor EXCEPT ![e] = r] /\ extractor'[e] = r
              /\ r.pc = pc /\ r.digest = extractor[e].digest
      BY <1>1, <2>1, ExtractorGoto
    <2>3. status' \in Done /\ status' \notin Ext!Terminal
      BY <1>3 DEF Done, Ext!Terminal
    <2>4. ExtractorHandler(e)'
      BY <2>2, <2>3 DEF ExtractorHandler
    <2>5. /\ stage' \in [state : {"none", "WRITING", "COMPLETED"},
                         checkpoint : Ext!Checkpoint, digest : Digest]
          /\ stage'.state = "COMPLETED" /\ stage'.digest \in Digests
      BY <1>1, <1>3 DEF ExtractorRecord
    <2>6. ExtractorRow'
      BY <1>1, <1>3, <2>3, <2>5 DEF ExtractorRow
    <2>7. /\ object' \in [checkpoint : Ext!Checkpoint, digest : Digest]
          /\ Holds(validateQ', {Domain}) /\ validateQ.next <= validateQ'.next
          /\ ExtractQueues
      BY <1>1, ValidateNext, ExtractSame DEF ExtractorTypes
    <2>8. ExtractorPart'
      BY <2>2, <2>3, <2>4, <2>5, <2>6, <2>7, ExtractorStepKeeps
    <2> QED
      BY <1>1, <1>3, <2>5, <2>7, <2>8 DEF ExtractorEffect
  <1>4. Ext!MayComplete(e) => status = "EXTRACTING" /\ stage.digest = Ext!NoDigest
    BY DEF Ext!MayComplete
  <1> QED
    BY <1>2, <1>3, <1>4 DEF Ext!CompleteStage

(* The message to validation.                                              *)
LEMMA SendValidateKeeps ==
    ASSUME ExtractorPart, NEW e \in Extractors, Ext!SendValidate(e)
    PROVE  ExtractorPart' /\ ExtractorEffect
  <1>1. /\ ExtractorTypes /\ ExtractorRow /\ status \in Done
        /\ validateQ' = Sent(validateQ, Domain) /\ Ext!Goto(e, "ack")
        /\ UNCHANGED <<status, domain, extractQ, stage, object>>
    BY SameQueue DEF Ext!SendValidate, ExtractorPart, ExtractorHandler
  <1>2. PICK pc \in {"ack"} : Ext!Goto(e, pc)
    BY <1>1
  <1>3. PICK r \in ExtractorRecord :
              /\ extractor' = [extractor EXCEPT ![e] = r] /\ extractor'[e] = r
              /\ r.pc = pc /\ r.digest = extractor[e].digest
    BY <1>1, <1>2, ExtractorGoto
  <1>4. /\ Holds(validateQ', {Domain}) /\ validateQ.next \in Nat /\ 1 <= validateQ.next
        /\ validateQ'.next = validateQ.next + 1
    BY <1>1, SentHolds DEF ExtractorTypes
  <1>5. validateQ'.next > 1 /\ validateQ'.next # 1 /\ validateQ.next <= validateQ'.next
    BY <1>4
  <1>6. ExtractorHandler(e)'
    BY <1>1, <1>3, <1>5 DEF ExtractorHandler
  <1>7. ExtractorRow'
    BY <1>1, <1>5 DEF ExtractorRow
  <1>8. /\ object' \in [checkpoint : Ext!Checkpoint, digest : Digest]
        /\ stage' \in [state : {"none", "WRITING", "COMPLETED"},
                       checkpoint : Ext!Checkpoint, digest : Digest]
        /\ ExtractQueues
    BY <1>1, ExtractSame DEF ExtractorTypes
  <1>9. ExtractorPart'
    BY <1>1, <1>3, <1>4, <1>5, <1>6, <1>7, <1>8, ExtractorStepKeeps
  <1> QED
    BY <1>1, <1>8, <1>9 DEF ExtractorEffect

(* A message is deleted when validation has one.                           *)
LEMMA AcknowledgeExtractKeeps ==
    ASSUME ExtractorPart, NEW e \in Extractors, Ext!Acknowledge(e)
    PROVE  ExtractorPart' /\ ExtractorEffect
  <1>1. /\ ExtractorTypes /\ ExtractorRow /\ validateQ.next > 1
        /\ extractQ' = [extractQ EXCEPT ![Domain] = Deleted(@, extractor[e].message)]
        /\ UNCHANGED <<status, domain, stage, object, validateQ>>
        /\ extractor' = [extractor EXCEPT ![e] = Ext!IdleExtractor]
        /\ extractor'[e] = Ext!IdleExtractor
    BY SameQueue
    DEF Ext!Acknowledge, Ext!Ends, ExtractorPart, ExtractorTypes, ExtractorHandler
  <1>2. ExtractQueues /\ \A c \in Domains : c # Domain => extractQ'[c] = extractQ[c]
    BY <1>1, ExtractDeleted
  <1>3. ExtractorHandler(e)'
    BY <1>1, IdleExtractorType DEF ExtractorHandler
  <1>4. validateQ'.next # 1
    BY <1>1, ValidateNext
  <1>5. ExtractorRow'
    BY <1>1, <1>2, <1>4 DEF ExtractorRow
  <1>6. /\ object' \in [checkpoint : Ext!Checkpoint, digest : Digest]
        /\ stage' \in [state : {"none", "WRITING", "COMPLETED"},
                       checkpoint : Ext!Checkpoint, digest : Digest]
        /\ Holds(validateQ', {Domain}) /\ validateQ.next <= validateQ'.next
    BY <1>1, ValidateNext DEF ExtractorTypes
  <1>7. ExtractorPart'
    BY <1>1, <1>2, <1>3, <1>5, <1>6, IdleExtractorType, ExtractorStepKeeps
  <1> QED
    BY <1>1, <1>2, <1>7 DEF ExtractorEffect

(* Every step of the domain worker.                                        *)
LEMMA ExtractorNextKeeps ==
    ASSUME ExtractorPart, NEW e \in Extractors, Ext!ExtractorStep(e) \/ Ext!HandlerFails(e)
    PROVE  ExtractorPart' /\ ExtractorEffect
  <1>1. CASE Ext!HandlerFails(e)
    BY <1>1, ExtractorEnds DEF Ext!HandlerFails
  <1> QED
    BY <1>1, ReceiveExtractKeeps, HeadObjectKeeps, ReserveKeeps, ExtractKeeps, PutObjectKeeps,
       ProveObjectKeeps, CompleteStageKeeps, SendValidateKeeps, AcknowledgeExtractKeeps
    DEF Ext!ExtractorStep

(* It keeps the parts of the other workers: a document it reserves has its *)
(* domain, so that the classifier, if it was asked at all, handed it over. *)
LEMMA ExtractorEffectKeeps ==
    ASSUME OcrPart, ClassifierPart, Handoff, ExtractorEffect,
           UNCHANGED <<classifyQ, classification, classifier, ocrWorkerVars>>
    PROVE  OcrPart' /\ ClassifierPart' /\ Handoff'
  <1>1. \A id : HasSent(Downstream, id) => HasSent(Downstream', id)
    BY DEF ExtractorEffect, ExtractQueues, Downstream, Direct
  <1>2. /\ status' = "OCR" => status = "OCR"
        /\ status \in Handed => status' \in Handed
        /\ UNCHANGED domain /\ handoff' = handoff
    BY DEF ExtractorEffect, Handed, Ext!Ready, ocrWorkerVars
  <1>3. Domain \in Domains /\ Cls!NoDomain \notin Domains
    BY WorkerAssumption DEF Domains, Cls!Domains, Cls!NoDomain
  <1>4. CASE status' = status
    <2>1. ClassifierTypes /\ (~Direct /\ status \in Handed => domain \in Domains)
      BY DEF ClassifierPart, ClassifierTypes, ClassifierRow, Handed
    <2>2. ClassifierRow'
      BY <1>2, <1>4, <2>1 DEF ClassifierPart, ClassifierRow, ExtractorEffect, ExtractQueues
    <2>3. Holds(classifyQ', {DocumentRoute}) /\ UNCHANGED classifierVars
      BY <1>2, <2>1 DEF ClassifierTypes, classifierVars
    <2>4. ClassifierPart'
      BY <1>2, <2>2, <2>3, ClassifierFrame DEF ExtractorEffect, ExtractQueues
    <2>5. Handoff'
      BY <1>1, <1>2, <1>4 DEF Handoff
    <2> QED
      BY <1>1, <1>2, <2>4, <2>5, OcrFrame
  <1>5. CASE /\ status \in Ext!Ready \cup {"EXTRACTING"} /\ status' \in {"EXTRACTING", "EXTRACTED"}
             /\ status \in Ext!Ready => domain = Domain
    <2>1. ClassifierTypes /\ ClassifierRow
      BY DEF ClassifierPart
    <2>2. ~Direct => status \in Handed /\ domain \in Domains
      BY <1>3, <1>5, <2>1 DEF ClassifierRow, ClassifierTypes, Ext!Ready, Handed
    <2>3. status' \in Handed /\ status' \notin {"CLASSIFY_PENDING", "CLASSIFY_COMPLETED"}
          /\ status' \notin {"OCR", "OCR_FAILED", "OCR_COMPLETED"}
      BY <1>5 DEF Handed
    <2>4. ClassifierRow'
      BY <1>2, <1>3, <2>1, <2>2, <2>3 DEF ClassifierRow, ExtractorEffect, ExtractQueues
    <2>5. Holds(classifyQ', {DocumentRoute}) /\ UNCHANGED classifierVars
      BY <1>2, <2>1 DEF ClassifierTypes, classifierVars
    <2>6. ClassifierPart'
      BY <1>2, <2>4, <2>5, ClassifierFrame DEF ExtractorEffect, ExtractQueues
    <2>7. Handoff'
      BY <1>1, <1>2, <1>5, <2>3 DEF Handoff, Statuses, Ext!Ready
    <2> QED
      BY <1>1, <1>2, <2>6, <2>7, OcrFrame
  <1> QED
    BY <1>4, <1>5 DEF ExtractorEffect, Ext!Ready

(* The outcome of the document, which validation was told of.              *)
LEMMA DocumentEndsKeeps ==
    ASSUME PipelineInv, PostprocessStep
    PROVE  PipelineInv' /\ status = "EXTRACTED" /\ status' \in {"COMPLETED", "FAILED"}
           /\ UNCHANGED <<domain, stage>>
  <1> USE DEF PipelineInv
  <1>1. /\ status = "EXTRACTED" /\ status' \in {"COMPLETED", "FAILED"}
        /\ validateQ.messages # {}
        /\ UNCHANGED <<domain, classification, classifier, classifyQ, extractQ, stage, object,
                       validateQ, extractor, ocrWorkerVars>>
    BY DEF PostprocessStep, Ext!DocumentEnds, Ext!Terminal
  <1>2. validateQ.next > 1
    <2>1. PICK m \in validateQ.messages : TRUE
      BY <1>1
    <2>2. m.id \in Nat \ {0} /\ m.id < validateQ.next
      BY DEF ExtractorPart, ExtractorTypes, Holds, IdsBefore, Queue, Message, NoMessage
    <2>3. validateQ.next \in Nat
      BY ValidateNext DEF ExtractorPart
    <2> QED
      BY <2>2, <2>3
  <1>3. /\ {status, status'} \subseteq Done /\ {status, status'} \subseteq Handed
        /\ status' \in Ext!Terminal
        /\ UNCHANGED <<classifierVars, extractorVars>>
    BY <1>1 DEF Done, Handed, Ext!Terminal, classifierVars, extractorVars
  <1>4. ExtractorPart'
    BY <1>1, <1>2, <1>3, ExtractSame, ExtractorFrame DEF ExtractorPart
  <1>5. ClassifierRow' /\ Holds(classifyQ', {DocumentRoute})
    BY <1>1, <1>3 DEF ClassifierPart, ClassifierRow, ClassifierTypes
  <1>6. ClassifierPart'
    BY <1>1, <1>3, <1>5, ClassifierFrame
  <1>7. OcrPart'
    <2>1. \A id : HasSent(Downstream, id) => HasSent(Downstream', id)
      BY <1>1 DEF Downstream
    <2> QED
      BY <1>1, <2>1, OcrFrame
  <1>8. Handoff'
    BY <1>1, <1>3 DEF Handoff, Downstream, Statuses, ocrWorkerVars
  <1> QED
    BY <1>1, <1>4, <1>6, <1>7, <1>8

-----------------------------------------------------------------------------
(* The INGEST consumer is done and the poll message is in its queue.       *)
LEMMA InitOcr == Init => OcrPart
  <1> SUFFICES ASSUME Init PROVE OcrPart
    OBVIOUS
  <1> DEFINE b == [job |-> Token, attempt |-> 0]
  <1>1. /\ job = Token /\ textract = "IN_PROGRESS"
        /\ poll = [state |-> "ENQUEUED", messageId |-> 1]
        /\ ocrQ = Sent(EmptyQueue, b)
        /\ usage = [event |-> FALSE, documents |-> 0]
        /\ ingestor = [w \in IngestWorkers |-> Ocr!IdleWorker]
        /\ poller = [w \in PollWorkers |-> Ocr!IdleWorker]
        /\ ingestQ = Deleted(Sent(EmptyQueue, "call"), 1)
    BY SameQueue
    DEF Init, Ocr!Polling, Ocr!Idle, Ocr!ClientRequestToken, Token, Ocr!EmptyQueue, EmptyQueue
  <1>2. /\ Holds(ocrQ, PollBody) /\ EmptyQueue.next = 1
        /\ HasSent(ocrQ, EmptyQueue.next)
        /\ KeptFrom(EmptyQueue, 1) => KeptFrom(ocrQ, 1)
    <2>1. Holds(EmptyQueue, PollBody) /\ b \in PollBody /\ EmptyQueue.next = 1
      BY EmptyHolds DEF PollBody
    <2> HIDE DEF b
    <2> QED
      BY <1>1, <2>1, SentHolds
  <1>3. KeptFrom(EmptyQueue, 1)
    BY EmptyHolds
  <1>4. OcrKept
    BY <1>1, <1>2, <1>3 DEF OcrKept
  <1>5. ingestQ.messages = {}
    BY <1>1 DEF Deleted, Sent, Fresh, EmptyQueue
  <1>6. Quiet
    BY <1>1, <1>5, IdlePoller DEF Quiet
  <1>7. OcrTypes /\ \A w \in PollWorkers : PollHandler(w)
    BY <1>1, <1>2, IdlePoller DEF OcrTypes, PollHandler
  <1>8. UsageCountedOnce
    BY <1>1 DEF UsageCountedOnce, Ocr!UsageCountedOnce
  <1> QED
    BY <1>4, <1>6, <1>7, <1>8 DEF OcrPart

LEMMA InitRest == Init => ClassifierPart /\ ExtractorPart /\ Handoff
  <1> SUFFICES ASSUME Init PROVE ClassifierPart /\ ExtractorPart /\ Handoff
    OBVIOUS
  <1>1. /\ status = "OCR"
        /\ domain = IF Direct THEN DocumentRoute ELSE Cls!NoDomain
        /\ classification = Cls!NoHandoff
        /\ classifier = [c \in Classifiers |-> Cls!IdleClassifier]
        /\ stage = Ext!NoStage /\ object = Ext!NoObject
        /\ extractor = [e \in Extractors |-> Ext!IdleExtractor]
        /\ validateQ = EmptyQueue /\ classifyQ = EmptyQueue
        /\ extractQ = [d \in Domains |-> EmptyQueue]
    BY NextStageRoute DEF Init, Ocr!Idle, Direct, Domains, Ocr!EmptyQueue, EmptyQueue
  <1>2. \A Body : Holds(EmptyQueue, Body)
    BY EmptyHolds
  <1>3. EmptyQueue.next = 1 /\ KeptFrom(EmptyQueue, 1)
    BY EmptyHolds
  <1>4. Cls!NoDomain \notin Domains
    BY DEF Domains, Cls!Domains, Cls!NoDomain
  <1>5. status \notin Handed /\ status \notin Done /\ status \notin Ext!Terminal
    BY <1>1 DEF Handed, Done, Ext!Terminal
  <1>6. ClassifierTypes
    BY <1>1, <1>2, IdleClassifierType, NextStageRoute
    DEF ClassifierTypes, Cls!NoHandoff, Direct
  <1>7. ClassifierRow
    BY <1>1, <1>3, <1>4, <1>5 DEF ClassifierRow
  <1>8. \A c \in Classifiers : ClassifierHandler(c)
    BY <1>1, IdleClassifierType DEF ClassifierHandler
  <1>9. /\ Ext!NoStage \in [state : {"none", "WRITING", "COMPLETED"},
                            checkpoint : Ext!Checkpoint, digest : Digest]
        /\ Ext!NoObject \in [checkpoint : Ext!Checkpoint, digest : Digest]
        /\ Ext!NoStage.state = "none" /\ Ext!NoStage.digest = Ext!NoDigest
    BY DEF Ext!NoStage, Ext!NoObject, Ext!NoCheckpoint, Ext!Checkpoint, Digest
  <1>10. ExtractorTypes
    BY <1>1, <1>2, <1>9, IdleExtractorType DEF ExtractorTypes, Holds
  <1>11. ExtractorRow
    BY <1>1, <1>3, <1>5, <1>9, WorkerAssumption DEF ExtractorRow
  <1>12. \A e \in Extractors : ExtractorHandler(e)
    BY <1>1, IdleExtractorType DEF ExtractorHandler
  <1>13. Handoff
    BY <1>1 DEF Handoff, Statuses
  <1> QED
    BY <1>6, <1>7, <1>8, <1>10, <1>11, <1>12, <1>13 DEF ClassifierPart, ExtractorPart

(* Each worker keeps its own part, and what the others rest on.            *)
LEMMA NextPipeline == PipelineInv /\ [Next]_pipelineVars => PipelineInv'
  <1> SUFFICES ASSUME PipelineInv, [Next]_pipelineVars PROVE PipelineInv'
    OBVIOUS
  <1>0. OcrPart /\ ClassifierPart /\ ExtractorPart /\ Handoff
        /\ ClassifierTypes /\ ExtractorTypes
    BY DEF PipelineInv, ClassifierPart, ExtractorPart
  <1>1. CASE UNCHANGED pipelineVars
    <2>1. /\ UNCHANGED <<status, handoff, classifyQ, extractQ>>
          /\ UNCHANGED ocrWorkerVars
          /\ UNCHANGED <<classifierVars, extractorVars>>
      BY <1>1 DEF pipelineVars, ocrWorkerVars
    <2>2. OcrPart'
      BY <1>0, <2>1, OcrFrame DEF Downstream
    <2>3. OcrEffect
      BY <2>1 DEF OcrEffect
    <2> QED
      BY <1>0, <2>1, <2>2, <2>3, OcrEffectKeeps DEF PipelineInv
  <1>2. CASE OcrStep
    BY <1>0, <1>2, OcrNextKeeps, OcrEffectKeeps DEF OcrStep, PipelineInv
  <1>3. CASE ClassifierStep
    BY <1>0, <1>3, ClassifierNextKeeps, ClassifierEffectKeeps DEF ClassifierStep, PipelineInv
  <1>4. CASE ExtractorStep
    BY <1>0, <1>4, ExtractorNextKeeps, ExtractorEffectKeeps DEF ExtractorStep, PipelineInv
  <1>5. CASE PostprocessStep
    BY <1>5, DocumentEndsKeeps
  <1> QED
    BY <1>1, <1>2, <1>3, <1>4, <1>5 DEF Next

LEMMA PipelineInvariant == Spec => []PipelineInv
  <1>1. Init => PipelineInv
    BY InitOcr, InitRest DEF PipelineInv
  <1> QED
    BY <1>1, NextPipeline, PTL DEF Spec

-----------------------------------------------------------------------------
(* For any number of handlers of the three workers and of deliveries: the  *)
(* pages are added to the roll-ups once, for OCR that succeeded.           *)
THEOREM PipelineUsageCountedOnce == Spec => []UsageCountedOnce
  <1>1. PipelineInv => UsageCountedOnce
    BY DEF PipelineInv, OcrPart
  <1> QED
    BY <1>1, PipelineInvariant, PTL

(* Every stage keeps its message until the next stage's is recorded and    *)
(* there, whatever is delivered twice, late or half done.                  *)
THEOREM PipelineMessageCarries == Spec => []RecordedMessageCarries
  <1>1. PipelineInv => RecordedMessageCarries
    <2> SUFFICES ASSUME PipelineInv PROVE RecordedMessageCarries
      OBVIOUS
    <2> USE DEF PipelineInv, OcrPart, ClassifierPart, ExtractorPart
    <2>1. status = "OCR" => poll.messageId \in Retained(ocrQ)
      BY DEF OcrKept, KeptFrom, HasSent
    <2>2. AwaitsExtraction => status \in Handed /\ validateQ.next = 1
      <3>1. validateQ.next \in Nat /\ 1 <= validateQ.next
        BY DEF ExtractorTypes, Holds, Queue, NoMessage
      <3>2. status \in {"CLASSIFY_COMPLETED", "EXTRACTING"} => status \notin Done
        BY DEF Done
      <3> QED
        BY <3>1, <3>2 DEF AwaitsExtraction, ExtractorRow, Handed
    <2>3. CASE Direct
      <3>1. /\ domain = DocumentRoute /\ DocumentRoute \in Domains
            /\ Downstream = extractQ[domain]
        BY <2>3 DEF ClassifierRow, Downstream, Direct
      <3>2. ASSUME status = "OCR_COMPLETED" \/ AwaitsExtraction
            PROVE  handoff \in Retained(extractQ[domain])
        <4>1. validateQ.next = 1
          <5>1. validateQ.next \in Nat /\ 1 <= validateQ.next
            BY DEF ExtractorTypes, Holds, Queue, NoMessage
          <5>2. status = "OCR_COMPLETED" => status \notin Done
            BY DEF Done
          <5> QED
            BY <2>2, <3>2, <5>1, <5>2 DEF ExtractorRow
        <4>2. HasSent(extractQ[domain], handoff)
          BY <2>2, <3>1, <3>2 DEF Handoff, Handed
        <4>3. KeptFrom(extractQ[domain], 1)
          BY <3>1, <4>1 DEF ExtractorRow
        <4> QED
          BY <4>2, <4>3 DEF HasSent, KeptFrom
      <3> QED
        BY <2>1, <2>3, <3>2 DEF RecordedMessageCarries, Direct, Domains
    <2>4. CASE ~Direct
      <3>1. ASSUME status \in {"OCR_COMPLETED", "CLASSIFY_PENDING"}
            PROVE  handoff \in Retained(classifyQ)
        <4>1. HasSent(classifyQ, handoff) /\ KeptFrom(classifyQ, 1)
          BY <2>4, <3>1 DEF Handoff, Downstream, ClassifierRow, Handed
        <4> QED
          BY <4>1 DEF HasSent, KeptFrom
      <3>2. ASSUME AwaitsExtraction
            PROVE  classification.messageId \in Retained(extractQ[domain])
        <4>1. HasSent(extractQ[domain], classification.messageId) /\ domain \in Domains
          BY <2>2, <2>4, <3>2 DEF ClassifierRow, ClassifierTypes, Handed
        <4>2. KeptFrom(extractQ[domain], 1)
          BY <2>2, <3>2, <4>1 DEF ExtractorRow
        <4> QED
          BY <4>1, <4>2 DEF HasSent, KeptFrom
      <3> QED
        BY <2>1, <2>4, <3>1, <3>2 DEF RecordedMessageCarries, Direct, Domains
    <2> QED
      BY <2>3, <2>4
  <1> QED
    BY <1>1, PipelineInvariant, PTL

-----------------------------------------------------------------------------
(* The record of the document begins as the abstract one.                  *)
LEMMA InitLifecycle == Init => Lifecycle!Init
  <1> SUFFICES ASSUME Init PROVE Lifecycle!Init
    OBVIOUS
  <1>1. status = "OCR" /\ stage.digest = Ext!NoDigest
    BY DEF Init, Ext!NoStage
  <1>2. domain \in Cls!Domains \cup {Cls!NoDomain}
    BY DEF Init
  <1> QED
    BY <1>1, <1>2 DEF Lifecycle!Init

(* Every step of a worker is a step of the abstract lifecycle, or none.    *)
LEMMA NextLifecycle ==
    PipelineInv /\ [Next]_pipelineVars => [Lifecycle!Next]_(Lifecycle!lifecycleVars)
  <1> SUFFICES ASSUME PipelineInv, [Next]_pipelineVars
               PROVE  Lifecycle!Next \/ UNCHANGED Lifecycle!lifecycleVars
    OBVIOUS
  <1> DEFINE Abstract == Lifecycle!Next \/ UNCHANGED Lifecycle!lifecycleVars
  <1>0. OcrPart /\ ClassifierPart /\ ExtractorPart /\ Handoff
        /\ ClassifierTypes /\ ExtractorTypes /\ ExtractorRow
    BY DEF PipelineInv, ClassifierPart, ExtractorPart
  <1>s. ASSUME UNCHANGED <<status, domain>>, stage'.digest = stage.digest PROVE Abstract
    BY <1>s DEF Lifecycle!lifecycleVars
  <1>1. CASE UNCHANGED pipelineVars
    BY <1>1, <1>s DEF pipelineVars, classifierVars, extractorVars
  <1>2. CASE OcrStep
    <2>1. OcrEffect /\ UNCHANGED <<domain, stage>>
      BY <1>0, <1>2, OcrNextKeeps DEF OcrStep, classifierVars, extractorVars
    <2>2. CASE UNCHANGED status
      BY <2>1, <2>2, <1>s
    <2>3. CASE status = "OCR" /\ status' \in {"OCR_COMPLETED", "OCR_FAILED"}
      BY <2>1, <2>3 DEF Lifecycle!Next, Lifecycle!EndOcr, Lifecycle!Moves
    <2> QED
      BY <2>1, <2>2, <2>3 DEF OcrEffect
  <1>3. CASE ClassifierStep
    <2>1. ClassifierEffect /\ UNCHANGED stage
      BY <1>0, <1>3, ClassifierNextKeeps DEF ClassifierStep, extractorVars
    <2>2. CASE UNCHANGED <<status, domain>>
      BY <2>1, <2>2, <1>s
    <2>3. CASE /\ status = "OCR_COMPLETED" /\ domain = Cls!NoDomain
               /\ status' = "CLASSIFY_PENDING" /\ domain' \in Domains
      BY <2>1, <2>3 DEF Lifecycle!Next, Lifecycle!Decide, Domains
    <2>4. CASE /\ status = "CLASSIFY_PENDING" /\ status' = "CLASSIFY_COMPLETED"
               /\ UNCHANGED domain
      BY <2>1, <2>4 DEF Lifecycle!Next, Lifecycle!HandOver, Lifecycle!Moves
    <2> QED
      BY <2>1, <2>2, <2>3, <2>4 DEF ClassifierEffect
  <1>4. CASE ExtractorStep
    <2>1. ExtractorEffect
      BY <1>0, <1>4, ExtractorNextKeeps DEF ExtractorStep
    <2>2. CASE status' = status /\ stage'.digest = stage.digest
      BY <2>1, <2>2, <1>s DEF ExtractorEffect
    <2>3. CASE /\ status \in Ext!Ready /\ domain = Domain
               /\ status' = "EXTRACTING" /\ stage'.digest = stage.digest
      BY <2>1, <2>3, WorkerAssumption
      DEF ExtractorEffect, Lifecycle!Next, Lifecycle!Work, Lifecycle!Moves, Ext!Ready
    <2>4. CASE /\ status = "EXTRACTING" /\ stage.digest = Ext!NoDigest
               /\ status' = "EXTRACTED" /\ stage'.digest \in Digests
      BY <2>1, <2>4 DEF ExtractorEffect, Lifecycle!Next, Lifecycle!Bind
    <2> QED
      BY <2>1, <2>2, <2>3, <2>4 DEF ExtractorEffect
  <1>5. CASE PostprocessStep
    <2>1. /\ status = "EXTRACTED" /\ status' \in {"COMPLETED", "FAILED"}
          /\ UNCHANGED <<domain, stage>>
      BY <1>5, DocumentEndsKeeps
    <2>2. stage.digest # Ext!NoDigest
      BY <1>0, <2>1, WorkerAssumption DEF ExtractorRow, Done
    <2> QED
      BY <2>1, <2>2 DEF Lifecycle!Next, Lifecycle!End, Lifecycle!Moves
  <1> QED
    BY <1>1, <1>2, <1>3, <1>4, <1>5 DEF Next

(* The three workers together implement DocumentLifecycle: the document    *)
(* moves forward only, goes to one domain and gets one result.             *)
THEOREM PipelineImplementsLifecycle == Spec => ImplementsLifecycle
  BY InitLifecycle, NextLifecycle, PipelineInvariant, PTL
  DEF Spec, ImplementsLifecycle, Lifecycle!Spec
=============================================================================
