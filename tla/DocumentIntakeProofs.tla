------------------------ MODULE DocumentIntakeProofs ------------------------
(***************************************************************************)
(* A document from its creation to the end of OCR, for any number of       *)
(* submit calls, consumers and poll messages.  First the calls alone: the  *)
(* right of at most one of them to send, the agreement of the recorded     *)
(* enqueue id and message id, and the finality of a record.  Then the same *)
(* with the OCR worker moving the document on under the calls, and what    *)
(* the worker adds: no carrier of a document that waits is deleted.        *)
(***************************************************************************)
EXTENDS DocumentIntake, SqsQueueProofs, TLAPS

(* The types of what a submit call writes, but for the status.             *)
RowTypes ==
    /\ ingest \in [state : StageStatus, enqueueId : Requests \cup {NoRequest},
                   messageId : Nat]
    /\ uploaded \in BOOLEAN
    /\ ingestQ \in Queue(Requests)
    /\ request \in [Requests -> [pc : {"idle", "send", "record", "recover",
                                     "answered", "crashed"},
                                messageId : Nat]]

(* What OneSender rests on: between its claim and the record of its        *)
(* message a call's own claim is the one stored, so nobody else's is.      *)
SenderHoldsClaim ==
    \A r \in Requests : request[r].pc \in {"send", "record"} => HoldsClaim(r)

(* What RecordedTogether rests on: ids are handed out in order, and a call *)
(* about to record names a message it sent itself.                         *)
SentBefore == IdsBefore(ingestQ)

OwnMessage ==
    \A r \in Requests : request[r].pc = "record" =>
        /\ request[r].messageId < ingestQ.next
        /\ \A m \in ingestQ.messages : m.id = request[r].messageId => m.body = r

RecordedBefore == ingest.state = "ENQUEUED" => ingest.messageId < ingestQ.next

(* The inductive invariants behind OneSender and RecordedTogether.         *)
ClaimInv == RowTypes /\ SenderHoldsClaim

RecordInv ==
    /\ RowTypes
    /\ SenderHoldsClaim
    /\ SentBefore
    /\ OwnMessage
    /\ RecordedBefore
    /\ RecordedTogether

(* The initial state has the types.                                        *)
LEMMA InitType == Init => TypeOK
  <1> SUFFICES ASSUME Init PROVE TypeOK
    OBVIOUS
  <1>1. ingestQ \in Queue(Requests)
    BY DEF Init, EmptyQueue, Queue, NoMessage
  <1>2. ingest \in [state : StageStatus, enqueueId : Requests \cup {NoRequest},
                    messageId : Nat]
    BY DEF Init, NoStage, StageStatus, NoMessage
  <1> QED
    BY <1>1, <1>2 DEF Init, TypeOK, Idle, NoMessage

(* Every step of submit_document keeps the types.                          *)
LEMMA NextRow == RowTypes /\ [Next]_submissionVars => RowTypes'
  <1> SUFFICES ASSUME RowTypes, [Next]_submissionVars PROVE RowTypes'
    OBVIOUS
  <1> USE DEF RowTypes
  <1>1. CASE UNCHANGED submissionVars
    BY <1>1 DEF submissionVars
  <1>2. CASE CreateDocument
    BY <1>2 DEF CreateDocument
  <1>3. CASE Upload
    BY <1>3 DEF Upload
  <1>4. ASSUME NEW r \in Requests, RequestStep(r) \/ Crash(r) PROVE RowTypes'
    <2>1. CASE Claim(r)
      BY <2>1 DEF Claim, ClaimWrite, Goto, StageStatus, NoMessage
    <2>2. CASE ClaimRefused(r)
      BY <2>2 DEF ClaimRefused, Goto
    <2>3. CASE SendIngest(r)
      <3>1. Sent(ingestQ, r) \in Queue(Requests) /\ ingestQ.next \in Nat
        BY SentType DEF Queue
      <3> QED
        BY <2>3, <3>1 DEF SendIngest, Goto
    <2>4. CASE MarkEnqueued(r)
      BY ZenonT(60), <2>4 DEF MarkEnqueued, Goto, StageStatus
    <2>5. CASE MarkEnqueuedRefused(r)
      BY <2>5 DEF MarkEnqueuedRefused, Goto
    <2>6. CASE MarkFailed(r)
      BY <2>6 DEF MarkFailed, Goto, StageStatus
    <2>7. CASE Crash(r)
      BY <2>7 DEF Crash, Goto
    <2> QED
      BY <1>4, <2>1, <2>2, <2>3, <2>4, <2>5, <2>6, <2>7 DEF RequestStep
  <1> QED
    BY <1>1, <1>2, <1>3, <1>4 DEF Next

(* The types hold in every behaviour.                                      *)
THEOREM Typing == Spec => []TypeOK
  <1>1. TypeOK /\ [Next]_submissionVars => TypeOK'
    <2> SUFFICES ASSUME TypeOK, [Next]_submissionVars PROVE TypeOK'
      OBVIOUS
    <2>1. RowTypes'
      BY NextRow DEF TypeOK, RowTypes
    <2>2. status' \in {"ABSENT", "CREATED", "SUBMITTED"}
      BY DEF TypeOK, submissionVars, Next, CreateDocument, Upload, RequestStep, Claim,
             ClaimWrite, ClaimRefused, SendIngest, MarkEnqueued, MarkEnqueuedRefused,
             MarkFailed, Crash
    <2> QED
      BY <2>1, <2>2 DEF TypeOK, RowTypes
  <1> QED
    BY <1>1, InitType, PTL DEF Spec

-----------------------------------------------------------------------------
(* No step of a call takes the claim from another call that is sending.    *)
LEMMA NextSenderHoldsClaim ==
    ClaimInv /\ [Next]_submissionVars => SenderHoldsClaim'
  <1> SUFFICES ASSUME ClaimInv, [Next]_submissionVars PROVE SenderHoldsClaim'
    OBVIOUS
  <1> USE DEF ClaimInv, SenderHoldsClaim, HoldsClaim
  <1>1. CASE UNCHANGED submissionVars
    BY <1>1 DEF submissionVars
  <1>2. CASE CreateDocument
    BY <1>2 DEF CreateDocument
  <1>3. CASE Upload
    BY <1>3 DEF Upload
  <1>4. ASSUME NEW r \in Requests, RequestStep(r) \/ Crash(r)
        PROVE  SenderHoldsClaim'
    <2> USE DEF RowTypes
    <2>1. CASE Claim(r)
      BY <2>1 DEF Claim, ClaimWrite, CanClaim, Goto
    <2>2. CASE ClaimRefused(r)
      BY <2>2 DEF ClaimRefused, Goto
    <2>3. CASE SendIngest(r)
      BY <2>3 DEF SendIngest, Goto, At
    <2>4. CASE MarkEnqueued(r)
      BY <2>4 DEF MarkEnqueued, Goto, At
    <2>5. CASE MarkEnqueuedRefused(r)
      BY <2>5 DEF MarkEnqueuedRefused, Goto
    <2>6. CASE MarkFailed(r)
      BY <2>6 DEF MarkFailed, Goto, At
    <2>7. CASE Crash(r)
      BY <2>7 DEF Crash, Goto
    <2> QED
      BY <1>4, <2>1, <2>2, <2>3, <2>4, <2>5, <2>6, <2>7 DEF RequestStep
  <1> QED
    BY <1>1, <1>2, <1>3, <1>4 DEF Next

(* For any number of concurrent submit calls at most one is between its    *)
(* claim and the record of its message.                                    *)
THEOREM OneSenderHolds == Spec => []OneSender
  <1>1. Init => ClaimInv
    BY InitType DEF Init, TypeOK, RowTypes, ClaimInv, SenderHoldsClaim, Idle
  <1>2. ClaimInv /\ [Next]_submissionVars => ClaimInv'
    BY NextRow, NextSenderHoldsClaim DEF ClaimInv
  <1>3. ClaimInv => OneSender
    BY DEF ClaimInv, SenderHoldsClaim, HoldsClaim, OneSender
  <1> QED
    BY <1>1, <1>2, <1>3, PTL DEF Spec

(* A recorded handoff is never taken back, by any step of any call.        *)
THEOREM EnqueuedIsFinalHolds == Spec => EnqueuedIsFinal
  <1>1. [Next]_submissionVars =>
            [ingest.state = "ENQUEUED" => ingest' = ingest]_submissionVars
    <2> SUFFICES ASSUME Next, ingest.state = "ENQUEUED"
                 PROVE  ingest' = ingest
      BY DEF submissionVars
    <2> USE DEF HoldsClaim, CanClaim
    <2>1. CASE CreateDocument \/ Upload
      BY <2>1 DEF CreateDocument, Upload
    <2>2. ASSUME NEW r \in Requests, RequestStep(r) \/ Crash(r)
          PROVE  ingest' = ingest
      BY <2>2 DEF RequestStep, Claim, ClaimWrite, ClaimRefused, SendIngest,
                  MarkEnqueued, MarkEnqueuedRefused, MarkFailed, Crash
    <2> QED
      BY <2>1, <2>2 DEF Next
  <1> QED
    BY <1>1, PTL DEF Spec, EnqueuedIsFinal

-----------------------------------------------------------------------------
(* The agreement of the recorded ids is inductive: a message id is new     *)
(* when it is handed out, and only its sender records it.                  *)
LEMMA NextRecord == RecordInv /\ [Next]_submissionVars => RecordInv'
  <1> SUFFICES ASSUME RecordInv, [Next]_submissionVars PROVE RecordInv'
    OBVIOUS
  <1>1. RowTypes' /\ SenderHoldsClaim'
    BY NextRow, NextSenderHoldsClaim DEF RecordInv, ClaimInv
  <1>t. /\ ingestQ.next \in Nat /\ ingest.messageId \in Nat
        /\ \A m \in ingestQ.messages : m.id \in Nat
        /\ \A r \in Requests : request[r].messageId \in Nat
    BY DEF RecordInv, RowTypes, Queue, Message
  <1> DEFINE Ids == SentBefore /\ OwnMessage /\ RecordedBefore /\ RecordedTogether
  <1> USE DEF RecordInv, SentBefore, IdsBefore, OwnMessage, RecordedBefore, RecordedTogether
  <1>2. CASE UNCHANGED submissionVars
    BY <1>1, <1>2 DEF submissionVars
  <1>3. CASE CreateDocument
    BY <1>1, <1>3 DEF CreateDocument
  <1>4. CASE Upload
    BY <1>1, <1>4 DEF Upload
  <1>5. ASSUME NEW r \in Requests, RequestStep(r) \/ Crash(r) PROVE Ids'
    <2> USE DEF RowTypes
    <2>1. CASE Claim(r)
      BY <2>1 DEF Claim, ClaimWrite, Goto
    <2>2. CASE ClaimRefused(r)
      BY <2>2 DEF ClaimRefused, Goto
    <2>3. CASE SendIngest(r)
      <3>1. \/ ingestQ' = Sent(ingestQ, r)
            \/ ingestQ' = ingestQ /\ Goto(r, "recover")
        BY <2>3 DEF SendIngest
      <3>2. CASE ingestQ' = ingestQ /\ Goto(r, "recover")
        BY <2>3, <3>2 DEF SendIngest, Goto
      <3>3. CASE ingestQ' = Sent(ingestQ, r)
        <4>1. /\ ingestQ'.next = ingestQ.next + 1
              /\ ingestQ'.messages = ingestQ.messages \cup {Fresh(ingestQ, r)}
              /\ Fresh(ingestQ, r).id = ingestQ.next
              /\ Fresh(ingestQ, r).body = r
          BY <3>3, SentType
        <4>2. /\ ingest' = ingest
              /\ \A s \in Requests : s # r => request'[s] = request[s]
              /\ request'[r].pc = "record" => request'[r].messageId = ingestQ.next
          BY <2>3, <3>3 DEF SendIngest, Goto
        <4>3. SentBefore' /\ RecordedBefore' /\ RecordedTogether'
          BY <4>1, <4>2, <1>t
        <4>4. OwnMessage'
          BY <4>1, <4>2, <1>t
        <4> QED
          BY <4>3, <4>4
      <3> QED
        BY <3>1, <3>2, <3>3
    <2>4. CASE MarkEnqueued(r)
      BY <2>4 DEF MarkEnqueued, HoldsClaim, Goto, At
    <2>5. CASE MarkEnqueuedRefused(r)
      BY <2>5 DEF MarkEnqueuedRefused, Goto
    <2>6. CASE MarkFailed(r)
      BY <2>6 DEF MarkFailed, Goto
    <2>7. CASE Crash(r)
      BY <2>7 DEF Crash, Goto
    <2> QED
      BY <1>5, <2>1, <2>2, <2>3, <2>4, <2>5, <2>6, <2>7 DEF RequestStep
  <1> QED
    BY <1>1, <1>2, <1>3, <1>4, <1>5 DEF Next

(* The message recorded for the stage is the recorded call's own.          *)
THEOREM RecordedTogetherHolds == Spec => []RecordedTogether
  <1>1. Init => RecordInv
    BY InitType DEF Init, TypeOK, RowTypes, RecordInv, SenderHoldsClaim, SentBefore, IdsBefore, OwnMessage,
                    RecordedBefore, RecordedTogether, Idle, NoStage, EmptyQueue
  <1>2. RecordInv => RecordedTogether
    BY DEF RecordInv
  <1> QED
    BY <1>1, <1>2, NextRecord, PTL DEF Spec

-----------------------------------------------------------------------------
(* The statuses before the worker has the document.                        *)
Before == {"ABSENT", "CREATED", "SUBMITTED"}

Token == 1

PollBody == [job : {Token}, attempt : Nat]

Ingestor == [pc : {"idle", "start", "record", "send", "mark", "ack"}, message : Nat,
             job : {Ocr!NoJob, Token}, attempt : Nat, sent : Nat]

Poller == [pc : {"idle", "check", "requeue", "rebind", "fail", "store", "meter", "handoff",
                 "complete", "reread", "ack"}, message : Nat, job : {Ocr!NoJob, Token},
           attempt : Nat, sent : Nat]

WorkerTypes ==
    /\ status \in Before \cup {"OCR", "OCR_COMPLETED", "OCR_FAILED"}
    /\ jobs \subseteq {Token}
    /\ job \in {Ocr!NoJob, Token}
    /\ poll \in [state : {"none", "PENDING", "ENQUEUED"}, messageId : Nat]
    /\ ocrQ \in Queue(PollBody) /\ IdsBefore(ocrQ)
    /\ ingestor \in [IngestWorkers -> Ingestor]
    /\ poller \in [PollWorkers -> Poller]

(* A handler of the INGEST consumer works on the message that is recorded; *)
(* what it sends it names, and it acknowledges after the checkpoint.       *)
IngestHandler(w) ==
    ingestor[w].pc # "idle" =>
        /\ ingest.state = "ENQUEUED" /\ ingestor[w].message = ingest.messageId
        /\ ingestor[w].pc \in {"record", "send", "mark"} => ingestor[w].job = Token
        /\ ingestor[w].pc \in {"send", "mark", "ack"} => status \notin Before
        /\ ingestor[w].pc = "mark" => 1 <= ingestor[w].sent /\ ingestor[w].sent < ocrQ.next
        /\ ingestor[w].pc = "ack" => poll.state = "ENQUEUED"

(* A handler of the OCR_POLL consumer sends a message later than its own;  *)
(* while OCR runs it acknowledges only a message the checkpoint has left   *)
(* behind.                                                                 *)
PollHandler(w) ==
    poller[w].pc # "idle" =>
        /\ status \notin Before
        /\ 1 <= poller[w].message /\ poller[w].message < ocrQ.next
        /\ poller[w].job = Token
        /\ poller[w].pc = "rebind" =>
              poller[w].message < poller[w].sent /\ poller[w].sent < ocrQ.next
        /\ poller[w].pc = "ack" /\ status = "OCR" => poller[w].message < poll.messageId

(* The poll queue begins with the job; the checkpoint names a message that *)
(* was sent.                                                               *)
PollRow ==
    /\ status \in Before => ocrQ.next = 1
    /\ status \notin Before => ingest.state = "ENQUEUED" /\ job = Token
    /\ poll.state # "ENQUEUED" => poll.messageId = NoMessage
    /\ poll.state = "ENQUEUED" => 1 <= poll.messageId /\ poll.messageId < ocrQ.next

(* While OCR runs every poll message from the one the checkpoint names on  *)
(* is there: the current one, and the replacements that are not bound yet. *)
PollKept ==
    status = "OCR" =>
        \A i \in Nat : 1 <= i /\ poll.messageId <= i /\ i < ocrQ.next => i \in Retained(ocrQ)

(* The message a call is about to record is there, and so is the recorded  *)
(* one until the poll has taken the document over.                         *)
IngestKept ==
    /\ \A r \in Requests :
          request[r].pc = "record" => request[r].messageId \in Retained(ingestQ)
    /\ Ocr!AwaitsIngest => ingest.messageId \in Retained(ingestQ)

(* The queues to the next stages, which only the OCR_POLL consumer writes. *)
DownTypes ==
    /\ classifyQ \in Queue({DocumentRoute})
    /\ extractQ \in [Ocr!Domains -> Queue(Ocr!Domains)]

IntakeInv ==
    /\ RecordInv /\ WorkerTypes /\ PollRow /\ PollKept /\ IngestKept
    /\ \A w \in IngestWorkers : IngestHandler(w)
    /\ \A w \in PollWorkers : PollHandler(w)

-----------------------------------------------------------------------------
(* The worker uses the same queues.                                        *)
LEMMA SameQueue ==
    ASSUME NEW q, NEW b, NEW m
    PROVE  /\ Ocr!Sent(q, b) = Sent(q, b)
           /\ Ocr!Delivered(q, m) = Delivered(q, m)
           /\ Ocr!Deleted(q, m) = Deleted(q, m)
           /\ Ocr!Retained(q) = Retained(q)
           /\ Ocr!CanDeliver(m) <=> CanDeliver(m)
           /\ Ocr!NoMessage = NoMessage /\ Ocr!EmptyQueue = EmptyQueue
  BY DEF Ocr!Sent, Sent, Ocr!Fresh, Fresh, Ocr!Delivered, Delivered, Ocr!Deleted, Deleted,
         Ocr!Retained, Retained, Ocr!CanDeliver, CanDeliver, Ocr!NoMessage, NoMessage,
         Ocr!EmptyQueue, EmptyQueue

(* A submit call writes nothing of a document that the worker has, and     *)
(* takes no record back.                                                   *)
LEMMA ApiFrame ==
    ASSUME Next, status # "UPLOADED"
    PROVE  /\ ingest.state = "ENQUEUED" => ingest' = ingest
           /\ status \notin Before => status' = status
           /\ status \in Before => status' \in Before
           /\ ingestQ' = ingestQ \/ \E r \in Requests : SendIngest(r)
  <1>1. CASE CreateDocument \/ Upload
    BY <1>1 DEF CreateDocument, Upload, Before
  <1>2. ASSUME NEW r \in Requests, RequestStep(r) \/ Crash(r), ~SendIngest(r)
        PROVE  /\ ingest.state = "ENQUEUED" => ingest' = ingest
               /\ status \notin Before => status' = status
               /\ status \in Before => status' \in Before
               /\ ingestQ' = ingestQ
    BY <1>2 DEF RequestStep, Claim, ClaimWrite, CanClaim, ClaimRefused, MarkEnqueued,
                MarkEnqueuedRefused, MarkFailed, Crash, HoldsClaim, Before
  <1>3. ASSUME NEW r \in Requests, SendIngest(r)
        PROVE  ingest' = ingest /\ status' = status
    BY <1>3 DEF SendIngest
  <1> QED
    BY <1>1, <1>2, <1>3 DEF Next

(* The message of a call stays until it is recorded.                       *)
LEMMA ApiKept ==
    ASSUME IntakeInv, Next, UNCHANGED workerVars
    PROVE  IngestKept'
  <1>1. RowTypes /\ RowTypes'
    BY NextRow DEF IntakeInv, RecordInv, submissionVars
  <1>2. ASSUME Retained(ingestQ) \subseteq Retained(ingestQ'),
               \A r \in Requests : request'[r].pc = "record" => request[r].pc = "record"
                    /\ request'[r].messageId = request[r].messageId,
               Ocr!AwaitsIngest' => Ocr!AwaitsIngest /\ ingest'.messageId = ingest.messageId
        PROVE  IngestKept'
    BY <1>2 DEF IntakeInv, IngestKept
  <1>3. CASE CreateDocument \/ Upload
    BY <1>2, <1>3 DEF CreateDocument, Upload, Ocr!AwaitsIngest, workerVars
  <1>4. ASSUME NEW r \in Requests, SendIngest(r) PROVE IngestKept'
    <2>1. \/ ingestQ' = ingestQ /\ Goto(r, "recover")
          \/ ingestQ' = Sent(ingestQ, r) /\ Goto(r, "recover")
          \/ /\ ingestQ' = Sent(ingestQ, r)
             /\ request' = [request EXCEPT ![r] = [pc |-> "record", messageId |-> ingestQ.next]]
      BY <1>4 DEF SendIngest
    <2>2. /\ Sent(ingestQ, r).messages = ingestQ.messages \cup {Fresh(ingestQ, r)}
          /\ Fresh(ingestQ, r).id = ingestQ.next
      <3>1. ingestQ \in Queue(Requests)
        BY <1>1 DEF RowTypes
      <3> QED
        BY <3>1, SentType
    <2>3. /\ Retained(ingestQ) \subseteq Retained(ingestQ')
          /\ ingestQ' = Sent(ingestQ, r) => ingestQ.next \in Retained(ingestQ')
      BY <2>1, <2>2, Zenon DEF Retained
    <2>4. Ocr!AwaitsIngest' => Ocr!AwaitsIngest /\ ingest'.messageId = ingest.messageId
      BY <1>4 DEF SendIngest, Ocr!AwaitsIngest, workerVars
    <2>5. CASE Goto(r, "recover")
      BY <1>1, <1>2, <2>3, <2>4, <2>5 DEF Goto, RowTypes
    <2>6. CASE /\ ingestQ' = Sent(ingestQ, r)
               /\ request' = [request EXCEPT ![r] =
                                [pc |-> "record", messageId |-> ingestQ.next]]
      BY <1>1, <2>3, <2>4, <2>6 DEF RowTypes, IntakeInv, IngestKept
    <2> QED
      BY <2>1, <2>5, <2>6
  <1>5. ASSUME NEW r \in Requests, MarkEnqueued(r) PROVE IngestKept'
    <2>1. /\ request[r].pc = "record" /\ ingest'.messageId = request[r].messageId
          /\ UNCHANGED ingestQ
          /\ \A s \in Requests : request'[s].pc = "record" => request[s].pc = "record"
                    /\ request'[s].messageId = request[s].messageId
      BY <1>1, <1>5 DEF MarkEnqueued, At, Goto, RowTypes
    <2> QED
      BY <2>1 DEF IntakeInv, IngestKept
  <1>6. ASSUME NEW r \in Requests, RequestStep(r) \/ Crash(r), ~SendIngest(r), ~MarkEnqueued(r)
        PROVE  IngestKept'
    <2>1. /\ UNCHANGED ingestQ
          /\ \A s \in Requests : request'[s].pc = "record" => request[s].pc = "record"
                    /\ request'[s].messageId = request[s].messageId
      BY <1>1, <1>6 DEF RequestStep, Claim, ClaimRefused, MarkEnqueuedRefused, MarkFailed,
         Crash, Goto, RowTypes
    <2>2. Ocr!AwaitsIngest' => Ocr!AwaitsIngest /\ ingest'.messageId = ingest.messageId
      BY <1>1, <1>6 DEF RequestStep, Claim, ClaimWrite, CanClaim, ClaimRefused,
         MarkEnqueuedRefused, MarkFailed, HoldsClaim, Crash, RowTypes, Ocr!AwaitsIngest,
         workerVars
    <2> QED
      BY <1>2, <2>1, <2>2
  <1> QED
    BY <1>3, <1>4, <1>5, <1>6 DEF Next

(* A step of a submit call keeps the rest by the frame alone.              *)
LEMMA ApiInv ==
    ASSUME IntakeInv, Next, UNCHANGED workerVars
    PROVE  IntakeInv'
  <1>1. RecordInv'
    BY NextRecord DEF IntakeInv
  <1>2. IngestKept'
    BY ApiKept
  <1>3. /\ ingest.state = "ENQUEUED" => ingest' = ingest
        /\ status \notin Before => status' = status
        /\ status \in Before => status' \in Before
    BY ApiFrame DEF IntakeInv, WorkerTypes, Before
  <1>4. "OCR" \notin Before
    BY DEF Before
  <1>5. WorkerTypes'
    BY <1>3 DEF IntakeInv, WorkerTypes, workerVars, Before, IdsBefore
  <1>6. \A w \in IngestWorkers : IngestHandler(w)'
    BY <1>3 DEF IntakeInv, IngestHandler, workerVars
  <1>7. \A w \in PollWorkers : PollHandler(w)'
    BY <1>3, <1>4 DEF IntakeInv, PollHandler, workerVars
  <1>8. PollRow' /\ PollKept'
    BY <1>3, <1>4 DEF IntakeInv, PollRow, PollKept, workerVars
  <1> QED
    BY <1>1, <1>2, <1>5, <1>6, <1>7, <1>8 DEF IntakeInv

-----------------------------------------------------------------------------
(* The steps of the worker.                                                *)

(* What a worker step owes the calls: the messages keep ids and bodies,    *)
(* and the document is taken over only after the record.                   *)
LEMMA CallsKept ==
    ASSUME RecordInv, UNCHANGED <<ingest, uploaded, request>>,
           ingestQ' \in Queue(Requests), ingestQ'.next = ingestQ.next,
           \A n \in ingestQ'.messages : \E o \in ingestQ.messages :
               n.id = o.id /\ n.body = o.body,
           ingest.state # "ENQUEUED" => status' = status
    PROVE  RecordInv'
  <1>1. RowTypes' /\ SentBefore' /\ RecordedBefore' /\ RecordedTogether'
    BY DEF RecordInv, RowTypes, SentBefore, IdsBefore, RecordedBefore, RecordedTogether
  <1>2. SenderHoldsClaim'
    BY DEF RecordInv, SenderHoldsClaim, HoldsClaim
  <1>3. OwnMessage'
    BY DEF RecordInv, OwnMessage
  <1> QED
    BY <1>1, <1>2, <1>3 DEF RecordInv

LEMMA CallsUntouched ==
    ASSUME RecordInv, UNCHANGED <<ingest, uploaded, ingestQ, request>>,
           ingest.state # "ENQUEUED" => status' = status
    PROVE  RecordInv'
  BY CallsKept DEF RecordInv, RowTypes

(* Steps of a handler of the INGEST consumer that write neither the        *)
(* document nor a queue, and leave it about to do nothing more than before.*)
LEMMA IngestorMoves ==
    ASSUME IntakeInv, NEW w \in IngestWorkers, jobs' \subseteq {Token},
           UNCHANGED <<status, ingest, uploaded, ingestQ, request, job, poll, ocrQ, poller>>,
           ingestor' \in [IngestWorkers -> Ingestor],
           \A v \in IngestWorkers : v # w => ingestor'[v] = ingestor[v],
           IngestHandler(w)'
    PROVE  IntakeInv'
  <1>1. RecordInv'
    BY CallsUntouched DEF IntakeInv
  <1>2. WorkerTypes'
    BY DEF IntakeInv, WorkerTypes, IdsBefore
  <1>3. PollRow' /\ PollKept' /\ IngestKept'
    BY DEF IntakeInv, PollRow, PollKept, IngestKept, Ocr!AwaitsIngest
  <1>4. \A v \in PollWorkers : PollHandler(v)'
    BY DEF IntakeInv, PollHandler
  <1>5. \A v \in IngestWorkers : v # w => IngestHandler(v)'
    BY DEF IntakeInv, IngestHandler
  <1> QED
    BY <1>1, <1>2, <1>3, <1>4, <1>5 DEF IntakeInv

(* One handler of the INGEST consumer changes.                             *)
LEMMA IngestorUpdate ==
    ASSUME WorkerTypes, NEW w \in IngestWorkers, NEW r \in Ingestor,
           ingestor' = [ingestor EXCEPT ![w] = r]
    PROVE  /\ ingestor' \in [IngestWorkers -> Ingestor]
           /\ ingestor'[w] = r
           /\ \A v \in IngestWorkers : v # w => ingestor'[v] = ingestor[v]
  BY DEF WorkerTypes

LEMMA IngestorGoto ==
    ASSUME WorkerTypes, NEW w \in IngestWorkers,
           NEW pc \in {"start", "record", "send", "mark", "ack"}, Ocr!IngestGoto(w, pc)
    PROVE  /\ ingestor' \in [IngestWorkers -> Ingestor]
           /\ ingestor'[w].pc = pc /\ ingestor'[w].message = ingestor[w].message
           /\ ingestor'[w].job = ingestor[w].job /\ ingestor'[w].sent = ingestor[w].sent
           /\ \A v \in IngestWorkers : v # w => ingestor'[v] = ingestor[v]
  BY DEF WorkerTypes, Ingestor, Ocr!IngestGoto

LEMMA IdleTyped ==
    Ocr!IdleWorker \in Ingestor /\ Ocr!IdleWorker \in Poller /\ Ocr!IdleWorker.pc = "idle"
  BY DEF Ocr!IdleWorker, Ingestor, Poller, Ocr!NoMessage, Ocr!NoJob

LEMMA IngestorEnds ==
    ASSUME WorkerTypes, NEW w \in IngestWorkers, Ocr!IngestEnds(w)
    PROVE  /\ ingestor' \in [IngestWorkers -> Ingestor]
           /\ IngestHandler(w)'
           /\ \A v \in IngestWorkers : v # w => ingestor'[v] = ingestor[v]
  BY IngestorUpdate, IdleTyped DEF Ocr!IngestEnds, IngestHandler

LEMMA IngestFailsInv ==
    ASSUME IntakeInv, NEW w \in IngestWorkers, UNCHANGED request, Ocr!IngestFails(w)
    PROVE  IntakeInv'
  <1>1. /\ Ocr!IngestEnds(w) /\ WorkerTypes
        /\ UNCHANGED <<status, ingest, uploaded, ingestQ, request, job, poll, ocrQ, poller, jobs>>
    BY DEF Ocr!IngestFails, Ocr!document, IntakeInv
  <1>2. jobs' \subseteq {Token}
    BY <1>1 DEF WorkerTypes
  <1> QED
    BY <1>1, <1>2, IngestorEnds, IngestorMoves

(* A delivery to the INGEST consumer.                                      *)
LEMMA ReceiveIngestInv ==
    ASSUME IntakeInv, NEW w \in IngestWorkers, NEW m \in ingestQ.messages, UNCHANGED request,
           Ocr!ReceiveIngest(w, m)
    PROVE  IntakeInv'
  <1>1. /\ CanDeliver(m) /\ ingestQ' = Delivered(ingestQ, m) /\ WorkerTypes
        /\ UNCHANGED <<status, ingest, uploaded, request, job, poll, ocrQ, poller, jobs>>
    BY SameQueue DEF Ocr!ReceiveIngest, Ocr!document, IntakeInv
  <1>2. ingestQ \in Queue(Requests) /\ m \in Message(Requests) /\ m.id \in Nat
    BY DEF IntakeInv, RecordInv, RowTypes, Queue, Message
  <1>3. /\ ingestQ' \in Queue(Requests) /\ ingestQ'.next = ingestQ.next
        /\ Retained(ingestQ') = Retained(ingestQ)
        /\ \A n \in ingestQ'.messages : \E o \in ingestQ.messages : n.id = o.id /\ n.body = o.body
    BY <1>1, <1>2, DeliveredType, DeliveredBody
  <1>4. RecordInv'
    BY <1>1, <1>3, CallsKept DEF IntakeInv
  <1> DEFINE next == Ocr!IngestDecision(m)
             r == [Ocr!IdleWorker EXCEPT !.pc = next, !.message = m.id, !.job = job]
  <1>5. next # "idle" =>
          /\ ingest.state = "ENQUEUED" /\ m.id = ingest.messageId
          /\ next \in {"ack", "send", "start"}
          /\ next \in {"ack", "send"} => status \notin Before
          /\ next = "ack" => poll.state = "ENQUEUED"
    <2>1. CASE ~Ocr!IngestAccepts(m)
      BY <2>1 DEF Ocr!IngestDecision
    <2>2. CASE Ocr!IngestAccepts(m)
      <3>1. ingest.state = "ENQUEUED" /\ m.id = ingest.messageId
        BY <2>2 DEF Ocr!IngestAccepts
      <3>2. /\ next \in {"idle", "ack", "send", "start"}
            /\ next = "ack" => poll.state = "ENQUEUED"
            /\ next \in {"ack", "send"} => status \notin Before
        BY <2>2 DEF Ocr!IngestDecision, Ocr!PollIsDurable, Ocr!HandoffConfirmed, Before
      <3> QED
        BY <3>1, <3>2
    <2> QED
      BY <2>1, <2>2
  <1>6. ingestor' = IF next = "idle" THEN ingestor ELSE [ingestor EXCEPT ![w] = r]
    BY DEF Ocr!ReceiveIngest
  <1>7. /\ ingestor' \in [IngestWorkers -> Ingestor]
        /\ \A v \in IngestWorkers : v # w => ingestor'[v] = ingestor[v]
        /\ IngestHandler(w)'
    <2> HIDE DEF next
    <2>1. CASE next = "idle"
      BY <1>1, <1>6, <2>1 DEF IntakeInv, IngestHandler, WorkerTypes
    <2>2. CASE next # "idle"
      <3>1. r \in Ingestor /\ r.pc = next /\ r.message = m.id /\ r.job = job
        BY <1>1, <1>2, <1>5, <2>2
        DEF Ocr!IdleWorker, Ingestor, WorkerTypes, Ocr!NoMessage, Ocr!NoJob
      <3> HIDE DEF r
      <3>2. /\ ingestor' \in [IngestWorkers -> Ingestor]
            /\ ingestor'[w] = r
            /\ \A v \in IngestWorkers : v # w => ingestor'[v] = ingestor[v]
        BY <1>1, <1>6, <2>2, <3>1, IngestorUpdate
      <3>3. status \notin Before => job = Token
        BY DEF IntakeInv, PollRow
      <3> QED
        BY <1>1, <1>5, <2>2, <3>1, <3>2, <3>3 DEF IngestHandler
    <2> QED
      BY <2>1, <2>2
  <1>8. WorkerTypes'
    BY <1>1, <1>7 DEF WorkerTypes, IdsBefore
  <1>9. PollRow' /\ PollKept' /\ IngestKept'
    BY <1>1, <1>3 DEF IntakeInv, PollRow, PollKept, IngestKept, Ocr!AwaitsIngest
  <1>10. \A v \in PollWorkers : PollHandler(v)'
    BY <1>1 DEF IntakeInv, PollHandler
  <1>11. \A v \in IngestWorkers : v # w => IngestHandler(v)'
    BY <1>1, <1>7 DEF IntakeInv, IngestHandler
  <1> QED
    BY <1>4, <1>7, <1>8, <1>9, <1>10, <1>11 DEF IntakeInv

(* Textract knows the document by one token.                               *)
LEMMA StartTextractInv ==
    ASSUME IntakeInv, NEW w \in IngestWorkers, UNCHANGED request, Ocr!StartTextract(w)
    PROVE  IntakeInv'
  <1> DEFINE r == [ingestor[w] EXCEPT !.pc = "record", !.job = Token]
  <1>1. /\ WorkerTypes /\ ingestor[w] \in Ingestor /\ ingestor[w].pc = "start"
        /\ jobs' = jobs \cup {Token}
        /\ ingestor' = [ingestor EXCEPT ![w].pc = "record", ![w].job = Token]
        /\ UNCHANGED <<status, ingest, uploaded, ingestQ, request, job, poll, ocrQ, poller>>
    BY DEF Ocr!StartTextract, Ocr!document, IntakeInv, WorkerTypes, Ocr!ClientRequestToken, Token
  <1>2. jobs' \subseteq {Token}
    BY <1>1 DEF WorkerTypes
  <1>3. /\ ingestor' \in [IngestWorkers -> Ingestor]
        /\ \A v \in IngestWorkers : v # w => ingestor'[v] = ingestor[v]
        /\ ingestor'[w].pc = "record" /\ ingestor'[w].job = Token
        /\ ingestor'[w].message = ingestor[w].message
    BY <1>1 DEF WorkerTypes, Ingestor
  <1>4. IngestHandler(w)'
    BY <1>1, <1>3 DEF IntakeInv, IngestHandler
  <1> QED
    BY <1>1, <1>2, <1>3, <1>4, IngestorMoves

(* The worker takes the document over, before any poll message exists.     *)
LEMMA RecordJobInv ==
    ASSUME IntakeInv, NEW w \in IngestWorkers, UNCHANGED request, Ocr!RecordJob(w)
    PROVE  IntakeInv'
  <1>1. /\ WorkerTypes /\ IngestHandler(w) /\ ingestor[w].pc = "record"
        /\ UNCHANGED <<ingest, uploaded, ingestQ, request, ocrQ, poller, jobs>>
        /\ jobs' \subseteq {Token}
    BY DEF Ocr!RecordJob, IntakeInv, WorkerTypes
  <1>2. CASE status # "SUBMITTED"
    BY <1>1, <1>2, IngestorEnds, IngestorMoves DEF Ocr!RecordJob
  <1>3. CASE status = "SUBMITTED"
    <2>1. /\ status' = "OCR" /\ job' = ingestor[w].job
          /\ poll' = [state |-> "PENDING", messageId |-> Ocr!NoMessage]
          /\ Ocr!IngestGoto(w, "send")
      BY <1>3 DEF Ocr!RecordJob
    <2>2. PICK pc \in {"send"} : Ocr!IngestGoto(w, pc)
      BY <2>1
    <2>3. /\ ingestor' \in [IngestWorkers -> Ingestor]
          /\ ingestor'[w].pc = "send" /\ ingestor'[w].message = ingestor[w].message
          /\ ingestor'[w].job = ingestor[w].job
          /\ \A v \in IngestWorkers : v # w => ingestor'[v] = ingestor[v]
      BY <1>1, <2>2, IngestorGoto
    <2>4. /\ ingest.state = "ENQUEUED" /\ ingestor[w].job = Token /\ job' = Token
          /\ ingestor[w].message = ingest.messageId
      BY <1>1, <2>1 DEF IngestHandler
    <2>5. /\ poll'.state = "PENDING" /\ poll'.messageId = NoMessage
          /\ ocrQ.next = 1 /\ status \in Before /\ "OCR" \notin Before
      BY <1>3, <2>1, SameQueue DEF IntakeInv, PollRow, Before
    <2>6. RecordInv'
      BY <1>1, <2>4, CallsUntouched DEF IntakeInv
    <2>7. WorkerTypes'
      BY <1>1, <2>1, <2>3, <2>4 DEF WorkerTypes, IdsBefore, Ocr!NoMessage
    <2>8. PollRow' /\ PollKept'
      BY <1>1, <2>1, <2>4, <2>5 DEF PollRow, PollKept
    <2>9. IngestKept'
      BY <1>1, <1>3, <2>4 DEF IntakeInv, IngestKept, Ocr!AwaitsIngest
    <2>10. \A v \in PollWorkers : PollHandler(v)'
      BY <1>1, <2>5 DEF IntakeInv, PollHandler
    <2>11. \A v \in IngestWorkers : v # w => IngestHandler(v)'
      BY <1>1, <2>1, <2>3, <2>5 DEF IntakeInv, IngestHandler
    <2>12. IngestHandler(w)'
      BY <1>1, <2>1, <2>3, <2>4, <2>5 DEF IngestHandler
    <2> QED
      BY <2>6, <2>7, <2>8, <2>9, <2>10, <2>11, <2>12 DEF IntakeInv
  <1> QED
    BY <1>2, <1>3

(* A poll message of the job is sent: nothing that was there is lost, and  *)
(* no checkpoint changes.                                                  *)
LEMMA PollSent ==
    ASSUME IntakeInv, NEW body \in PollBody, ocrQ' = Sent(ocrQ, body),
           status \notin Before, UNCHANGED <<status, job, poll, ingest>>
    PROVE  /\ ocrQ.next \in Nat /\ 1 <= ocrQ.next /\ ocrQ'.next = ocrQ.next + 1
           /\ ocrQ' \in Queue(PollBody) /\ IdsBefore(ocrQ')
           /\ PollRow' /\ PollKept'
           /\ \A v \in PollWorkers : poller'[v] = poller[v] => PollHandler(v)'
           /\ \A v \in IngestWorkers : ingestor'[v] = ingestor[v] => IngestHandler(v)'
  <1>1. /\ ocrQ \in Queue(PollBody) /\ ocrQ.next \in Nat \ {0} /\ WorkerTypes
        /\ \A m \in ocrQ.messages : m.id \in Nat /\ m.id < ocrQ.next
    BY DEF IntakeInv, WorkerTypes, Queue, Message, NoMessage, IdsBefore
  <1>2. /\ ocrQ' \in Queue(PollBody) /\ ocrQ'.next = ocrQ.next + 1
        /\ ocrQ'.messages = ocrQ.messages \cup {Fresh(ocrQ, body)}
        /\ Fresh(ocrQ, body).id = ocrQ.next
    BY <1>1, SentType
  <1>3. IdsBefore(ocrQ')
    BY <1>1, <1>2 DEF IdsBefore
  <1>4. Retained(ocrQ') = Retained(ocrQ) \cup {ocrQ.next}
    BY <1>2, Zenon DEF Retained
  <1>5. poll.messageId \in Nat
    BY <1>1 DEF WorkerTypes
  <1>6. PollRow'
    BY <1>1, <1>2, <1>5 DEF IntakeInv, PollRow
  <1>7. PollKept'
    BY <1>1, <1>2, <1>4, <1>5 DEF IntakeInv, PollKept
  <1>8. ASSUME NEW v \in PollWorkers, poller'[v] = poller[v] PROVE PollHandler(v)'
    <2>1. poller[v].message \in Nat /\ poller[v].sent \in Nat
      BY <1>1 DEF WorkerTypes, Poller
    <2> QED
      BY <1>1, <1>2, <1>8, <2>1 DEF IntakeInv, PollHandler
  <1>9. ASSUME NEW v \in IngestWorkers, ingestor'[v] = ingestor[v] PROVE IngestHandler(v)'
    <2>1. ingestor[v].sent \in Nat
      BY <1>1 DEF WorkerTypes, Ingestor
    <2> QED
      BY <1>1, <1>2, <1>9, <2>1 DEF IntakeInv, IngestHandler
  <1> QED
    BY <1>1, <1>2, <1>3, <1>6, <1>7, <1>8, <1>9

LEMMA SendPollInv ==
    ASSUME IntakeInv, NEW w \in IngestWorkers, UNCHANGED request, Ocr!SendPoll(w)
    PROVE  IntakeInv'
  <1>1. /\ WorkerTypes /\ IngestHandler(w) /\ ingestor[w].pc = "send"
        /\ ingestor[w] \in Ingestor
        /\ UNCHANGED <<status, ingest, uploaded, ingestQ, request, job, poll, poller, jobs>>
        /\ ocrQ' = Sent(ocrQ, [job |-> ingestor[w].job, attempt |-> 0])
        /\ ingestor' = [ingestor EXCEPT ![w].pc = "mark", ![w].sent = ocrQ.next]
    BY SameQueue DEF Ocr!SendPoll, Ocr!document, IntakeInv, WorkerTypes
  <1>2. [job |-> ingestor[w].job, attempt |-> 0] \in PollBody /\ status \notin Before
        /\ ingest.state = "ENQUEUED" /\ ingestor[w].job = Token
        /\ ingestor[w].message = ingest.messageId
    BY <1>1 DEF IngestHandler, PollBody
  <1>3. /\ ocrQ.next \in Nat /\ 1 <= ocrQ.next /\ ocrQ'.next = ocrQ.next + 1
        /\ ocrQ' \in Queue(PollBody) /\ IdsBefore(ocrQ')
        /\ PollRow' /\ PollKept'
        /\ \A v \in PollWorkers : poller'[v] = poller[v] => PollHandler(v)'
        /\ \A v \in IngestWorkers : ingestor'[v] = ingestor[v] => IngestHandler(v)'
    BY <1>1, <1>2, PollSent
  <1>4. /\ ingestor' \in [IngestWorkers -> Ingestor]
        /\ ingestor'[w].pc = "mark" /\ ingestor'[w].message = ingestor[w].message
        /\ ingestor'[w].job = ingestor[w].job /\ ingestor'[w].sent = ocrQ.next
        /\ \A v \in IngestWorkers : v # w => ingestor'[v] = ingestor[v]
    BY <1>1, <1>3 DEF WorkerTypes, Ingestor
  <1>5. IngestHandler(w)'
    BY <1>1, <1>2, <1>3, <1>4 DEF IngestHandler
  <1>6. RecordInv'
    BY <1>1, CallsUntouched DEF IntakeInv
  <1>7. WorkerTypes'
    BY <1>1, <1>3, <1>4 DEF WorkerTypes
  <1>8. IngestKept'
    BY <1>1 DEF IntakeInv, IngestKept, Ocr!AwaitsIngest
  <1> QED
    BY <1>1, <1>3, <1>4, <1>5, <1>6, <1>7, <1>8 DEF IntakeInv

(* The checkpoint names the message that was sent.                         *)
LEMMA MarkPollInv ==
    ASSUME IntakeInv, NEW w \in IngestWorkers, UNCHANGED request, Ocr!MarkPoll(w)
    PROVE  IntakeInv'
  <1>1. /\ WorkerTypes /\ IngestHandler(w) /\ ingestor[w].pc = "mark"
        /\ ingestor[w] \in Ingestor
        /\ UNCHANGED <<status, ingest, uploaded, ingestQ, request, job, ocrQ, poller, jobs>>
        /\ jobs' \subseteq {Token}
    BY DEF Ocr!MarkPoll, IntakeInv, WorkerTypes
  <1> DEFINE marks == status = "OCR" /\ job = ingestor[w].job /\ poll.state = "PENDING"
  <1>2. CASE ~marks
    BY <1>1, <1>2, IngestorEnds, IngestorMoves DEF Ocr!MarkPoll
  <1>3. CASE marks
    <2>1. /\ poll' = [state |-> "ENQUEUED", messageId |-> ingestor[w].sent]
          /\ Ocr!IngestGoto(w, "ack")
      BY <1>3 DEF Ocr!MarkPoll
    <2>2. PICK pc \in {"ack"} : Ocr!IngestGoto(w, pc)
      BY <2>1
    <2>3. /\ ingestor' \in [IngestWorkers -> Ingestor]
          /\ ingestor'[w].pc = "ack" /\ ingestor'[w].message = ingestor[w].message
          /\ \A v \in IngestWorkers : v # w => ingestor'[v] = ingestor[v]
      BY <1>1, <2>2, IngestorGoto
    <2>4. /\ ingest.state = "ENQUEUED" /\ ingestor[w].message = ingest.messageId
          /\ status \notin Before
          /\ 1 <= ingestor[w].sent /\ ingestor[w].sent < ocrQ.next /\ ingestor[w].sent \in Nat
      BY <1>1 DEF IngestHandler, Ingestor
    <2>5. poll.messageId = 0 /\ ocrQ.next \in Nat
      BY <1>1, <1>3 DEF IntakeInv, PollRow, NoMessage, WorkerTypes, Queue
    <2>6. RecordInv'
      BY <1>1, CallsUntouched DEF IntakeInv
    <2>7. WorkerTypes'
      BY <1>1, <2>1, <2>3, <2>4 DEF WorkerTypes, IdsBefore
    <2>8. PollRow' /\ PollKept'
      BY <1>1, <2>1, <2>4, <2>5 DEF IntakeInv, PollRow, PollKept
    <2>9. IngestKept'
      BY <1>1, <1>3, <2>1 DEF IntakeInv, IngestKept, Ocr!AwaitsIngest
    <2>10. \A v \in PollWorkers : PollHandler(v)'
      <3>1. \A v \in PollWorkers : poller[v].message \in Nat
        BY <1>1 DEF WorkerTypes, Poller
      <3> QED
        BY <1>1, <1>3, <2>5, <3>1 DEF IntakeInv, PollHandler
    <2>11. \A v \in IngestWorkers : v # w => IngestHandler(v)'
      BY <1>1, <2>1, <2>3 DEF IntakeInv, IngestHandler
    <2>12. IngestHandler(w)'
      BY <1>1, <2>1, <2>3, <2>4 DEF IngestHandler
    <2> QED
      BY <2>6, <2>7, <2>8, <2>9, <2>10, <2>11, <2>12 DEF IntakeInv
  <1> QED
    BY <1>2, <1>3

(* The recorded message is deleted after the poll has taken over, when no  *)
(* call is about to record one.                                            *)
LEMMA AckIngestInv ==
    ASSUME IntakeInv, NEW w \in IngestWorkers, UNCHANGED request, Ocr!AckIngest(w)
    PROVE  IntakeInv'
  <1>1. /\ WorkerTypes /\ IngestHandler(w) /\ ingestor[w].pc = "ack" /\ RecordInv
        /\ ingestQ' = Deleted(ingestQ, ingestor[w].message) /\ Ocr!IngestEnds(w)
        /\ UNCHANGED <<status, ingest, uploaded, request, job, poll, ocrQ, poller, jobs>>
    BY SameQueue DEF Ocr!AckIngest, Ocr!document, IntakeInv
  <1>2. /\ ingest.state = "ENQUEUED" /\ status \notin Before /\ poll.state = "ENQUEUED"
    BY <1>1 DEF IngestHandler
  <1>3. ingestQ \in Queue(Requests)
    BY <1>1 DEF RecordInv, RowTypes
  <1>4. /\ ingestQ' \in Queue(Requests) /\ ingestQ'.next = ingestQ.next
        /\ ingestQ'.messages \subseteq ingestQ.messages
    BY <1>1, <1>3, DeletedType
  <1>5. RecordInv'
    BY <1>1, <1>4, CallsKept
  <1>6. /\ ingestor' \in [IngestWorkers -> Ingestor]
        /\ IngestHandler(w)'
        /\ \A v \in IngestWorkers : v # w => ingestor'[v] = ingestor[v]
    BY <1>1, IngestorEnds
  <1>7. WorkerTypes'
    BY <1>1, <1>6 DEF WorkerTypes, IdsBefore
  <1>8. PollRow' /\ PollKept'
    BY <1>1 DEF IntakeInv, PollRow, PollKept
  <1>9. IngestKept'
    <2>1. \A r \in Requests : request[r].pc # "record"
      BY <1>1, <1>2 DEF RecordInv, SenderHoldsClaim, HoldsClaim
    <2>2. ~Ocr!AwaitsIngest'
      BY <1>1, <1>2 DEF Ocr!AwaitsIngest, Before
    <2> QED
      BY <1>1, <2>1, <2>2 DEF IngestKept
  <1>10. \A v \in PollWorkers : PollHandler(v)'
    BY <1>1 DEF IntakeInv, PollHandler
  <1>11. \A v \in IngestWorkers : v # w => IngestHandler(v)'
    BY <1>1, <1>6 DEF IntakeInv, IngestHandler
  <1> QED
    BY <1>5, <1>6, <1>7, <1>8, <1>9, <1>10, <1>11 DEF IntakeInv

-----------------------------------------------------------------------------
(* Steps of a handler of the OCR_POLL consumer that write neither the      *)
(* document nor a queue.                                                   *)
LEMMA PollerMoves ==
    ASSUME IntakeInv, NEW w \in PollWorkers,
           UNCHANGED <<status, ingest, uploaded, ingestQ, request, job, poll, ocrQ, ingestor,
                       jobs>>,
           poller' \in [PollWorkers -> Poller],
           \A v \in PollWorkers : v # w => poller'[v] = poller[v],
           PollHandler(w)'
    PROVE  IntakeInv'
  <1>1. RecordInv'
    BY CallsUntouched DEF IntakeInv
  <1>2. WorkerTypes'
    BY DEF IntakeInv, WorkerTypes, IdsBefore
  <1>3. PollRow' /\ PollKept' /\ IngestKept'
    BY DEF IntakeInv, PollRow, PollKept, IngestKept, Ocr!AwaitsIngest
  <1>4. \A v \in IngestWorkers : IngestHandler(v)'
    BY DEF IntakeInv, IngestHandler
  <1>5. \A v \in PollWorkers : v # w => PollHandler(v)'
    BY DEF IntakeInv, PollHandler
  <1> QED
    BY <1>1, <1>2, <1>3, <1>4, <1>5 DEF IntakeInv

(* One handler of the OCR_POLL consumer changes.                           *)
LEMMA PollerUpdate ==
    ASSUME WorkerTypes, NEW w \in PollWorkers, NEW r \in Poller,
           poller' = [poller EXCEPT ![w] = r]
    PROVE  /\ poller' \in [PollWorkers -> Poller]
           /\ poller'[w] = r
           /\ \A v \in PollWorkers : v # w => poller'[v] = poller[v]
  BY DEF WorkerTypes

LEMMA PollerGoto ==
    ASSUME WorkerTypes, NEW w \in PollWorkers,
           NEW pc \in {"requeue", "fail", "store", "meter", "handoff", "complete", "reread",
                       "ack"},
           Ocr!PollGoto(w, pc)
    PROVE  /\ poller' \in [PollWorkers -> Poller]
           /\ poller'[w].pc = pc /\ poller'[w].message = poller[w].message
           /\ poller'[w].job = poller[w].job /\ poller'[w].sent = poller[w].sent
           /\ \A v \in PollWorkers : v # w => poller'[v] = poller[v]
  BY DEF WorkerTypes, Poller, Ocr!PollGoto

LEMMA PollerEnds ==
    ASSUME WorkerTypes, NEW w \in PollWorkers, Ocr!PollEnds(w)
    PROVE  /\ poller' \in [PollWorkers -> Poller]
           /\ PollHandler(w)'
           /\ \A v \in PollWorkers : v # w => poller'[v] = poller[v]
  BY PollerUpdate, IdleTyped DEF Ocr!PollEnds, PollHandler

(* A handler goes on to its next call, or ends.                            *)
LEMMA PollerGoesOn ==
    ASSUME IntakeInv, NEW w \in PollWorkers, poller[w].pc # "idle",
           UNCHANGED <<status, ingest, uploaded, ingestQ, request, job, poll, ocrQ, ingestor,
                       jobs>>,
           \/ Ocr!PollEnds(w)
           \/ \E pc \in {"requeue", "fail", "store", "meter", "handoff", "complete",
                          "reread", "ack"} :
                 Ocr!PollGoto(w, pc) /\ (pc = "ack" => status # "OCR")
    PROVE  IntakeInv'
  <1>1. WorkerTypes /\ PollHandler(w)
    BY DEF IntakeInv
  <1>2. CASE Ocr!PollEnds(w)
    BY <1>1, <1>2, PollerEnds, PollerMoves
  <1>3. ASSUME NEW pc \in {"requeue", "fail", "store", "meter", "handoff", "complete",
                           "reread", "ack"},
               Ocr!PollGoto(w, pc), pc = "ack" => status # "OCR"
        PROVE  IntakeInv'
    <2>1. /\ poller' \in [PollWorkers -> Poller]
          /\ poller'[w].pc = pc /\ poller'[w].message = poller[w].message
          /\ poller'[w].job = poller[w].job
          /\ \A v \in PollWorkers : v # w => poller'[v] = poller[v]
      BY <1>1, <1>3, PollerGoto
    <2>2. PollHandler(w)'
      BY <1>1, <1>3, <2>1 DEF PollHandler
    <2> QED
      BY <2>1, <2>2, PollerMoves
  <1> QED
    BY <1>2, <1>3

(* OCR gets its outcome: nothing is awaited any more.                      *)
LEMMA OcrEndsInv ==
    ASSUME IntakeInv, NEW w \in PollWorkers, poller[w].pc # "idle",
           status = "OCR", status' \in {"OCR_COMPLETED", "OCR_FAILED"},
           UNCHANGED <<ingest, uploaded, ingestQ, request, job, poll, ocrQ, ingestor, jobs>>,
           Ocr!PollGoto(w, "ack")
    PROVE  IntakeInv'
  <1>1. WorkerTypes /\ PollHandler(w)
    BY DEF IntakeInv
  <1>2. PICK pc \in {"ack"} : Ocr!PollGoto(w, pc)
    OBVIOUS
  <1>3. /\ poller' \in [PollWorkers -> Poller]
        /\ poller'[w].pc = "ack" /\ poller'[w].message = poller[w].message
        /\ poller'[w].job = poller[w].job
        /\ \A v \in PollWorkers : v # w => poller'[v] = poller[v]
    BY <1>1, <1>2, PollerGoto
  <1>4. /\ ingest.state = "ENQUEUED" /\ status' \notin Before /\ status \notin Before
        /\ status' \notin {"OCR", "SUBMITTED"}
    BY DEF IntakeInv, PollRow, Before
  <1>5. RecordInv'
    BY <1>4, CallsUntouched DEF IntakeInv
  <1>6. WorkerTypes'
    BY <1>1, <1>3 DEF WorkerTypes, IdsBefore
  <1>7. PollRow' /\ PollKept'
    BY <1>4 DEF IntakeInv, PollRow, PollKept
  <1>8. IngestKept'
    BY <1>4 DEF IntakeInv, IngestKept, Ocr!AwaitsIngest
  <1>9. \A v \in IngestWorkers : IngestHandler(v)'
    BY <1>4 DEF IntakeInv, IngestHandler
  <1>10. PollHandler(w)'
    BY <1>1, <1>3, <1>4 DEF PollHandler
  <1>11. \A v \in PollWorkers : v # w => PollHandler(v)'
    BY <1>3, <1>4 DEF IntakeInv, PollHandler
  <1> QED
    BY <1>5, <1>6, <1>7, <1>8, <1>9, <1>10, <1>11 DEF IntakeInv

(* A delivery to the OCR_POLL consumer: what it finds was sent.            *)
LEMMA ReceivePollInv ==
    ASSUME IntakeInv, NEW w \in PollWorkers, NEW m \in ocrQ.messages, UNCHANGED request,
           Ocr!ReceivePoll(w, m)
    PROVE  IntakeInv'
  <1>1. /\ CanDeliver(m) /\ ocrQ' = Delivered(ocrQ, m) /\ WorkerTypes
        /\ ocrQ \in Queue(PollBody) /\ IdsBefore(ocrQ)
        /\ UNCHANGED <<status, ingest, uploaded, ingestQ, request, job, poll, ingestor, jobs>>
    BY SameQueue DEF Ocr!ReceivePoll, Ocr!document, IntakeInv, WorkerTypes
  <1>2. /\ m.id \in Nat /\ 1 <= m.id /\ m.id < ocrQ.next
        /\ m.body \in PollBody /\ m.body.job = Token /\ m.body.attempt \in Nat
    BY <1>1 DEF Queue, Message, NoMessage, IdsBefore, PollBody
  <1>3. /\ ocrQ' \in Queue(PollBody) /\ ocrQ'.next = ocrQ.next
        /\ Retained(ocrQ') = Retained(ocrQ) /\ IdsBefore(ocrQ')
    BY <1>1, DeliveredType
  <1> DEFINE next == Ocr!PollDecision(m)
             r == [pc |-> next, message |-> m.id, job |-> m.body.job,
                   attempt |-> m.body.attempt, sent |-> Ocr!NoMessage]
  <1>4. /\ next \in {"idle", "ack", "check"}
        /\ next = "ack" => status # "OCR"
        /\ next # "idle" => status \notin Before
    <2>1. CASE ~Ocr!PollAccepts(m)
      BY <2>1 DEF Ocr!PollDecision
    <2>2. CASE Ocr!PollAccepts(m)
      BY <2>2 DEF Ocr!PollDecision, Ocr!HandoffConfirmed, Before
    <2> QED
      BY <2>1, <2>2
  <1>5. poller' = IF next = "idle" THEN poller ELSE [poller EXCEPT ![w] = r]
    BY DEF Ocr!ReceivePoll
  <1> HIDE DEF next
  <1>6. /\ poller' \in [PollWorkers -> Poller]
        /\ \A v \in PollWorkers : v # w => poller'[v] = poller[v]
        /\ PollHandler(w)'
    <2>1. CASE next = "idle"
      BY <1>1, <1>3, <1>5, <2>1 DEF IntakeInv, PollHandler, WorkerTypes
    <2>2. CASE next # "idle"
      <3>1. /\ r \in Poller /\ r.pc = next /\ r.message = m.id /\ r.job = Token
        BY <1>2, <1>4, <2>2 DEF Poller, Ocr!NoMessage
      <3> HIDE DEF r
      <3>2. /\ poller' \in [PollWorkers -> Poller]
            /\ poller'[w] = r
            /\ \A v \in PollWorkers : v # w => poller'[v] = poller[v]
        BY <1>1, <1>5, <2>2, <3>1, PollerUpdate
      <3> QED
        BY <1>1, <1>2, <1>3, <1>4, <2>2, <3>1, <3>2 DEF PollHandler
    <2> QED
      BY <2>1, <2>2
  <1>7. RecordInv'
    BY <1>1, CallsUntouched DEF IntakeInv
  <1>8. WorkerTypes'
    BY <1>1, <1>3, <1>6 DEF WorkerTypes
  <1>9. PollRow' /\ PollKept' /\ IngestKept'
    BY <1>1, <1>3 DEF IntakeInv, PollRow, PollKept, IngestKept, Ocr!AwaitsIngest
  <1>10. \A v \in IngestWorkers : IngestHandler(v)'
    BY <1>1, <1>3 DEF IntakeInv, IngestHandler
  <1>11. \A v \in PollWorkers : v # w => PollHandler(v)'
    BY <1>1, <1>3, <1>6 DEF IntakeInv, PollHandler
  <1> QED
    BY <1>6, <1>7, <1>8, <1>9, <1>10, <1>11 DEF IntakeInv

(* The replacement of a poll message is sent.                              *)
LEMMA RequeuePollInv ==
    ASSUME IntakeInv, NEW w \in PollWorkers, UNCHANGED request, Ocr!RequeuePoll(w)
    PROVE  IntakeInv'
  <1> DEFINE body == [job |-> poller[w].job, attempt |-> poller[w].attempt + 1]
  <1>1. /\ WorkerTypes /\ PollHandler(w) /\ poller[w].pc = "requeue"
        /\ poller[w] \in Poller
        /\ UNCHANGED <<status, ingest, uploaded, ingestQ, request, job, poll, ingestor, jobs>>
        /\ ocrQ' = Sent(ocrQ, body)
        /\ poller' = [poller EXCEPT ![w].pc = "rebind", ![w].sent = ocrQ.next]
    BY SameQueue DEF Ocr!RequeuePoll, Ocr!document, IntakeInv, WorkerTypes
  <1>2. /\ body \in PollBody /\ status \notin Before /\ poller[w].job = Token
        /\ 1 <= poller[w].message /\ poller[w].message < ocrQ.next
        /\ poller[w].message \in Nat
    BY <1>1 DEF PollHandler, PollBody, Poller
  <1> HIDE DEF body
  <1>3. /\ ocrQ.next \in Nat /\ 1 <= ocrQ.next /\ ocrQ'.next = ocrQ.next + 1
        /\ ocrQ' \in Queue(PollBody) /\ IdsBefore(ocrQ')
        /\ PollRow' /\ PollKept'
        /\ \A v \in PollWorkers : poller'[v] = poller[v] => PollHandler(v)'
        /\ \A v \in IngestWorkers : ingestor'[v] = ingestor[v] => IngestHandler(v)'
    BY <1>1, <1>2, PollSent
  <1>4. /\ poller' \in [PollWorkers -> Poller]
        /\ poller'[w].pc = "rebind" /\ poller'[w].message = poller[w].message
        /\ poller'[w].job = poller[w].job /\ poller'[w].sent = ocrQ.next
        /\ \A v \in PollWorkers : v # w => poller'[v] = poller[v]
    BY <1>1, <1>3 DEF WorkerTypes, Poller
  <1>5. PollHandler(w)'
    BY <1>1, <1>2, <1>3, <1>4 DEF PollHandler
  <1>6. RecordInv'
    BY <1>1, CallsUntouched DEF IntakeInv
  <1>7. WorkerTypes'
    BY <1>1, <1>3, <1>4 DEF WorkerTypes
  <1>8. IngestKept'
    BY <1>1 DEF IntakeInv, IngestKept, Ocr!AwaitsIngest
  <1> QED
    BY <1>1, <1>3, <1>4, <1>5, <1>6, <1>7, <1>8 DEF IntakeInv

(* The checkpoint moves forward to the replacement; only then may the      *)
(* message it named be acknowledged.                                       *)
LEMMA RebindPollInv ==
    ASSUME IntakeInv, NEW w \in PollWorkers, UNCHANGED request, Ocr!RebindPoll(w)
    PROVE  IntakeInv'
  <1>1. /\ WorkerTypes /\ PollHandler(w) /\ poller[w].pc = "rebind"
        /\ poller[w] \in Poller
        /\ UNCHANGED <<status, ingest, uploaded, ingestQ, request, job, ocrQ, ingestor, jobs>>
    BY DEF Ocr!RebindPoll, IntakeInv, WorkerTypes
  <1> DEFINE binds == status = "OCR" /\ job = poller[w].job
                      /\ poll.messageId = poller[w].message
  <1>2. CASE ~binds
    <2>1. UNCHANGED poll /\ Ocr!PollEnds(w)
      BY <1>2 DEF Ocr!RebindPoll
    <2> QED
      BY <1>1, <2>1, PollerGoesOn
  <1>3. CASE binds
    <2>1. /\ poll' = [poll EXCEPT !.messageId = poller[w].sent]
          /\ Ocr!PollGoto(w, "ack")
      BY <1>3 DEF Ocr!RebindPoll
    <2>2. PICK pc \in {"ack"} : Ocr!PollGoto(w, pc)
      BY <2>1
    <2>3. /\ poller' \in [PollWorkers -> Poller]
          /\ poller'[w].pc = "ack" /\ poller'[w].message = poller[w].message
          /\ poller'[w].job = poller[w].job
          /\ \A v \in PollWorkers : v # w => poller'[v] = poller[v]
      BY <1>1, <2>2, PollerGoto
    <2>4. /\ status = "OCR" /\ poll.messageId = poller[w].message
          /\ 1 <= poller[w].message /\ poller[w].message < poller[w].sent
          /\ poller[w].sent < ocrQ.next /\ status \notin Before
          /\ poller[w].sent \in Nat /\ poller[w].message \in Nat /\ ocrQ.next \in Nat
          /\ poller[w].job = Token /\ poller[w].message < ocrQ.next
      BY <1>1, <1>3 DEF PollHandler, Poller, WorkerTypes, Queue
    <2>5. poll.state = "ENQUEUED"
      BY <1>1, <2>4 DEF IntakeInv, PollRow, NoMessage
    <2>6. /\ poll' \in [state : {"none", "PENDING", "ENQUEUED"}, messageId : Nat]
          /\ poll'.state = "ENQUEUED" /\ poll'.messageId = poller[w].sent
      BY <1>1, <2>1, <2>4, <2>5 DEF WorkerTypes
    <2>7. RecordInv'
      BY <1>1, CallsUntouched DEF IntakeInv
    <2>8. WorkerTypes'
      BY <1>1, <2>3, <2>6 DEF WorkerTypes, IdsBefore
    <2>9. PollRow'
      BY <1>1, <2>4, <2>6 DEF IntakeInv, PollRow
    <2>10. PollKept'
      BY <1>1, <2>4, <2>6 DEF IntakeInv, PollKept
    <2>11. IngestKept'
      BY <1>1, <2>5, <2>6 DEF IntakeInv, IngestKept, Ocr!AwaitsIngest
    <2>12. \A v \in IngestWorkers : IngestHandler(v)'
      BY <1>1, <2>5, <2>6 DEF IntakeInv, IngestHandler
    <2>13. PollHandler(w)'
      BY <1>1, <2>3, <2>4, <2>6 DEF PollHandler
    <2>14. ASSUME NEW v \in PollWorkers, v # w PROVE PollHandler(v)'
      <3>1. poller'[v] = poller[v] /\ PollHandler(v) /\ poller[v].message \in Nat
        BY <1>1, <2>3, <2>14 DEF IntakeInv, WorkerTypes, Poller
      <3> QED
        BY <1>1, <2>4, <2>6, <3>1 DEF PollHandler
    <2> QED
      BY <2>7, <2>8, <2>9, <2>10, <2>11, <2>12, <2>13, <2>14 DEF IntakeInv
  <1> QED
    BY <1>2, <1>3

(* Only a message the checkpoint has left behind is deleted while OCR runs.*)
LEMMA AckPollInv ==
    ASSUME IntakeInv, NEW w \in PollWorkers, UNCHANGED request, Ocr!AckPoll(w)
    PROVE  IntakeInv'
  <1>1. /\ WorkerTypes /\ PollHandler(w) /\ poller[w].pc = "ack"
        /\ poller[w] \in Poller /\ ocrQ \in Queue(PollBody) /\ IdsBefore(ocrQ)
        /\ ocrQ' = Deleted(ocrQ, poller[w].message) /\ Ocr!PollEnds(w)
        /\ UNCHANGED <<status, ingest, uploaded, ingestQ, request, job, poll, ingestor, jobs>>
    BY SameQueue DEF Ocr!AckPoll, Ocr!document, IntakeInv, WorkerTypes
  <1>2. /\ ocrQ' \in Queue(PollBody) /\ ocrQ'.next = ocrQ.next /\ IdsBefore(ocrQ')
        /\ Retained(ocrQ') = Retained(ocrQ) \ {poller[w].message}
    BY <1>1, DeletedType
  <1>3. /\ poller' \in [PollWorkers -> Poller]
        /\ PollHandler(w)'
        /\ \A v \in PollWorkers : v # w => poller'[v] = poller[v]
    BY <1>1, PollerEnds
  <1>4. PollKept'
    <2>1. status = "OCR" => poller[w].message < poll.messageId
      BY <1>1 DEF PollHandler
    <2>2. poll.messageId \in Nat /\ poller[w].message \in Nat
      BY <1>1 DEF WorkerTypes, Poller
    <2> QED
      BY <1>1, <1>2, <2>1, <2>2 DEF IntakeInv, PollKept
  <1>5. RecordInv'
    BY <1>1, CallsUntouched DEF IntakeInv
  <1>6. WorkerTypes'
    BY <1>1, <1>2, <1>3 DEF WorkerTypes
  <1>7. PollRow' /\ IngestKept'
    BY <1>1, <1>2 DEF IntakeInv, PollRow, IngestKept, Ocr!AwaitsIngest
  <1>8. \A v \in IngestWorkers : IngestHandler(v)'
    BY <1>1, <1>2 DEF IntakeInv, IngestHandler
  <1>9. \A v \in PollWorkers : v # w => PollHandler(v)'
    BY <1>1, <1>2, <1>3 DEF IntakeInv, PollHandler
  <1> QED
    BY <1>3, <1>4, <1>5, <1>6, <1>7, <1>8, <1>9 DEF IntakeInv

(* The message to the next stage is a message of that queue.               *)
LEMMA SendDownstreamTypes ==
    ASSUME DownTypes, NEW w \in PollWorkers, Ocr!SendDownstream(w)
    PROVE  DownTypes' /\ Ocr!NextQueue.next \in Nat
  <1>1. CASE Ocr!NextStage = "classify"
    <2>1. classifyQ' = Sent(classifyQ, DocumentRoute) /\ UNCHANGED extractQ
          /\ Ocr!NextQueue = classifyQ
      BY <1>1, SameQueue DEF Ocr!SendDownstream, Ocr!NextQueue
    <2> QED
      BY <2>1, SentType DEF DownTypes, Queue
  <1>2. CASE Ocr!NextStage # "classify"
    <2>1. Ocr!NextStage \in Ocr!Domains
      BY <1>2 DEF Ocr!NextStage
    <2>2. /\ extractQ' = [extractQ EXCEPT ![Ocr!NextStage] =
                            Ocr!Sent(extractQ[Ocr!NextStage], Ocr!NextStage)]
          /\ UNCHANGED classifyQ
          /\ Ocr!NextQueue = extractQ[Ocr!NextStage]
      BY <1>2 DEF Ocr!SendDownstream, Ocr!NextQueue
    <2>3. Ocr!Sent(extractQ[Ocr!NextStage], Ocr!NextStage) =
            Sent(extractQ[Ocr!NextStage], Ocr!NextStage)
      BY SameQueue
    <2>4. Sent(extractQ[Ocr!NextStage], Ocr!NextStage) \in Queue(Ocr!Domains)
      BY <2>1, SentType DEF DownTypes
    <2> HIDE DEF Ocr!Sent, Sent, Ocr!NextStage
    <2>5. extractQ[Ocr!NextStage].next \in Nat
      BY <2>1 DEF DownTypes, Queue
    <2> QED
      BY <2>1, <2>2, <2>3, <2>4, <2>5 DEF DownTypes
  <1> QED
    BY <1>1, <1>2

(* The other steps of the OCR_POLL consumer.                               *)
LEMMA PollerRestInv ==
    ASSUME IntakeInv, DownTypes, NEW w \in PollWorkers, UNCHANGED request,
           \/ Ocr!CheckTextract(w) \/ Ocr!StoreArtifact(w) \/ Ocr!MeterUsage(w)
           \/ Ocr!MarkOcrFailed(w) \/ Ocr!CompleteOcr(w) \/ Ocr!RereadDocument(w)
           \/ Ocr!PollFails(w) \/ Ocr!SendDownstream(w)
    PROVE  IntakeInv'
  <1>1. CASE Ocr!CheckTextract(w) \/ Ocr!StoreArtifact(w) \/ Ocr!MeterUsage(w)
             \/ Ocr!PollFails(w)
    <2>1. /\ poller[w].pc # "idle"
          /\ UNCHANGED <<status, ingest, uploaded, ingestQ, request, job, poll, ocrQ,
                         ingestor, jobs>>
          /\ \/ Ocr!PollEnds(w)
             \/ \E pc \in {"requeue", "fail", "store", "meter", "handoff"} :
                   Ocr!PollGoto(w, pc)
      BY <1>1 DEF Ocr!CheckTextract, Ocr!StoreArtifact, Ocr!MeterUsage, Ocr!PollFails,
                  Ocr!document
    <2> QED
      BY <2>1, PollerGoesOn
  <1>2. CASE Ocr!RereadDocument(w)
    <2>1. /\ poller[w].pc # "idle"
          /\ UNCHANGED <<status, ingest, uploaded, ingestQ, request, job, poll, ocrQ,
                         ingestor, jobs>>
          /\ Ocr!PollEnds(w) \/ (Ocr!PollGoto(w, "ack") /\ status # "OCR")
      BY <1>2 DEF Ocr!RereadDocument, Ocr!document, Ocr!HandoffConfirmed
    <2> QED
      BY <2>1, PollerGoesOn
  <1>3. CASE Ocr!MarkOcrFailed(w)
    <2>1. /\ poller[w].pc # "idle"
          /\ UNCHANGED <<ingest, uploaded, ingestQ, request, job, poll, ocrQ, ingestor, jobs>>
      BY <1>3 DEF Ocr!MarkOcrFailed
    <2>2. CASE status = "OCR"
      BY <1>3, <2>1, <2>2, OcrEndsInv DEF Ocr!MarkOcrFailed
    <2>3. CASE status # "OCR"
      BY <1>3, <2>1, <2>3, PollerGoesOn DEF Ocr!MarkOcrFailed
    <2> QED
      BY <2>2, <2>3
  <1>4. CASE Ocr!CompleteOcr(w)
    <2>1. /\ poller[w].pc # "idle"
          /\ UNCHANGED <<ingest, uploaded, ingestQ, request, job, poll, ocrQ, ingestor, jobs>>
      BY <1>4 DEF Ocr!CompleteOcr
    <2>2. CASE Ocr!MayFinish(w)
      BY <1>4, <2>1, <2>2, OcrEndsInv DEF Ocr!CompleteOcr, Ocr!MayFinish
    <2>3. CASE ~Ocr!MayFinish(w)
      BY <1>4, <2>1, <2>3, PollerGoesOn DEF Ocr!CompleteOcr
    <2> QED
      BY <2>2, <2>3
  <1>5. CASE Ocr!SendDownstream(w)
    <2> DEFINE sent == Ocr!NextQueue.next
    <2>1. /\ poller[w].pc = "handoff" /\ WorkerTypes /\ PollHandler(w)
          /\ poller[w] \in Poller
          /\ UNCHANGED <<status, ingest, uploaded, ingestQ, request, job, poll, ocrQ,
                         ingestor, jobs>>
          /\ poller' = [poller EXCEPT ![w].pc = "complete", ![w].sent = sent]
      BY <1>5 DEF Ocr!SendDownstream, Ocr!document, IntakeInv, WorkerTypes
    <2>2. sent \in Nat
      BY <1>5, SendDownstreamTypes
    <2> HIDE DEF sent
    <2>3. /\ poller' \in [PollWorkers -> Poller]
          /\ poller'[w].pc = "complete" /\ poller'[w].message = poller[w].message
          /\ poller'[w].job = poller[w].job
          /\ \A v \in PollWorkers : v # w => poller'[v] = poller[v]
      BY <2>1, <2>2 DEF WorkerTypes, Poller
    <2>4. PollHandler(w)'
      BY <2>1, <2>3 DEF PollHandler
    <2> QED
      BY <2>1, <2>3, <2>4, PollerMoves
  <1> QED
    BY <1>1, <1>2, <1>3, <1>4, <1>5

-----------------------------------------------------------------------------
(* Only SendDownstream writes to the next stages.                          *)
LEMMA NextDownTypes ==
    DownTypes /\ [ApiStep \/ WorkerStep]_intakeVars => DownTypes'
  <1> SUFFICES ASSUME DownTypes, [ApiStep \/ WorkerStep]_intakeVars PROVE DownTypes'
    OBVIOUS
  <1>1. CASE UNCHANGED <<classifyQ, extractQ>>
    BY <1>1 DEF DownTypes
  <1>2. CASE UNCHANGED intakeVars \/ ApiStep
    BY <1>1, <1>2 DEF intakeVars, workerVars, ApiStep
  <1>3. CASE Ocr!TextractEnds
    BY <1>1, <1>3 DEF Ocr!TextractEnds
  <1>4. ASSUME NEW w \in IngestWorkers, Ocr!IngestStep(w) \/ Ocr!IngestFails(w)
        PROVE  DownTypes'
    BY <1>1, <1>4 DEF Ocr!IngestStep, Ocr!IngestFails, Ocr!ReceiveIngest, Ocr!StartTextract,
                      Ocr!RecordJob, Ocr!SendPoll, Ocr!MarkPoll, Ocr!AckIngest
  <1>5. ASSUME NEW w \in PollWorkers, Ocr!PollStep(w) \/ Ocr!PollFails(w)
        PROVE  DownTypes'
    <2>1. CASE Ocr!SendDownstream(w)
      BY <2>1, SendDownstreamTypes
    <2>2. CASE ~Ocr!SendDownstream(w)
      BY <1>1, <1>5, <2>2
      DEF Ocr!PollStep, Ocr!PollFails, Ocr!ReceivePoll, Ocr!CheckTextract, Ocr!RequeuePoll,
          Ocr!RebindPoll, Ocr!MarkOcrFailed, Ocr!StoreArtifact, Ocr!MeterUsage,
          Ocr!CompleteOcr, Ocr!RereadDocument, Ocr!AckPoll
    <2> QED
      BY <2>1, <2>2
  <1> QED
    BY <1>2, <1>3, <1>4, <1>5 DEF WorkerStep, Ocr!Next, Ocr!Workers

(* Textract writes nothing of the document's record or queues.             *)
LEMMA TextractInv ==
    ASSUME IntakeInv, UNCHANGED request, Ocr!TextractEnds
    PROVE  IntakeInv'
  <1>1. /\ RecordInv /\ WorkerTypes
        /\ UNCHANGED <<status, ingest, uploaded, ingestQ, request, job, poll, ocrQ, ingestor,
                       poller, jobs>>
    BY DEF Ocr!TextractEnds, Ocr!document, IntakeInv
  <1>2. RecordInv'
    BY <1>1, CallsUntouched
  <1>3. WorkerTypes'
    BY <1>1 DEF WorkerTypes, IdsBefore
  <1>4. PollRow' /\ PollKept' /\ IngestKept'
    BY <1>1 DEF IntakeInv, PollRow, PollKept, IngestKept, Ocr!AwaitsIngest
  <1>5. \A v \in IngestWorkers : IngestHandler(v)'
    BY <1>1 DEF IntakeInv, IngestHandler
  <1>6. \A v \in PollWorkers : PollHandler(v)'
    BY <1>1 DEF IntakeInv, PollHandler
  <1> QED
    BY <1>2, <1>3, <1>4, <1>5, <1>6 DEF IntakeInv

(* The invariant is inductive.                                             *)
LEMMA NextIntake ==
    IntakeInv /\ DownTypes /\ [ApiStep \/ WorkerStep]_intakeVars => IntakeInv'
  <1> SUFFICES ASSUME IntakeInv, DownTypes, [ApiStep \/ WorkerStep]_intakeVars
               PROVE  IntakeInv'
    OBVIOUS
  <1>1. CASE UNCHANGED intakeVars
    <2>1. /\ RecordInv /\ WorkerTypes
          /\ UNCHANGED <<status, ingest, uploaded, ingestQ, request, job, poll, ocrQ,
                         ingestor, poller, jobs>>
      BY <1>1 DEF intakeVars, submissionVars, workerVars, IntakeInv
    <2>2. RecordInv' /\ WorkerTypes'
      BY <2>1, CallsUntouched DEF WorkerTypes, IdsBefore
    <2>3. PollRow' /\ PollKept' /\ IngestKept'
      BY <2>1 DEF IntakeInv, PollRow, PollKept, IngestKept, Ocr!AwaitsIngest
    <2>4. \A v \in IngestWorkers : IngestHandler(v)'
      BY <2>1 DEF IntakeInv, IngestHandler
    <2>5. \A v \in PollWorkers : PollHandler(v)'
      BY <2>1 DEF IntakeInv, PollHandler
    <2> QED
      BY <2>2, <2>3, <2>4, <2>5 DEF IntakeInv
  <1>2. CASE ApiStep
    BY <1>2, ApiInv DEF ApiStep
  <1>3. CASE WorkerStep
    <2> SUFFICES ASSUME UNCHANGED request, Ocr!Next PROVE IntakeInv'
      BY <1>3 DEF WorkerStep
    <2>1. CASE Ocr!TextractEnds
      BY <2>1, TextractInv
    <2>2. ASSUME NEW w \in IngestWorkers, Ocr!IngestStep(w) \/ Ocr!IngestFails(w)
          PROVE  IntakeInv'
      BY <2>2, ReceiveIngestInv, StartTextractInv, RecordJobInv, SendPollInv, MarkPollInv,
         AckIngestInv, IngestFailsInv
      DEF Ocr!IngestStep
    <2>3. ASSUME NEW w \in PollWorkers, Ocr!PollStep(w) \/ Ocr!PollFails(w)
          PROVE  IntakeInv'
      BY <2>3, ReceivePollInv, RequeuePollInv, RebindPollInv, AckPollInv, PollerRestInv
      DEF Ocr!PollStep
    <2> QED
      BY <2>1, <2>2, <2>3 DEF Ocr!Next, Ocr!Workers
  <1> QED
    BY <1>1, <1>2, <1>3

LEMMA InitIntake == IntakeInit => IntakeInv /\ DownTypes
  <1> SUFFICES ASSUME Init, Ocr!Untouched, Ocr!Idle PROVE IntakeInv /\ DownTypes
    BY DEF IntakeInit
  <1>1. RecordInv
    BY InitType DEF Init, TypeOK, RowTypes, RecordInv, SenderHoldsClaim, SentBefore, IdsBefore,
       OwnMessage, RecordedBefore, RecordedTogether, Idle, NoStage, EmptyQueue
  <1>2. \A S : EmptyQueue \in Queue(S) /\ IdsBefore(EmptyQueue)
    BY EmptyQueueType
  <1>3. ocrQ = EmptyQueue /\ classifyQ = EmptyQueue
        /\ extractQ = [d \in Ocr!Domains |-> EmptyQueue]
    BY SameQueue DEF Ocr!Untouched, Ocr!Idle
  <1>4. /\ status = "ABSENT" /\ ingest.state = "none" /\ jobs = {} /\ job = Ocr!NoJob
        /\ poll.state = "none" /\ poll.messageId = NoMessage
        /\ poll \in [state : {"none", "PENDING", "ENQUEUED"}, messageId : Nat]
        /\ \A r \in Requests : request[r].pc = "idle"
    BY DEF Init, Ocr!Untouched, Ocr!NoPoll, NoStage, Idle, Ocr!NoMessage, NoMessage
  <1>5. /\ ingestor \in [IngestWorkers -> Ingestor] /\ poller \in [PollWorkers -> Poller]
        /\ \A w \in IngestWorkers : ingestor[w].pc = "idle"
        /\ \A w \in PollWorkers : poller[w].pc = "idle"
    BY IdleTyped DEF Ocr!Idle
  <1>6. WorkerTypes
    BY <1>2, <1>3, <1>4, <1>5 DEF WorkerTypes, Before
  <1>7. PollRow /\ PollKept
    BY <1>3, <1>4 DEF PollRow, PollKept, EmptyQueue, Before
  <1>8. IngestKept
    BY <1>4 DEF IngestKept, Ocr!AwaitsIngest
  <1>9. DownTypes
    BY <1>2, <1>3 DEF DownTypes
  <1> QED
    BY <1>1, <1>5, <1>6, <1>7, <1>8, <1>9 DEF IntakeInv, IngestHandler, PollHandler

(* The invariant holds in every behaviour of the calls and the worker.     *)
LEMMA IntakeInvariant == IntakeSpec => [](IntakeInv /\ DownTypes)
  BY InitIntake, NextIntake, NextDownTypes, PTL DEF IntakeSpec

(* Also with the worker taking messages before they are recorded, at most  *)
(* one submit call is between its claim and the record of its message.     *)
THEOREM IntakeOneSender == IntakeSpec => []OneSender
  <1>1. IntakeInv => OneSender
    BY DEF IntakeInv, RecordInv, SenderHoldsClaim, HoldsClaim, OneSender
  <1> QED
    BY <1>1, IntakeInvariant, PTL

(* The message recorded for the stage is the recorded call's own, whatever *)
(* the worker has done with it meanwhile.                                  *)
THEOREM IntakeRecordedTogether == IntakeSpec => []RecordedTogether
  <1>1. IntakeInv => RecordedTogether
    BY DEF IntakeInv, RecordInv
  <1> QED
    BY <1>1, IntakeInvariant, PTL

(* Neither a submit call nor the worker takes a recorded handoff back.     *)
THEOREM IntakeEnqueuedIsFinal == IntakeSpec => EnqueuedIsFinal
  <1>1. IntakeInv /\ [ApiStep \/ WorkerStep]_intakeVars =>
            [ingest.state = "ENQUEUED" => ingest' = ingest]_submissionVars
    <2> SUFFICES ASSUME IntakeInv, ApiStep \/ WorkerStep, ingest.state = "ENQUEUED"
                 PROVE  ingest' = ingest
      BY DEF intakeVars
    <2>1. CASE ApiStep
      BY <2>1, ApiFrame DEF ApiStep, IntakeInv, WorkerTypes, Before
    <2>2. CASE Ocr!TextractEnds
      BY <2>2 DEF Ocr!TextractEnds
    <2>3. ASSUME NEW w \in IngestWorkers, Ocr!IngestStep(w) \/ Ocr!IngestFails(w)
          PROVE  ingest' = ingest
      BY <2>3 DEF Ocr!IngestStep, Ocr!IngestFails, Ocr!ReceiveIngest, Ocr!StartTextract,
                  Ocr!RecordJob, Ocr!SendPoll, Ocr!MarkPoll, Ocr!AckIngest
    <2>4. ASSUME NEW w \in PollWorkers, Ocr!PollStep(w) \/ Ocr!PollFails(w)
          PROVE  ingest' = ingest
      BY <2>4 DEF Ocr!PollStep, Ocr!PollFails, Ocr!ReceivePoll, Ocr!CheckTextract,
                  Ocr!RequeuePoll, Ocr!RebindPoll, Ocr!MarkOcrFailed, Ocr!StoreArtifact,
                  Ocr!MeterUsage, Ocr!SendDownstream, Ocr!CompleteOcr, Ocr!RereadDocument,
                  Ocr!AckPoll
    <2> QED
      BY <2>1, <2>2, <2>3, <2>4 DEF WorkerStep, Ocr!Next, Ocr!Workers
  <1> QED
    BY <1>1, IntakeInvariant, PTL DEF IntakeSpec, EnqueuedIsFinal

(* While OCR is not settled, the message that may move the document on has *)
(* not been deleted: the ingest message until the checkpoint of the poll   *)
(* is durable, then the poll message the checkpoint names.                 *)
THEOREM IntakeCarrierRetained == IntakeSpec => []CarrierRetained
  <1>1. IntakeInv => CarrierRetained
    <2> SUFFICES ASSUME IntakeInv PROVE Ocr!CarrierRetained
      BY DEF CarrierRetained
    <2>1. Ocr!AwaitsIngest => ingest.messageId \in Retained(ingestQ)
      BY DEF IntakeInv, IngestKept
    <2>2. Ocr!AwaitsPoll => poll.messageId \in Retained(ocrQ)
      <3>1. poll.messageId \in Nat
        BY DEF IntakeInv, WorkerTypes
      <3> QED
        BY <3>1 DEF IntakeInv, PollRow, PollKept, Ocr!AwaitsPoll
    <2> QED
      BY <2>1, <2>2, SameQueue DEF Ocr!CarrierRetained
  <1> QED
    BY <1>1, IntakeInvariant, PTL
=============================================================================
