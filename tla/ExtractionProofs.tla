-------------------------- MODULE ExtractionProofs --------------------------
(***************************************************************************)
(* Extraction for any number of handlers, messages and results: what the   *)
(* record claims of the S3 object is so, the object can be recovered, and  *)
(* neither moves once validation may have been told.                       *)
(***************************************************************************)
EXTENDS Extraction, SqsQueueProofs, TLAPS

Pc == {"idle", "headDone", "headNew", "headWriting", "proveDone", "proveEnd",
       "proveWritten", "reserve", "extract", "put", "complete", "send", "ack"}

(* Where a handler works under the stored reservation, and where it knows  *)
(* that the stage is complete.                                             *)
Reserved == {"headWriting", "proveWritten", "extract", "put", "complete"}
Done == {"headDone", "proveDone", "proveEnd", "send", "ack"}

(* The status and the stage change together (reserve_structured_artifact   *)
(* and update_document_status write both).                                 *)
StageFollowsStatus ==
    /\ status \in {"CLASSIFY_PENDING"} \cup Ready <=> stage.state = "none"
    /\ status = "EXTRACTING" <=> stage.state = "WRITING"

(* The document's part of ArtifactProven and ObjectRecoverable: the object *)
(* is a put of the reservation in force, the one a completed stage states. *)
RecordInv ==
    /\ StageFollowsStatus
    /\ ObjectRecoverable
    /\ ObjectExists => object.digest \in Digests
    /\ stage.state = "COMPLETED" => ObjectExists /\ object.digest = stage.digest
    /\ validateQ.next > 1 => stage.state = "COMPLETED"

(* The handlers' part: from the reservation on they carry the checkpoint   *)
(* that is stored, and when they complete the digest of the object.        *)
HandlerInv ==
    \A e \in Extractors :
        /\ extractor[e].pc \in Reserved \cup Done =>
              stage.state # "none" /\ extractor[e].checkpoint = stage.checkpoint
        /\ extractor[e].pc \in Done => stage.state = "COMPLETED"
        /\ extractor[e].pc = "put" => extractor[e].digest \in Digests
        /\ extractor[e].pc = "complete" =>
              ObjectExists /\ extractor[e].digest = object.digest

BindingInv == TypeOK /\ RecordInv /\ HandlerInv

-----------------------------------------------------------------------------
(* The initial state has the types.                                        *)
LEMMA InitType == Init => TypeOK
  <1> SUFFICES ASSUME Init PROVE TypeOK
    OBVIOUS
  <1>1. extractQ \in [{Domain} -> Queue({Domain})]
    <2> DEFINE copies == {[id |-> i, body |-> Domain, received |-> 0] : i \in 1..Copies}
    <2>1. copies \subseteq Message({Domain})
      BY MaxReceiveAssumption, CopiesAssumption DEF Message, NoMessage
    <2>2. extractQ = [d \in {Domain} |-> [next |-> Copies + 1, messages |-> copies]]
      BY DEF Init
    <2> HIDE DEF copies
    <2> QED
      BY <2>1, <2>2, CopiesAssumption DEF Queue, NoMessage
  <1>2. validateQ \in Queue({Domain})
    BY EmptyQueueType DEF Init
  <1> QED
    BY <1>1, <1>2 DEF Init, TypeOK, NoStage, NoObject, NoCheckpoint, Checkpoint,
                      IdleExtractor, NoMessage

(* Every step of a handler and of its neighbours keeps the types.          *)
LEMMA NextType == TypeOK /\ [Next]_extractionVars => TypeOK'
  <1> SUFFICES ASSUME TypeOK, [Next]_extractionVars PROVE TypeOK'
    OBVIOUS
  <1> USE DEF TypeOK, Goto, Ends
  <1>i. IdleExtractor \in [pc : Pc, message : Nat, checkpoint : Checkpoint,
                           digest : Digests \cup {NoDigest}]
    BY DEF IdleExtractor, Pc, NoMessage, NoCheckpoint, Checkpoint
  <1>1. CASE UNCHANGED extractionVars
    BY <1>1 DEF extractionVars
  <1>2. CASE HandoffRecorded \/ DocumentEnds
    BY <1>2 DEF HandoffRecorded, DocumentEnds, Ready
  <1>3. ASSUME NEW e \in Extractors, ExtractorStep(e) \/ HandlerFails(e)
        PROVE  TypeOK'
    <2>1. ASSUME NEW m \in extractQ[Domain].messages, Receive(e, m) PROVE TypeOK'
      <3>1. extractQ[Domain] \in Queue({Domain}) /\ m \in Message({Domain})
        BY DEF Queue
      <3>2. extractQ' \in [{Domain} -> Queue({Domain})]
        BY <2>1, <3>1, DeliveredType DEF Receive
      <3>3. <<m.id, m.received + 1>> \in Checkpoint /\ m.id \in Nat
        BY <3>1, MaxReceiveAssumption DEF Message, Checkpoint
      <3>4. Decision \in Pc
        BY DEF Decision, Pc
      <3>5. extractor' \in [Extractors -> [pc : Pc, message : Nat, checkpoint : Checkpoint,
                                           digest : Digests \cup {NoDigest}]]
        <4> DEFINE started ==
              [pc |-> Decision, message |-> m.id,
               checkpoint |-> IF Decision = "headNew" THEN <<m.id, m.received + 1>>
                              ELSE stage.checkpoint,
               digest |-> stage.digest]
        <4>1. started \in [pc : Pc, message : Nat, checkpoint : Checkpoint,
                           digest : Digests \cup {NoDigest}]
          BY <3>3, <3>4
        <4>2. extractor' = extractor \/ extractor' = [extractor EXCEPT ![e] = started]
          BY <2>1 DEF Receive
        <4> HIDE DEF started
        <4> QED
          BY <4>1, <4>2 DEF Pc
      <3> QED
        BY <2>1, <3>2, <3>5 DEF Receive, Pc
    <2>2. CASE HeadObject(e)
      BY <2>2 DEF HeadObject
    <2>3. CASE Reserve(e)
      BY <2>3, <1>i DEF Reserve, Pc
    <2>4. CASE Extract(e)
      <3>1. PICK d \in Digests :
               extractor' = [extractor EXCEPT ![e].pc = "put", ![e].digest = d]
        BY <2>4 DEF Extract
      <3> DEFINE answered == [extractor[e] EXCEPT !.pc = "put", !.digest = d]
      <3>2. answered \in [pc : Pc, message : Nat, checkpoint : Checkpoint,
                          digest : Digests \cup {NoDigest}]
        BY DEF Pc
      <3>3. extractor' = [extractor EXCEPT ![e] = answered]
        BY <3>1
      <3> HIDE DEF answered
      <3>4. extractor' \in [Extractors -> [pc : Pc, message : Nat, checkpoint : Checkpoint,
                                           digest : Digests \cup {NoDigest}]]
        BY <3>2, <3>3 DEF Pc
      <3> QED
        BY <2>4, <3>4 DEF Extract, Pc
    <2>5. CASE PutObject(e)
      BY <2>5 DEF PutObject
    <2>6. CASE ProveObject(e)
      BY <2>6 DEF ProveObject
    <2>7. CASE CompleteStage(e)
      BY <2>7, <1>i DEF CompleteStage, Pc
    <2>8. CASE SendValidate(e)
      <3>1. Sent(validateQ, Domain) \in Queue({Domain})
        BY SentType
      <3> QED
        BY <2>8, <3>1 DEF SendValidate
    <2>9. CASE Acknowledge(e)
      <3>1. extractQ' \in [{Domain} -> Queue({Domain})]
        BY <2>9, DeletedType DEF Acknowledge
      <3> QED
        BY <2>9, <3>1, <1>i DEF Acknowledge, Pc
    <2>10. CASE HandlerFails(e)
      BY <2>10, <1>i DEF HandlerFails, Pc
    <2> QED
      BY <1>3, <2>1, <2>2, <2>3, <2>4, <2>5, <2>6, <2>7, <2>8, <2>9, <2>10
         DEF ExtractorStep
  <1> QED
    BY <1>1, <1>2, <1>3 DEF Next

(* The types hold in every behaviour.                                      *)
THEOREM Typing == Spec => []TypeOK
  BY InitType, NextType, PTL DEF Spec

-----------------------------------------------------------------------------
(* The binding of object and record is inductive: one step of a handler at *)
(* a time, each keeps its own promise and disturbs no other handler's.     *)
LEMMA NextBinding == BindingInv /\ [Next]_extractionVars => BindingInv'
  <1> SUFFICES ASSUME BindingInv, [Next]_extractionVars
               PROVE  RecordInv' /\ HandlerInv'
    BY NextType DEF BindingInv
  <1>t. TypeOK /\ TypeOK'
    BY NextType DEF BindingInv
  <1>n. /\ \A d \in Digests : d # NoDigest
        /\ validateQ.next \in Nat
    BY <1>t, DigestAssumption DEF TypeOK, Queue
  <1> USE DEF BindingInv, RecordInv, StageFollowsStatus, ObjectRecoverable, HandlerInv,
              Reserved, Done, Ready, Terminal, Goto, Ends
  <1>1. CASE UNCHANGED extractionVars
    BY <1>1 DEF extractionVars, ObjectExists
  <1>2. CASE HandoffRecorded
    BY <1>2 DEF HandoffRecorded, ObjectExists
  <1>3. CASE DocumentEnds
    BY <1>3, <1>t DEF DocumentEnds, ObjectExists, TypeOK
  <1>4. ASSUME NEW e \in Extractors, ExtractorStep(e) \/ HandlerFails(e)
        PROVE  RecordInv' /\ HandlerInv'
    <2> USE <1>t, <1>n DEF TypeOK, IdleExtractor
    <2>1. ASSUME NEW m \in extractQ[Domain].messages, Receive(e, m)
          PROVE  RecordInv' /\ HandlerInv'
      BY <2>1 DEF Receive, Decision, ObjectExists
    <2>2. CASE HeadObject(e)
      BY <2>2 DEF HeadObject, ObjectExists
    <2>3. CASE Reserve(e)
      <3>1. CASE domain = Domain /\ MayReserve
        <4>1. /\ stage.state = "none" /\ ~ObjectExists
              /\ \A f \in Extractors : extractor[f].pc \notin Reserved \cup Done
          BY <3>1 DEF MayReserve
        <4>2. /\ status' = "EXTRACTING" /\ ~ObjectExists'
              /\ stage'.state = "WRITING" /\ stage'.checkpoint = extractor[e].checkpoint
              /\ validateQ' = validateQ
          BY <2>3, <3>1, <4>1 DEF Reserve, ObjectExists
        <4>3. /\ extractor'[e].pc = "extract"
              /\ extractor'[e].checkpoint = extractor[e].checkpoint
              /\ \A f \in Extractors : f # e => extractor'[f] = extractor[f]
          BY <2>3, <3>1 DEF Reserve
        <4>4. RecordInv'
          BY <4>1, <4>2
        <4>5. HandlerInv'
          BY <4>1, <4>2, <4>3
        <4> QED
          BY <4>4, <4>5
      <3>2. CASE ~(domain = Domain /\ MayReserve)
        BY <2>3, <3>2 DEF Reserve, ObjectExists
      <3> QED
        BY <3>1, <3>2
    <2>4. CASE Extract(e)
      BY <2>4 DEF Extract, ObjectExists
    <2>5. CASE PutObject(e)
      BY <2>5 DEF PutObject, ObjectExists, NoObject
    <2>6. CASE ProveObject(e)
      BY <2>6 DEF ProveObject, ObjectExists
    <2>7. CASE CompleteStage(e)
      BY <2>7 DEF CompleteStage, MayComplete, ObjectExists
    <2>8. CASE SendValidate(e)
      BY <2>8, SentType DEF SendValidate, ObjectExists
    <2>9. CASE Acknowledge(e)
      BY <2>9 DEF Acknowledge, ObjectExists
    <2>10. CASE HandlerFails(e)
      BY <2>10 DEF HandlerFails, ObjectExists
    <2> QED
      BY <1>4, <2>1, <2>2, <2>3, <2>4, <2>5, <2>6, <2>7, <2>8, <2>9, <2>10
         DEF ExtractorStep
  <1> QED
    BY <1>1, <1>2, <1>3, <1>4 DEF Next

(* At first there is no reservation, no object and no message.             *)
LEMMA InitBinding == Init => BindingInv
  <1> SUFFICES ASSUME Init PROVE RecordInv /\ HandlerInv
    BY InitType DEF BindingInv
  <1> QED
    BY DEF Init, RecordInv, HandlerInv, StageFollowsStatus, ObjectRecoverable,
           ObjectExists, NoObject, NoStage, IdleExtractor, Reserved, Done, Ready,
           EmptyQueue

(* For any number of handlers and messages: what validation is told of is  *)
(* the object in S3 under the digest and the checkpoint of the record.     *)
THEOREM ArtifactProvenHolds == Spec => []ArtifactProven
  <1>1. BindingInv => ArtifactProven
    <2> SUFFICES ASSUME BindingInv,
                        status \in {"EXTRACTED"} \cup Terminal \/ validateQ.next > 1
                 PROVE  /\ stage.state = "COMPLETED"
                        /\ object = [checkpoint |-> stage.checkpoint, digest |-> stage.digest]
                        /\ ObjectExists
      BY DEF ArtifactProven
    <2>1. stage.state = "COMPLETED"
      BY DEF BindingInv, TypeOK, RecordInv, StageFollowsStatus, Ready, Terminal
    <2>2. /\ ObjectExists /\ object.digest = stage.digest
          /\ object.checkpoint = stage.checkpoint
      BY <2>1 DEF BindingInv, RecordInv, ObjectRecoverable
    <2> QED
      BY <2>1, <2>2 DEF BindingInv, TypeOK
  <1> QED
    BY <1>1, InitBinding, NextBinding, PTL DEF Spec

(* No order of reservations and puts leaves an object that the reservation *)
(* in force could not prove.                                               *)
THEOREM ObjectRecoverableHolds == Spec => []ObjectRecoverable
  <1>1. BindingInv => ObjectRecoverable
    BY DEF BindingInv, RecordInv
  <1> QED
    BY <1>1, InitBinding, NextBinding, PTL DEF Spec

(* After the completing write no delivery, however late, replaces the      *)
(* object or the binding that names it.                                    *)
THEOREM ProofStandsHolds == Spec => ProofStands
  <1>1. BindingInv /\ [Next]_extractionVars =>
            [stage.state = "COMPLETED" => UNCHANGED <<stage, object>>]_extractionVars
    <2> SUFFICES ASSUME BindingInv, Next, stage.state = "COMPLETED"
                 PROVE  UNCHANGED <<stage, object>>
      BY DEF extractionVars
    <2>1. ObjectExists
      BY DEF BindingInv, RecordInv
    <2>2. CASE HandoffRecorded \/ DocumentEnds
      BY <2>2 DEF HandoffRecorded, DocumentEnds
    <2>3. ASSUME NEW e \in Extractors, ExtractorStep(e) \/ HandlerFails(e)
          PROVE  UNCHANGED <<stage, object>>
      BY <2>1, <2>3 DEF ExtractorStep, Receive, HeadObject, Reserve, MayReserve, Extract,
                        PutObject, ProveObject, CompleteStage, MayComplete, SendValidate,
                        Acknowledge, HandlerFails
    <2> QED
      BY <2>2, <2>3 DEF Next
  <1> QED
    BY <1>1, InitBinding, NextBinding, PTL DEF Spec, ProofStands

-----------------------------------------------------------------------------
(* WorkRetained says nothing of the handlers: one that is about to delete  *)
(* its message sent to validation, or read that validation is over, and    *)
(* validation is over only for a document it was told of.                  *)
RetainInv ==
    /\ WorkRetained
    /\ IdsBefore(validateQ)
    /\ status \in Terminal => validateQ.next > 1
    /\ \A e \in Extractors :
          extractor[e].pc \in {"proveEnd", "ack"} => validateQ.next > 1

(* The messages of the producer are there at first.                        *)
LEMMA InitRetain == Init => RetainInv
  <1> SUFFICES ASSUME Init PROVE RetainInv
    OBVIOUS
  <1>1. extractQ[Domain].messages = {[id |-> i, body |-> Domain, received |-> 0] : i \in 1..Copies}
    BY DEF Init
  <1>2. Retained(extractQ[Domain]) = 1..Copies
    <2>1. ASSUME NEW i \in 1..Copies PROVE i \in Retained(extractQ[Domain])
      <3>1. [id |-> i, body |-> Domain, received |-> 0] \in extractQ[Domain].messages
        BY <1>1
      <3>2. [id |-> i, body |-> Domain, received |-> 0].id = i
        OBVIOUS
      <3> QED
        BY <3>1, <3>2, Zenon DEF Retained
    <2>2. ASSUME NEW i \in Retained(extractQ[Domain]) PROVE i \in 1..Copies
      <3>1. PICK m \in extractQ[Domain].messages : m.id = i
        BY DEF Retained
      <3> QED
        BY <1>1, <3>1
    <2> QED
      BY <2>1, <2>2, Zenon
  <1>3. IdsBefore(validateQ)
    BY EmptyQueueType DEF Init
  <1> QED
    BY <1>2, <1>3 DEF Init, RetainInv, WorkRetained, IdleExtractor, Terminal

(* A delivery counts and forgets nothing; a delete comes after a message   *)
(* to validation (process_bank_extract_message).                           *)
LEMMA NextRetain == TypeOK /\ RetainInv /\ [Next]_extractionVars => RetainInv'
  <1> SUFFICES ASSUME TypeOK, RetainInv, [Next]_extractionVars PROVE RetainInv'
    OBVIOUS
  <1>n. validateQ.next \in Nat \ {0} /\ extractQ[Domain] \in Queue({Domain})
    BY DEF TypeOK, Queue, NoMessage
  <1> USE <1>n DEF RetainInv, WorkRetained, Goto, Ends, IdleExtractor, Terminal
  <1>1. CASE UNCHANGED extractionVars
    BY <1>1 DEF extractionVars
  <1>2. CASE HandoffRecorded
    BY <1>2 DEF HandoffRecorded
  <1>3. CASE DocumentEnds
    <2>1. validateQ.next > 1
      <3>1. PICK m \in validateQ.messages : m.id < validateQ.next
        BY <1>3 DEF DocumentEnds, IdsBefore
      <3>2. m.id \in Nat \ {0}
        BY DEF TypeOK, Queue, Message, NoMessage
      <3> QED
        BY <3>1, <3>2
    <2> QED
      BY <1>3, <2>1 DEF DocumentEnds
  <1>4. ASSUME NEW e \in Extractors, ExtractorStep(e) \/ HandlerFails(e)
        PROVE  RetainInv'
    <2> USE DEF TypeOK
    <2>1. ASSUME NEW m \in extractQ[Domain].messages, Receive(e, m) PROVE RetainInv'
      <3>1. Retained(extractQ'[Domain]) = Retained(extractQ[Domain])
        BY <2>1, DeliveredType DEF Receive
      <3>2. Decision = "proveEnd" => status \in Terminal
        BY DEF Decision
      <3>3. Decision # "ack"
        BY DEF Decision
      <3> QED
        BY <2>1, <3>1, <3>2, <3>3 DEF Receive
    <2>2. CASE HeadObject(e)
      BY <2>2 DEF HeadObject
    <2>3. CASE Reserve(e)
      BY SMTT(30), <2>3 DEF Reserve
    <2>4. CASE Extract(e)
      BY <2>4 DEF Extract
    <2>5. CASE PutObject(e)
      BY <2>5 DEF PutObject
    <2>6. CASE ProveObject(e)
      BY SMTT(30), <2>6 DEF ProveObject
    <2>7. CASE CompleteStage(e)
      BY SMTT(30), <2>7 DEF CompleteStage
    <2>8. CASE SendValidate(e)
      <3>1. /\ validateQ'.next = validateQ.next + 1
            /\ IdsBefore(validateQ')
        <4>1. /\ validateQ'.next = validateQ.next + 1
              /\ validateQ'.messages = validateQ.messages \cup {Fresh(validateQ, Domain)}
              /\ Fresh(validateQ, Domain).id = validateQ.next
          BY <2>8, SentType DEF SendValidate
        <4>2. \A m \in validateQ.messages : m.id \in Nat
          BY DEF Queue, Message, NoMessage
        <4> QED
          BY <4>1, <4>2 DEF IdsBefore
      <3> QED
        BY <2>8, <3>1 DEF SendValidate
    <2>9. CASE Acknowledge(e)
      BY <2>9 DEF Acknowledge
    <2>10. CASE HandlerFails(e)
      BY <2>10 DEF HandlerFails
    <2> QED
      BY <1>4, <2>1, <2>2, <2>3, <2>4, <2>5, <2>6, <2>7, <2>8, <2>9, <2>10
         DEF ExtractorStep
  <1> QED
    BY <1>1, <1>2, <1>3, <1>4 DEF Next

(* For any number of handlers and messages: no extract message is deleted  *)
(* before validation has one.                                              *)
THEOREM WorkRetainedHolds == Spec => []WorkRetained
  <1>1. RetainInv => WorkRetained
    BY DEF RetainInv
  <1> QED
    BY <1>1, InitRetain, NextRetain, Typing, PTL DEF Spec
=============================================================================
