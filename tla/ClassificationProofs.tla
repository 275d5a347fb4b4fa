------------------------ MODULE ClassificationProofs ------------------------
(***************************************************************************)
(* Classification for any number of handlers and messages: one domain,     *)
(* whoever decides, and a recorded handoff that was really sent.           *)
(***************************************************************************)
EXTENDS Classification, SqsQueueProofs, TLAPS

ClassifierRecord ==
    [pc : {"idle", "classify", "save", "send", "mark", "ack"},
     message : Nat, route : Domains \cup {NoDomain}, sent : Nat]

(* The document's part: it has a domain from the pending checkpoint on,    *)
(* and messages only in the queue of that domain.                          *)
DecisionInv ==
    /\ domain = NoDomain <=> status \in {"OCR", "OCR_COMPLETED"}
    /\ OneDomain
    /\ HandoffBacked

(* The handlers' part: what they are about to send, or have sent, goes to  *)
(* the stored domain.                                                      *)
RouteInv ==
    \A c \in Classifiers :
        /\ classifier[c].pc = "save" => classifier[c].route \in Domains
        /\ classifier[c].pc \in {"send", "mark"} =>
              classifier[c].route = domain /\ domain \in Domains
        /\ classifier[c].pc = "mark" => WasSent(extractQ[domain], classifier[c].sent)

RoutingInv == TypeOK /\ DecisionInv /\ RouteInv

-----------------------------------------------------------------------------
(* The initial state has the types.                                        *)
LEMMA InitType == Init => TypeOK
  <1> SUFFICES ASSUME Init PROVE TypeOK
    OBVIOUS
  <1>1. classifyQ \in Queue({"platform"})
    <2> DEFINE copies == {[id |-> i, body |-> "platform", received |-> 0] : i \in 1..Copies}
    <2>1. copies \subseteq Message({"platform"})
      BY MaxReceiveAssumption, CopiesAssumption DEF Message, NoMessage
    <2>2. classifyQ = [next |-> Copies + 1, messages |-> copies]
      BY DEF Init, QueueOf
    <2> HIDE DEF copies
    <2> QED
      BY <2>1, <2>2, CopiesAssumption DEF Queue, NoMessage
  <1>2. extractQ \in [Domains -> Queue(Domains)]
    BY EmptyQueueType DEF Init
  <1> QED
    BY <1>1, <1>2 DEF Init, TypeOK, NoHandoff, IdleClassifier, NoMessage

(* A send to the queue of a domain counts there and nowhere else           *)
(* (enqueue_message).                                                      *)
LEMMA SendExtractQueues ==
    ASSUME TypeOK, NEW c \in Classifiers, SendExtract(c), classifier[c].route \in Domains
    PROVE  /\ extractQ' \in [Domains -> Queue(Domains)]
           /\ classifier' = [classifier EXCEPT ![c].pc = "mark",
                                   ![c].sent = extractQ[classifier[c].route].next]
           /\ extractQ'[classifier[c].route].next = extractQ[classifier[c].route].next + 1
           /\ \A d \in Domains \ {classifier[c].route} : extractQ'[d] = extractQ[d]
  <1> DEFINE d == classifier[c].route
  <1>1. extractQ[d] \in Queue(Domains)
    BY DEF TypeOK
  <1>2. /\ extractQ' = [extractQ EXCEPT ![d] = Sent(extractQ[d], d)]
        /\ classifier' = [classifier EXCEPT ![c].pc = "mark",
                                            ![c].sent = extractQ[d].next]
    BY DEF SendExtract
  <1>3. Sent(extractQ[d], d) \in Queue(Domains)
        /\ Sent(extractQ[d], d).next = extractQ[d].next + 1
    BY <1>1, SentType
  <1> QED
    BY <1>2, <1>3 DEF TypeOK

(* Every step of a handler and of its neighbours keeps the types.          *)
LEMMA NextType == RoutingInv /\ [Next]_classificationVars => TypeOK'
  <1> SUFFICES ASSUME RoutingInv, [Next]_classificationVars PROVE TypeOK'
    OBVIOUS
  <1> USE DEF RoutingInv, TypeOK, Goto, Ends
  <1>i. IdleClassifier \in ClassifierRecord
    BY DEF IdleClassifier, ClassifierRecord, NoMessage
  <1>1. CASE UNCHANGED classificationVars
    BY <1>1 DEF classificationVars
  <1>2. CASE OcrCompletes \/ ExtractionStarts
    BY <1>2 DEF OcrCompletes, ExtractionStarts
  <1>3. ASSUME NEW c \in Classifiers, ClassifierStep(c) \/ HandlerFails(c)
        PROVE  TypeOK'
    <2>1. ASSUME NEW m \in classifyQ.messages, Receive(c, m) PROVE TypeOK'
      <3>1. classifyQ' \in Queue({"platform"}) /\ m.id \in Nat
        BY <2>1, DeliveredType DEF Receive, Queue, Message
      <3> DEFINE started == [IdleClassifier EXCEPT !.pc = Decision, !.message = m.id,
                                                   !.route = domain]
      <3>2. started \in ClassifierRecord
        BY <3>1 DEF IdleClassifier, ClassifierRecord, Decision, NoMessage
      <3>3. classifier' = classifier \/ classifier' = [classifier EXCEPT ![c] = started]
        BY <2>1 DEF Receive
      <3> HIDE DEF started
      <3>4. classifier' \in [Classifiers -> ClassifierRecord]
        BY <3>2, <3>3 DEF ClassifierRecord
      <3> QED
        BY <2>1, <3>1, <3>4 DEF Receive, ClassifierRecord
    <2>2. CASE Classify(c)
      <3>1. PICK d \in Domains :
               classifier' = [classifier EXCEPT ![c].pc = "save", ![c].route = d]
        BY <2>2 DEF Classify
      <3> DEFINE decided == [classifier[c] EXCEPT !.pc = "save", !.route = d]
      <3>2. decided \in ClassifierRecord
        BY DEF ClassifierRecord
      <3>3. classifier' = [classifier EXCEPT ![c] = decided]
        BY <3>1
      <3> HIDE DEF decided
      <3>4. classifier' \in [Classifiers -> ClassifierRecord]
        BY <3>2, <3>3 DEF ClassifierRecord
      <3> QED
        BY <2>2, <3>4 DEF Classify, ClassifierRecord
    <2>3. CASE SaveDecision(c)
      BY <2>3, <1>i DEF SaveDecision, ClassifierRecord, NoHandoff, NoMessage
    <2>4. CASE SendExtract(c)
      <3>1. classifier[c].route \in Domains
        BY <2>4 DEF SendExtract, RouteInv
      <3>2. /\ extractQ' \in [Domains -> Queue(Domains)]
            /\ classifier' = [classifier EXCEPT ![c].pc = "mark",
                                   ![c].sent = extractQ[classifier[c].route].next]
            /\ extractQ[classifier[c].route].next \in Nat
        BY <2>4, <3>1, SendExtractQueues DEF Queue
      <3> DEFINE n == extractQ[classifier[c].route].next
                 sender == [classifier[c] EXCEPT !.pc = "mark", !.sent = n]
      <3>3. sender \in ClassifierRecord
        BY <3>2 DEF ClassifierRecord
      <3>4. classifier' = [classifier EXCEPT ![c] = sender]
        BY <3>2
      <3> HIDE DEF sender
      <3>5. classifier' \in [Classifiers -> ClassifierRecord]
        BY <3>3, <3>4 DEF ClassifierRecord
      <3> QED
        BY <2>4, <3>2, <3>5 DEF SendExtract, ClassifierRecord
    <2>5. CASE MarkEnqueued(c)
      BY <2>5, <1>i DEF MarkEnqueued, ClassifierRecord
    <2>6. CASE Acknowledge(c)
      <3>1. classifyQ' \in Queue({"platform"})
        BY <2>6, DeletedType DEF Acknowledge
      <3> QED
        BY <2>6, <3>1, <1>i DEF Acknowledge, ClassifierRecord
    <2>7. CASE HandlerFails(c)
      BY <2>7, <1>i DEF HandlerFails, ClassifierRecord
    <2> QED
      BY <1>3, <2>1, <2>2, <2>3, <2>4, <2>5, <2>6, <2>7 DEF ClassifierStep
  <1> QED
    BY <1>1, <1>2, <1>3 DEF Next

-----------------------------------------------------------------------------
(* Routing is inductive: only the first decision finds a document without  *)
(* a domain, and everyone who sends has read or written the stored one.    *)
LEMMA NextRouting == RoutingInv /\ [Next]_classificationVars => RoutingInv'
  <1> SUFFICES ASSUME RoutingInv, [Next]_classificationVars
               PROVE  DecisionInv' /\ RouteInv'
    BY NextType DEF RoutingInv
  <1>t. /\ TypeOK /\ NoDomain \notin Domains
        /\ \A d \in Domains : extractQ[d] \in Queue(Domains) /\ extractQ[d].next \in Nat \ {0}
    BY DEF RoutingInv, TypeOK, Queue, NoMessage, Domains, NoDomain
  <1> USE DEF RoutingInv, DecisionInv, RouteInv, OneDomain, HandoffBacked, WasSent,
              Goto, Ends
  <1>1. CASE UNCHANGED classificationVars
    BY <1>1 DEF classificationVars
  <1>2. CASE OcrCompletes
    BY <1>2, <1>t DEF OcrCompletes
  <1>3. CASE ExtractionStarts
    BY <1>3, <1>t DEF ExtractionStarts
  <1>4. ASSUME NEW c \in Classifiers, ClassifierStep(c) \/ HandlerFails(c)
        PROVE  DecisionInv' /\ RouteInv'
    <2> USE <1>t DEF TypeOK, IdleClassifier
    <2>1. ASSUME NEW m \in classifyQ.messages, Receive(c, m)
          PROVE  DecisionInv' /\ RouteInv'
      BY <2>1 DEF Receive, Decision, PendingRoute
    <2>2. CASE Classify(c)
      BY <2>2 DEF Classify
    <2>3. CASE SaveDecision(c)
      <3>1. CASE MaySave
        <4>d. domain = NoDomain
          BY <3>1 DEF MaySave
        <4>q. ASSUME NEW d \in Domains PROVE ~(extractQ[d].next > 1)
          BY <4>d, <1>t
        <4>1. /\ domain = NoDomain
              /\ \A d \in Domains : ~(extractQ[d].next > 1)
              /\ \A b \in Classifiers : classifier[b].pc \notin {"send", "mark"}
          BY <4>d, <4>q
        <4>2. /\ status' = "CLASSIFY_PENDING" /\ extractQ' = extractQ
              /\ domain' = classifier[c].route /\ domain' \in Domains
          BY <2>3, <3>1 DEF SaveDecision
        <4>3. /\ classifier'[c].pc = "send" /\ classifier'[c].route = domain'
              /\ \A b \in Classifiers : b # c => classifier'[b] = classifier[b]
          BY <2>3, <3>1 DEF SaveDecision
        <4>4. DecisionInv'
          BY <4>1, <4>2
        <4>5. \A b \in Classifiers : b # c => classifier'[b].pc \notin {"send", "mark"}
          BY <4>1, <4>3
        <4>6. RouteInv'
          BY <4>2, <4>3, <4>5
        <4> QED
          BY <4>4, <4>6
      <3>2. CASE ~MaySave
        BY <2>3, <3>2 DEF SaveDecision
      <3> QED
        BY <3>1, <3>2
    <2>4. CASE SendExtract(c)
      <3>1. classifier[c].pc = "send" /\ classifier[c].route = domain /\ domain \in Domains
        BY <2>4 DEF SendExtract
      <3>2. /\ extractQ'[domain].next = extractQ[domain].next + 1
            /\ \A d \in Domains \ {domain} : extractQ'[d] = extractQ[d]
            /\ classifier' = [classifier EXCEPT ![c].pc = "mark",
                                                ![c].sent = extractQ[domain].next]
        BY <2>4, <3>1, SendExtractQueues
      <3>3. UNCHANGED <<status, domain, classification>>
        BY <2>4 DEF SendExtract
      <3>4. \A i \in 1..(extractQ[domain].next - 1) : i \in 1..(extractQ'[domain].next - 1)
        BY <3>1, <3>2
      <3>5. DecisionInv'
        BY <3>1, <3>2, <3>3, <3>4
      <3>6. \A b \in Classifiers : b # c => classifier'[b] = classifier[b]
        BY <3>2
      <3>7. /\ classifier'[c].pc = "mark" /\ classifier'[c].route = domain
            /\ classifier'[c].sent = extractQ[domain].next
        BY <3>1, <3>2
      <3>8. RouteInv'
        BY <3>1, <3>2, <3>3, <3>4, <3>6, <3>7
      <3> QED
        BY <3>5, <3>8
    <2>5. CASE MarkEnqueued(c)
      BY <2>5 DEF MarkEnqueued
    <2>6. CASE Acknowledge(c)
      BY <2>6 DEF Acknowledge
    <2>7. CASE HandlerFails(c)
      BY <2>7 DEF HandlerFails
    <2> QED
      BY <1>4, <2>1, <2>2, <2>3, <2>4, <2>5, <2>6, <2>7 DEF ClassifierStep
  <1> QED
    BY <1>1, <1>2, <1>3, <1>4 DEF Next

(* At first nothing is decided and nothing is sent.                        *)
LEMMA InitRouting == Init => RoutingInv
  <1> SUFFICES ASSUME Init PROVE DecisionInv /\ RouteInv
    BY InitType DEF RoutingInv
  <1> QED
    BY DEF Init, DecisionInv, RouteInv, OneDomain, HandoffBacked, EmptyQueue,
           IdleClassifier, NoDomain, Domains

(* The types hold in every behaviour.                                      *)
THEOREM Typing == Spec => []TypeOK
  <1>1. RoutingInv => TypeOK
    BY DEF RoutingInv
  <1> QED
    BY <1>1, InitRouting, NextRouting, PTL DEF Spec

(* For any number of handlers, however they disagree: only the queue of    *)
(* the stored domain ever gets a message for the document.                 *)
THEOREM OneDomainHolds == Spec => []OneDomain
  <1>1. RoutingInv => OneDomain
    BY DEF RoutingInv, DecisionInv
  <1> QED
    BY <1>1, InitRouting, NextRouting, PTL DEF Spec

(* The recorded handoff was sent, to the queue of the stored domain.       *)
THEOREM HandoffBackedHolds == Spec => []HandoffBacked
  <1>1. RoutingInv => HandoffBacked
    BY DEF RoutingInv, DecisionInv
  <1> QED
    BY <1>1, InitRouting, NextRouting, PTL DEF Spec

(* The decision is made once, and a late delivery undoes nothing of what   *)
(* the domain worker began.                                                *)
THEOREM DecisionStandsHolds == Spec => DecisionStands
  <1>1. RoutingInv /\ [Next]_classificationVars =>
          [/\ domain # NoDomain => domain' = domain
           /\ status = "EXTRACTING" => UNCHANGED <<status, classification>>
          ]_classificationVars
    <2> SUFFICES ASSUME RoutingInv, Next
                 PROVE  /\ domain # NoDomain => domain' = domain
                        /\ status = "EXTRACTING" => UNCHANGED <<status, classification>>
      BY DEF classificationVars
    <2>1. CASE OcrCompletes \/ ExtractionStarts
      BY <2>1 DEF OcrCompletes, ExtractionStarts
    <2>2. ASSUME NEW c \in Classifiers, ClassifierStep(c) \/ HandlerFails(c)
          PROVE  /\ domain # NoDomain => domain' = domain
                 /\ status = "EXTRACTING" => UNCHANGED <<status, classification>>
      <3>1. MaySave => domain = NoDomain
        BY DEF RoutingInv, DecisionInv, MaySave
      <3> QED
        BY <2>2, <3>1 DEF ClassifierStep, Receive, Classify, SaveDecision, MaySave,
                          SendExtract, MarkEnqueued, Acknowledge, HandlerFails
    <2> QED
      BY <2>1, <2>2 DEF Next
  <1> QED
    BY <1>1, InitRouting, NextRouting, PTL DEF Spec, DecisionStands

-----------------------------------------------------------------------------
(* WorkRetained says nothing of the handlers: one that is about to delete  *)
(* its message read, or made, the record of the handoff.                   *)
RetainInv ==
    /\ WorkRetained
    /\ \A c \in Classifiers :
          classifier[c].pc = "ack" => status \in {"CLASSIFY_COMPLETED", "EXTRACTING"}

(* The messages the OCR worker sent are there at first.                    *)
LEMMA InitRetain == Init => RetainInv
  <1> SUFFICES ASSUME Init PROVE RetainInv
    OBVIOUS
  <1>1. classifyQ.messages = {[id |-> i, body |-> "platform", received |-> 0] : i \in 1..Copies}
    BY DEF Init, QueueOf
  <1>2. Retained(classifyQ) = 1..Copies
    <2>1. ASSUME NEW i \in 1..Copies PROVE i \in Retained(classifyQ)
      <3>1. [id |-> i, body |-> "platform", received |-> 0] \in classifyQ.messages
        BY <1>1
      <3>2. [id |-> i, body |-> "platform", received |-> 0].id = i
        OBVIOUS
      <3> QED
        BY <3>1, <3>2, Zenon DEF Retained
    <2>2. ASSUME NEW i \in Retained(classifyQ) PROVE i \in 1..Copies
      <3>1. PICK m \in classifyQ.messages : m.id = i
        BY DEF Retained
      <3> QED
        BY <1>1, <3>1
    <2> QED
      BY <2>1, <2>2, Zenon
  <1> QED
    BY <1>2 DEF Init, RetainInv, WorkRetained, IdleClassifier

(* A delivery counts and forgets nothing; a delete comes after the handoff *)
(* is on record (process_message).                                         *)
LEMMA NextRetain == TypeOK /\ RetainInv /\ [Next]_classificationVars => RetainInv'
  <1> SUFFICES ASSUME TypeOK, RetainInv, [Next]_classificationVars PROVE RetainInv'
    OBVIOUS
  <1> USE DEF RetainInv, WorkRetained, TypeOK, Goto, Ends, IdleClassifier
  <1>1. CASE UNCHANGED classificationVars
    BY <1>1 DEF classificationVars
  <1>2. CASE OcrCompletes \/ ExtractionStarts
    BY <1>2 DEF OcrCompletes, ExtractionStarts
  <1>3. ASSUME NEW c \in Classifiers, ClassifierStep(c) \/ HandlerFails(c)
        PROVE  RetainInv'
    <2>1. ASSUME NEW m \in classifyQ.messages, Receive(c, m) PROVE RetainInv'
      <3>1. Retained(classifyQ') = Retained(classifyQ)
        BY <2>1, DeliveredType DEF Receive
      <3>2. Decision = "ack" => status = "CLASSIFY_COMPLETED"
        BY DEF Decision, HandoffConfirmed
      <3> QED
        BY <2>1, <3>1, <3>2 DEF Receive
    <2>2. CASE Classify(c)
      BY <2>2 DEF Classify
    <2>3. CASE SaveDecision(c)
      <3>1. CASE MaySave
        <4>1. status = "OCR_COMPLETED" /\ classifyQ' = classifyQ
          BY <2>3, <3>1 DEF SaveDecision, MaySave
        <4>2. \A b \in Classifiers : classifier'[b].pc # "ack"
          BY <2>3, <3>1, <4>1 DEF SaveDecision
        <4> QED
          BY <4>1, <4>2
      <3>2. CASE ~MaySave
        BY <2>3, <3>2 DEF SaveDecision
      <3> QED
        BY <3>1, <3>2
    <2>4. CASE SendExtract(c)
      BY <2>4 DEF SendExtract
    <2>5. CASE MarkEnqueued(c)
      <3>1. CASE status = "CLASSIFY_PENDING" /\ domain = classifier[c].route
        <4>1. status' = "CLASSIFY_COMPLETED"
          BY <2>5, <3>1 DEF MarkEnqueued
        <4> QED
          BY <4>1
      <3>2. CASE ~(status = "CLASSIFY_PENDING" /\ domain = classifier[c].route)
        BY <2>5, <3>2 DEF MarkEnqueued
      <3> QED
        BY <3>1, <3>2
    <2>6. CASE Acknowledge(c)
      BY <2>6 DEF Acknowledge
    <2>7. CASE HandlerFails(c)
      BY <2>7 DEF HandlerFails
    <2> QED
      BY <1>3, <2>1, <2>2, <2>3, <2>4, <2>5, <2>6, <2>7 DEF ClassifierStep
  <1> QED
    BY <1>1, <1>2, <1>3 DEF Next

(* For any number of handlers and messages: no message of the OCR worker   *)
(* is deleted before the handoff it asks for is on record.                 *)
THEOREM WorkRetainedHolds == Spec => []WorkRetained
  <1>1. RetainInv => WorkRetained
    BY DEF RetainInv
  <1> QED
    BY <1>1, InitRetain, NextRetain, Typing, PTL DEF Spec
=============================================================================
