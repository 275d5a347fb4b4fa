------------------------- MODULE PostprocessProofs --------------------------
(***************************************************************************)
(* Postprocess for any number of handlers and messages: the document gets  *)
(* one verdict and one outcome, every notification tells that outcome, and *)
(* until the client is notified a message that can still lead there is     *)
(* kept.                                                                   *)
(***************************************************************************)
EXTENDS Postprocess, SqsQueueProofs, TLAPS

HandlerRecord ==
    [pc : {"idle", "validate", "storeValidation", "resolveValidation", "sendPersist",
           "persist", "resolveOutcome", "sendNotify", "notify",
           "ackValidate", "ackPersist", "ackNotify"},
     message : Nat, body : Body, now : Stamp]

(* The document's part: an outcome is complete and the verdict's.          *)
OutcomeInv ==
    /\ status \in Terminal <=> completedAt # NoStamp
    /\ status \in Terminal => validation \in Verdict /\ status = FinalStatus(validation)
    /\ notified => status \in Terminal

(* The messages' part: a persist message carries a verdict, a notify       *)
(* message the stored outcome.                                             *)
MessageInv ==
    /\ \A m \in persistQ.messages : m.body.verdict \in Verdict
    /\ AnnouncesTruth

(* The handlers' part: the same of what they are about to send.            *)
BodyInv ==
    \A h \in Handlers :
        /\ handler[h].pc \in {"storeValidation", "resolveValidation", "sendPersist",
                              "persist", "resolveOutcome", "sendNotify"} =>
              handler[h].body.verdict \in Verdict
        /\ handler[h].pc = "persist" => handler[h].now # NoStamp
        /\ handler[h].pc = "sendNotify" => Announces(handler[h].body)

PostInv == TypeOK /\ OutcomeInv /\ MessageInv /\ BodyInv

-----------------------------------------------------------------------------
(* The initial state has the types.                                        *)
LEMMA InitType == Init => TypeOK
  <1> SUFFICES ASSUME Init PROVE TypeOK
    OBVIOUS
  <1>b. NoBody \in Body /\ NoStamp \in Stamp
    BY DEF NoBody, Body, NoStamp, Stamp
  <1>1. validateQ \in Queue(Body)
    <2> DEFINE copies == {[id |-> i, body |-> NoBody, received |-> 0] : i \in 1..Copies}
    <2>1. copies \subseteq Message(Body)
      BY <1>b, MaxReceiveAssumption, CopiesAssumption DEF Message, NoMessage
    <2>2. validateQ = [next |-> Copies + 1, messages |-> copies]
      BY DEF Init
    <2> HIDE DEF copies
    <2> QED
      BY <2>1, <2>2, CopiesAssumption DEF Queue, NoMessage
  <1>2. persistQ \in Queue(Body) /\ notifyQ \in Queue(Body)
    BY EmptyQueueType DEF Init
  <1>3. IdleHandler \in HandlerRecord
    BY <1>b DEF IdleHandler, HandlerRecord, NoMessage
  <1> QED
    BY <1>b, <1>1, <1>2, <1>3 DEF Init, TypeOK, HandlerRecord

(* A poller that takes a message starts a handler of the right type        *)
(* (dispatch_message).                                                     *)
LEMMA StartsType ==
    ASSUME TypeOK, NEW h \in Handlers, NEW q \in Queue(Body), NEW m \in q.messages,
           NEW pc \in {"validate", "persist", "notify"}, Starts(h, pc, m)
    PROVE  /\ handler' \in [Handlers -> HandlerRecord]
           /\ handler'[h].pc = pc /\ handler'[h].body = m.body
           /\ pc = "persist" => handler'[h].now # NoStamp
           /\ \A g \in Handlers \ {h} : handler'[g] = handler[g]
  <1> DEFINE now == IF pc = "persist" THEN <<m.id, m.received + 1>> ELSE NoStamp
             started == [pc |-> pc, message |-> m.id, body |-> m.body, now |-> now]
  <1>1. m.id \in Nat \ {0} /\ m.received \in Nat /\ m.body \in Body
    BY MaxReceiveAssumption DEF Queue, Message, NoMessage
  <1>2. now \in Stamp /\ (pc = "persist" => now # NoStamp)
    BY <1>1 DEF Stamp, NoStamp
  <1> HIDE DEF now
  <1>3. started \in HandlerRecord /\ started.pc = pc /\ started.body = m.body
        /\ started.now = now
    BY <1>1, <1>2 DEF HandlerRecord
  <1>4. handler' = [handler EXCEPT ![h] = started]
    BY DEF Starts, now
  <1> HIDE DEF started
  <1> QED
    BY <1>2, <1>3, <1>4 DEF TypeOK, HandlerRecord

(* A handler that goes on with a completion time keeps its verdict         *)
(* (process_persist_message builds the notify message from both).          *)
LEMMA TellsType ==
    ASSUME TypeOK, NEW h \in Handlers, NEW time \in Stamp,
           handler' = [handler EXCEPT ![h].pc = "sendNotify", ![h].body.completedAt = time]
    PROVE  /\ handler' \in [Handlers -> HandlerRecord]
           /\ handler'[h].pc = "sendNotify"
           /\ handler'[h].body.verdict = handler[h].body.verdict
           /\ handler'[h].body.completedAt = time
           /\ \A g \in Handlers \ {h} : handler'[g] = handler[g]
  <1> DEFINE body == [handler[h].body EXCEPT !.completedAt = time]
             telling == [handler[h] EXCEPT !.pc = "sendNotify", !.body = body]
  <1>1. handler[h] \in HandlerRecord
    BY DEF TypeOK, HandlerRecord
  <1>2. body \in Body /\ body.verdict = handler[h].body.verdict /\ body.completedAt = time
    BY <1>1 DEF HandlerRecord, Body
  <1>3. handler' = [handler EXCEPT ![h] = telling]
    BY DEF TypeOK
  <1> HIDE DEF body
  <1>4. telling \in HandlerRecord /\ telling.pc = "sendNotify" /\ telling.body = body
    BY <1>1, <1>2 DEF HandlerRecord
  <1> HIDE DEF telling
  <1> QED
    BY ZenonT(60), <1>2, <1>3, <1>4 DEF TypeOK, HandlerRecord

(* Every step of a handler keeps the types.                                *)
LEMMA NextType == TypeOK /\ [Next]_postprocessVars => TypeOK'
  <1> SUFFICES ASSUME TypeOK, [Next]_postprocessVars PROVE TypeOK'
    OBVIOUS
  <1> USE DEF TypeOK, At, Goto, Ends
  <1>i. /\ IdleHandler \in HandlerRecord
        /\ \A h \in Handlers : handler[h].body \in Body /\ handler[h].now \in Stamp
        /\ \A b \in Body : b.verdict \in Verdict \cup {NotValidated} /\ b.completedAt \in Stamp
    BY DEF IdleHandler, HandlerRecord, NoMessage, NoBody, Body, NoStamp, Stamp
  <1>1. CASE UNCHANGED postprocessVars
    BY <1>1 DEF postprocessVars
  <1>2. ASSUME NEW h \in Handlers, HandlerStep(h) \/ HandlerFails(h)
        PROVE  TypeOK'
    <2>1. ASSUME NEW m \in validateQ.messages, ReceiveValidate(h, m) PROVE TypeOK'
      BY <2>1, DeliveredType, StartsType DEF ReceiveValidate, HandlerRecord
    <2>2. ASSUME NEW m \in persistQ.messages, ReceivePersist(h, m) PROVE TypeOK'
      BY <2>2, DeliveredType, StartsType DEF ReceivePersist, HandlerRecord
    <2>3. ASSUME NEW m \in notifyQ.messages, ReceiveNotify(h, m) PROVE TypeOK'
      BY <2>3, DeliveredType, StartsType DEF ReceiveNotify, HandlerRecord
    <2>4. CASE Validate(h)
      <3>1. PICK v \in Verdict : handler' = [handler EXCEPT ![h].pc = "storeValidation",
                                                            ![h].body.verdict = v]
        BY <2>4 DEF Validate
      <3> DEFINE judged == [handler[h] EXCEPT !.pc = "storeValidation",
                                              !.body = [@ EXCEPT !.verdict = v]]
      <3>2. judged \in HandlerRecord
        BY <1>i DEF HandlerRecord, Body
      <3>3. handler' = [handler EXCEPT ![h] = judged]
        BY <3>1
      <3> HIDE DEF judged
      <3>4. handler' \in [Handlers -> HandlerRecord]
        BY <3>2, <3>3 DEF HandlerRecord
      <3> QED
        BY <2>4, <3>4 DEF Validate, HandlerRecord
    <2>5. CASE StoreValidation(h)
      BY <2>5, <1>i DEF StoreValidation, HandlerRecord
    <2>6. CASE ResolveValidation(h)
      BY <2>6, <1>i DEF ResolveValidation, HandlerRecord
    <2>7. CASE SendPersist(h)
      <3> DEFINE body == [NoBody EXCEPT !.verdict = handler[h].body.verdict]
      <3>1. body \in Body
        BY <1>i DEF NoBody, Body, NoStamp, Stamp
      <3>2. persistQ' \in Queue(Body)
        BY <2>7, <3>1, SentType DEF SendPersist
      <3> QED
        BY <2>7, <3>2 DEF SendPersist
    <2>8. CASE StoreOutcome(h)
      <3> DEFINE verdict == handler[h].body.verdict
      <3>1. CASE MayComplete(verdict)
        <4>1. /\ status' = FinalStatus(verdict) /\ completedAt' = handler[h].now
              /\ handler' = [handler EXCEPT ![h].pc = "sendNotify",
                                            ![h].body.completedAt = handler[h].now]
              /\ UNCHANGED <<validation, notified, validateQ, persistQ, notifyQ>>
          BY <2>8, <3>1 DEF StoreOutcome
        <4>2. handler' \in [Handlers -> HandlerRecord]
          BY <4>1, <1>i, TellsType
        <4> QED
          BY <4>1, <4>2, <1>i DEF FinalStatus, Terminal, HandlerRecord
      <3>2. CASE ~MayComplete(verdict)
        BY <2>8, <3>2 DEF StoreOutcome
      <3> QED
        BY <3>1, <3>2
    <2>9. CASE ResolveOutcome(h)
      <3>1. \/ handler' = [handler EXCEPT ![h].pc = "sendNotify",
                                          ![h].body.completedAt = completedAt]
            \/ handler' = [handler EXCEPT ![h] = IdleHandler]
        BY <2>9 DEF ResolveOutcome, StoredCompletion
      <3>2. handler' \in [Handlers -> HandlerRecord]
        BY <3>1, <1>i, TellsType DEF HandlerRecord
      <3> QED
        BY <2>9, <3>2 DEF ResolveOutcome, HandlerRecord
    <2>10. CASE SendNotify(h)
      <3>1. notifyQ' \in Queue(Body)
        BY <2>10, <1>i, SentType DEF SendNotify
      <3> QED
        BY <2>10, <3>1 DEF SendNotify
    <2>11. CASE StoreNotification(h)
      <3>1. notified' \in BOOLEAN
        BY <2>11, Zenon DEF StoreNotification
      <3>2. handler' = [handler EXCEPT ![h].pc = "ackNotify"]
            \/ handler' = [handler EXCEPT ![h] = IdleHandler]
        BY <2>11 DEF StoreNotification
      <3>3. handler' \in [Handlers -> HandlerRecord]
        BY <3>2, <1>i DEF HandlerRecord
      <3>4. UNCHANGED <<status, validation, completedAt, validateQ, persistQ, notifyQ>>
        BY <2>11 DEF StoreNotification
      <3> QED
        BY <3>1, <3>3, <3>4 DEF HandlerRecord
    <2>12. CASE Acknowledge(h)
      BY <2>12, <1>i, DeletedType DEF Acknowledge, HandlerRecord
    <2>13. CASE HandlerFails(h)
      BY <2>13, <1>i DEF HandlerFails, HandlerRecord
    <2> QED
      BY <1>2, <2>1, <2>2, <2>3, <2>4, <2>5, <2>6, <2>7, <2>8, <2>9, <2>10, <2>11,
         <2>12, <2>13 DEF HandlerStep
  <1> QED
    BY <1>1, <1>2 DEF Next

(* The types hold in every behaviour.                                      *)
THEOREM Typing == Spec => []TypeOK
  BY InitType, NextType, PTL DEF Spec

-----------------------------------------------------------------------------
(* The outcome is inductive: the three conditional writes let through the  *)
(* first of their kind only, and whoever is refused repeats what is stored.*)
LEMMA NextPost == PostInv /\ [Next]_postprocessVars => PostInv'
  <1> SUFFICES ASSUME PostInv, [Next]_postprocessVars
               PROVE  OutcomeInv' /\ MessageInv' /\ BodyInv'
    BY NextType DEF PostInv
  <1>t. /\ TypeOK /\ NotValidated \notin Verdict /\ "EXTRACTED" \notin Terminal
        /\ \A b : FinalStatus(b.verdict) \in Terminal
    BY DEF PostInv, NotValidated, Verdict, Terminal, FinalStatus
  <1> USE DEF PostInv, OutcomeInv, MessageInv, BodyInv, AnnouncesTruth, At, Goto, Ends
  <1>1. CASE UNCHANGED postprocessVars
    BY <1>1 DEF postprocessVars, Announces
  <1>2. ASSUME NEW h \in Handlers, HandlerStep(h) \/ HandlerFails(h)
        PROVE  OutcomeInv' /\ MessageInv' /\ BodyInv'
    <2> USE <1>t DEF TypeOK
    <2>1. ASSUME NEW m \in validateQ.messages, ReceiveValidate(h, m)
          PROVE  OutcomeInv' /\ MessageInv' /\ BodyInv'
      BY <2>1, StartsType DEF ReceiveValidate, Announces
    <2>2. ASSUME NEW m \in persistQ.messages, ReceivePersist(h, m)
          PROVE  OutcomeInv' /\ MessageInv' /\ BodyInv'
      <3>1. \A n \in persistQ'.messages : n.body.verdict \in Verdict
        BY <2>2, DeliveredBody DEF ReceivePersist
      <3> QED
        BY <2>2, <3>1, StartsType DEF ReceivePersist, Announces
    <2>3. ASSUME NEW m \in notifyQ.messages, ReceiveNotify(h, m)
          PROVE  OutcomeInv' /\ MessageInv' /\ BodyInv'
      <3>1. \A n \in notifyQ'.messages : Announces(n.body)'
        BY <2>3, DeliveredBody DEF ReceiveNotify, Announces
      <3> QED
        BY <2>3, <3>1, StartsType DEF ReceiveNotify, Announces
    <2>4. CASE Validate(h)
      BY <2>4 DEF Validate, Announces, HandlerRecord, Body
    <2>5. CASE StoreValidation(h)
      BY <2>5 DEF StoreValidation, MayValidate, Announces
    <2>6. CASE ResolveValidation(h)
      BY <2>6 DEF ResolveValidation, Announces, IdleHandler
    <2>7. CASE SendPersist(h)
      <3> DEFINE body == [NoBody EXCEPT !.verdict = handler[h].body.verdict]
      <3>1. body \in Body /\ body.verdict = handler[h].body.verdict
        BY DEF HandlerRecord, NoBody, Body, NoStamp, Stamp
      <3>2. persistQ' = Sent(persistQ, body)
        BY <2>7 DEF SendPersist
      <3> HIDE DEF body
      <3>3. persistQ'.messages = persistQ.messages \cup {Fresh(persistQ, body)}
            /\ Fresh(persistQ, body).body = body
        BY <3>1, <3>2, SentType
      <3>4. handler[h].body.verdict \in Verdict
        BY <2>7 DEF SendPersist
      <3>5. \A m \in persistQ'.messages : m.body.verdict \in Verdict
        BY <3>1, <3>3, <3>4
      <3> QED
        BY <2>7, <3>5 DEF SendPersist, Announces
    <2>8. CASE StoreOutcome(h)
      <3> DEFINE verdict == handler[h].body.verdict
      <3>1. CASE MayComplete(verdict)
        <4>1. /\ status = "EXTRACTED" /\ validation = verdict /\ verdict \in Verdict
              /\ handler[h].now \in Stamp \ {NoStamp}
          BY <2>8, <3>1 DEF StoreOutcome, MayComplete, HandlerRecord
        <4>2. /\ status' = FinalStatus(verdict) /\ completedAt' = handler[h].now
              /\ handler' = [handler EXCEPT ![h].pc = "sendNotify",
                                            ![h].body.completedAt = handler[h].now]
              /\ UNCHANGED <<validation, notified, validateQ, persistQ, notifyQ>>
          BY <2>8, <3>1 DEF StoreOutcome
        <4>3. /\ handler'[h].pc = "sendNotify" /\ handler'[h].body.verdict = verdict
              /\ handler'[h].body.completedAt = handler[h].now
              /\ \A g \in Handlers \ {h} : handler'[g] = handler[g]
          BY <4>1, <4>2, TellsType
        <4>4. \A b : ~Announces(b)
          BY <4>1 DEF Announces
        <4>5. OutcomeInv'
          BY <4>1, <4>2
        <4>6. MessageInv'
          BY <4>2, <4>4
        <4>7. Announces(handler[h].body)'
          BY <4>1, <4>2, <4>3 DEF Announces
        <4>8. BodyInv'
          BY <4>1, <4>3, <4>4, <4>7
        <4> QED
          BY <4>5, <4>6, <4>8
      <3>2. CASE ~MayComplete(verdict)
        BY <2>8, <3>2 DEF StoreOutcome, Announces
      <3> QED
        BY <3>1, <3>2
    <2>9. CASE ResolveOutcome(h)
      <3>0. UNCHANGED <<status, validation, completedAt, notified,
                        validateQ, persistQ, notifyQ>>
        BY <2>9 DEF ResolveOutcome
      <3>1. CASE Announces([verdict |-> handler[h].body.verdict, completedAt |-> completedAt])
                 /\ completedAt # NoStamp
        <4>1. handler' = [handler EXCEPT ![h].pc = "sendNotify",
                                         ![h].body.completedAt = completedAt]
          BY <2>9, <3>1 DEF ResolveOutcome, StoredCompletion, Announces
        <4>2. /\ handler'[h].pc = "sendNotify"
              /\ handler'[h].body.verdict = handler[h].body.verdict
              /\ handler'[h].body.completedAt = completedAt
              /\ \A g \in Handlers \ {h} : handler'[g] = handler[g]
          BY <4>1, TellsType
        <4>3. handler[h].body.verdict \in Verdict
          BY <2>9 DEF ResolveOutcome
        <4>4. Announces(handler[h].body)'
          BY <3>0, <3>1, <4>2 DEF Announces
        <4>5. BodyInv'
          BY <3>0, <4>2, <4>3, <4>4 DEF Announces
        <4> QED
          BY <3>0, <4>5 DEF Announces
      <3>2. CASE ~(/\ Announces([verdict |-> handler[h].body.verdict,
                                 completedAt |-> completedAt])
                   /\ completedAt # NoStamp)
        <4>1. handler' = [handler EXCEPT ![h] = IdleHandler]
          BY <2>9, <3>2 DEF ResolveOutcome, Announces
        <4> QED
          BY <3>0, <4>1 DEF IdleHandler, Announces
      <3> QED
        BY <3>1, <3>2
    <2>10. CASE SendNotify(h)
      <3>1. Announces(handler[h].body) /\ handler[h].body \in Body
        BY <2>10 DEF SendNotify, HandlerRecord
      <3>2. notifyQ' = Sent(notifyQ, handler[h].body)
        BY <2>10 DEF SendNotify
      <3>3. notifyQ'.messages = notifyQ.messages \cup {Fresh(notifyQ, handler[h].body)}
            /\ Fresh(notifyQ, handler[h].body).body = handler[h].body
        BY <3>1, <3>2, SentType
      <3>4. \A m \in notifyQ'.messages : Announces(m.body)
        BY <3>1, <3>3
      <3> QED
        BY <2>10, <3>4 DEF SendNotify, Announces
    <2>11. CASE StoreNotification(h)
      <3>1. UNCHANGED <<status, validation, completedAt, validateQ, persistQ, notifyQ>>
        BY <2>11 DEF StoreNotification
      <3>2. notified' => notified \/ Announces(handler[h].body)
        BY <2>11, Zenon DEF StoreNotification
      <3>3. OutcomeInv'
        BY <3>1, <3>2 DEF Announces
      <3>4. handler' = [handler EXCEPT ![h].pc = "ackNotify"]
            \/ handler' = [handler EXCEPT ![h] = IdleHandler]
        BY <2>11 DEF StoreNotification
      <3>5. MessageInv' /\ BodyInv'
        BY <3>1, <3>4 DEF IdleHandler, Announces
      <3> QED
        BY <3>3, <3>5
    <2>12. CASE Acknowledge(h)
      <3>1. /\ UNCHANGED <<status, validation, completedAt, notified>>
            /\ handler' = [handler EXCEPT ![h] = IdleHandler]
        BY <2>12 DEF Acknowledge
      <3>2. persistQ'.messages \subseteq persistQ.messages
            /\ notifyQ'.messages \subseteq notifyQ.messages
        BY <2>12, DeletedType DEF Acknowledge
      <3>3. OutcomeInv' /\ MessageInv'
        BY <3>1, <3>2 DEF Announces
      <3>4. BodyInv'
        BY <3>1 DEF IdleHandler, Announces
      <3> QED
        BY <3>3, <3>4
    <2>13. CASE HandlerFails(h)
      BY <2>13 DEF HandlerFails, Announces, IdleHandler
    <2> QED
      BY <1>2, <2>1, <2>2, <2>3, <2>4, <2>5, <2>6, <2>7, <2>8, <2>9, <2>10, <2>11,
         <2>12, <2>13 DEF HandlerStep
  <1> QED
    BY <1>1, <1>2 DEF Next

(* The initial state has no outcome and no message that tells one.         *)
LEMMA InitPost == Init => PostInv
  <1> SUFFICES ASSUME Init PROVE PostInv
    OBVIOUS
  <1>1. TypeOK
    BY InitType
  <1>2. OutcomeInv
    BY DEF Init, OutcomeInv, Terminal, NotValidated, Verdict
  <1>3. MessageInv /\ BodyInv
    BY DEF Init, MessageInv, AnnouncesTruth, BodyInv, EmptyQueue, IdleHandler
  <1> QED
    BY <1>1, <1>2, <1>3 DEF PostInv

(* What a handler may do to the stored outcome, from the invariant.        *)
LEMMA OutcomeStep ==
    ASSUME PostInv, [Next]_postprocessVars
    PROVE  \/ UNCHANGED postprocessVars
           \/ /\ validation # NotValidated => validation' = validation
              /\ status \in Terminal => UNCHANGED <<status, validation, completedAt>>
              /\ status' \in Terminal => status' = FinalStatus(validation')
              /\ notified => notified' /\ status \in Terminal
  <1>1. PostInv'
    BY NextPost
  <1>2. status' \in Terminal => status' = FinalStatus(validation')
    BY <1>1 DEF PostInv, OutcomeInv
  <1>3. notified => status \in Terminal
    BY DEF PostInv, OutcomeInv
  <1>4. ASSUME NEW h \in Handlers, HandlerStep(h) \/ HandlerFails(h)
        PROVE  /\ validation # NotValidated => validation' = validation
               /\ status \in Terminal => UNCHANGED <<status, validation, completedAt>>
    BY <1>4 DEF HandlerStep, HandlerFails, ReceiveValidate, ReceivePersist, ReceiveNotify,
       Validate, StoreValidation, MayValidate, ResolveValidation, SendPersist, StoreOutcome,
       MayComplete, ResolveOutcome, SendNotify, StoreNotification, Acknowledge, Terminal
  <1>5. ASSUME NEW h \in Handlers, HandlerStep(h) \/ HandlerFails(h), notified
        PROVE  notified'
    BY <1>5, Zenon DEF HandlerStep, HandlerFails, ReceiveValidate, ReceivePersist,
       ReceiveNotify, Validate, StoreValidation, ResolveValidation, SendPersist, StoreOutcome,
       ResolveOutcome, SendNotify, StoreNotification, Acknowledge
  <1> QED
    BY <1>2, <1>3, <1>4, <1>5 DEF Next

(* Every notify message tells the outcome that is stored                   *)
(* (process_persist_message, _resolve_conditional_failure).                *)
THEOREM AnnouncesTruthHolds == Spec => []AnnouncesTruth
  <1>1. PostInv => AnnouncesTruth
    BY DEF PostInv, MessageInv
  <1> QED
    BY InitPost, NextPost, <1>1, PTL DEF Spec

(* One verdict and one outcome (update_validate_stage,                     *)
(* update_persist_stage, update_notify_stage).                             *)
THEOREM OutcomeStandsHolds == Spec => OutcomeStands
  <1>1. PostInv /\ [Next]_postprocessVars =>
          [/\ validation # NotValidated => validation' = validation
           /\ status \in Terminal => UNCHANGED <<status, validation, completedAt>>
           /\ status' \in Terminal => status' = FinalStatus(validation')
           /\ notified => notified' /\ status \in Terminal]_postprocessVars
    BY OutcomeStep
  <1> QED
    BY InitPost, NextPost, <1>1, PTL DEF Spec, OutcomeStands

-----------------------------------------------------------------------------
(* Nothing was deleted from a queue.                                       *)
Whole(q) == \A i \in Nat : 1 <= i /\ i < q.next => i \in Retained(q)

(* WorkRetained follows the messages down the chain: a queue is whole as   *)
(* long as the next one was never sent to, and the last until the client   *)
(* was notified.                                                           *)
ChainInv ==
    /\ IdsBefore(validateQ) /\ IdsBefore(persistQ)
    /\ validateQ.next = Copies + 1
    /\ ~notified => Whole(notifyQ)
    /\ notifyQ.next = 1 => Whole(persistQ)
    /\ persistQ.next = 1 => Whole(validateQ)
    /\ IF validation = NotValidated THEN persistQ.next = 1 ELSE Copies > 0
    /\ status # "EXTRACTED" => persistQ.next > 1

(* A handler that is about to delete has sent to the next queue.           *)
PassedOnInv ==
    \A h \in Handlers :
        /\ handler[h].pc \in {"validate", "storeValidation"} => Copies > 0
        /\ handler[h].pc = "sendPersist" => validation # NotValidated
        /\ handler[h].pc \in {"ackValidate", "persist"} => persistQ.next > 1
        /\ handler[h].pc = "ackPersist" => notifyQ.next > 1
        /\ handler[h].pc = "ackNotify" => notified

RetainInv == PostInv /\ ChainInv /\ PassedOnInv

(* What a send, a delivery and a deletion do to a queue nothing was        *)
(* deleted from (the SQS calls of poll_queue).                             *)
LEMMA WholeKept ==
    ASSUME NEW q \in Queue(Body)
    PROVE  /\ q.next \in Nat /\ q.next > 0
           /\ \A b \in Body :
                 /\ Sent(q, b).next = q.next + 1
                 /\ IdsBefore(q) => IdsBefore(Sent(q, b))
                 /\ Whole(q) => Whole(Sent(q, b))
           /\ \A m \in q.messages : CanDeliver(m) =>
                 /\ Delivered(q, m).next = q.next
                 /\ IdsBefore(q) => IdsBefore(Delivered(q, m)) /\ q.next > 1
                 /\ Whole(q) => Whole(Delivered(q, m))
           /\ \A id : /\ Deleted(q, id).next = q.next
                      /\ IdsBefore(q) => IdsBefore(Deleted(q, id))
  <1>1. q.next \in Nat /\ q.next > 0 /\ \A m \in q.messages : m.id \in Nat /\ m.id > 0
    BY DEF Queue, Message, NoMessage
  <1>2. ASSUME NEW b \in Body
        PROVE  /\ Sent(q, b).next = q.next + 1
               /\ IdsBefore(q) => IdsBefore(Sent(q, b))
               /\ Whole(q) => Whole(Sent(q, b))
    <2>1. /\ Sent(q, b).next = q.next + 1
          /\ Sent(q, b).messages = q.messages \cup {Fresh(q, b)}
          /\ Fresh(q, b).id = q.next
      BY SentType
    <2>2. Retained(Sent(q, b)) = Retained(q) \cup {q.next}
      BY <2>1, Zenon DEF Retained
    <2> QED
      BY <1>1, <2>1, <2>2 DEF IdsBefore, Whole
  <1>3. ASSUME NEW m \in q.messages, CanDeliver(m)
        PROVE  /\ Delivered(q, m).next = q.next
               /\ IdsBefore(q) => IdsBefore(Delivered(q, m)) /\ q.next > 1
               /\ Whole(q) => Whole(Delivered(q, m))
    <2>1. IdsBefore(q) => q.next > 1
      BY <1>1 DEF IdsBefore
    <2> QED
      BY <1>3, <2>1, DeliveredType DEF Whole
  <1> QED
    BY <1>1, <1>2, <1>3, DeletedType

(* The messages of the domain worker are there at first.                   *)
LEMMA InitRetain == Init => RetainInv
  <1> SUFFICES ASSUME Init PROVE RetainInv
    OBVIOUS
  <1>1. /\ validateQ.next = Copies + 1 /\ Copies \in Nat
        /\ validateQ.messages = {[id |-> i, body |-> NoBody, received |-> 0] : i \in 1..Copies}
    BY CopiesAssumption DEF Init
  <1>2. Whole(validateQ)
    <2> SUFFICES ASSUME NEW i \in 1..Copies PROVE i \in Retained(validateQ)
      BY <1>1 DEF Whole
    <2>1. [id |-> i, body |-> NoBody, received |-> 0] \in validateQ.messages
      BY <1>1
    <2>2. [id |-> i, body |-> NoBody, received |-> 0].id = i
      OBVIOUS
    <2> QED
      BY <2>1, <2>2, Zenon DEF Retained
  <1>3. IdsBefore(validateQ) /\ IdsBefore(persistQ)
    BY <1>1, EmptyQueueType DEF Init, IdsBefore
  <1>4. Whole(persistQ) /\ Whole(notifyQ)
    BY DEF Init, EmptyQueue, Whole
  <1>5. ChainInv
    BY <1>1, <1>2, <1>3, <1>4 DEF Init, ChainInv, NotValidated, EmptyQueue
  <1>6. PassedOnInv
    BY DEF Init, PassedOnInv, IdleHandler
  <1> QED
    BY <1>5, <1>6, InitPost DEF RetainInv

(* A receive starts a handler of a queue that holds a message, and forgets *)
(* nothing (poll_queue).                                                   *)
LEMMA ReceiveRetain ==
    ASSUME RetainInv, NEW h \in Handlers,
           \/ \E m \in validateQ.messages : ReceiveValidate(h, m)
           \/ \E m \in persistQ.messages : ReceivePersist(h, m)
           \/ \E m \in notifyQ.messages : ReceiveNotify(h, m)
    PROVE  ChainInv' /\ PassedOnInv'
  <1> USE DEF RetainInv, PostInv, TypeOK, ChainInv, PassedOnInv
  <1>1. ASSUME NEW m \in validateQ.messages, ReceiveValidate(h, m)
        PROVE  ChainInv' /\ PassedOnInv'
    <2>1. /\ validateQ'.next = validateQ.next /\ IdsBefore(validateQ') /\ validateQ.next > 1
          /\ Whole(validateQ) => Whole(validateQ')
          /\ UNCHANGED <<status, validation, notified, persistQ, notifyQ>>
      BY <1>1, WholeKept DEF ReceiveValidate
    <2>2. /\ handler'[h].pc = "validate"
          /\ \A g \in Handlers \ {h} : handler'[g] = handler[g]
      BY <1>1, StartsType DEF ReceiveValidate
    <2> QED
      BY <2>1, <2>2, CopiesAssumption
  <1>2. ASSUME NEW m \in persistQ.messages, ReceivePersist(h, m)
        PROVE  ChainInv' /\ PassedOnInv'
    <2>1. /\ persistQ'.next = persistQ.next /\ IdsBefore(persistQ') /\ persistQ.next > 1
          /\ Whole(persistQ) => Whole(persistQ')
          /\ UNCHANGED <<status, validation, notified, validateQ, notifyQ>>
      BY <1>2, WholeKept DEF ReceivePersist
    <2>2. /\ handler'[h].pc = "persist"
          /\ \A g \in Handlers \ {h} : handler'[g] = handler[g]
      BY <1>2, StartsType DEF ReceivePersist
    <2> QED
      BY <2>1, <2>2
  <1>3. ASSUME NEW m \in notifyQ.messages, ReceiveNotify(h, m)
        PROVE  ChainInv' /\ PassedOnInv'
    <2>1. /\ notifyQ'.next = notifyQ.next /\ (Whole(notifyQ) => Whole(notifyQ'))
          /\ UNCHANGED <<status, validation, notified, validateQ, persistQ>>
      BY <1>3, WholeKept DEF ReceiveNotify
    <2>2. /\ handler'[h].pc = "notify"
          /\ \A g \in Handlers \ {h} : handler'[g] = handler[g]
      BY <1>3, StartsType DEF ReceiveNotify
    <2> QED
      BY <2>1, <2>2
  <1> QED
    BY <1>1, <1>2, <1>3

(* A write, a send or a deletion: the queue a message is deleted from has  *)
(* been passed on from (process_validate_message and the two others).      *)
LEMMA WorkRetain ==
    ASSUME RetainInv, NEW h \in Handlers,
           \/ Validate(h) \/ StoreValidation(h) \/ ResolveValidation(h) \/ SendPersist(h)
           \/ StoreOutcome(h) \/ ResolveOutcome(h) \/ SendNotify(h)
           \/ StoreNotification(h) \/ Acknowledge(h) \/ HandlerFails(h)
    PROVE  ChainInv' /\ PassedOnInv'
  <1> USE DEF At, Goto, Ends
  <1>t. PostInv /\ TypeOK /\ ChainInv /\ PassedOnInv
    BY DEF RetainInv, PostInv
  <1>h. /\ handler \in [Handlers -> HandlerRecord]
        /\ validateQ \in Queue(Body) /\ persistQ \in Queue(Body) /\ notifyQ \in Queue(Body)
    BY <1>t DEF TypeOK, HandlerRecord
  <1>n. persistQ.next \in Nat /\ notifyQ.next \in Nat
    BY <1>h, WholeKept
  (* A handler goes on to pc, and no queue goes back. *)
  <1>o. ASSUME NEW pc, handler'[h].pc = pc,
               \A g \in Handlers \ {h} : handler'[g] = handler[g],
               pc \notin {"validate", "persist"},
               pc = "storeValidation" => Copies > 0,
               pc = "sendPersist" => validation' # NotValidated,
               validation # NotValidated => validation' # NotValidated,
               pc = "ackValidate" => persistQ'.next > 1,
               pc = "ackPersist" => notifyQ'.next > 1,
               pc = "ackNotify" => notified',
               persistQ'.next \in Nat, persistQ'.next >= persistQ.next,
               notifyQ'.next \in Nat, notifyQ'.next >= notifyQ.next,
               notified => notified'
        PROVE  PassedOnInv'
    <2> SUFFICES ASSUME NEW g \in Handlers
                 PROVE  /\ handler'[g].pc \in {"validate", "storeValidation"} => Copies > 0
                        /\ handler'[g].pc = "sendPersist" => validation' # NotValidated
                        /\ handler'[g].pc \in {"ackValidate", "persist"} => persistQ'.next > 1
                        /\ handler'[g].pc = "ackPersist" => notifyQ'.next > 1
                        /\ handler'[g].pc = "ackNotify" => notified'
      BY DEF PassedOnInv
    <2>1. CASE g = h
      BY <2>1, <1>o
    <2>2. CASE g # h
      <3>1. handler'[g] = handler[g]
        BY <2>2, <1>o
      <3> QED
        BY <3>1, <1>o, <1>t, <1>n DEF PassedOnInv
    <2> QED
      BY <2>1, <2>2
  <1>1. CASE Validate(h)
    <2>1. /\ handler'[h].pc = "storeValidation" /\ Copies > 0
          /\ \A g \in Handlers \ {h} : handler'[g] = handler[g]
      BY <1>1, <1>h, <1>t DEF Validate, PassedOnInv, HandlerRecord, IdleHandler
    <2>2. UNCHANGED <<status, validation, notified, validateQ, persistQ, notifyQ>>
      BY <1>1 DEF Validate
    <2>3. PassedOnInv'
      BY <2>1, <2>2, <1>n, <1>o
    <2> QED
      BY <2>2, <2>3, <1>t DEF ChainInv
  <1>2. CASE StoreValidation(h)
    <2>1. /\ handler'[h].pc \in {"sendPersist", "resolveValidation"} /\ Copies > 0
          /\ handler'[h].pc = "sendPersist" => validation' # NotValidated
          /\ validation # NotValidated => validation' = validation
          /\ \A g \in Handlers \ {h} : handler'[g] = handler[g]
      BY <1>2, <1>h, <1>t
      DEF StoreValidation, PassedOnInv, HandlerRecord, PostInv, BodyInv, MayValidate,
          NotValidated, Verdict
    <2>2. UNCHANGED <<status, notified, validateQ, persistQ, notifyQ>>
      BY <1>2 DEF StoreValidation
    <2>3. PassedOnInv'
      BY <2>1, <2>2, <1>n, <1>o
    <2> QED
      BY <2>1, <2>2, <2>3, <1>t DEF ChainInv
  <1>3. CASE ResolveValidation(h) \/ HandlerFails(h)
    <2>1. /\ handler'[h].pc \in {"sendPersist", "idle"}
          /\ handler'[h].pc = "sendPersist" => validation # NotValidated
          /\ \A g \in Handlers \ {h} : handler'[g] = handler[g]
      BY <1>3, <1>h, <1>t
      DEF ResolveValidation, HandlerFails, HandlerRecord, IdleHandler, PostInv, BodyInv,
          NotValidated, Verdict
    <2>2. UNCHANGED <<status, validation, notified, validateQ, persistQ, notifyQ>>
      BY <1>3 DEF ResolveValidation, HandlerFails
    <2>3. PassedOnInv'
      BY <2>1, <2>2, <1>n, <1>o
    <2> QED
      BY <2>2, <2>3, <1>t DEF ChainInv
  <1>4. CASE SendPersist(h)
    <2> DEFINE body == [NoBody EXCEPT !.verdict = handler[h].body.verdict]
    <2>1. body \in Body
      BY <1>h DEF NoBody, Body, NoStamp, Stamp, HandlerRecord
    <2>2. /\ persistQ' = Sent(persistQ, body)
          /\ UNCHANGED <<status, validation, notified, validateQ, notifyQ>>
      BY <1>4 DEF SendPersist
    <2> HIDE DEF body
    <2>3. /\ persistQ'.next = persistQ.next + 1 /\ persistQ.next > 0
          /\ IdsBefore(persistQ) => IdsBefore(persistQ')
          /\ Whole(persistQ) => Whole(persistQ')
      BY <2>1, <2>2, <1>h, WholeKept
    <2>4. /\ handler'[h].pc = "ackValidate" /\ validation # NotValidated
          /\ \A g \in Handlers \ {h} : handler'[g] = handler[g]
      BY <1>4, <1>h, <1>t DEF SendPersist, PassedOnInv
    <2>5. PassedOnInv'
      BY <2>2, <2>3, <2>4, <1>n, <1>o
    <2> QED
      BY <2>2, <2>3, <2>4, <2>5, <1>t, <1>n DEF ChainInv
  <1>5. CASE StoreOutcome(h)
    <2>1. /\ handler'[h].pc \in {"sendNotify", "resolveOutcome"} /\ persistQ.next > 1
          /\ \A g \in Handlers \ {h} : handler'[g] = handler[g]
      BY <1>5, <1>h, <1>t DEF StoreOutcome, PassedOnInv, HandlerRecord, IdleHandler
    <2>2. UNCHANGED <<validation, notified, validateQ, persistQ, notifyQ>>
      BY <1>5 DEF StoreOutcome
    <2>3. PassedOnInv'
      BY <2>1, <2>2, <1>n, <1>o
    <2> QED
      BY <2>1, <2>2, <2>3, <1>t DEF ChainInv
  <1>6. CASE ResolveOutcome(h)
    <2>1. /\ handler'[h].pc \in {"sendNotify", "idle"}
          /\ \A g \in Handlers \ {h} : handler'[g] = handler[g]
      BY <1>6, <1>h, <1>t DEF ResolveOutcome, HandlerRecord, IdleHandler
    <2>2. UNCHANGED <<status, validation, notified, validateQ, persistQ, notifyQ>>
      BY <1>6 DEF ResolveOutcome
    <2>3. PassedOnInv'
      BY <2>1, <2>2, <1>n, <1>o
    <2> QED
      BY <2>2, <2>3, <1>t DEF ChainInv
  <1>7. CASE SendNotify(h)
    <2>1. handler[h].body \in Body
      BY <1>h DEF HandlerRecord
    <2>2. /\ notifyQ' = Sent(notifyQ, handler[h].body)
          /\ UNCHANGED <<status, validation, notified, validateQ, persistQ>>
      BY <1>7 DEF SendNotify
    <2>3. /\ notifyQ'.next = notifyQ.next + 1 /\ notifyQ.next > 0
          /\ Whole(notifyQ) => Whole(notifyQ')
      BY <2>1, <2>2, <1>h, WholeKept
    <2>4. /\ handler'[h].pc = "ackPersist"
          /\ \A g \in Handlers \ {h} : handler'[g] = handler[g]
      BY <1>7, <1>h DEF SendNotify
    <2>5. PassedOnInv'
      BY <2>2, <2>3, <2>4, <1>n, <1>o
    <2> QED
      BY <2>2, <2>3, <2>5, <1>t, <1>n DEF ChainInv
  <1>8. CASE StoreNotification(h)
    <2>1. /\ (handler'[h].pc = "ackNotify" /\ notified') \/ handler'[h].pc = "idle"
          /\ \A g \in Handlers \ {h} : handler'[g] = handler[g]
          /\ notified => notified'
      BY <1>8, <1>h, <1>t DEF StoreNotification, HandlerRecord, IdleHandler
    <2>2. UNCHANGED <<status, validation, validateQ, persistQ, notifyQ>>
      BY <1>8 DEF StoreNotification
    <2>3. PassedOnInv'
      BY <2>1, <2>2, <1>n, <1>o
    <2> QED
      BY <2>1, <2>2, <2>3, <1>t DEF ChainInv
  <1>9. CASE Acknowledge(h)
    <2>1. /\ handler'[h].pc = "idle"
          /\ \A g \in Handlers \ {h} : handler'[g] = handler[g]
      BY <1>9, <1>h, <1>t DEF Acknowledge, IdleHandler
    <2>2. UNCHANGED <<status, validation, notified>>
      BY <1>9 DEF Acknowledge
    <2>3. \/ /\ persistQ.next > 1 /\ UNCHANGED <<persistQ, notifyQ>>
             /\ validateQ'.next = validateQ.next /\ IdsBefore(validateQ')
          \/ /\ notifyQ.next > 1 /\ UNCHANGED <<validateQ, notifyQ>>
             /\ persistQ'.next = persistQ.next /\ IdsBefore(persistQ')
          \/ /\ notified /\ UNCHANGED <<validateQ, persistQ>>
             /\ notifyQ'.next = notifyQ.next
      <3> DEFINE id == handler[h].message
      <3>1. CASE At(h, "ackValidate") /\ validateQ' = Deleted(validateQ, id)
                 /\ UNCHANGED <<persistQ, notifyQ>>
        BY <3>1, <1>t, <1>h, WholeKept DEF PassedOnInv, ChainInv
      <3>2. CASE At(h, "ackPersist") /\ persistQ' = Deleted(persistQ, id)
                 /\ UNCHANGED <<validateQ, notifyQ>>
        BY <3>2, <1>t, <1>h, WholeKept DEF PassedOnInv, ChainInv
      <3>3. CASE At(h, "ackNotify") /\ notifyQ' = Deleted(notifyQ, id)
                 /\ UNCHANGED <<validateQ, persistQ>>
        BY <3>3, <1>t, <1>h, WholeKept DEF PassedOnInv
      <3> QED
        BY <1>9, <3>1, <3>2, <3>3 DEF Acknowledge
    <2>4. PassedOnInv'
      BY <2>1, <2>2, <2>3, <1>n, <1>o
    <2> QED
      BY <2>2, <2>3, <2>4, <1>t DEF ChainInv
  <1> QED
    BY <1>1, <1>2, <1>3, <1>4, <1>5, <1>6, <1>7, <1>8, <1>9

(* Every step keeps the chain.                                             *)
LEMMA NextRetain == RetainInv /\ [Next]_postprocessVars => RetainInv'
  <1> SUFFICES ASSUME RetainInv, [Next]_postprocessVars PROVE RetainInv'
    OBVIOUS
  <1>1. PostInv'
    BY NextPost DEF RetainInv
  <1>2. CASE UNCHANGED postprocessVars
    BY <1>1, <1>2 DEF postprocessVars, RetainInv, ChainInv, PassedOnInv
  <1>3. ASSUME NEW h \in Handlers, HandlerStep(h) \/ HandlerFails(h)
        PROVE  ChainInv' /\ PassedOnInv'
    BY ZenonT(30), <1>3, ReceiveRetain, WorkRetain DEF HandlerStep
  <1> QED
    BY <1>1, <1>2, <1>3 DEF Next, RetainInv

(* Until the client is notified a message that can still lead there is     *)
(* kept, whichever handlers fail (poll_queue deletes only after the stage  *)
(* has sent, or recorded the notification).                                *)
THEOREM WorkRetainedHolds == Spec => []WorkRetained
  <1>1. ASSUME RetainInv PROVE WorkRetained
    <2>1. \A q : q \in Queue(Body) /\ Whole(q) /\ q.next > 1 => Retained(q) # {}
      <3> SUFFICES ASSUME NEW q \in Queue(Body), Whole(q), q.next > 1
                   PROVE  1 \in Retained(q)
        OBVIOUS
      <3> QED
        BY WholeKept DEF Whole
    <2>2. /\ validateQ \in Queue(Body) /\ persistQ \in Queue(Body) /\ notifyQ \in Queue(Body)
          /\ validateQ.next = Copies + 1 /\ Copies \in Nat /\ IdsBefore(validateQ)
          /\ persistQ.next \in Nat /\ persistQ.next > 0
          /\ notifyQ.next \in Nat /\ notifyQ.next > 0
      BY <1>1, WholeKept, CopiesAssumption DEF RetainInv, PostInv, TypeOK, ChainInv
    <2> SUFFICES ASSUME ~notified
                 PROVE  IF validation = NotValidated THEN Retained(validateQ) = 1..Copies
                        ELSE \/ Retained(notifyQ) # {}
                             \/ Retained(persistQ) # {}
                             \/ status = "EXTRACTED" /\ Retained(validateQ) # {}
      BY DEF WorkRetained
    <2>3. CASE validation # NotValidated
      <3>1. CASE notifyQ.next > 1
        BY <3>1, <2>1, <2>2, <2>3, <1>1 DEF RetainInv, ChainInv
      <3>2. CASE notifyQ.next = 1 /\ persistQ.next > 1
        BY <3>2, <2>1, <2>2, <2>3, <1>1 DEF RetainInv, ChainInv
      <3>3. CASE notifyQ.next = 1 /\ persistQ.next = 1
        <4>1. Whole(validateQ) /\ validateQ.next > 1 /\ status = "EXTRACTED"
          BY <3>3, <2>2, <2>3, <1>1 DEF RetainInv, ChainInv
        <4> QED
          BY <4>1, <2>1, <2>2, <2>3
      <3> QED
        BY <2>2, <3>1, <3>2, <3>3
    <2>4. CASE validation = NotValidated
      <3>1. Whole(validateQ)
        BY <2>4, <1>1 DEF RetainInv, ChainInv
      <3>2. \A m \in validateQ.messages : m.id \in 1..Copies
        BY <2>2 DEF IdsBefore, Queue, Message, NoMessage
      <3>3. Retained(validateQ) = 1..Copies
        BY <2>2, <3>1, <3>2 DEF Whole, Retained
      <3> QED
        BY <2>4, <3>3
    <2> QED
      BY <2>3, <2>4
  <1> QED
    BY <1>1, InitRetain, NextRetain, PTL DEF Spec
=============================================================================
