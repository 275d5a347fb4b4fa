----------------------------- MODULE Postprocess ----------------------------
(***************************************************************************)
(* scanalyze-postprocess-worker: validate, persist and notify, three       *)
(* consumers of one worker that give an extracted document its outcome.    *)
(*                                                                         *)
(* Each stage is one conditional write and one send (notify only writes).  *)
(* A write whose condition fails is resolved by a second read: if the      *)
(* stored stage proves the same outcome the handler goes on with what is   *)
(* stored, otherwise it gives up (_resolve_conditional_failure).           *)
(* HandlerFails ends a handler after any call: the processor returns False *)
(* or raises, and the message comes back.  A timestamp is named by the     *)
(* delivery that takes it.                                                 *)
(***************************************************************************)
EXTENDS SqsQueue

CONSTANTS Handlers,       \* handlers that can be under way at once, any stage
          Copies,         \* validate messages the domain worker sent
          MaxSends        \* bound on the sends to one queue

ASSUME CopiesAssumption == Copies \in Nat
ASSUME SendsAssumption == MaxSends \in Nat

VARIABLES status,         \* the document's status attribute
          validation,     \* its stored validation status, with stages.validate
          completedAt,    \* completedAt and stages.persist
          notified,       \* notifiedAt and stages.notify are stored
          validateQ, persistQ, notifyQ,
          handler         \* the handlers under way

postprocessVars == <<status, validation, completedAt, notified,
                     validateQ, persistQ, notifyQ, handler>>

Verdict == {"PASS", "FAIL"}
NotValidated == "none"

Terminal == {"COMPLETED", "FAILED"}

(* The delivery that read the clock.                                       *)
Stamp == Nat \X Nat
NoStamp == <<0, 0>>

(* Bodies of the messages; the validate message names the artifact only.   *)
NoBody == [verdict |-> NotValidated, completedAt |-> NoStamp]

Body == [verdict : Verdict \cup {NotValidated}, completedAt : Stamp]

FinalStatus(verdict) == IF verdict = "PASS" THEN "COMPLETED" ELSE "FAILED"

IdleHandler == [pc |-> "idle", message |-> NoMessage, body |-> NoBody, now |-> NoStamp]

(* A document with a proven artifact; a retry or a second delivery of the  *)
(* domain worker has sent further copies of the validate message.          *)
Init ==
    /\ status = "EXTRACTED"
    /\ validation = NotValidated
    /\ completedAt = NoStamp /\ notified = FALSE
    /\ validateQ = [next |-> Copies + 1,
                    messages |-> {[id |-> i, body |-> NoBody, received |-> 0] : i \in 1..Copies}]
    /\ persistQ = EmptyQueue /\ notifyQ = EmptyQueue
    /\ handler = [h \in Handlers |-> IdleHandler]

-----------------------------------------------------------------------------
At(h, pc) == handler[h].pc = pc

Goto(h, pc) == handler' = [handler EXCEPT ![h].pc = pc]

Ends(h) == handler' = [handler EXCEPT ![h] = IdleHandler]

Starts(h, pc, m) ==
    handler' = [handler EXCEPT ![h] = [pc |-> pc, message |-> m.id, body |-> m.body,
                                       now |-> IF pc = "persist" THEN <<m.id, m.received + 1>>
                                               ELSE NoStamp]]

(* Three pollers, one per queue (build_stage_bindings, poll_queue).  The   *)
(* authorization read sees nothing that changes after extraction.          *)
ReceiveValidate(h, m) ==
    /\ At(h, "idle") /\ CanDeliver(m)
    /\ validateQ' = Delivered(validateQ, m)
    /\ Starts(h, "validate", m)
    /\ UNCHANGED <<status, validation, completedAt, notified, persistQ, notifyQ>>

ReceivePersist(h, m) ==
    /\ At(h, "idle") /\ CanDeliver(m)
    /\ persistQ' = Delivered(persistQ, m)
    /\ Starts(h, "persist", m)
    /\ UNCHANGED <<status, validation, completedAt, notified, validateQ, notifyQ>>

ReceiveNotify(h, m) ==
    /\ At(h, "idle") /\ CanDeliver(m)
    /\ notifyQ' = Delivered(notifyQ, m)
    /\ Starts(h, "notify", m)
    /\ UNCHANGED <<status, validation, completedAt, notified, validateQ, persistQ>>

(* GetObject and the validators.  The object never changes, but a failing  *)
(* validator answers FAIL (INTERNAL_VALIDATION_ERROR), so two deliveries   *)
(* may disagree.                                                           *)
Validate(h) ==
    /\ At(h, "validate")
    /\ \E v \in Verdict :
          handler' = [handler EXCEPT ![h].pc = "storeValidation", ![h].body.verdict = v]
    /\ UNCHANGED <<status, validation, completedAt, notified, validateQ, persistQ, notifyQ>>

(* The condition of update_validate_stage.                                 *)
MayValidate == status = "EXTRACTED" /\ validation = NotValidated

(* update_validate_stage and, when it is refused, the read that resolves   *)
(* it.                                                                     *)
StoreValidation(h) ==
    /\ At(h, "storeValidation")
    /\ \/ MayValidate /\ validation' = handler[h].body.verdict /\ Goto(h, "sendPersist")
       \/ ~MayValidate /\ UNCHANGED validation /\ Goto(h, "resolveValidation")
    /\ UNCHANGED <<status, completedAt, notified, validateQ, persistQ, notifyQ>>

ResolveValidation(h) ==
    /\ At(h, "resolveValidation")
    /\ IF validation = handler[h].body.verdict THEN Goto(h, "sendPersist") ELSE Ends(h)
    /\ UNCHANGED <<status, validation, completedAt, notified, validateQ, persistQ, notifyQ>>

(* The persist message carries the stored verdict.                         *)
SendPersist(h) ==
    /\ At(h, "sendPersist") /\ persistQ.next <= MaxSends
    /\ persistQ' = Sent(persistQ, [NoBody EXCEPT !.verdict = handler[h].body.verdict])
    /\ Goto(h, "ackValidate")
    /\ UNCHANGED <<status, validation, completedAt, notified, validateQ, notifyQ>>

(* Seeded fault: nothing keeps a second completion out.                    *)
FaultMayComplete(verdict) == validation = verdict

(* The condition of update_persist_stage.                                  *)
MayComplete(verdict) ==
    /\ status = "EXTRACTED"
    /\ validation = verdict
    /\ completedAt = NoStamp

(* update_persist_stage and, when it is refused, the read that resolves it *)
(* with the completedAt of the delivery that was first.                    *)
StoreOutcome(h) ==
    /\ At(h, "persist")
    /\ LET verdict == handler[h].body.verdict IN
       \/ /\ MayComplete(verdict)
          /\ status' = FinalStatus(verdict)
          /\ completedAt' = handler[h].now
          /\ handler' = [handler EXCEPT ![h].pc = "sendNotify",
                                        ![h].body.completedAt = handler[h].now]
       \/ /\ ~MayComplete(verdict)
          /\ UNCHANGED <<status, completedAt>>
          /\ Goto(h, "resolveOutcome")
    /\ UNCHANGED <<validation, notified, validateQ, persistQ, notifyQ>>

(* Seeded fault: a repeated completion is reported with its own time.      *)
FaultStoredCompletion(h) == handler[h].now

(* What the resolving read returns.                                        *)
StoredCompletion(h) == completedAt

ResolveOutcome(h) ==
    /\ At(h, "resolveOutcome")
    /\ IF /\ status = FinalStatus(handler[h].body.verdict)
          /\ validation = handler[h].body.verdict
          /\ completedAt # NoStamp
       THEN handler' = [handler EXCEPT ![h].pc = "sendNotify",
                                       ![h].body.completedAt = StoredCompletion(h)]
       ELSE Ends(h)
    /\ UNCHANGED <<status, validation, completedAt, notified, validateQ, persistQ, notifyQ>>

(* Seeded fault: the message is acknowledged without the notify message.   *)
FaultSendNotify(h) ==
    /\ At(h, "sendNotify")
    /\ Goto(h, "ackPersist")
    /\ UNCHANGED <<status, validation, completedAt, notified, validateQ, persistQ, notifyQ>>

SendNotify(h) ==
    /\ At(h, "sendNotify") /\ notifyQ.next <= MaxSends
    /\ notifyQ' = Sent(notifyQ, handler[h].body)
    /\ Goto(h, "ackPersist")
    /\ UNCHANGED <<status, validation, completedAt, notified, validateQ, persistQ>>

(* The document is in the state the notify message tells of.               *)
Announces(body) ==
    /\ status = FinalStatus(body.verdict)
    /\ completedAt = body.completedAt
    /\ validation = body.verdict

(* update_notify_stage; the resolving read takes a document that was       *)
(* notified before for a success, so it adds nothing to the condition.     *)
StoreNotification(h) ==
    /\ At(h, "notify")
    /\ IF Announces(handler[h].body) THEN notified' = TRUE /\ Goto(h, "ackNotify")
       ELSE UNCHANGED notified /\ Ends(h)
    /\ UNCHANGED <<status, validation, completedAt, validateQ, persistQ, notifyQ>>

Acknowledge(h) ==
    /\ \/ At(h, "ackValidate") /\ validateQ' = Deleted(validateQ, handler[h].message)
            /\ UNCHANGED <<persistQ, notifyQ>>
       \/ At(h, "ackPersist") /\ persistQ' = Deleted(persistQ, handler[h].message)
            /\ UNCHANGED <<validateQ, notifyQ>>
       \/ At(h, "ackNotify") /\ notifyQ' = Deleted(notifyQ, handler[h].message)
            /\ UNCHANGED <<validateQ, persistQ>>
    /\ Ends(h)
    /\ UNCHANGED <<status, validation, completedAt, notified>>

HandlerFails(h) ==
    /\ ~At(h, "idle")
    /\ Ends(h)
    /\ UNCHANGED <<status, validation, completedAt, notified, validateQ, persistQ, notifyQ>>

HandlerStep(h) ==
    \/ \E m \in validateQ.messages : ReceiveValidate(h, m)
    \/ \E m \in persistQ.messages : ReceivePersist(h, m)
    \/ \E m \in notifyQ.messages : ReceiveNotify(h, m)
    \/ Validate(h) \/ StoreValidation(h) \/ ResolveValidation(h) \/ SendPersist(h)
    \/ StoreOutcome(h) \/ ResolveOutcome(h) \/ SendNotify(h)
    \/ StoreNotification(h) \/ Acknowledge(h)

Next == \E h \in Handlers : HandlerStep(h) \/ HandlerFails(h)

(* Consumers keep running and every handler ends, one way or another.      *)
Fairness == \A h \in Handlers : WF_postprocessVars(HandlerStep(h) \/ HandlerFails(h))

Spec == Init /\ [][Next]_postprocessVars /\ Fairness

-----------------------------------------------------------------------------
(* The type invariant of the postprocess stages.                           *)
TypeOK ==
    /\ status \in {"EXTRACTED"} \cup Terminal
    /\ validation \in Verdict \cup {NotValidated}
    /\ completedAt \in Stamp /\ notified \in BOOLEAN
    /\ validateQ \in Queue(Body) /\ persistQ \in Queue(Body) /\ notifyQ \in Queue(Body)
    /\ handler \in [Handlers ->
          [pc : {"idle", "validate", "storeValidation", "resolveValidation", "sendPersist",
                 "persist", "resolveOutcome", "sendNotify", "notify",
                 "ackValidate", "ackPersist", "ackNotify"},
           message : Nat, body : Body, now : Stamp]]

(* Every notify message tells the document's own outcome: its status, its  *)
(* verdict and the completedAt that is stored, also when the message was   *)
(* sent by a delivery that lost the race to complete                       *)
(* (_resolve_conditional_failure returns what is stored).                  *)
AnnouncesTruth ==
    \A m \in notifyQ.messages : Announces(m.body)

(* Until the client is notified some message of the stage the document is  *)
(* in has not been deleted, so a retry or a redrive can finish the job.    *)
WorkRetained ==
    ~notified =>
        IF validation = NotValidated THEN Retained(validateQ) = 1..Copies
        ELSE \/ Retained(notifyQ) # {}
             \/ Retained(persistQ) # {}
             \/ status = "EXTRACTED" /\ Retained(validateQ) # {}

(* The verdict is stored once and the outcome once, whichever deliveries   *)
(* repeat them with another verdict or at another time; the outcome is     *)
(* the one the verdict calls for, and nothing moves after the notification.*)
OutcomeStands ==
    [][/\ validation # NotValidated => validation' = validation
       /\ status \in Terminal =>
             UNCHANGED <<status, validation, completedAt>>
       /\ status' \in Terminal => status' = FinalStatus(validation')
       /\ notified => notified' /\ status \in Terminal
      ]_postprocessVars

(* A document is notified, or the messages that could still do it are      *)
(* used up and lie in the dead-letter queues.                              *)
PostprocessSettles ==
    <>(\/ notified
       \/ /\ \A q \in {validateQ, persistQ, notifyQ} : Retained(q) = Exhausted(q)
          /\ \E q \in {validateQ, persistQ, notifyQ} : Exhausted(q) # {}
          /\ \A h \in Handlers : At(h, "idle"))
=============================================================================
