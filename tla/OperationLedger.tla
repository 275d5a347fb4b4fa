--------------------------- MODULE OperationLedger ---------------------------
(***************************************************************************)
(* POST /api/v2/documents and /api/v2/batches under one idempotency key,   *)
(* and the reconciliation endpoint of that key (services/journey.py over   *)
(* repositories/operations.py).                                            *)
(*                                                                         *)
(* A create call reserves the key with a create-only put, writes the       *)
(* business record once if the reservation is its own, and then moves the  *)
(* ledger record on by compare-and-swap.  Every other call with the key is *)
(* a replay that may only read the business record and settle the ledger.  *)
(* Each remote call can fail without effect, or take effect and lose its   *)
(* answer; a process can stop anywhere; the business put can even arrive   *)
(* after the caller has given up on it.  Tasks read their own clocks.      *)
(*                                                                         *)
(* A call is its own resource id (uuid4 per call), and names the candidate *)
(* record it would reserve.                                                *)
(***************************************************************************)
EXTENDS Naturals, FiniteSets

CONSTANTS Creates,       \* the create calls clients make with the key
          Reconcilers,   \* clients of the reconciliation endpoint
          Digests,       \* canonical request digests
          NoCall,        \* no resource id
          Grace,         \* journey_pending_reconciliation_grace_seconds
          Retention,     \* journey_operation_retention_seconds
          Skew,          \* how far the clocks of two tasks differ
          MaxTime,       \* bound on the clock
          MaxErrors      \* bound on the remote calls that go wrong

ASSUME CallAssumption ==
    NoCall \notin Creates \cup Reconcilers /\ Creates \cap Reconcilers = {}
ASSUME TimeAssumption ==
    /\ Grace \in Nat \ {0} /\ Retention \in Nat \ {0}
    /\ Skew \in Nat /\ MaxTime \in Nat /\ MaxErrors \in Nat

VARIABLES ledger,        \* the operation record of the key
          business,      \* the business record of each resource id
          task,          \* the progress of each call
          clock,         \* the time
          errors         \* remote calls that went wrong so far

ledgerVars == <<ledger, business, task, clock, errors>>

Calls == Creates \cup Reconcilers
Times == 0..(MaxTime + Skew)

Completed == {"SUCCEEDED", "QUARANTINED", "EXPIRED"}
LedgerStates == {"none", "PENDING"} \cup Completed

(* Not stored; also the value of completed_at that is not set.             *)
NoTime == MaxTime + Skew + 1

NoRecord == [state |-> "none", version |-> 0, digest |-> "none", resource |-> NoCall,
             created |-> NoTime, updated |-> NoTime, expires |-> NoTime, completed |-> NoTime]

Reserved(c) ==
    [state |-> "PENDING", version |-> 1, digest |-> task[c].digest, resource |-> c,
     created |-> task[c].now, updated |-> task[c].now,
     expires |-> task[c].now + Retention, completed |-> NoTime]

(* What a call knows: its request, the clock it read, the record it works  *)
(* on (pending), the state it moves the ledger to (target), whether its    *)
(* last write answered with an error, and in the end what it tells.        *)
IdleCall == [pc |-> "idle", digest |-> "none", now |-> 0, seen |-> NoRecord,
             target |-> "none", error |-> "none", tells |-> "none", resource |-> NoCall]

LedgerInit ==
    /\ ledger = NoRecord
    /\ business = [c \in Creates |-> "absent"]
    /\ task = [c \in Calls |-> IdleCall]
    /\ clock = 0
    /\ errors = 0

-----------------------------------------------------------------------------
TaskAt(c, pc) == task[c].pc = pc

TaskGoto(c, pc) == task' = [task EXCEPT ![c].pc = pc]

(* The call ends and tells the client.                                     *)
Told(c, what, resource) ==
    task' = [task EXCEPT ![c] = [IdleCall EXCEPT !.pc = "done", !.digest = task[c].digest,
                                                 !.tells = what, !.resource = resource]]

Answers(c, what) == Told(c, what, NoCall)

AnswersWith(c, record) == Told(c, record.state, record.resource)

(* A remote call goes wrong.                                               *)
Fault == errors < MaxErrors /\ errors' = errors + 1

(* _now, by the clock of the task.                                         *)
Now == {t \in Times : clock <= t /\ t <= clock + Skew}

Begins(c) ==
    \E now \in Now :
        \/ /\ c \in Creates
           /\ \E d \in Digests :
                 task' = [task EXCEPT ![c].pc = "reserve", ![c].digest = d, ![c].now = now]
        \/ /\ c \in Reconcilers
           /\ task' = [task EXCEPT ![c] = [IdleCall EXCEPT !.pc = "look", !.now = now]]

(* create_batch and create_document up to the reservation, reconcile up to *)
(* its first read; a client of the reconciliation endpoint asks again.     *)
Begin(c) ==
    /\ TaskAt(c, "idle") \/ (c \in Reconcilers /\ task[c].pc \in {"done", "crashed"})
    /\ Begins(c)
    /\ UNCHANGED <<ledger, business, clock, errors>>

(* The create-only put of reserve.  With an error the caller looks at what *)
(* is stored; the error is the failed condition also when the client       *)
(* library's own retry of the put meets its first attempt                  *)
(* (AWS_MAX_ATTEMPTS is 3).                                                *)
ReserveKey(c) ==
    /\ TaskAt(c, "reserve")
    /\ \/ /\ ledger.state = "none"
          /\ ledger' = Reserved(c)
          /\ \/ /\ task' = [task EXCEPT ![c].pc = "write", ![c].seen = Reserved(c)]
                /\ UNCHANGED errors
             \/ /\ Fault
                /\ \E e \in {"lost", "condition"} :
                      task' = [task EXCEPT ![c].pc = "reread", ![c].error = e]
       \/ /\ ledger.state # "none"
          /\ task' = [task EXCEPT ![c].pc = "reread", ![c].error = "condition"]
          /\ UNCHANGED <<ledger, errors>>
       \/ /\ Fault
          /\ task' = [task EXCEPT ![c].pc = "reread", ![c].error = "lost"]
          /\ UNCHANGED ledger
    /\ UNCHANGED <<business, clock>>

(* Seeded fault: any error whose record asks for the same is a win.        *)
FaultIsWinner(c) == ledger.state = "PENDING" /\ ledger.digest = task[c].digest

(* The reservation is this caller's although the put did not say so.       *)
IsWinner(c) == task[c].error # "condition" /\ ledger = Reserved(c)

(* Seeded fault: the request digest is not compared.                       *)
FaultSameRequest(c) == TRUE

SameRequest(c) == ledger.digest = task[c].digest

(* The read that follows a failed put in reserve.                          *)
RereadReservation(c) ==
    /\ TaskAt(c, "reread")
    /\ \/ Fault /\ Answers(c, "unknown")
       \/ /\ UNCHANGED errors
          /\ IF ledger.state = "none" THEN Answers(c, "unknown")
             ELSE IF ~SameRequest(c) THEN Answers(c, "conflict")
             ELSE IF IsWinner(c)
                  THEN task' = [task EXCEPT ![c].pc = "write", ![c].seen = ledger]
                  ELSE task' = [task EXCEPT ![c].pc = "resolve", ![c].seen = ledger]
    /\ UNCHANGED <<ledger, business, clock>>

(* The one business write (_write_business_once).  An error is resolved by *)
(* a read, but the put may still be under way.                             *)
WriteBusiness(c) ==
    /\ TaskAt(c, "write")
    /\ \/ /\ business' = [business EXCEPT ![c] = "CREATED"]
          /\ \/ TaskGoto(c, "settle") /\ UNCHANGED errors
             \/ TaskGoto(c, "check") /\ Fault
       \/ /\ \E b \in {"absent", "late"} : business' = [business EXCEPT ![c] = b]
          /\ TaskGoto(c, "check") /\ Fault
    /\ UNCHANGED <<ledger, clock>>

LateWriteLands(c) ==
    /\ business[c] = "late"
    /\ business' = [business EXCEPT ![c] = "CREATED"]
    /\ UNCHANGED <<ledger, task, clock, errors>>

(* The document is submitted, the batch filled: the record is past its     *)
(* first status.                                                           *)
ResourceAdvances(c) ==
    /\ business[c] = "CREATED"
    /\ business' = [business EXCEPT ![c] = "ADVANCED"]
    /\ UNCHANGED <<ledger, task, clock, errors>>

(* The load that opens reconcile.                                          *)
Look(c) ==
    /\ TaskAt(c, "look")
    /\ \/ Fault /\ Answers(c, "unavailable")
       \/ /\ UNCHANGED errors
          /\ IF ledger.state = "none" THEN Answers(c, "notFound")
             ELSE task' = [task EXCEPT ![c].pc = "resolve", ![c].seen = ledger]
    /\ UNCHANGED <<ledger, business, clock>>

(* _expire and the dispatch on the state: _resolve_existing reads the      *)
(* clock again, reconcile goes by the time it began.                       *)
Resolve(c) ==
    /\ TaskAt(c, "resolve")
    /\ \E now \in IF c \in Creates THEN Now ELSE {task[c].now} :
          LET seen == task[c].seen IN
          IF now >= seen.expires /\ seen.state # "EXPIRED"
          THEN task' = [task EXCEPT ![c].pc = "load", ![c].now = now, ![c].target = "EXPIRED"]
          ELSE IF seen.state = "PENDING" THEN TaskGoto(c, "check")
          ELSE AnswersWith(c, seen)
    /\ UNCHANGED <<ledger, business, clock, errors>>

(* Seeded fault: a pending record is never given up.                       *)
FaultStale(c) == FALSE

(* _pending_is_stale.                                                      *)
Stale(c) == task[c].now >= task[c].seen.updated + Grace

(* Seeded fault: whatever record is found proves the write.                *)
FaultBindingMatches(b) == b \in {"absent", "late", "CREATED", "ADVANCED"}

(* _business_binding_matches: of the attributes compared only the status   *)
(* ever changes.                                                           *)
BindingMatches(b) == b = "CREATED"

Exists(b) == b \in {"CREATED", "ADVANCED"}

(* The call performs the business write (created_here).                    *)
Winner(c) == task[c].seen.resource = c /\ task[c].error # "condition"

(* _reconcile_business_record and what its callers do with no record: the  *)
(* winner gives up, a replay leaves it, reconcile waits out the grace.     *)
CheckBusiness(c) ==
    /\ TaskAt(c, "check")
    /\ \/ Fault /\ Answers(c, "unknown")
       \/ /\ UNCHANGED errors
          /\ LET b == business[task[c].seen.resource] IN
             IF BindingMatches(b) THEN TaskGoto(c, "settle")
             ELSE IF Exists(b) \/ Winner(c) \/ (c \in Reconcilers /\ Stale(c))
                  THEN TaskGoto(c, "quarantine")
             ELSE IF c \in Creates THEN Answers(c, "unknown")
             ELSE AnswersWith(c, task[c].seen)
    /\ UNCHANGED <<ledger, business, clock>>

(* _transition_success and _mark_unknown take the time and call            *)
(* transition.                                                             *)
StartTransition(c) ==
    /\ TaskAt(c, "settle") \/ TaskAt(c, "quarantine")
    /\ \E now \in Now :
          task' = [task EXCEPT ![c].pc = "load", ![c].now = now,
                       ![c].target = IF TaskAt(c, "settle") THEN "SUCCEEDED" ELSE "QUARANTINED"]
    /\ UNCHANGED <<ledger, business, clock, errors>>

(* The record transition would leave behind.                               *)
CompletedAt(c, record) ==
    IF task[c].target = "EXPIRED" /\ record.completed # NoTime THEN record.completed
    ELSE task[c].now

Moved(c, record) ==
    [record EXCEPT !.state = task[c].target, !.version = @ + 1, !.updated = task[c].now,
                   !.completed = CompletedAt(c, record)]

(* transition returns: what the caller makes of it.                        *)
Returns(c, record) ==
    IF task[c].target = "QUARANTINED" /\ c \in Creates THEN Answers(c, "unknown")
    ELSE AnswersWith(c, record)

(* Already moved to the same state by an equal transition.                 *)
AlreadyMoved(c, record) ==
    /\ record.state = task[c].target
    /\ record.version = task[c].seen.version + 1
    /\ task[c].target # "EXPIRED" => record.completed = task[c].now

Expected(c, record) ==
    /\ record.state = task[c].seen.state
    /\ record.version = task[c].seen.version

ClockRegressed(c) == task[c].now < ledger.updated

TooLate(c) == task[c].now >= ledger.expires /\ task[c].target # "EXPIRED"

(* transition up to the update: the load and the checks on it.             *)
LoadForTransition(c) ==
    /\ TaskAt(c, "load")
    /\ \/ Fault /\ Answers(c, "unknown")
       \/ /\ UNCHANGED errors
          /\ IF AlreadyMoved(c, ledger) THEN Returns(c, ledger)
             ELSE IF ~Expected(c, ledger) THEN TaskGoto(c, "conflict")
             ELSE IF ClockRegressed(c) THEN Answers(c, "unknown")
             ELSE IF TooLate(c) THEN TaskGoto(c, "conflict")
             ELSE task' = [task EXCEPT ![c].pc = "swap", ![c].seen = ledger]
    /\ UNCHANGED <<ledger, business, clock>>

SwapCondition(c) == Expected(c, ledger)

(* The conditional update of transition.                                   *)
Swap(c) ==
    /\ TaskAt(c, "swap")
    /\ \/ /\ SwapCondition(c)
          /\ ledger' = Moved(c, ledger)
          /\ \/ task' = [task EXCEPT ![c].pc = "verify", ![c].error = "none"] /\ UNCHANGED errors
             \/ /\ Fault
                /\ \E e \in {"lost", "condition"} :
                      task' = [task EXCEPT ![c].pc = "verify", ![c].error = e]
       \/ /\ ~SwapCondition(c)
          /\ task' = [task EXCEPT ![c].pc = "verify", ![c].error = "condition"]
          /\ UNCHANGED <<ledger, errors>>
       \/ /\ Fault
          /\ task' = [task EXCEPT ![c].pc = "verify", ![c].error = "lost"]
          /\ UNCHANGED ledger
    /\ UNCHANGED <<business, clock>>

(* The strongly consistent read that proves the update.                    *)
Verify(c) ==
    /\ TaskAt(c, "verify")
    /\ \/ Fault /\ Answers(c, "unknown")
       \/ /\ UNCHANGED errors
          /\ IF /\ ledger.state = task[c].target
                /\ ledger.version = task[c].seen.version + 1
             THEN IF ledger.completed = CompletedAt(c, task[c].seen)
                  THEN Returns(c, ledger)
                  ELSE TaskGoto(c, "conflict")
             ELSE IF task[c].error = "condition" THEN TaskGoto(c, "conflict")
             ELSE Answers(c, "unknown")
    /\ UNCHANGED <<ledger, business, clock>>

(* Somebody else moved the record: their outcome counts if it is the same. *)
ResolveConflict(c) ==
    /\ TaskAt(c, "conflict")
    /\ \/ Fault /\ Answers(c, "unknown")
       \/ /\ UNCHANGED errors
          /\ IF ledger.state = task[c].target THEN Returns(c, ledger)
             ELSE Answers(c, "unknown")
    /\ UNCHANGED <<ledger, business, clock>>

(* The task stops in the middle of a call.                                 *)
Crash(c) ==
    /\ task[c].pc \notin {"idle", "done", "crashed"}
    /\ Fault
    /\ task' = [task EXCEPT ![c] = [IdleCall EXCEPT !.pc = "crashed"]]
    /\ UNCHANGED <<ledger, business, clock>>

Tick ==
    /\ clock < MaxTime
    /\ clock' = clock + 1
    /\ UNCHANGED <<ledger, business, task, errors>>

CallStep(c) ==
    \/ Look(c) \/ Resolve(c) \/ CheckBusiness(c)
    \/ StartTransition(c) \/ LoadForTransition(c) \/ Swap(c) \/ Verify(c)
    \/ ResolveConflict(c)

CreateStep(c) == ReserveKey(c) \/ RereadReservation(c) \/ WriteBusiness(c) \/ CallStep(c)

LedgerNext ==
    \/ \E c \in Calls : Begin(c) \/ Crash(c)
    \/ \E c \in Creates : CreateStep(c) \/ LateWriteLands(c) \/ ResourceAdvances(c)
    \/ \E c \in Reconcilers : CallStep(c)
    \/ Tick

(* Time passes, a call that began ends or crashes, and a client whose      *)
(* write is in doubt keeps asking, as the UNKNOWN_WRITE_OUTCOME answer     *)
(* tells it to (RETRY_ONLY_AFTER_RECONCILIATION).  Creating is up to the   *)
(* client.                                                                 *)
Fairness ==
    /\ WF_ledgerVars(Tick)
    /\ \A c \in Creates : WF_ledgerVars(CreateStep(c))
    /\ \A c \in Reconcilers : WF_ledgerVars(Begin(c) \/ CallStep(c))

LedgerSpec == LedgerInit /\ [][LedgerNext]_ledgerVars /\ Fairness

-----------------------------------------------------------------------------
Record == [state : LedgerStates, version : Nat, digest : Digests \cup {"none"},
           resource : Creates \cup {NoCall}, created : Nat, updated : Nat,
           expires : Nat, completed : Nat]

(* The type invariant of the ledger and its calls.                         *)
LedgerTypeOK ==
    /\ ledger \in Record
    /\ business \in [Creates -> {"absent", "late", "CREATED", "ADVANCED"}]
    /\ task \in [Calls ->
          [pc : {"idle", "reserve", "reread", "write", "look", "resolve", "check",
                 "settle", "quarantine", "load", "swap", "verify", "conflict",
                 "done", "crashed"},
           digest : Digests \cup {"none"}, now : Nat, seen : Record,
           target : {"none"} \cup Completed, error : {"none", "lost", "condition"},
           tells : {"none", "unknown", "conflict", "unavailable", "notFound"} \cup LedgerStates,
           resource : Creates \cup {NoCall}]]
    /\ clock \in 0..MaxTime
    /\ errors \in 0..MaxErrors

(* Under one key at most one business record is ever written, by the call  *)
(* whose resource id the ledger holds, whichever calls race, lose their    *)
(* answers and are replayed (created_here of reserve).                     *)
AtMostOneResource ==
    \A c \in Creates : business[c] # "absent" => ledger.resource = c

(* A ledger that says SUCCEEDED, or an expired one that once did, has its  *)
(* business record (_transition_success after the write, or after the      *)
(* binding was compared).                                                  *)
SuccessBacked ==
    ledger.state = "SUCCEEDED" => Exists(business[ledger.resource])

(* Every caller that is told success is told the same resource, and it     *)
(* asked for what was created: a key bound to another request never        *)
(* answers with somebody else's resource (IDEMPOTENCY_CONFLICT).           *)
AnswersAgree ==
    \A c \in Calls :
        task[c].tells = "SUCCEEDED" =>
            /\ task[c].resource = ledger.resource
            /\ Exists(business[ledger.resource])
            /\ c \in Creates => task[c].digest = ledger.digest

(* The record never gets into a shape that _record_from_item refuses,      *)
(* whatever the clocks of the writers say: a refused record would make the *)
(* key an internal error for ever.                                         *)
RecordReadable ==
    ledger.state # "none" =>
        /\ ledger.created <= ledger.updated /\ ledger.created < ledger.expires
        /\ (ledger.state \in Completed) <=> (ledger.completed # NoTime)
        /\ ledger.completed # NoTime =>
              ledger.created <= ledger.completed /\ ledger.completed <= ledger.updated
        /\ (ledger.state = "EXPIRED") <=> (ledger.updated >= ledger.expires)

(* The ledger moves forward: a reservation keeps its request and resource, *)
(* each move adds one version, a pending record is decided once, and a     *)
(* decided one only expires (_ALLOWED_TRANSITIONS).                        *)
LedgerForward ==
    [][ledger' # ledger =>
          \/ ledger.state = "none" /\ ledger'.state = "PENDING" /\ ledger'.version = 1
          \/ /\ ledger'.version = ledger.version + 1
             /\ \A f \in {"digest", "resource", "created", "expires"} : ledger'[f] = ledger[f]
             /\ \/ ledger.state = "PENDING" /\ ledger'.state \in Completed
                \/ /\ ledger.state \in {"SUCCEEDED", "QUARANTINED"}
                   /\ ledger'.state = "EXPIRED"
                   /\ ledger'.completed = ledger.completed
      ]_ledgerVars

(* A reserved key does not stay pending: while a client reconciles, the    *)
(* operation is decided, also when the winner died before its write (told  *)
(* of the reservations whose grace ends before the bound on the clock).    *)
PendingIsDecided ==
    (ledger.state = "PENDING" /\ ledger.updated + Grace <= MaxTime)
        ~> (ledger.state # "PENDING")

(* What the clients of the key see of the ledger and the business records. *)
Once == INSTANCE OnceOperation
    WITH Resources <- Creates, NoResource <- NoCall, bound <- ledger.resource,
         made <- \E c \in Creates : Exists(business[c]),
         told <- \E c \in Calls : task[c].tells = "SUCCEEDED"

(* The ledger implements the promise of an idempotency key.                *)
ImplementsOnce == Once!Spec

=============================================================================
