---------------------------- MODULE PhaseLedger ----------------------------
(***************************************************************************)
(* The phase execution ledger (platform_authority_gug365_phase_execution_- *)
(* ledger.py): every phase of an authorised plan has a ledger file, which  *)
(* is created once, claimed once, and then records the one attempt that    *)
(* each of its ordered operations gets: IN_FLIGHT before the provider is   *)
(* called, the outcome after it.  Processes on the operator's host share   *)
(* the files; whoever runs a phase holds a kernel lock (the lease) on an   *)
(* inode that no step replaces, and a process that dies loses it.          *)
(* A call that has been sent is carried out, refused or left open by the   *)
(* provider whatever becomes of the process that sent it.                  *)
(* A digest of a record is its version, and all processes act under the    *)
(* authorisation (plan, session, claim nonce) of the phase's ledger.       *)
(***************************************************************************)
EXTENDS Naturals

CONSTANTS
  Procs,      \* processes of the operator
  NPhases,    \* forward phases of the plan
  OpCount,    \* number of operations of each phase
  MaxFaults,  \* bound on processes that die and on failed file operations
  None

Phases == 1 .. NPhases
Ops(l) == 1 .. OpCount[l]

ASSUME PhaseAssumption ==
  /\ NPhases \in Nat \ {0}
  /\ OpCount \in [Phases -> Nat \ {0}]
  /\ MaxFaults \in Nat
  /\ None \notin Procs

VARIABLES
  status,   \* status of the ledger file's record, "NONE" before its file exists
  version,  \* ledger_version of the record
  nextOp,   \* claim.next_operation_sequence
  outcome,  \* operation_outcomes, by sequence number
  class,    \* reconciliation.classification
  pending,  \* the staging name: "none", "staged", or "linked" to the ledger file
  lease,    \* the process that holds the phase's lease
  pc, at, ver, seen, \* what a process is doing, on which phase, from what it read
  request,  \* what became of an operation's request at the provider
  calls,    \* how often the operation was sent
  late,     \* the operation was carried out after the phase had expired
  expired,  \* the phase's window has passed
  faults

fileVars == <<status, version, nextOp, outcome, class>>
procVars == <<pc, at, ver, seen>>
worldVars == <<request, calls, late>>
vars == <<status, version, nextOp, outcome, class, pending, lease,
          pc, at, ver, seen, request, calls, late, expired, faults>>

Statuses == {"NONE", "PREPARED", "CLAIMED", "IN_FLIGHT", "AMBIGUOUS",
             "CONSUMED", "RECONCILED"}
Results == {"SUCCEEDED", "FAILED", "AMBIGUOUS"}
Classes == {"EFFECT_PROVEN", "NO_EFFECT_PROVEN", "INCONCLUSIVE"}
Creating == {"staged", "published"}
Running == {"running", "flight", "invoke", "await"}

Init ==
  /\ status = [l \in Phases |-> "NONE"]
  /\ version = [l \in Phases |-> 0]
  /\ nextOp = [l \in Phases |-> 1]
  /\ outcome = [l \in Phases |-> [s \in Ops(l) |-> "none"]]
  /\ class = [l \in Phases |-> "none"]
  /\ pending = [l \in Phases |-> "none"]
  /\ lease = [l \in Phases |-> None]
  /\ pc = [p \in Procs |-> "idle"]
  /\ at = [p \in Procs |-> 1]
  /\ ver = [p \in Procs |-> 0]
  /\ seen = [p \in Procs |-> "none"]
  /\ request = [l \in Phases |-> [s \in Ops(l) |-> "unsent"]]
  /\ calls = [l \in Phases |-> [s \in Ops(l) |-> 0]]
  /\ late = [l \in Phases |-> [s \in Ops(l) |-> FALSE]]
  /\ expired = [l \in Phases |-> FALSE]
  /\ faults = 0

Goto(p, step) == pc' = [pc EXCEPT ![p] = step] /\ UNCHANGED <<at, ver, seen>>

(* A call that begins works on a phase, from the version it has read.      *)
Begin(p, step, l, v, c) ==
  /\ pc' = [pc EXCEPT ![p] = step]
  /\ at' = [at EXCEPT ![p] = l]
  /\ ver' = [ver EXCEPT ![p] = v]
  /\ seen' = [seen EXCEPT ![p] = c]

Return(p) == Begin(p, "idle", 1, 0, "none")

(* A ledger is read and swapped only through a file with a single link.    *)
Readable(l) == status[l] # "NONE" /\ pending[l] # "linked"

(* The record a later phase accepts of its predecessor.                    *)
Accepted(l) ==
  /\ status[l] = "CONSUMED"
  /\ \A s \in Ops(l) : outcome[l][s] = "SUCCEEDED"

(* The sessions of two phases do not overlap.                              *)
PredecessorProven(l) ==
  \A k \in Phases : k + 1 = l => Accepted(k) /\ expired[k]

AcquireLease(p, l) == lease[l] = None /\ lease' = [lease EXCEPT ![l] = p]
ReleaseLease(l) == lease' = [lease EXCEPT ![l] = None]

-----------------------------------------------------------------------------
(* create *)

(* Under the lease: no ledger yet, so that what an earlier call left at    *)
(* the staging name is dropped and the record is staged.                   *)
StageCreate(p, l) ==
  /\ pc[p] = "idle"
  /\ PredecessorProven(l)
  /\ AcquireLease(p, l)
  /\ status[l] = "NONE"
  /\ pending' = [pending EXCEPT ![l] = "staged"]
  /\ Begin(p, "staged", l, 0, "none")
  /\ UNCHANGED <<fileVars, worldVars, expired, faults>>

(* os.link publishes the staged file under the ledger's name.              *)
LinkCreate(p) ==
  LET l == at[p] IN
  /\ pc[p] = "staged" /\ pending[l] = "staged"
  /\ status' = [status EXCEPT ![l] = "PREPARED"]
  /\ version' = [version EXCEPT ![l] = 1]
  /\ pending' = [pending EXCEPT ![l] = "linked"]
  /\ Goto(p, "published")
  /\ UNCHANGED <<nextOp, outcome, class, lease, worldVars,
                 expired, faults>>

FinishCreate(p) ==
  LET l == at[p] IN
  /\ pc[p] = "published"
  /\ pending' = [pending EXCEPT ![l] = "none"]
  /\ ReleaseLease(l)
  /\ Return(p)
  /\ UNCHANGED <<fileVars, worldVars, expired, faults>>

(* A file operation fails, or the staged file is gone: the lease is closed *)
(* before the staging name is removed.                                     *)
FailCreate(p) ==
  LET l == at[p] IN
  /\ pc[p] = "staged"
  /\ \/ pending[l] = "none" /\ UNCHANGED faults
     \/ pending[l] # "none" /\ faults < MaxFaults /\ faults' = faults + 1
  /\ ReleaseLease(l)
  /\ Goto(p, "cleanup")
  /\ UNCHANGED <<fileVars, pending, worldVars, expired>>

CleanUpCreate(p) ==
  /\ pc[p] = "cleanup"
  /\ pending' = [pending EXCEPT ![at[p]] = "none"]
  /\ Return(p)
  /\ UNCHANGED <<fileVars, lease, worldVars, expired, faults>>

(* create called again for a ledger whose creation was cut short.          *)
RecoverCreate(p, l) ==
  /\ pc[p] = "idle"
  /\ lease[l] = None
  /\ status[l] # "NONE" /\ pending[l] = "linked"
  /\ pending' = [pending EXCEPT ![l] = "none"]
  /\ UNCHANGED <<fileVars, lease, procVars, worldVars, expired, faults>>

-----------------------------------------------------------------------------
(* prepare_claim and prepare_read_only_reconciliation, each from a record  *)
(* read without the lease, and the compare_and_swap that follows.          *)

ReadToClaim(p, l) ==
  /\ pc[p] = "idle"
  /\ Readable(l) /\ status[l] = "PREPARED"
  /\ ~expired[l]
  /\ PredecessorProven(l)
  /\ Begin(p, "claim", l, version[l], "none")
  /\ UNCHANGED <<fileVars, pending, lease, worldVars, expired, faults>>

Unchanged(p) == ver[p] = version[at[p]]

SwapClaim(p) ==
  LET l == at[p] IN
  /\ pc[p] = "claim"
  /\ lease[l] = None /\ Readable(l) /\ Unchanged(p)
  /\ status' = [status EXCEPT ![l] = "CLAIMED"]
  /\ version' = [version EXCEPT ![l] = @ + 1]
  /\ nextOp' = [nextOp EXCEPT ![l] = 1]
  /\ Return(p)
  /\ UNCHANGED <<outcome, class, pending, lease, worldVars,
                 expired, faults>>

(* What a reading of the provider shows of the ambiguous operation: the    *)
(* state with the effect, the one without it, or another.                  *)
Observed(l) ==
  {"INCONCLUSIVE",
   IF request[l][nextOp[l]] = "done" THEN "EFFECT_PROVEN" ELSE "NO_EFFECT_PROVEN"}

ReadToReconcile(p, l) ==
  /\ pc[p] = "idle"
  /\ Readable(l) /\ status[l] = "AMBIGUOUS"
  /\ \E c \in Observed(l) : Begin(p, "reconcile", l, version[l], c)
  /\ UNCHANGED <<fileVars, pending, lease, worldVars, expired, faults>>

SwapReconcile(p) ==
  LET l == at[p] IN
  /\ pc[p] = "reconcile"
  /\ lease[l] = None /\ Readable(l) /\ Unchanged(p)
  /\ status' = [status EXCEPT ![l] = "RECONCILED"]
  /\ version' = [version EXCEPT ![l] = @ + 1]
  /\ class' = [class EXCEPT ![l] = seen[p]]
  /\ Return(p)
  /\ UNCHANGED <<nextOp, outcome, pending, lease, worldVars,
                 expired, faults>>

(* RUNNER_ACTIVE or LEDGER_CAS_CONFLICT: the swap is given up.             *)
RefuseSwap(p) ==
  /\ pc[p] \in {"claim", "reconcile"}
  /\ lease[at[p]] # None \/ ~Readable(at[p]) \/ ~Unchanged(p)
  /\ Return(p)
  /\ UNCHANGED <<fileVars, pending, lease, worldVars, expired,
                 faults>>

-----------------------------------------------------------------------------
(* execute_claimed_phase *)

(* Mutant: a phase that died in flight is run again from there.            *)
BeginExecuteAgain(p, l) ==
  /\ pc[p] = "idle"
  /\ Readable(l) /\ status[l] \in {"CLAIMED", "IN_FLIGHT"}
  /\ PredecessorProven(l)
  /\ AcquireLease(p, l)
  /\ Begin(p, "running", l, 0, "none")
  /\ UNCHANGED <<fileVars, pending, worldVars, expired, faults>>

BeginExecute(p, l) ==
  /\ pc[p] = "idle"
  /\ Readable(l) /\ status[l] = "CLAIMED"
  /\ PredecessorProven(l)
  /\ AcquireLease(p, l)
  /\ Begin(p, "running", l, 0, "none")
  /\ UNCHANGED <<fileVars, pending, worldVars, expired, faults>>

(* The top of the loop: the next operation is put in flight in the file.   *)
PutInFlight(p) ==
  LET l == at[p] IN
  /\ pc[p] = "running" /\ ~expired[l]
  /\ status' = [status EXCEPT ![l] = "IN_FLIGHT"]
  /\ version' = [version EXCEPT ![l] = @ + 1]
  /\ Goto(p, "flight")
  /\ UNCHANGED <<nextOp, outcome, class, pending, lease, worldVars, expired, faults>>

StopExpired(p) ==
  LET l == at[p] IN
  /\ pc[p] = "running" /\ expired[l]
  /\ ReleaseLease(l)
  /\ Return(p)
  /\ UNCHANGED <<fileVars, pending, worldVars, expired, faults>>

(* prepare_operation_record: the outcome ends the phase unless the         *)
(* operation succeeded and another one follows.                            *)
RecordOutcome(l, result) ==
  LET s == nextOp[l]
      more == result = "SUCCEEDED" /\ s < OpCount[l]
  IN
  /\ status' = [status EXCEPT ![l] =
                  IF more THEN "CLAIMED"
                  ELSE IF result = "AMBIGUOUS" THEN "AMBIGUOUS" ELSE "CONSUMED"]
  /\ version' = [version EXCEPT ![l] = @ + 1]
  /\ outcome' = [outcome EXCEPT ![l][s] = result]
  /\ nextOp' = [nextOp EXCEPT ![l] = IF more THEN s + 1 ELSE s]
  /\ UNCHANGED class

(* The clock is read again once IN_FLIGHT is on disk.                      *)
ReadClock(p) ==
  LET l == at[p] IN
  /\ pc[p] = "flight"
  /\ \/ /\ ~expired[l]
        /\ Goto(p, "invoke")
        /\ UNCHANGED <<fileVars, lease>>
     \/ /\ expired[l]
        /\ RecordOutcome(l, "AMBIGUOUS")
        /\ ReleaseLease(l)
        /\ Return(p)
  /\ UNCHANGED <<pending, worldVars, expired, faults>>

Invoke(p) ==
  LET l == at[p]
      s == nextOp[l]
  IN
  /\ pc[p] = "invoke"
  /\ calls' = [calls EXCEPT ![l][s] = @ + 1]
  /\ request' = [request EXCEPT ![l][s] = "open"]
  /\ Goto(p, "await")
  /\ UNCHANGED <<fileVars, pending, lease, late, expired, faults>>

(* What the callback returns: an answer of the provider, or an exception,  *)
(* which leaves open what was done.                                        *)
Answers(l) ==
  LET r == request[l][nextOp[l]] IN
  {"AMBIGUOUS"} \cup (IF r = "done" THEN {"SUCCEEDED"} ELSE {})
                \cup (IF r = "refused" THEN {"FAILED"} ELSE {})

(* An answer that came after the window is ambiguous.                      *)
InWindow(l, result) == IF expired[l] THEN "AMBIGUOUS" ELSE result

(* Mutant: a failed operation does not stop the phase.                     *)
AnswerGoesOn(p) ==
  LET l == at[p]
      s == nextOp[l]
  IN
  /\ pc[p] = "await"
  /\ \E answer \in Answers(l) :
        LET result == InWindow(l, answer)
            more == result # "AMBIGUOUS" /\ s < OpCount[l]
        IN
        /\ status' = [status EXCEPT ![l] =
                        IF more THEN "CLAIMED"
                        ELSE IF result = "AMBIGUOUS" THEN "AMBIGUOUS" ELSE "CONSUMED"]
        /\ version' = [version EXCEPT ![l] = @ + 1]
        /\ outcome' = [outcome EXCEPT ![l][s] = result]
        /\ nextOp' = [nextOp EXCEPT ![l] = IF more THEN s + 1 ELSE s]
        /\ IF more
           THEN Goto(p, "running") /\ UNCHANGED lease
           ELSE Return(p) /\ ReleaseLease(l)
  /\ UNCHANGED <<class, pending, worldVars, expired, faults>>

Answer(p) ==
  LET l == at[p] IN
  /\ pc[p] = "await"
  /\ \E answer \in Answers(l) :
        LET result == InWindow(l, answer) IN
        /\ RecordOutcome(l, result)
        /\ IF result = "SUCCEEDED" /\ nextOp[l] < OpCount[l]
           THEN Goto(p, "running") /\ UNCHANGED lease
           ELSE Return(p) /\ ReleaseLease(l)
  /\ UNCHANGED <<pending, worldVars, expired, faults>>

(* Mutant: an expired ledger is refused (LEDGER_EXPIRED) here too.         *)
RecoverUnexpired(p, l) ==
  /\ pc[p] = "idle"
  /\ lease[l] = None
  /\ Readable(l) /\ status[l] = "IN_FLIGHT" /\ ~expired[l]
  /\ RecordOutcome(l, "AMBIGUOUS")
  /\ UNCHANGED <<pending, lease, procVars, worldVars, expired, faults>>

(* recover_persisted_in_flight *)
RecoverInFlight(p, l) ==
  /\ pc[p] = "idle"
  /\ lease[l] = None
  /\ Readable(l) /\ status[l] = "IN_FLIGHT"
  /\ RecordOutcome(l, "AMBIGUOUS")
  /\ UNCHANGED <<pending, lease, procVars, worldVars, expired, faults>>

-----------------------------------------------------------------------------
(* The provider, the clock and the host *)

CarryOut(l, s) ==
  /\ request[l][s] = "open"
  /\ request' = [request EXCEPT ![l][s] = "done"]
  /\ late' = [late EXCEPT ![l][s] = expired[l]]
  /\ UNCHANGED <<fileVars, pending, lease, procVars, calls, expired, faults>>

Refuse(l, s) ==
  /\ request[l][s] = "open"
  /\ request' = [request EXCEPT ![l][s] = "refused"]
  /\ UNCHANGED <<fileVars, pending, lease, procVars, calls, late, expired, faults>>

Expire(l) ==
  /\ ~expired[l]
  /\ expired' = [expired EXCEPT ![l] = TRUE]
  /\ UNCHANGED <<fileVars, pending, lease, procVars, worldVars, faults>>

(* A process dies; the kernel drops its lock.                              *)
Die(p) ==
  /\ pc[p] # "idle" /\ faults < MaxFaults
  /\ Return(p)
  /\ lease' = [l \in Phases |-> IF lease[l] = p THEN None ELSE lease[l]]
  /\ faults' = faults + 1
  /\ UNCHANGED <<fileVars, pending, worldVars, expired>>

Starts(p) ==
  \E l \in Phases :
     \/ StageCreate(p, l) \/ RecoverCreate(p, l)
     \/ ReadToClaim(p, l) \/ ReadToReconcile(p, l)
     \/ BeginExecute(p, l) \/ RecoverInFlight(p, l)

(* What a process that has begun goes on to do.                            *)
Continues(p) ==
  \/ LinkCreate(p) \/ FinishCreate(p) \/ FailCreate(p) \/ CleanUpCreate(p)
  \/ SwapClaim(p) \/ SwapReconcile(p) \/ RefuseSwap(p)
  \/ PutInFlight(p) \/ StopExpired(p) \/ ReadClock(p) \/ Invoke(p) \/ Answer(p)

World ==
  \E l \in Phases :
     Expire(l) \/ \E s \in Ops(l) : CarryOut(l, s) \/ Refuse(l, s)

Next ==
  \/ \E p \in Procs : Starts(p) \/ Continues(p) \/ Die(p)
  \/ World

Spec == Init /\ [][Next]_vars

(* A call that has begun goes on.  A ledger found half created or in       *)
(* flight is taken up again by an operator, and an ambiguous one is read   *)
(* against the provider.                                                   *)
FairSpec ==
  /\ Spec
  /\ \A p \in Procs : WF_vars(Continues(p))
  /\ \A l \in Phases :
       /\ WF_vars(\E p \in Procs : RecoverCreate(p, l))
       /\ WF_vars(\E p \in Procs : RecoverInFlight(p, l))
       /\ WF_vars(\E p \in Procs : ReadToReconcile(p, l))

-----------------------------------------------------------------------------
TypeOK ==
  /\ status \in [Phases -> Statuses]
  /\ version \in [Phases -> Nat]
  /\ nextOp \in [Phases -> Nat] /\ \A l \in Phases : nextOp[l] \in Ops(l)
  /\ DOMAIN outcome = Phases
  /\ \A l \in Phases : outcome[l] \in [Ops(l) -> Results \cup {"none"}]
  /\ class \in [Phases -> Classes \cup {"none"}]
  /\ pending \in [Phases -> {"none", "staged", "linked"}]
  /\ lease \in [Phases -> Procs \cup {None}]
  /\ pc \in [Procs -> {"idle", "cleanup", "claim", "reconcile"} \cup Creating \cup Running]
  /\ at \in [Procs -> Phases] /\ ver \in [Procs -> Nat]
  /\ seen \in [Procs -> Classes \cup {"none"}]
  /\ DOMAIN request = Phases /\ DOMAIN calls = Phases /\ DOMAIN late = Phases
  /\ \A l \in Phases :
       /\ request[l] \in [Ops(l) -> {"unsent", "open", "done", "refused"}]
       /\ calls[l] \in [Ops(l) -> Nat]
       /\ late[l] \in [Ops(l) -> BOOLEAN]
  /\ expired \in [Phases -> BOOLEAN]
  /\ faults \in Nat

(* No operation is sent to the provider twice (one callback per exact      *)
(* operation), whoever runs, recovers or claims the phase, and however     *)
(* often a process dies or create is called again.                         *)
AttemptedOnce ==
  \A l \in Phases : \A s \in Ops(l) : calls[l][s] <= 1

(* What was sent is on disk: the operation is in flight in the ledger or   *)
(* has an outcome there, so that no effect can be missed by a reader.      *)
WriteAhead ==
  \A l \in Phases : \A s \in Ops(l) :
    calls[l][s] > 0 => \/ status[l] = "IN_FLIGHT" /\ nextOp[l] = s
                       \/ outcome[l][s] # "none"

(* Operations are sent in order: everything before an operation, in its    *)
(* phase and in the phases before it, was carried out at the provider.     *)
EffectsInOrder ==
  \A l \in Phases : \A s \in Ops(l) :
    calls[l][s] > 0 =>
      /\ \A t \in 1 .. (s - 1) : request[l][t] = "done"
      /\ l > 1 => \A t \in Ops(l - 1) : request[l - 1][t] = "done"

(* A recorded success is an effect made within the phase's window, also    *)
(* when the window passes between a clock reading and the call.            *)
SuccessInWindow ==
  \A l \in Phases : \A s \in Ops(l) :
    outcome[l][s] = "SUCCEEDED" => request[l][s] = "done" /\ ~late[l][s]

(* A phase whose ledger says it is over sends nothing more, and its        *)
(* outcomes stand: recovery never overtakes a runner that is still alive.  *)
OverMeansOver ==
  [][\A l \in Phases :
       status[l] \in {"AMBIGUOUS", "CONSUMED", "RECONCILED"} =>
         /\ calls'[l] = calls[l]
         /\ outcome'[l] = outcome[l]
         /\ status'[l] \in {status[l], "RECONCILED"}]_vars

(* The provider and the files as the operator of the plan sees them.       *)
EffectSeen == [l \in Phases |-> [s \in Ops(l) |->
                IF late[l][s] THEN "late" ELSE request[l][s]]]

Effects == INSTANCE OrderedEffects WITH
  effect <- EffectSeen, report <- outcome, closed <- expired

(* The phases keep the promise of OrderedEffects with processes that race, *)
(* die and recover each other's records: every operation is sent once and  *)
(* in its turn, and what the ledger reports of it, once, is the truth.     *)
ImplementsOrderedEffects == Effects!Spec

(* An operation that was put in flight gets its outcome, and what is       *)
(* ambiguous is reconciled, whichever process dies.                        *)
FlightSettles ==
  \A l \in Phases : \A s \in Ops(l) :
    (status[l] = "IN_FLIGHT" /\ nextOp[l] = s)
      ~> (outcome[l][s] \in {"SUCCEEDED", "FAILED"} \/ status[l] = "RECONCILED")

=============================================================================
