--------------------------- MODULE LiveExecution ---------------------------
(***************************************************************************)
(* The non-production live engine for one Terraform layer: a plan is saved *)
(* once for an execution (run_plan_controller), approved by a workflow run *)
(* and applied at most once (run_apply_controller), and its outcome is     *)
(* settled from evidence by later runs (_finalize_applied and              *)
(* _reconcile_uncertain).  The execution ledger is a DynamoDB item, every  *)
(* change of which is a compare-and-swap confirmed by a read.  Runs may    *)
(* overlap, and each may be lost after any step; a write whose answer is   *)
(* lost may be applied before the next read, later, or never.              *)
(* Documents carry no time here: two of them differ only in what they say. *)
(***************************************************************************)
EXTENDS Naturals, Sequences

CONSTANTS
  Executions,
  Runs,       \* workflow runs; a run gives one approval
  Configs,    \* configurations a plan can lead to
  Config(_),  \* the configuration of an execution
  Partial,    \* what a broken apply leaves behind
  MaxLosses,  \* bound on lost runs and unanswered requests
  Absent

ASSUME LiveAssumption ==
  /\ MaxLosses \in Nat
  /\ \A e \in Executions : Config(e) \in Configs
  /\ Partial \notin Configs
  /\ Absent \notin Runs \cup Executions

VARIABLES
  states,    \* configurations of the Terraform state, one per serial
  object,    \* executions whose plan object is stored
  plan,      \* saved-plan records
  ledger,    \* execution ledger documents
  approvals, \* approval records, by the run that gave them
  health,    \* health receipts
  recon,     \* reconciliation receipts
  published, \* executions whose output contract is published
  lateWrites,      \* ledger writes that were given up and may still be applied
  starts,    \* how often Terraform was started with the plan
  succeeded, \* executions whose Terraform apply reported success
  run, losses

cloud == <<states, starts, succeeded>>
records == <<object, plan, approvals, health, recon, published>>
liveVars == <<cloud, records, ledger, lateWrites, run, losses>>

LedgerStatuses == {"PLANNED", "APPROVED", "APPLYING", "APPLIED", "UNCERTAIN",
             "RECONCILED_APPLIED", "RECONCILIATION_REQUIRED", "HEALTHY"}

Idle == [pc |-> "idle", exec |-> Absent, cur |-> Absent, prop |-> Absent,
         tries |-> 0, outcome |-> Absent, receipt |-> Absent]

LiveInit ==
  /\ states \in {<<>>} \cup {<<c>> : c \in Configs}
  /\ object = {} /\ approvals = {} /\ published = {}
  /\ plan = [e \in Executions |-> Absent]
  /\ ledger = [e \in Executions |-> Absent]
  /\ health = [e \in Executions |-> Absent]
  /\ recon = [e \in Executions |-> Absent]
  /\ lateWrites = {}
  /\ starts = [e \in Executions |-> 0] /\ succeeded = {}
  /\ run = [r \in Runs |-> Idle]
  /\ losses = 0

Serial == Len(states)
Converged(e) == Serial > 0 /\ states[Serial] = Config(e)

RunGoto(r, pc) == run' = [run EXCEPT ![r].pc = pc]
Stop(r) == run' = [run EXCEPT ![r] = Idle]

-----------------------------------------------------------------------------
(* run_plan_controller. *)

\* run_terminal_plan: the state is bracketed and the binary is stored under a
\* key that takes one object.
TerminalPlan(r, e) ==
  /\ run[r].pc = "idle" /\ e \notin object
  /\ object' = object \cup {e}
  /\ run' = [run EXCEPT ![r] =
       [Idle EXCEPT !.pc = "put_plan", !.exec = e,
          !.prop = [serial |-> Serial, changes |-> ~Converged(e)]]]
  /\ UNCHANGED <<cloud, plan, approvals, health, recon, published, ledger,
                 lateWrites, losses>>

PutPlan(r) ==
  LET e == run[r].exec
  IN /\ run[r].pc = "put_plan"
     /\ plan' = [plan EXCEPT ![e] = run[r].prop]
     /\ RunGoto(r, "create_ledger")
     /\ UNCHANGED <<cloud, object, approvals, health, recon, published, ledger,
                    lateWrites, losses>>

\* build_initial_ledger
CreateLedger(r) ==
  LET e == run[r].exec
  IN /\ run[r].pc = "create_ledger"
     /\ ledger' = [ledger EXCEPT ![e] =
          [status |-> "PLANNED", version |-> 1, approval |-> Absent,
           attempts |-> 0]]
     /\ Stop(r)
     /\ UNCHANGED <<cloud, records, lateWrites, losses>>

-----------------------------------------------------------------------------
(* The ledger: _replace_ledger_confirmed. *)

\* Bug: a second attempt is taken on the ledger of a consumed plan.
TransitionsRetry ==
  [PLANNED |-> {"APPROVED"},
   APPROVED |-> {"APPROVED", "APPLYING"},
   APPLYING |-> {"APPROVED", "APPLIED", "UNCERTAIN"},
   APPLIED |-> {"HEALTHY"},
   UNCERTAIN |-> {"APPROVED", "RECONCILED_APPLIED", "RECONCILIATION_REQUIRED"},
   RECONCILED_APPLIED |-> {"HEALTHY"},
   RECONCILIATION_REQUIRED |-> {}, HEALTHY |-> {}]

\* ALLOWED_LEDGER_TRANSITIONS, as far as the controllers take them, and the
\* selection of a new approval before the apply.
Transitions ==
  [PLANNED |-> {"APPROVED"},
   APPROVED |-> {"APPROVED", "APPLYING"},
   APPLYING |-> {"APPLIED", "UNCERTAIN"},
   APPLIED |-> {"HEALTHY"},
   UNCERTAIN |-> {"RECONCILED_APPLIED", "RECONCILIATION_REQUIRED"},
   RECONCILED_APPLIED |-> {"HEALTHY"},
   RECONCILIATION_REQUIRED |-> {}, HEALTHY |-> {}]

\* prepare_ledger_transition
Transition(doc, status) ==
  [doc EXCEPT !.status = status, !.version = @ + 1,
              !.attempts = IF status = "APPLYING" THEN 1 ELSE @]

\* The run goes on to swap its document for doc.
Swap(r, doc) ==
  run' = [run EXCEPT ![r].pc = "cas", ![r].prop = doc, ![r].tries = 0]

\* _create_once_confirmed: an earlier run's receipt must be the same.
Reproduced(stored, receipt) == stored \in {Absent, receipt}

\* Where a run goes on after a swap that was confirmed, and after one that
\* failed: only an outcome of the apply is recovered.
Confirmed ==
  [APPROVED |-> "fetch", APPLYING |-> "applying", APPLIED |-> "health",
   UNCERTAIN |-> "done", RECONCILED_APPLIED |-> "done",
   RECONCILIATION_REQUIRED |-> "done", HEALTHY |-> "done"]
Unconfirmed(status) ==
  CASE status = "APPLIED" -> "recover"
    [] status = "UNCERTAIN" -> "final"
    [] OTHER -> "done"

Continue(r, pc) ==
  IF pc = "done" THEN Stop(r) ELSE RunGoto(r, pc)

\* Bug: the item is put without the condition on its version and digest.
SwappedBlindly(e, cur, prop) == prop

\* The conditional put: the stored document must be the one that was read.
Swapped(e, cur, prop) == IF ledger[e] = cur THEN prop ELSE ledger[e]

WriteLedger(r) ==
  LET e == run[r].exec
  IN /\ run[r].pc = "cas"
     /\ RunGoto(r, "confirm")
     /\ ledger' = [ledger EXCEPT ![e] = Swapped(e, run[r].cur, run[r].prop)]
     /\ UNCHANGED <<cloud, records, lateWrites, losses>>

\* The write is not answered: it is applied later or never.
WriteUnanswered(r) ==
  /\ run[r].pc = "cas" /\ losses < MaxLosses
  /\ losses' = losses + 1
  /\ RunGoto(r, "confirm")
  /\ lateWrites' \in {lateWrites, lateWrites \cup {<<run[r].exec, run[r].cur, run[r].prop>>}}
  /\ UNCHANGED <<cloud, records, ledger>>

LateWrite(w) ==
  /\ lateWrites' = lateWrites \ {w}
  /\ ledger' = [ledger EXCEPT ![w[1]] = Swapped(w[1], w[2], w[3])]
  /\ UNCHANGED <<cloud, records, run, losses>>

\* The read that follows: the proposed document is success, a third one a
\* conflict, and the old one has the write repeated once.  The old one is
\* seen only after a write that was not answered: a ledger that has moved
\* never shows its old version again.
ConfirmLedger(r) ==
  LET e == run[r].exec
      status == run[r].prop.status
  IN /\ run[r].pc = "confirm"
     /\ \/ /\ ledger[e] = run[r].prop
           /\ IF Confirmed[status] = "done"
              THEN Stop(r)
              ELSE run' = [run EXCEPT ![r].cur = run[r].prop,
                                      ![r].pc = Confirmed[status]]
        \/ /\ ledger[e] = run[r].cur /\ run[r].tries = 0
           /\ run' = [run EXCEPT ![r].pc = "cas", ![r].tries = 1]
        \/ /\ ledger[e] # run[r].prop
           /\ ledger[e] # run[r].cur \/ run[r].tries = 1
           /\ Continue(r, Unconfirmed(status))
     /\ UNCHANGED <<cloud, records, ledger, lateWrites, losses>>

\* Both reads fail.
ConfirmUnanswered(r) ==
  /\ run[r].pc = "confirm" /\ losses < MaxLosses
  /\ losses' = losses + 1
  /\ IF run[r].tries = 0
     THEN run' = [run EXCEPT ![r].pc = "cas", ![r].tries = 1]
     ELSE Continue(r, Unconfirmed(run[r].prop.status))
  /\ UNCHANGED <<cloud, records, ledger, lateWrites>>

-----------------------------------------------------------------------------
(* run_apply_controller. *)

\* The status found decides the entry; a run that may do nothing is left out.
BeginApply(r, e) ==
  /\ run[r].pc = "idle" /\ ledger[e] # Absent
  /\ \/ /\ ledger[e].status \in {"PLANNED", "APPROVED"} /\ r \notin approvals
        /\ approvals' = approvals \cup {r}
        /\ run' = [run EXCEPT ![r] = [Idle EXCEPT !.pc = "approve",
                                                  !.exec = e]]
     \/ /\ ledger[e].status \in {"APPLIED", "RECONCILED_APPLIED"}
        /\ run' = [run EXCEPT ![r] =
             [Idle EXCEPT !.pc = "health", !.exec = e, !.cur = ledger[e]]]
        /\ UNCHANGED approvals
     \/ /\ ledger[e].status = "UNCERTAIN"
        /\ run' = [run EXCEPT ![r] =
             [Idle EXCEPT !.pc = "reconcile", !.exec = e, !.cur = ledger[e]]]
        /\ UNCHANGED approvals
  /\ UNCHANGED <<cloud, object, plan, health, recon, published, ledger, lateWrites,
                 losses>>

\* The ledger is read again, and the run's approval is selected by a swap.
Approve(r) ==
  LET doc == ledger[run[r].exec]
  IN /\ run[r].pc = "approve"
     /\ \/ /\ "APPROVED" \in Transitions[doc.status]
           /\ run' = [run EXCEPT ![r].pc = "cas", ![r].tries = 0,
                ![r].cur = doc,
                ![r].prop = [Transition(doc, "APPROVED") EXCEPT
                               !.approval = r]]
        \/ /\ "APPROVED" \notin Transitions[doc.status]
           /\ Stop(r)
     /\ UNCHANGED <<cloud, records, ledger, lateWrites, losses>>

\* run_terminal_fetch and build_apply_intent: the state must be the reviewed
\* one; the attempt is then consumed.
Fetch(r) ==
  /\ run[r].pc = "fetch"
  /\ \/ /\ Serial = plan[run[r].exec].serial
        /\ Swap(r, Transition(run[r].cur, "APPLYING"))
     \/ Serial # plan[run[r].exec].serial /\ Stop(r)
  /\ UNCHANGED <<cloud, records, ledger, lateWrites, losses>>

\* run_terminal_apply: the state is read again immediately before the apply.
StartTerraform(r) ==
  LET e == run[r].exec
  IN /\ run[r].pc = "applying"
     /\ \/ /\ Serial = plan[e].serial
           /\ starts' = [starts EXCEPT ![e] = @ + 1]
           /\ RunGoto(r, "terraform")
        \/ /\ Serial # plan[e].serial
           /\ RunGoto(r, "recover")
           /\ UNCHANGED starts
     /\ UNCHANGED <<states, succeeded, records, ledger, lateWrites, losses>>

\* Terraform, under its state lock and with its own check of the serial.
TerraformSucceeds(r) ==
  LET e == run[r].exec
      doc == Transition(run[r].cur, "APPLIED")
  IN /\ run[r].pc = "terraform" /\ Serial = plan[e].serial
     /\ states' = IF plan[e].changes THEN Append(states, Config(e)) ELSE states
     /\ succeeded' = succeeded \cup {e}
     /\ run' = [run EXCEPT ![r].pc = "cas", ![r].prop = doc, ![r].tries = 0,
                           ![r].outcome = doc]
     /\ UNCHANGED <<starts, records, ledger, lateWrites, losses>>

TerraformFails(r) ==
  LET e == run[r].exec
  IN /\ run[r].pc = "terraform"
     /\ \/ UNCHANGED states
        \/ /\ Serial = plan[e].serial /\ plan[e].changes
           /\ \E found \in {Config(e), Partial} :
                states' = Append(states, found)
     /\ RunGoto(r, "recover")
     /\ UNCHANGED <<starts, succeeded, records, ledger, lateWrites, losses>>

\* _read_ledger_after_apply_error: a success that was committed is kept; only
\* an untouched ledger is moved to UNCERTAIN.
ReadAfterError(r) ==
  LET doc == ledger[run[r].exec]
      uncertain == Transition(run[r].cur, "UNCERTAIN")
  IN /\ run[r].pc = "recover"
     /\ \/ /\ doc = run[r].outcome
           /\ run' = [run EXCEPT ![r].pc = "health", ![r].cur = doc]
        \/ doc = run[r].cur /\ Swap(r, uncertain)
        \/ doc \notin {run[r].outcome, run[r].cur} /\ Stop(r)
     /\ UNCHANGED <<cloud, records, ledger, lateWrites, losses>>

\* The reads fail: UNCERTAIN is tried all the same.
ReadAfterErrorUnanswered(r) ==
  /\ run[r].pc = "recover" /\ losses < MaxLosses
  /\ losses' = losses + 1
  /\ Swap(r, Transition(run[r].cur, "UNCERTAIN"))
  /\ UNCHANGED <<cloud, records, ledger, lateWrites>>

\* The last read, after UNCERTAIN could not be confirmed.
FinalRead(r) ==
  LET doc == ledger[run[r].exec]
  IN /\ run[r].pc = "final"
     /\ IF doc = run[r].outcome
        THEN run' = [run EXCEPT ![r].pc = "health", ![r].cur = doc]
        ELSE Stop(r)
     /\ UNCHANGED <<cloud, records, ledger, lateWrites, losses>>

-----------------------------------------------------------------------------
(* _finalize_applied *)

\* Bug: the probe asks only whether the serial moved.
HealthyEvidenceSerial(e) ==
  Serial > 0 /\ Serial >= plan[e].serial

\* build_health_receipt: the speculative plan finds nothing to change, and the
\* serial moved exactly when the plan had changes.
HealthyEvidence(e) ==
  /\ Converged(e)
  /\ plan[e].serial > 0 =>
       IF plan[e].changes THEN Serial > plan[e].serial
                          ELSE Serial = plan[e].serial

ProbeHealth(r) ==
  LET e == run[r].exec
      receipt == [version |-> run[r].cur.version, serial |-> Serial]
  IN /\ run[r].pc = "health"
     /\ IF HealthyEvidence(e) /\ Reproduced(health[e], receipt)
        THEN run' = [run EXCEPT ![r].pc = "receipt", ![r].receipt = receipt]
        ELSE Stop(r)
     /\ UNCHANGED <<cloud, records, ledger, lateWrites, losses>>

PutHealth(r) ==
  LET e == run[r].exec
  IN /\ run[r].pc = "receipt"
     /\ \/ /\ Reproduced(health[e], run[r].receipt)
           /\ health' = [health EXCEPT ![e] = run[r].receipt]
           /\ RunGoto(r, "publish")
        \/ /\ ~Reproduced(health[e], run[r].receipt)
           /\ Stop(r)
           /\ UNCHANGED health
     /\ UNCHANGED <<cloud, object, plan, approvals, recon, published, ledger,
                    lateWrites, losses>>

\* run_terminal_contract_publication
Publish(r) ==
  /\ run[r].pc = "publish"
  /\ published' = published \cup {run[r].exec}
  /\ Swap(r, Transition(run[r].cur, "HEALTHY"))
  /\ UNCHANGED <<cloud, object, plan, approvals, health, recon, ledger, lateWrites,
                 losses>>

-----------------------------------------------------------------------------
(* _reconcile_uncertain *)

\* build_reconciliation_receipt
Reconciled(e) ==
  Converged(e) /\ (plan[e].serial > 0 => Serial > plan[e].serial)

\* The probe may fail, or find the contract invalid.
ProbeUncertain(r) ==
  LET e == run[r].exec
  IN /\ run[r].pc = "reconcile"
     /\ \/ /\ Serial > 0
           /\ \E verified \in BOOLEAN :
                LET receipt == [version |-> run[r].cur.version,
                                serial |-> Serial,
                                decision |-> IF Reconciled(e) /\ verified
                                             THEN "RECONCILED_APPLIED"
                                             ELSE "RECONCILIATION_REQUIRED"]
                IN IF Reproduced(recon[e], receipt)
                   THEN run' = [run EXCEPT ![r].pc = "decision",
                                           ![r].receipt = receipt]
                   ELSE Stop(r)
        \/ Serial = 0 /\ Stop(r)
     /\ UNCHANGED <<cloud, records, ledger, lateWrites, losses>>

PutReconciliation(r) ==
  LET e == run[r].exec
      receipt == run[r].receipt
  IN /\ run[r].pc = "decision"
     /\ \/ /\ Reproduced(recon[e], receipt)
           /\ recon' = [recon EXCEPT ![e] = receipt]
           /\ Swap(r, Transition(run[r].cur, receipt.decision))
        \/ /\ ~Reproduced(recon[e], receipt)
           /\ Stop(r)
           /\ UNCHANGED recon
     /\ UNCHANGED <<cloud, object, plan, approvals, health, published, ledger,
                    lateWrites, losses>>

-----------------------------------------------------------------------------

\* The runner disappears.
RunLost(r) ==
  /\ run[r].pc # "idle" /\ losses < MaxLosses
  /\ losses' = losses + 1
  /\ Stop(r)
  /\ UNCHANGED <<cloud, records, ledger, lateWrites>>

Step(r) ==
  \/ PutPlan(r) \/ CreateLedger(r)
  \/ WriteLedger(r) \/ ConfirmLedger(r)
  \/ Approve(r) \/ Fetch(r) \/ StartTerraform(r)
  \/ TerraformSucceeds(r) \/ TerraformFails(r)
  \/ ReadAfterError(r) \/ FinalRead(r)
  \/ ProbeHealth(r) \/ PutHealth(r) \/ Publish(r)
  \/ ProbeUncertain(r) \/ PutReconciliation(r)

LiveNext ==
  \/ \E r \in Runs :
       \/ \E e \in Executions : TerminalPlan(r, e) \/ BeginApply(r, e)
       \/ Step(r)
       \/ WriteUnanswered(r) \/ ConfirmUnanswered(r)
       \/ ReadAfterErrorUnanswered(r) \/ RunLost(r)
  \/ \E w \in lateWrites : LateWrite(w)

LiveSpec == LiveInit /\ [][LiveNext]_liveVars

-----------------------------------------------------------------------------
(* Properties. *)

Document == [status: LedgerStatuses, version: Nat, approval: Runs \cup {Absent},
             attempts: 0 .. 1]
SavedPlan == [serial: Nat, changes: BOOLEAN]
HealthReceipt == [version: Nat, serial: Nat]
ReconciliationReceipt ==
  [version: Nat, serial: Nat,
   decision: {"RECONCILED_APPLIED", "RECONCILIATION_REQUIRED"}]

ASSUME AbsentAssumption ==
  Absent \notin Document \cup SavedPlan \cup HealthReceipt \cup ReconciliationReceipt

LiveTypeOK ==
  /\ \A i \in DOMAIN states : states[i] \in Configs \cup {Partial}
  /\ object \subseteq Executions /\ published \subseteq Executions
  /\ approvals \subseteq Runs /\ succeeded \subseteq Executions
  /\ \A e \in Executions :
       /\ ledger[e] \in Document \cup {Absent}
       /\ plan[e] \in SavedPlan \cup {Absent}
       /\ health[e] \in HealthReceipt \cup {Absent}
       /\ recon[e] \in ReconciliationReceipt \cup {Absent}
  /\ losses \in 0 .. MaxLosses

\* Terraform is started with a saved plan at most once, whatever runs overlap,
\* are lost or repeat a swap they could not confirm, and never before the
\* ledger says that the attempt is consumed.
OneApply ==
  \A e \in Executions :
    /\ starts[e] <= 1
    /\ starts[e] = 1 => ledger[e].attempts = 1

\* A ledger says APPLIED only when Terraform reported success, HEALTHY only on
\* a receipt for the very document it replaced, of a state that had the
\* configuration of the plan, with the contract published; a reconciled one
\* rests on a state that moved to that configuration after the plan.
EvidenceBacked ==
  \A e \in Executions : ledger[e] # Absent =>
    /\ ledger[e].status = "APPLIED" => e \in succeeded
    /\ ledger[e].status = "HEALTHY" =>
         /\ e \in published /\ health[e] # Absent
         /\ health[e].version = ledger[e].version - 1
         /\ states[health[e].serial] = Config(e)
    /\ ledger[e].status = "RECONCILED_APPLIED" =>
         /\ recon[e] # Absent /\ recon[e].serial > plan[e].serial
         /\ states[recon[e].serial] = Config(e)

\* No run writes a ledger from a document it read before another run's change:
\* each change is one step of the transition table, and ends stay ends.
LedgerForward ==
  [][\A e \in Executions :
       ledger[e] # Absent /\ ledger'[e] # ledger[e] =>
         /\ ledger'[e].status \in Transitions[ledger[e].status]
         /\ ledger'[e].version = ledger[e].version + 1]_liveVars

=============================================================================
