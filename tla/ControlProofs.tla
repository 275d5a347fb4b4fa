--------------------------- MODULE ControlProofs ---------------------------
(***************************************************************************)
(* The safety of the programs that operate the platform: the two ledgers   *)
(* of the tooling and the identity control plane, for any number of runs,  *)
(* processes, invocations, executions, phases, requests, losses and deaths.*)
(*                                                                         *)
(* The phase ledger: the invariant says who may touch a phase (the holder  *)
(* of its lease), that a record whose version has not changed has the      *)
(* status that was read, how far each phase has come, and that a phase     *)
(* begins only after its predecessor is proven.  From it follows that the  *)
(* phases implement OrderedEffects.                                        *)
(*                                                                         *)
(* The live engine: the invariant says that every document a run holds is  *)
(* one the ledger holds or once held, that every swap under way, given up  *)
(* or not, is one step of the transition table with its evidence, and that *)
(* the run whose approval a consumed ledger names starts Terraform once.   *)
(*                                                                         *)
(* The identity control plane: the invariant says whose membership an      *)
(* invocation about to record its effects has seen, and that the one that  *)
(* provisions a credential is alone, since its lease outlives the Lambda   *)
(* timeout, so that what it has read of the client and the secret stays.   *)
(***************************************************************************)
EXTENDS PhaseLedger, LiveExecution, IdentityControlPlane,
        FiniteSetTheorems, SequenceTheorems, TLAPS

-----------------------------------------------------------------------------
(* The phase execution ledger.                                             *)


Over == {"AMBIGUOUS", "CONSUMED", "RECONCILED"}
Before == {"NONE", "PREPARED", "CLAIMED"}

(* Who creates or runs a phase holds its lease, and the file says what     *)
(* that process believes of it.                                            *)
Exclusive ==
  \A p \in Procs :
    /\ pc[p] \in Creating \cup Running => lease[at[p]] = p
    /\ pc[p] = "staged" => status[at[p]] = "NONE"
    /\ pc[p] = "running" => status[at[p]] = "CLAIMED"
    /\ pc[p] \in {"flight", "invoke", "await"} => status[at[p]] = "IN_FLIGHT"
    /\ pc[p] \in {"flight", "invoke"} => calls[at[p]][nextOp[at[p]]] = 0

(* A record that still has the version that was read has its status.       *)
Snapshots ==
  \A p \in Procs :
    /\ pc[p] \in {"claim", "reconcile"} =>
         status[at[p]] # "NONE" /\ ver[p] <= version[at[p]]
    /\ pc[p] = "claim" /\ ver[p] = version[at[p]] => status[at[p]] = "PREPARED"
    /\ pc[p] = "reconcile" /\ ver[p] = version[at[p]] => status[at[p]] = "AMBIGUOUS"

(* How far a phase has come.                                               *)
Progress ==
  \A l \in Phases :
    /\ status[l] \in {"NONE", "PREPARED"} => nextOp[l] = 1
    /\ status[l] \in Before => calls[l][nextOp[l]] = 0
    /\ status[l] \in Before \cup {"IN_FLIGHT"} => outcome[l][nextOp[l]] = "none"
    /\ status[l] \in Over => outcome[l][nextOp[l]] # "none"
    /\ \A s \in Ops(l) :
         /\ calls[l][s] <= 1
         /\ s > nextOp[l] => calls[l][s] = 0 /\ outcome[l][s] = "none"
         /\ s < nextOp[l] => outcome[l][s] = "SUCCEEDED"

(* An effect is late only once the phase has expired.                      *)
Windows ==
  \A l \in Phases : \A s \in Ops(l) : late[l][s] => expired[l]

(* No ledger exists, or is being made, whose predecessor is not proven.    *)
Predecessors ==
  /\ \A l \in Phases : status[l] # "NONE" => PredecessorProven(l)
  /\ \A p \in Procs : pc[p] = "staged" => PredecessorProven(at[p])

IInv ==
  /\ TypeOK /\ Exclusive /\ Snapshots /\ Progress
  /\ Windows /\ SuccessInWindow /\ Predecessors

-----------------------------------------------------------------------------
(* Init establishes the invariant.                                         *)
LEMMA InitInv == Init => IInv
  <1> SUFFICES ASSUME Init PROVE IInv
    OBVIOUS
  <1>0. \A l \in Phases : l \in Nat /\ OpCount[l] \in Nat \ {0} /\ 1 \in Ops(l)
    BY PhaseAssumption DEF Phases, Ops
  <1>1. TypeOK
    BY <1>0, PhaseAssumption DEF Init, TypeOK, Statuses, Phases, Creating, Running
  <1>2. Exclusive /\ Snapshots /\ Windows /\ SuccessInWindow
    BY <1>0 DEF Init, Exclusive, Snapshots, Windows, SuccessInWindow, Creating, Running
  <1>3. Progress
    BY <1>0 DEF Init, Progress, Over, Before, Ops
  <1>4. Predecessors
    BY DEF Init, Predecessors
  <1> QED
    BY <1>1, <1>2, <1>3, <1>4 DEF IInv

(* The status, version, position and outcome a recorded outcome leaves.    *)
LEMMA OutcomeRecorded ==
  ASSUME TypeOK, NEW l \in Phases, NEW result \in Results, RecordOutcome(l, result)
  PROVE  /\ status' \in [Phases -> Statuses]
         /\ version' \in [Phases -> Nat]
         /\ nextOp' \in [Phases -> Nat]
         /\ DOMAIN outcome' = Phases
         /\ \A k \in Phases : outcome'[k] \in [Ops(k) -> Results \cup {"none"}]
         /\ \A k \in Phases : nextOp'[k] \in Ops(k)
         /\ \A k \in Phases : k # l =>
              /\ status'[k] = status[k] /\ version'[k] = version[k]
              /\ nextOp'[k] = nextOp[k] /\ outcome'[k] = outcome[k]
         /\ version'[l] = version[l] + 1
         /\ \A s \in Ops(l) : s # nextOp[l] => outcome'[l][s] = outcome[l][s]
         /\ outcome'[l][nextOp[l]] = result
         /\ \/ /\ result = "SUCCEEDED" /\ nextOp[l] + 1 \in Ops(l)
               /\ nextOp'[l] = nextOp[l] + 1 /\ status'[l] = "CLAIMED"
            \/ /\ nextOp'[l] = nextOp[l]
               /\ status'[l] \in {"AMBIGUOUS", "CONSUMED"}
         /\ status'[l] = "AMBIGUOUS" <=> result = "AMBIGUOUS"
         /\ class' = class
  <1> DEFINE s == nextOp[l]
             more == result = "SUCCEEDED" /\ s < OpCount[l]
  <1>0. OpCount[l] \in Nat \ {0} /\ s \in Ops(l) /\ s \in Nat /\ 1 <= s /\ s <= OpCount[l]
    BY PhaseAssumption DEF TypeOK, Ops, Phases
  <1>1. /\ status' = [status EXCEPT ![l] = IF more THEN "CLAIMED"
                       ELSE IF result = "AMBIGUOUS" THEN "AMBIGUOUS" ELSE "CONSUMED"]
        /\ version' = [version EXCEPT ![l] = version[l] + 1]
        /\ outcome' = [outcome EXCEPT ![l] = [outcome[l] EXCEPT ![s] = result]]
        /\ nextOp' = [nextOp EXCEPT ![l] = IF more THEN s + 1 ELSE s]
        /\ class' = class
    BY DEF RecordOutcome
  <1> HIDE DEF s
  <1>2. more => s + 1 \in Ops(l)
    BY <1>0 DEF Ops
  <1>3. outcome[l] \in [Ops(l) -> Results \cup {"none"}]
    BY DEF TypeOK
  <1>4. /\ outcome'[l] = [outcome[l] EXCEPT ![s] = result]
        /\ \A k \in Phases : k # l => outcome'[k] = outcome[k]
        /\ DOMAIN outcome' = Phases
    BY <1>1 DEF TypeOK
  <1>5. outcome'[l] \in [Ops(l) -> Results \cup {"none"}]
    BY <1>3, <1>4
  <1>6. nextOp' \in [Phases -> Nat] /\ \A k \in Phases : nextOp'[k] \in Ops(k)
    BY <1>0, <1>1, <1>2 DEF TypeOK
  <1>7. status' \in [Phases -> Statuses] /\ version' \in [Phases -> Nat]
    BY <1>1 DEF TypeOK, Statuses
  <1>8. \A k \in Phases : outcome'[k] \in [Ops(k) -> Results \cup {"none"}]
    BY <1>4, <1>5 DEF TypeOK
  <1>9. /\ \A k \in Phases : k # l =>
              /\ status'[k] = status[k] /\ version'[k] = version[k]
              /\ nextOp'[k] = nextOp[k] /\ outcome'[k] = outcome[k]
        /\ version'[l] = version[l] + 1
        /\ status'[l] = (IF more THEN "CLAIMED"
                       ELSE IF result = "AMBIGUOUS" THEN "AMBIGUOUS" ELSE "CONSUMED")
        /\ nextOp'[l] = (IF more THEN s + 1 ELSE s)
    BY <1>1, <1>4 DEF TypeOK
  <1>10. /\ \A t \in Ops(l) : t # s => outcome'[l][t] = outcome[l][t]
         /\ outcome'[l][s] = result
    BY <1>0, <1>3, <1>4
  <1> QED
    BY <1>0, <1>1, <1>2, <1>4, <1>6, <1>7, <1>8, <1>9, <1>10 DEF s, Results

-----------------------------------------------------------------------------
(* Steps that leave the record, the provider and the clock alone.          *)
LEMMA Quiet ==
  ASSUME IInv, UNCHANGED <<fileVars, worldVars, expired>>
  PROVE  /\ Progress' /\ Windows' /\ SuccessInWindow'
         /\ \A l \in Phases : PredecessorProven(l) => PredecessorProven(l)'
  BY DEF IInv, fileVars, worldVars, Progress, Windows, SuccessInWindow,
         PredecessorProven, Accepted

LEMMA FirstPhase == 1 \in Phases
  BY PhaseAssumption DEF Phases

PcStates == {"idle", "cleanup", "claim", "reconcile"} \cup Creating \cup Running
Pendings == {"none", "staged", "linked"}

(* The local state of the processes has its type.                          *)
Locals ==
  /\ pc \in [Procs -> PcStates] /\ at \in [Procs -> Phases]
  /\ ver \in [Procs -> Nat] /\ seen \in [Procs -> Classes \cup {"none"}]

(* So have the names of the file and the lease.                            *)
ProcTypes ==
  /\ pending \in [Phases -> Pendings]
  /\ lease \in [Phases -> Procs \cup {None}]
  /\ Locals
  /\ faults \in Nat

LEMMA TypesSplit == TypeOK => ProcTypes
  BY DEF TypeOK, ProcTypes, Locals, PcStates, Pendings

LEMMA QuietTypes ==
  ASSUME TypeOK, UNCHANGED <<fileVars, worldVars, expired>>, ProcTypes'
  PROVE  TypeOK'
  BY DEF TypeOK, ProcTypes, Locals, PcStates, Pendings, fileVars, worldVars

(* The local state of a process after each way it may go on.               *)
LEMMA LocalTypes ==
  ASSUME ProcTypes, NEW p \in Procs
  PROVE  /\ \A step \in PcStates : Goto(p, step) => Locals'
         /\ \A step \in PcStates, l \in Phases, v \in Nat, c \in Classes \cup {"none"} :
              Begin(p, step, l, v, c) => Locals'
         /\ Return(p) => Locals'
  BY FirstPhase DEF ProcTypes, Locals, Goto, Begin, Return, PcStates

LEMMA StageCreateInv ==
  ASSUME IInv, NEW p \in Procs, NEW l \in Phases, StageCreate(p, l)
  PROVE  IInv'
  <1> ProcTypes /\ TypeOK
    BY TypesSplit DEF IInv
  <1>1. UNCHANGED <<fileVars, worldVars, expired>>
    BY DEF StageCreate
  <1>2. Progress' /\ Windows' /\ SuccessInWindow'
    BY <1>1, Quiet
  <1>3. Locals'
    BY LocalTypes DEF TypeOK, StageCreate, PcStates, Classes, Creating, Running
  <1>4. pending' \in [Phases -> Pendings] /\ lease' \in [Phases -> Procs \cup {None}] /\ faults' \in Nat
    BY DEF ProcTypes, Locals, StageCreate, AcquireLease, Pendings
  <1>5. TypeOK'
    BY <1>1, <1>3, <1>4, QuietTypes DEF ProcTypes
  <1>6. Exclusive'
    BY <1>1, PhaseAssumption
    DEF IInv, TypeOK, Exclusive, StageCreate, Creating, Running, Begin, AcquireLease, fileVars, worldVars
  <1>7. Snapshots'
    BY <1>1 DEF IInv, TypeOK, Snapshots, StageCreate, Begin, AcquireLease, fileVars, worldVars
  <1>8. Predecessors'
    BY <1>1, Quiet DEF IInv, TypeOK, Predecessors, StageCreate, Begin, AcquireLease, fileVars, worldVars
  <1> QED
    BY <1>2, <1>5, <1>6, <1>7, <1>8 DEF IInv

LEMMA RecoverCreateInv ==
  ASSUME IInv, NEW p \in Procs, NEW l \in Phases, RecoverCreate(p, l)
  PROVE  IInv'
  <1> ProcTypes /\ TypeOK
    BY TypesSplit DEF IInv
  <1>1. UNCHANGED <<fileVars, worldVars, expired>>
    BY DEF RecoverCreate
  <1>2. Progress' /\ Windows' /\ SuccessInWindow'
    BY <1>1, Quiet
  <1>3. Locals'
    BY LocalTypes DEF TypeOK, RecoverCreate, procVars, ProcTypes, Locals, PcStates, Classes, Creating, Running
  <1>4. pending' \in [Phases -> Pendings] /\ lease' \in [Phases -> Procs \cup {None}] /\ faults' \in Nat
    BY DEF ProcTypes, Locals, RecoverCreate, Pendings
  <1>5. TypeOK'
    BY <1>1, <1>3, <1>4, QuietTypes DEF ProcTypes
  <1>6. Exclusive'
    BY <1>1, PhaseAssumption
    DEF IInv, TypeOK, Exclusive, RecoverCreate, Creating, Running, fileVars, procVars, worldVars
  <1>7. Snapshots'
    BY <1>1 DEF IInv, TypeOK, Snapshots, RecoverCreate, fileVars, procVars, worldVars
  <1>8. Predecessors'
    BY <1>1, Quiet DEF IInv, TypeOK, Predecessors, RecoverCreate, fileVars, procVars, worldVars
  <1> QED
    BY <1>2, <1>5, <1>6, <1>7, <1>8 DEF IInv

LEMMA ReadToClaimInv ==
  ASSUME IInv, NEW p \in Procs, NEW l \in Phases, ReadToClaim(p, l)
  PROVE  IInv'
  <1> ProcTypes /\ TypeOK
    BY TypesSplit DEF IInv
  <1>1. UNCHANGED <<fileVars, worldVars, expired>>
    BY DEF ReadToClaim
  <1>2. Progress' /\ Windows' /\ SuccessInWindow'
    BY <1>1, Quiet
  <1>3. Locals'
    BY LocalTypes DEF TypeOK, ReadToClaim, PcStates, Classes, Creating, Running
  <1>4. pending' \in [Phases -> Pendings] /\ lease' \in [Phases -> Procs \cup {None}] /\ faults' \in Nat
    BY DEF ProcTypes, Locals, ReadToClaim, Pendings
  <1>5. TypeOK'
    BY <1>1, <1>3, <1>4, QuietTypes DEF ProcTypes
  <1>6. Exclusive'
    BY <1>1, PhaseAssumption
    DEF IInv, TypeOK, Exclusive, ReadToClaim, Creating, Running, Readable, Begin, fileVars, worldVars
  <1>7. Snapshots'
    BY <1>1 DEF IInv, TypeOK, Snapshots, ReadToClaim, Readable, Begin, fileVars, worldVars
  <1>8. Predecessors'
    BY <1>1, Quiet DEF IInv, TypeOK, Predecessors, ReadToClaim, Readable, Begin, fileVars, worldVars
  <1> QED
    BY <1>2, <1>5, <1>6, <1>7, <1>8 DEF IInv

LEMMA ReadToReconcileInv ==
  ASSUME IInv, NEW p \in Procs, NEW l \in Phases, ReadToReconcile(p, l)
  PROVE  IInv'
  <1> ProcTypes /\ TypeOK
    BY TypesSplit DEF IInv
  <1>1. UNCHANGED <<fileVars, worldVars, expired>>
    BY DEF ReadToReconcile
  <1>2. Progress' /\ Windows' /\ SuccessInWindow'
    BY <1>1, Quiet
  <1>3. Locals'
    BY LocalTypes DEF TypeOK, ReadToReconcile, PcStates, Classes, Creating, Running, Observed
  <1>4. pending' \in [Phases -> Pendings] /\ lease' \in [Phases -> Procs \cup {None}] /\ faults' \in Nat
    BY DEF ProcTypes, Locals, ReadToReconcile, Pendings
  <1>5. TypeOK'
    BY <1>1, <1>3, <1>4, QuietTypes DEF ProcTypes
  <1>6. Exclusive'
    BY <1>1, PhaseAssumption
    DEF IInv, TypeOK, Exclusive, ReadToReconcile, Creating, Running, Observed, Begin, fileVars, worldVars
  <1>7. Snapshots'
    BY <1>1 DEF IInv, TypeOK, Snapshots, ReadToReconcile, Observed, Begin, fileVars, worldVars
  <1>8. Predecessors'
    BY <1>1, Quiet DEF IInv, TypeOK, Predecessors, ReadToReconcile, Observed, Begin, fileVars, worldVars
  <1> QED
    BY <1>2, <1>5, <1>6, <1>7, <1>8 DEF IInv

LEMMA BeginExecuteInv ==
  ASSUME IInv, NEW p \in Procs, NEW l \in Phases, BeginExecute(p, l)
  PROVE  IInv'
  <1> ProcTypes /\ TypeOK
    BY TypesSplit DEF IInv
  <1>1. UNCHANGED <<fileVars, worldVars, expired>>
    BY DEF BeginExecute
  <1>2. Progress' /\ Windows' /\ SuccessInWindow'
    BY <1>1, Quiet
  <1>3. Locals'
    BY LocalTypes DEF TypeOK, BeginExecute, PcStates, Classes, Creating, Running
  <1>4. pending' \in [Phases -> Pendings] /\ lease' \in [Phases -> Procs \cup {None}] /\ faults' \in Nat
    BY DEF ProcTypes, Locals, BeginExecute, AcquireLease, Pendings
  <1>5. TypeOK'
    BY <1>1, <1>3, <1>4, QuietTypes DEF ProcTypes
  <1>6. Exclusive'
    BY <1>1, PhaseAssumption
    DEF IInv, TypeOK, Exclusive, BeginExecute, Creating, Running, Readable, Begin, AcquireLease, fileVars, worldVars
  <1>7. Snapshots'
    BY <1>1 DEF IInv, TypeOK, Snapshots, BeginExecute, Readable, Begin, AcquireLease, fileVars, worldVars
  <1>8. Predecessors'
    BY <1>1, Quiet DEF IInv, TypeOK, Predecessors, BeginExecute, Readable, Begin, AcquireLease, fileVars, worldVars
  <1> QED
    BY <1>2, <1>5, <1>6, <1>7, <1>8 DEF IInv

LEMMA FinishCreateInv ==
  ASSUME IInv, NEW p \in Procs, FinishCreate(p)
  PROVE  IInv'
  <1> ProcTypes /\ TypeOK
    BY TypesSplit DEF IInv
  <1>1. UNCHANGED <<fileVars, worldVars, expired>>
    BY DEF FinishCreate
  <1>2. Progress' /\ Windows' /\ SuccessInWindow'
    BY <1>1, Quiet
  <1>3. Locals'
    BY LocalTypes DEF TypeOK, FinishCreate, PcStates, Classes, Creating, Running
  <1>4. pending' \in [Phases -> Pendings] /\ lease' \in [Phases -> Procs \cup {None}] /\ faults' \in Nat
    BY DEF ProcTypes, Locals, FinishCreate, ReleaseLease, Pendings
  <1>5. TypeOK'
    BY <1>1, <1>3, <1>4, QuietTypes DEF ProcTypes
  <1>6. Exclusive'
    BY <1>1, PhaseAssumption
    DEF IInv, TypeOK, Exclusive, FinishCreate, Creating, Running, Return, ReleaseLease, fileVars, worldVars, Begin
  <1>7. Snapshots'
    BY <1>1 DEF IInv, TypeOK, Snapshots, FinishCreate, Return, ReleaseLease, fileVars, worldVars, Begin
  <1>8. Predecessors'
    BY <1>1, Quiet DEF IInv, TypeOK, Predecessors, FinishCreate, Return, ReleaseLease, fileVars, worldVars, Begin
  <1> QED
    BY <1>2, <1>5, <1>6, <1>7, <1>8 DEF IInv

LEMMA FailCreateInv ==
  ASSUME IInv, NEW p \in Procs, FailCreate(p)
  PROVE  IInv'
  <1> ProcTypes /\ TypeOK
    BY TypesSplit DEF IInv
  <1>1. UNCHANGED <<fileVars, worldVars, expired>>
    BY DEF FailCreate
  <1>2. Progress' /\ Windows' /\ SuccessInWindow'
    BY <1>1, Quiet
  <1>3. Locals'
    BY LocalTypes DEF TypeOK, FailCreate, PcStates, Classes, Creating, Running
  <1>4. pending' \in [Phases -> Pendings] /\ lease' \in [Phases -> Procs \cup {None}] /\ faults' \in Nat
    BY DEF ProcTypes, Locals, FailCreate, ReleaseLease, Pendings
  <1>5. TypeOK'
    BY <1>1, <1>3, <1>4, QuietTypes DEF ProcTypes
  <1>6. Exclusive'
    BY <1>1, PhaseAssumption
    DEF IInv, TypeOK, Exclusive, FailCreate, Creating, Running, Goto, ReleaseLease, fileVars, worldVars
  <1>7. Snapshots'
    BY <1>1 DEF IInv, TypeOK, Snapshots, FailCreate, Goto, ReleaseLease, fileVars, worldVars
  <1>8. Predecessors'
    BY <1>1, Quiet DEF IInv, TypeOK, Predecessors, FailCreate, Goto, ReleaseLease, fileVars, worldVars
  <1> QED
    BY <1>2, <1>5, <1>6, <1>7, <1>8 DEF IInv

LEMMA CleanUpCreateInv ==
  ASSUME IInv, NEW p \in Procs, CleanUpCreate(p)
  PROVE  IInv'
  <1> ProcTypes /\ TypeOK
    BY TypesSplit DEF IInv
  <1>1. UNCHANGED <<fileVars, worldVars, expired>>
    BY DEF CleanUpCreate
  <1>2. Progress' /\ Windows' /\ SuccessInWindow'
    BY <1>1, Quiet
  <1>3. Locals'
    BY LocalTypes DEF TypeOK, CleanUpCreate, PcStates, Classes, Creating, Running
  <1>4. pending' \in [Phases -> Pendings] /\ lease' \in [Phases -> Procs \cup {None}] /\ faults' \in Nat
    BY DEF ProcTypes, Locals, CleanUpCreate, Pendings
  <1>5. TypeOK'
    BY <1>1, <1>3, <1>4, QuietTypes DEF ProcTypes
  <1>6. Exclusive'
    BY <1>1, PhaseAssumption
    DEF IInv, TypeOK, Exclusive, CleanUpCreate, Creating, Running, Return, fileVars, worldVars, Begin
  <1>7. Snapshots'
    BY <1>1 DEF IInv, TypeOK, Snapshots, CleanUpCreate, Return, fileVars, worldVars, Begin
  <1>8. Predecessors'
    BY <1>1, Quiet DEF IInv, TypeOK, Predecessors, CleanUpCreate, Return, fileVars, worldVars, Begin
  <1> QED
    BY <1>2, <1>5, <1>6, <1>7, <1>8 DEF IInv

LEMMA RefuseSwapInv ==
  ASSUME IInv, NEW p \in Procs, RefuseSwap(p)
  PROVE  IInv'
  <1> ProcTypes /\ TypeOK
    BY TypesSplit DEF IInv
  <1>1. UNCHANGED <<fileVars, worldVars, expired>>
    BY DEF RefuseSwap
  <1>2. Progress' /\ Windows' /\ SuccessInWindow'
    BY <1>1, Quiet
  <1>3. Locals'
    BY LocalTypes DEF TypeOK, RefuseSwap, PcStates, Classes, Creating, Running
  <1>4. pending' \in [Phases -> Pendings] /\ lease' \in [Phases -> Procs \cup {None}] /\ faults' \in Nat
    BY DEF ProcTypes, Locals, RefuseSwap, Pendings
  <1>5. TypeOK'
    BY <1>1, <1>3, <1>4, QuietTypes DEF ProcTypes
  <1>6. Exclusive'
    BY <1>1, PhaseAssumption
    DEF IInv, TypeOK, Exclusive, RefuseSwap, Creating, Running, Return, fileVars, worldVars, Begin
  <1>7. Snapshots'
    BY <1>1 DEF IInv, TypeOK, Snapshots, RefuseSwap, Return, fileVars, worldVars, Begin
  <1>8. Predecessors'
    BY <1>1, Quiet DEF IInv, TypeOK, Predecessors, RefuseSwap, Return, fileVars, worldVars, Begin
  <1> QED
    BY <1>2, <1>5, <1>6, <1>7, <1>8 DEF IInv

LEMMA StopExpiredInv ==
  ASSUME IInv, NEW p \in Procs, StopExpired(p)
  PROVE  IInv'
  <1> ProcTypes /\ TypeOK
    BY TypesSplit DEF IInv
  <1>1. UNCHANGED <<fileVars, worldVars, expired>>
    BY DEF StopExpired
  <1>2. Progress' /\ Windows' /\ SuccessInWindow'
    BY <1>1, Quiet
  <1>3. Locals'
    BY LocalTypes DEF TypeOK, StopExpired, PcStates, Classes, Creating, Running
  <1>4. pending' \in [Phases -> Pendings] /\ lease' \in [Phases -> Procs \cup {None}] /\ faults' \in Nat
    BY DEF ProcTypes, Locals, StopExpired, ReleaseLease, Pendings
  <1>5. TypeOK'
    BY <1>1, <1>3, <1>4, QuietTypes DEF ProcTypes
  <1>6. Exclusive'
    BY <1>1, PhaseAssumption
    DEF IInv, TypeOK, Exclusive, StopExpired, Creating, Running, Return, ReleaseLease, fileVars, worldVars, Begin
  <1>7. Snapshots'
    BY <1>1 DEF IInv, TypeOK, Snapshots, StopExpired, Return, ReleaseLease, fileVars, worldVars, Begin
  <1>8. Predecessors'
    BY <1>1, Quiet DEF IInv, TypeOK, Predecessors, StopExpired, Return, ReleaseLease, fileVars, worldVars, Begin
  <1> QED
    BY <1>2, <1>5, <1>6, <1>7, <1>8 DEF IInv

LEMMA DieInv ==
  ASSUME IInv, NEW p \in Procs, Die(p)
  PROVE  IInv'
  <1> ProcTypes /\ TypeOK
    BY TypesSplit DEF IInv
  <1>1. UNCHANGED <<fileVars, worldVars, expired>>
    BY DEF Die
  <1>2. Progress' /\ Windows' /\ SuccessInWindow'
    BY <1>1, Quiet
  <1>3. Locals'
    BY LocalTypes DEF TypeOK, Die, PcStates, Classes, Creating, Running
  <1>4. pending' \in [Phases -> Pendings] /\ lease' \in [Phases -> Procs \cup {None}] /\ faults' \in Nat
    BY DEF ProcTypes, Locals, Die, Pendings
  <1>5. TypeOK'
    BY <1>1, <1>3, <1>4, QuietTypes DEF ProcTypes
  <1>6. Exclusive'
    BY <1>1, PhaseAssumption
    DEF IInv, TypeOK, Exclusive, Die, Creating, Running, Return, fileVars, worldVars, Begin
  <1>7. Snapshots'
    BY <1>1 DEF IInv, TypeOK, Snapshots, Die, Return, fileVars, worldVars, Begin
  <1>8. Predecessors'
    BY <1>1, Quiet DEF IInv, TypeOK, Predecessors, Die, Return, fileVars, worldVars, Begin
  <1> QED
    BY <1>2, <1>5, <1>6, <1>7, <1>8 DEF IInv

-----------------------------------------------------------------------------
(* The part of the type invariant that is about provider and clock.        *)
WorldTypes ==
  /\ DOMAIN request = Phases /\ DOMAIN calls = Phases /\ DOMAIN late = Phases
  /\ \A l \in Phases :
       /\ request[l] \in [Ops(l) -> {"unsent", "open", "done", "refused"}]
       /\ calls[l] \in [Ops(l) -> Nat]
       /\ late[l] \in [Ops(l) -> BOOLEAN]
  /\ expired \in [Phases -> BOOLEAN]

LEMMA WorldTypesSplit == TypeOK => WorldTypes
  BY DEF TypeOK, WorldTypes

LEMMA WorldTypesQuiet ==
  ASSUME WorldTypes, UNCHANGED <<worldVars, expired>>
  PROVE  WorldTypes'
  BY DEF WorldTypes, worldVars

(* Recording the outcome of the operation in flight keeps the order of     *)
(* the operations, the windows and the proven predecessors.                *)
LEMMA Recording ==
  ASSUME IInv, NEW l \in Phases, NEW result \in Results,
         status[l] = "IN_FLIGHT", RecordOutcome(l, result),
         UNCHANGED <<worldVars, expired>>,
         result = "SUCCEEDED" => request[l][nextOp[l]] = "done" /\ ~expired[l]
  PROVE  /\ Progress' /\ Windows' /\ SuccessInWindow'
         /\ \A k \in Phases : PredecessorProven(k) => PredecessorProven(k)'
         /\ ProcTypes' => TypeOK'
  <1> TypeOK /\ Progress /\ Windows /\ SuccessInWindow
    BY DEF IInv
  <1> DEFINE s == nextOp[l]
  <1>0. s \in Ops(l) /\ \A k \in Phases : nextOp[k] \in Nat /\ \A t \in Ops(k) : t \in Nat
    BY DEF TypeOK, Ops
  <1>1. Progress'
    <2> SUFFICES ASSUME NEW k \in Phases
                 PROVE  /\ status'[k] \in {"NONE", "PREPARED"} => nextOp'[k] = 1
                        /\ status'[k] \in Before => calls'[k][nextOp'[k]] = 0
                        /\ status'[k] \in Before \cup {"IN_FLIGHT"} => outcome'[k][nextOp'[k]] = "none"
                        /\ status'[k] \in Over => outcome'[k][nextOp'[k]] # "none"
                        /\ \A t \in Ops(k) :
                             /\ calls'[k][t] <= 1
                             /\ t > nextOp'[k] => calls'[k][t] = 0 /\ outcome'[k][t] = "none"
                             /\ t < nextOp'[k] => outcome'[k][t] = "SUCCEEDED"
      BY DEF Progress
    <2>1. CASE k # l
      BY <2>1, OutcomeRecorded DEF Progress, worldVars
    <2>2. CASE k = l
      BY <2>2, <1>0, OutcomeRecorded DEF Progress, worldVars, Before, Over, Results
    <2> QED
      BY <2>1, <2>2
  <1>2. Windows'
    BY DEF Windows, worldVars
  <1>3. SuccessInWindow'
    <2> SUFFICES ASSUME NEW k \in Phases, NEW t \in Ops(k), outcome'[k][t] = "SUCCEEDED"
                 PROVE  request[k][t] = "done" /\ ~late[k][t]
      BY DEF SuccessInWindow, worldVars
    <2>1. CASE k = l /\ t = s
      BY <2>1, OutcomeRecorded DEF Windows
    <2>2. CASE k # l \/ t # s
      BY <2>2, OutcomeRecorded DEF SuccessInWindow
    <2> QED
      BY <2>1, <2>2
  <1>4. \A k \in Phases : PredecessorProven(k) => PredecessorProven(k)'
    BY OutcomeRecorded DEF PredecessorProven, Accepted
  <1>5. WorldTypes'
    BY WorldTypesSplit, WorldTypesQuiet
  <1>6. ProcTypes' => TypeOK'
    BY <1>5, OutcomeRecorded DEF TypeOK, WorldTypes, ProcTypes, Locals, PcStates, Pendings
  <1> QED
    BY <1>1, <1>2, <1>3, <1>4, <1>6

(* Recovery writes while nobody holds the lease, so that no process that   *)
(* runs the phase is disturbed.                                            *)
LEMMA RecoverInFlightInv ==
  ASSUME IInv, NEW p \in Procs, NEW l \in Phases, RecoverInFlight(p, l)
  PROVE  IInv'
  <1> TypeOK /\ ProcTypes /\ Exclusive /\ Snapshots /\ Predecessors
    BY TypesSplit DEF IInv
  <1>0. /\ status[l] = "IN_FLIGHT" /\ lease[l] = None
        /\ RecordOutcome(l, "AMBIGUOUS")
        /\ UNCHANGED <<pending, lease, pc, at, ver, seen, faults>>
        /\ UNCHANGED <<worldVars, expired>>
    BY DEF RecoverInFlight, procVars
  <1>1. /\ Progress' /\ Windows' /\ SuccessInWindow'
        /\ \A k \in Phases : PredecessorProven(k) => PredecessorProven(k)'
        /\ ProcTypes' => TypeOK'
    BY <1>0, Recording, "AMBIGUOUS" \in Results DEF Results
  <1>2. /\ \A k \in Phases : k # l =>
              status'[k] = status[k] /\ version'[k] = version[k] /\ nextOp'[k] = nextOp[k]
        /\ version'[l] = version[l] + 1 /\ status'[l] = "AMBIGUOUS"
    BY <1>0, OutcomeRecorded DEF Results
  <1>3. ProcTypes'
    BY <1>0 DEF ProcTypes, Locals
  <1>4. Exclusive'
    BY <1>0, <1>2, PhaseAssumption DEF Exclusive, TypeOK, worldVars, Creating, Running
  <1>5. Snapshots'
    BY <1>0, <1>2 DEF Snapshots, TypeOK
  <1>6. Predecessors'
    BY <1>0, <1>1, <1>2 DEF Predecessors, TypeOK
  <1> QED
    BY <1>1, <1>3, <1>4, <1>5, <1>6 DEF IInv

LEMMA ReadClockInv ==
  ASSUME IInv, NEW p \in Procs, ReadClock(p)
  PROVE  IInv'
  <1> TypeOK /\ ProcTypes /\ Exclusive /\ Snapshots /\ Predecessors
    BY TypesSplit DEF IInv
  <1> DEFINE l == at[p]
  <1>0. l \in Phases /\ pc[p] = "flight" /\ status[l] = "IN_FLIGHT" /\ lease[l] = p
    BY DEF ReadClock, TypeOK, Exclusive, Creating, Running
  <1>1. CASE ~expired[l]
    <2>1. UNCHANGED <<fileVars, worldVars, expired, lease, pending, faults>> /\ Goto(p, "invoke")
      BY <1>1 DEF ReadClock
    <2>2. Progress' /\ Windows' /\ SuccessInWindow'
      BY <2>1, Quiet
    <2>3. Locals'
      BY <2>1, LocalTypes DEF PcStates, Running
    <2>4. TypeOK'
      BY <2>1, <2>3, QuietTypes DEF ProcTypes
    <2>5. Exclusive' /\ Snapshots'
      BY <1>0, <2>1 DEF Exclusive, Snapshots, TypeOK, Goto, fileVars, worldVars, Creating, Running
    <2>6. Predecessors'
      BY <2>1, Quiet DEF Predecessors, TypeOK, Goto, fileVars
    <2> QED
      BY <2>2, <2>4, <2>5, <2>6 DEF IInv
  <1>2. CASE expired[l]
    <2>1. /\ RecordOutcome(l, "AMBIGUOUS") /\ ReleaseLease(l) /\ Return(p)
          /\ UNCHANGED <<worldVars, expired, pending, faults>>
      BY <1>2 DEF ReadClock
    <2>2. /\ Progress' /\ Windows' /\ SuccessInWindow'
          /\ \A k \in Phases : PredecessorProven(k) => PredecessorProven(k)'
          /\ ProcTypes' => TypeOK'
      BY <1>0, <2>1, Recording, "AMBIGUOUS" \in Results DEF Results
    <2>3. /\ \A k \in Phases : k # l =>
                status'[k] = status[k] /\ version'[k] = version[k] /\ nextOp'[k] = nextOp[k]
          /\ version'[l] = version[l] + 1 /\ status'[l] = "AMBIGUOUS"
      BY <1>0, <2>1, OutcomeRecorded DEF Results
    <2>4. ProcTypes'
      BY <1>0, <2>1, LocalTypes DEF ProcTypes, ReleaseLease
    <2>5. Exclusive'
      BY <1>0, <2>1, <2>3, PhaseAssumption
      DEF Exclusive, TypeOK, worldVars, Return, Begin, ReleaseLease, Creating, Running
    <2>6. Snapshots'
      <3>1. /\ pc'[p] = "idle"
            /\ \A q \in Procs \ {p} : pc'[q] = pc[q] /\ at'[q] = at[q] /\ ver'[q] = ver[q]
        BY <2>1 DEF TypeOK, Return, Begin
      <3> QED
        BY <1>0, <2>3, <3>1 DEF Snapshots, TypeOK
    <2>7. Predecessors'
      BY <1>0, <2>1, <2>2, <2>3 DEF Predecessors, TypeOK, Return, Begin
    <2> QED
      BY <2>2, <2>4, <2>5, <2>6, <2>7 DEF IInv
  <1> QED
    BY <1>0, <1>1, <1>2 DEF TypeOK

LEMMA AnswerInv ==
  ASSUME IInv, NEW p \in Procs, Answer(p)
  PROVE  IInv'
  <1> TypeOK /\ ProcTypes /\ Exclusive /\ Snapshots /\ Predecessors
    BY TypesSplit DEF IInv
  <1> DEFINE l == at[p]
  <1>0. l \in Phases /\ pc[p] = "await" /\ status[l] = "IN_FLIGHT" /\ lease[l] = p
    BY DEF Answer, TypeOK, Exclusive, Creating, Running
  <1>1. PICK answer \in Answers(l) :
          /\ RecordOutcome(l, InWindow(l, answer))
          /\ IF InWindow(l, answer) = "SUCCEEDED" /\ nextOp[l] < OpCount[l]
             THEN Goto(p, "running") /\ UNCHANGED lease
             ELSE Return(p) /\ ReleaseLease(l)
    BY DEF Answer
  <1>2. UNCHANGED <<worldVars, expired, pending, faults>>
    BY DEF Answer
  <1> DEFINE result == InWindow(l, answer)
  <1>3. /\ result \in Results
        /\ result = "SUCCEEDED" => request[l][nextOp[l]] = "done" /\ ~expired[l]
    BY <1>1 DEF InWindow, Answers, Results
  <1>4. /\ Progress' /\ Windows' /\ SuccessInWindow'
        /\ \A k \in Phases : PredecessorProven(k) => PredecessorProven(k)'
        /\ ProcTypes' => TypeOK'
    BY <1>0, <1>1, <1>2, <1>3, Recording
  <1>5. /\ \A k \in Phases : k # l =>
              status'[k] = status[k] /\ version'[k] = version[k] /\ nextOp'[k] = nextOp[k]
        /\ version'[l] = version[l] + 1 /\ status'[l] # "NONE"
        /\ result = "SUCCEEDED" /\ nextOp[l] < OpCount[l] => status'[l] = "CLAIMED"
    <2>1. result = "SUCCEEDED" /\ nextOp[l] < OpCount[l] => status'[l] = "CLAIMED"
      BY <1>0, <1>1 DEF RecordOutcome, TypeOK
    <2> HIDE DEF l, result
    <2> QED
      BY <1>0, <1>1, <1>3, <2>1, OutcomeRecorded DEF result
  <1>6. ProcTypes'
    <2>1. Locals'
      BY <1>1, LocalTypes DEF PcStates, Running
    <2> QED
      BY <1>0, <1>1, <1>2, <2>1 DEF ProcTypes, ReleaseLease
  <1> HIDE DEF result
  <1>7. CASE result = "SUCCEEDED" /\ nextOp[l] < OpCount[l]
    <2>1. Goto(p, "running") /\ UNCHANGED lease
      BY <1>1, <1>7 DEF result
    <2>2. Exclusive'
      BY <1>0, <1>2, <1>5, <1>7, <2>1 DEF Exclusive, TypeOK, worldVars, Goto, Creating, Running
    <2>3. Snapshots'
      BY <1>0, <1>5, <2>1 DEF Snapshots, TypeOK, Goto
    <2>4. Predecessors'
      BY <1>0, <1>4, <1>5, <2>1 DEF Predecessors, TypeOK, Goto
    <2> QED
      BY <1>4, <1>6, <2>2, <2>3, <2>4 DEF IInv
  <1>8. CASE ~(result = "SUCCEEDED" /\ nextOp[l] < OpCount[l])
    <2>1. Return(p) /\ ReleaseLease(l)
      BY <1>1, <1>8 DEF result
    <2>2. Exclusive'
      BY <1>0, <1>2, <1>5, <2>1
      DEF Exclusive, TypeOK, worldVars, Return, Begin, ReleaseLease, Creating, Running
    <2>3. Snapshots'
      <3>1. /\ pc'[p] = "idle"
            /\ \A q \in Procs \ {p} : pc'[q] = pc[q] /\ at'[q] = at[q] /\ ver'[q] = ver[q]
        BY <2>1 DEF TypeOK, Return, Begin
      <3> QED
        BY <1>0, <1>5, <3>1 DEF Snapshots, TypeOK
    <2>4. Predecessors'
      BY <1>0, <1>4, <1>5, <2>1 DEF Predecessors, TypeOK, Return, Begin
    <2> QED
      BY <1>4, <1>6, <2>2, <2>3, <2>4 DEF IInv
  <1> QED
    BY <1>7, <1>8

-----------------------------------------------------------------------------
(* A step that gives one phase that is not over a new status, without      *)
(* touching its outcomes, its position, the provider or the clock.         *)
LEMMA NewStatus ==
  ASSUME IInv, NEW l \in Phases, NEW new \in Statuses, NEW v \in Nat,
         status' = [status EXCEPT ![l] = new],
         version' = [version EXCEPT ![l] = v],
         UNCHANGED <<nextOp, outcome, worldVars, expired>>,
         class' \in [Phases -> Classes \cup {"none"}],
         status[l] # "CONSUMED",
         \/ status[l] \in {"NONE", "PREPARED"} /\ new \in {"PREPARED", "CLAIMED"}
         \/ status[l] = "CLAIMED" /\ new = "IN_FLIGHT"
         \/ status[l] = "AMBIGUOUS" /\ new = "RECONCILED"
  PROVE  /\ Progress' /\ Windows' /\ SuccessInWindow'
         /\ \A k \in Phases : PredecessorProven(k) => PredecessorProven(k)'
         /\ ProcTypes' => TypeOK'
         /\ \A k \in Phases : k # l => status'[k] = status[k] /\ version'[k] = version[k]
         /\ status'[l] = new /\ version'[l] = v
  <1> TypeOK /\ Progress /\ Windows /\ SuccessInWindow
    BY DEF IInv
  <1>1. /\ \A k \in Phases : k # l => status'[k] = status[k] /\ version'[k] = version[k]
        /\ status'[l] = new /\ version'[l] = v
    BY DEF TypeOK
  <1>2. Progress'
    BY <1>1 DEF Progress, Before, Over, worldVars
  <1>3. Windows' /\ SuccessInWindow'
    BY DEF Windows, SuccessInWindow, worldVars
  <1>4. \A k \in Phases : PredecessorProven(k) => PredecessorProven(k)'
    BY <1>1 DEF PredecessorProven, Accepted
  <1>5. WorldTypes'
    BY WorldTypesSplit, WorldTypesQuiet
  <1>6. ProcTypes' => TypeOK'
    BY <1>5 DEF TypeOK, WorldTypes, ProcTypes, Locals, PcStates, Pendings
  <1> QED
    BY <1>1, <1>2, <1>3, <1>4, <1>6

(* A call that is about to swap, and is not the one that steps, keeps its  *)
(* snapshot: the phase it read is untouched or has a higher version.       *)
LEMMA SnapshotsKept ==
  ASSUME TypeOK, Snapshots, NEW p \in Procs, NEW l \in Phases,
         \A k \in Phases : k # l => status'[k] = status[k] /\ version'[k] = version[k],
         status'[l] # "NONE", version'[l] \in Nat,
         status[l] = "NONE" \/ version'[l] > version[l],
         pc'[p] \notin {"claim", "reconcile"},
         \A q \in Procs : q # p => pc'[q] = pc[q] /\ at'[q] = at[q] /\ ver'[q] = ver[q]
  PROVE  Snapshots'
  <1> SUFFICES ASSUME NEW q \in Procs, pc'[q] \in {"claim", "reconcile"}
               PROVE  /\ status'[at'[q]] # "NONE" /\ ver'[q] <= version'[at'[q]]
                      /\ pc'[q] = "claim" /\ ver'[q] = version'[at'[q]]
                           => status'[at'[q]] = "PREPARED"
                      /\ pc'[q] = "reconcile" /\ ver'[q] = version'[at'[q]]
                           => status'[at'[q]] = "AMBIGUOUS"
    BY DEF Snapshots
  <1>1. /\ pc'[q] = pc[q] /\ at'[q] = at[q] /\ ver'[q] = ver[q]
        /\ at[q] \in Phases /\ ver[q] \in Nat /\ version[at[q]] \in Nat
    BY DEF TypeOK
  <1>2. /\ status[at[q]] # "NONE" /\ ver[q] <= version[at[q]]
        /\ pc[q] = "claim" /\ ver[q] = version[at[q]] => status[at[q]] = "PREPARED"
        /\ pc[q] = "reconcile" /\ ver[q] = version[at[q]] => status[at[q]] = "AMBIGUOUS"
    BY <1>1 DEF Snapshots
  <1>3. CASE at[q] = l
    BY <1>1, <1>2, <1>3
  <1>4. CASE at[q] # l
    BY <1>1, <1>2, <1>4
  <1> QED
    BY <1>3, <1>4

LEMMA LinkCreateInv ==
  ASSUME IInv, NEW p \in Procs, LinkCreate(p)
  PROVE  IInv'
  <1> TypeOK /\ ProcTypes /\ Exclusive /\ Snapshots /\ Predecessors
    BY TypesSplit DEF IInv
  <1> DEFINE l == at[p]
  <1>0. l \in Phases /\ pc[p] = "staged" /\ status[l] = "NONE" /\ lease[l] = p
    BY DEF LinkCreate, TypeOK, Exclusive, Creating
  <1>1. /\ Progress' /\ Windows' /\ SuccessInWindow'
        /\ \A k \in Phases : PredecessorProven(k) => PredecessorProven(k)'
        /\ ProcTypes' => TypeOK'
        /\ \A k \in Phases : k # l => status'[k] = status[k] /\ version'[k] = version[k]
        /\ status'[l] = "PREPARED" /\ version'[l] = 1
    BY <1>0, NewStatus, "PREPARED" \in Statuses DEF LinkCreate, TypeOK, Statuses
  <1>2. Goto(p, "published") /\ UNCHANGED <<lease, nextOp, calls>>
    BY DEF LinkCreate, worldVars
  <1>3. ProcTypes'
    <2>1. Locals'
      BY <1>2, LocalTypes DEF PcStates, Creating
    <2> QED
      BY <1>0, <2>1 DEF ProcTypes, LinkCreate, Pendings
  <1>4. Exclusive'
    BY <1>0, <1>1, <1>2 DEF Exclusive, TypeOK, Goto, Creating, Running
  <1>5. Snapshots'
    <2>1. /\ pc'[p] = "published"
          /\ \A q \in Procs : q # p => pc'[q] = pc[q] /\ at'[q] = at[q] /\ ver'[q] = ver[q]
      BY <1>2 DEF TypeOK, Goto
    <2>2. version'[l] \in Nat /\ (status[l] = "NONE" \/ version'[l] > version[l])
      BY <1>0, <1>1 DEF TypeOK
    <2> HIDE DEF l
    <2> QED
      BY <1>0, <1>1, <2>1, <2>2, SnapshotsKept
  <1>6. Predecessors'
    BY <1>0, <1>1, <1>2 DEF Predecessors, TypeOK, Goto
  <1> QED
    BY <1>1, <1>3, <1>4, <1>5, <1>6 DEF IInv

LEMMA PutInFlightInv ==
  ASSUME IInv, NEW p \in Procs, PutInFlight(p)
  PROVE  IInv'
  <1> TypeOK /\ ProcTypes /\ Exclusive /\ Snapshots /\ Predecessors /\ Progress
    BY TypesSplit DEF IInv
  <1> DEFINE l == at[p]
  <1>0. l \in Phases /\ pc[p] = "running" /\ status[l] = "CLAIMED" /\ lease[l] = p
        /\ version[l] + 1 \in Nat
    BY DEF PutInFlight, TypeOK, Exclusive, Running
  <1>1. /\ Progress' /\ Windows' /\ SuccessInWindow'
        /\ \A k \in Phases : PredecessorProven(k) => PredecessorProven(k)'
        /\ ProcTypes' => TypeOK'
        /\ \A k \in Phases : k # l => status'[k] = status[k] /\ version'[k] = version[k]
        /\ status'[l] = "IN_FLIGHT" /\ version'[l] = version[l] + 1
    BY <1>0, NewStatus, "IN_FLIGHT" \in Statuses DEF PutInFlight, TypeOK, Statuses
  <1>2. Goto(p, "flight") /\ UNCHANGED <<lease, nextOp, calls, pending, faults>>
    BY DEF PutInFlight, worldVars
  <1>3. ProcTypes'
    BY <1>2, LocalTypes DEF ProcTypes, PcStates, Running
  <1>4. Exclusive'
    BY <1>0, <1>1, <1>2 DEF Exclusive, Progress, Before, TypeOK, Goto, Creating, Running
  <1>5. Snapshots'
    <2>1. /\ pc'[p] = "flight"
          /\ \A q \in Procs : q # p => pc'[q] = pc[q] /\ at'[q] = at[q] /\ ver'[q] = ver[q]
      BY <1>2 DEF TypeOK, Goto
    <2>2. version'[l] \in Nat /\ (status[l] = "NONE" \/ version'[l] > version[l])
      BY <1>0, <1>1 DEF TypeOK
    <2> HIDE DEF l
    <2> QED
      BY <1>0, <1>1, <2>1, <2>2, SnapshotsKept
  <1>6. Predecessors'
    BY <1>0, <1>1, <1>2 DEF Predecessors, TypeOK, Goto
  <1> QED
    BY <1>1, <1>3, <1>4, <1>5, <1>6 DEF IInv

LEMMA SwapReconcileInv ==
  ASSUME IInv, NEW p \in Procs, SwapReconcile(p)
  PROVE  IInv'
  <1> TypeOK /\ ProcTypes /\ Exclusive /\ Snapshots /\ Predecessors
    BY TypesSplit DEF IInv
  <1> DEFINE l == at[p]
  <1>0. l \in Phases /\ pc[p] = "reconcile" /\ status[l] = "AMBIGUOUS" /\ lease[l] = None
        /\ version[l] + 1 \in Nat /\ class' \in [Phases -> Classes \cup {"none"}]
    BY DEF SwapReconcile, Unchanged, TypeOK, Snapshots
  <1>1. /\ Progress' /\ Windows' /\ SuccessInWindow'
        /\ \A k \in Phases : PredecessorProven(k) => PredecessorProven(k)'
        /\ ProcTypes' => TypeOK'
        /\ \A k \in Phases : k # l => status'[k] = status[k] /\ version'[k] = version[k]
        /\ status'[l] = "RECONCILED" /\ version'[l] = version[l] + 1
    BY <1>0, NewStatus, "RECONCILED" \in Statuses DEF SwapReconcile, TypeOK, Statuses
  <1>2. Return(p) /\ UNCHANGED <<lease, nextOp, calls, pending, faults>>
    BY DEF SwapReconcile, worldVars
  <1>3. ProcTypes'
    BY <1>2, LocalTypes DEF ProcTypes
  <1>4. Exclusive'
    BY <1>0, <1>1, <1>2, PhaseAssumption DEF Exclusive, TypeOK, Return, Begin, Creating, Running
  <1>5. Snapshots'
    <2>1. /\ pc'[p] = "idle"
          /\ \A q \in Procs : q # p => pc'[q] = pc[q] /\ at'[q] = at[q] /\ ver'[q] = ver[q]
      BY <1>2 DEF TypeOK, Return, Begin
    <2>2. version'[l] \in Nat /\ (status[l] = "NONE" \/ version'[l] > version[l])
      BY <1>0, <1>1 DEF TypeOK
    <2> HIDE DEF l
    <2> QED
      BY <1>0, <1>1, <2>1, <2>2, SnapshotsKept
  <1>6. Predecessors'
    BY <1>0, <1>1, <1>2 DEF Predecessors, TypeOK, Return, Begin
  <1> QED
    BY <1>1, <1>3, <1>4, <1>5, <1>6 DEF IInv

LEMMA SwapClaimInv ==
  ASSUME IInv, NEW p \in Procs, SwapClaim(p)
  PROVE  IInv'
  <1> TypeOK /\ ProcTypes /\ Exclusive /\ Snapshots /\ Predecessors /\ Progress
    BY TypesSplit DEF IInv
  <1> DEFINE l == at[p]
  <1>0. l \in Phases /\ pc[p] = "claim" /\ status[l] = "PREPARED" /\ lease[l] = None
        /\ version[l] + 1 \in Nat
    BY DEF SwapClaim, Unchanged, TypeOK, Snapshots
  <1>1. nextOp' = nextOp
    BY <1>0 DEF SwapClaim, Progress, TypeOK
  <1>2. /\ Progress' /\ Windows' /\ SuccessInWindow'
        /\ \A k \in Phases : PredecessorProven(k) => PredecessorProven(k)'
        /\ ProcTypes' => TypeOK'
        /\ \A k \in Phases : k # l => status'[k] = status[k] /\ version'[k] = version[k]
        /\ status'[l] = "CLAIMED" /\ version'[l] = version[l] + 1
    BY <1>0, <1>1, NewStatus, "CLAIMED" \in Statuses DEF SwapClaim, TypeOK, Statuses
  <1>3. Return(p) /\ UNCHANGED <<lease, calls, pending, faults>>
    BY DEF SwapClaim, worldVars
  <1>4. ProcTypes'
    BY <1>3, LocalTypes DEF ProcTypes
  <1>5. Exclusive'
    BY <1>0, <1>1, <1>2, <1>3, PhaseAssumption DEF Exclusive, TypeOK, Return, Begin, Creating, Running
  <1>6. Snapshots'
    <2>1. /\ pc'[p] = "idle"
          /\ \A q \in Procs : q # p => pc'[q] = pc[q] /\ at'[q] = at[q] /\ ver'[q] = ver[q]
      BY <1>3 DEF TypeOK, Return, Begin
    <2>2. version'[l] \in Nat /\ (status[l] = "NONE" \/ version'[l] > version[l])
      BY <1>0, <1>2 DEF TypeOK
    <2> HIDE DEF l
    <2> QED
      BY <1>0, <1>2, <2>1, <2>2, SnapshotsKept
  <1>7. Predecessors'
    BY <1>0, <1>2, <1>3 DEF Predecessors, TypeOK, Return, Begin
  <1> QED
    BY <1>2, <1>4, <1>5, <1>6, <1>7 DEF IInv

-----------------------------------------------------------------------------
(* The call of the provider, and what happens there.                       *)
LEMMA InvokeInv ==
  ASSUME IInv, NEW p \in Procs, Invoke(p)
  PROVE  IInv'
  <1> TypeOK /\ ProcTypes /\ WorldTypes /\ Exclusive /\ Snapshots /\ Predecessors
      /\ Progress /\ Windows /\ SuccessInWindow
    BY TypesSplit, WorldTypesSplit DEF IInv
  <1> DEFINE l == at[p]
             s == nextOp[l]
  <1>0. /\ l \in Phases /\ s \in Ops(l)
        /\ pc[p] = "invoke" /\ status[l] = "IN_FLIGHT" /\ lease[l] = p /\ calls[l][s] = 0
    BY DEF Invoke, TypeOK, Exclusive, Creating, Running
  <1>1. /\ calls' = [calls EXCEPT ![l] = [calls[l] EXCEPT ![s] = calls[l][s] + 1]]
        /\ request' = [request EXCEPT ![l] = [request[l] EXCEPT ![s] = "open"]]
        /\ Goto(p, "await")
        /\ UNCHANGED <<fileVars, pending, lease, late, expired, faults>>
    BY DEF Invoke
  <1> HIDE DEF l, s
  <1>2. /\ \A k \in Phases : k # l => calls'[k] = calls[k] /\ request'[k] = request[k]
        /\ calls'[l] = [calls[l] EXCEPT ![s] = 1]
        /\ request'[l] = [request[l] EXCEPT ![s] = "open"]
        /\ DOMAIN calls' = Phases /\ DOMAIN request' = Phases
    BY <1>0, <1>1 DEF WorldTypes
  <1>3. /\ \A t \in Ops(l) : t # s => calls'[l][t] = calls[l][t] /\ request'[l][t] = request[l][t]
        /\ calls'[l][s] = 1
        /\ calls'[l] \in [Ops(l) -> Nat]
        /\ request'[l] \in [Ops(l) -> {"unsent", "open", "done", "refused"}]
    BY <1>0, <1>2 DEF WorldTypes
  <1>4. WorldTypes'
    <2>1. \A k \in Phases : /\ calls'[k] \in [Ops(k) -> Nat]
                            /\ request'[k] \in [Ops(k) -> {"unsent", "open", "done", "refused"}]
      BY <1>2, <1>3 DEF WorldTypes
    <2> QED
      BY <1>1, <1>2, <2>1 DEF WorldTypes
  <1>5. Locals'
    BY <1>1, LocalTypes DEF PcStates, Running
  <1>6. TypeOK'
    BY <1>1, <1>4, <1>5 DEF TypeOK, WorldTypes, Locals, ProcTypes, PcStates, fileVars
  <1>7. Progress'
    BY <1>0, <1>1, <1>2, <1>3 DEF Progress, TypeOK, fileVars, Before, l, s
  <1>8. Windows'
    BY <1>1 DEF Windows
  <1>9. SuccessInWindow'
    <2>1. outcome[l][s] = "none"
      BY <1>0 DEF Progress, s
    <2> QED
      BY <1>1, <1>2, <1>3, <2>1 DEF SuccessInWindow, fileVars
  <1>10. Exclusive'
    BY <1>0, <1>1, <1>2, <1>3 DEF Exclusive, TypeOK, Goto, fileVars, Creating, Running, l
  <1>11. Snapshots' /\ Predecessors'
    BY <1>1 DEF Snapshots, Predecessors, PredecessorProven, Accepted, TypeOK, Goto, fileVars
  <1> QED
    BY <1>6, <1>7, <1>8, <1>9, <1>10, <1>11 DEF IInv

LEMMA ProviderInv ==
  ASSUME IInv, NEW l \in Phases, NEW s \in Ops(l), CarryOut(l, s) \/ Refuse(l, s)
  PROVE  IInv'
  <1> TypeOK /\ WorldTypes /\ Exclusive /\ Snapshots /\ Predecessors
      /\ Progress /\ Windows /\ SuccessInWindow
    BY WorldTypesSplit DEF IInv
  <1> DEFINE new == IF CarryOut(l, s) THEN "done" ELSE "refused"
             lates == IF CarryOut(l, s) THEN [late[l] EXCEPT ![s] = expired[l]] ELSE late[l]
  <1>1. /\ request[l][s] = "open"
        /\ request' = [request EXCEPT ![l] = [request[l] EXCEPT ![s] = new]]
        /\ late'[l] = lates /\ DOMAIN late' = Phases
        /\ \A k \in Phases : k # l => late'[k] = late[k]
        /\ UNCHANGED <<fileVars, pending, lease, procVars, calls, expired, faults>>
    <2>1. CASE CarryOut(l, s)
      BY <2>1 DEF CarryOut, WorldTypes
    <2>2. CASE ~CarryOut(l, s)
      <3>1. Refuse(l, s) /\ new = "refused" /\ lates = late[l]
        BY <2>2
      <3> QED
        BY <3>1 DEF Refuse, WorldTypes
    <2> QED
      BY <2>1, <2>2
  <1>2. /\ new \in {"done", "refused"}
        /\ lates \in [Ops(l) -> BOOLEAN]
        /\ \A t \in Ops(l) : t # s => lates[t] = late[l][t]
        /\ lates[s] => expired[l]
    BY DEF WorldTypes, Windows
  <1> HIDE DEF new, lates
  <1>3. /\ \A k \in Phases : k # l => request'[k] = request[k] /\ late'[k] = late[k]
        /\ request'[l] = [request[l] EXCEPT ![s] = new] /\ late'[l] = lates
        /\ DOMAIN request' = Phases /\ DOMAIN late' = Phases
    BY <1>1 DEF WorldTypes
  <1>4. WorldTypes'
    <2>1. request'[l] \in [Ops(l) -> {"unsent", "open", "done", "refused"}]
      BY <1>2, <1>3 DEF WorldTypes
    <2> QED
      BY <1>1, <1>2, <1>3, <2>1 DEF WorldTypes
  <1>5. TypeOK'
    BY <1>1, <1>4 DEF TypeOK, WorldTypes, fileVars, procVars
  <1>6. Windows'
    BY <1>1, <1>2, <1>3 DEF Windows
  <1>7. SuccessInWindow'
    <2>1. outcome[l][s] # "SUCCEEDED"
      BY <1>1 DEF SuccessInWindow
    <2>2. \A t \in Ops(l) : t # s => request'[l][t] = request[l][t]
      BY <1>3 DEF WorldTypes
    <2> QED
      BY <1>1, <1>2, <1>3, <2>1, <2>2 DEF SuccessInWindow, fileVars
  <1>8. Progress' /\ Exclusive' /\ Snapshots' /\ Predecessors'
    BY <1>1 DEF Progress, Exclusive, Snapshots, Predecessors, PredecessorProven, Accepted,
                fileVars, procVars
  <1> QED
    BY <1>5, <1>6, <1>7, <1>8 DEF IInv

LEMMA ExpireInv ==
  ASSUME IInv, NEW l \in Phases, Expire(l)
  PROVE  IInv'
  <1>1. /\ UNCHANGED <<fileVars, pending, lease, procVars, worldVars, faults>>
        /\ expired' \in [Phases -> BOOLEAN]
        /\ \A k \in Phases : expired[k] => expired'[k]
    BY DEF Expire, IInv, TypeOK
  <1>2. TypeOK'
    BY <1>1 DEF IInv, TypeOK, fileVars, procVars, worldVars
  <1>3. Progress' /\ Exclusive' /\ Snapshots' /\ Windows' /\ SuccessInWindow'
    BY <1>1 DEF IInv, Progress, Exclusive, Snapshots, Windows, SuccessInWindow,
                fileVars, procVars, worldVars
  <1>4. Predecessors'
    BY <1>1 DEF IInv, Predecessors, PredecessorProven, Accepted, fileVars, procVars
  <1> QED
    BY <1>2, <1>3, <1>4 DEF IInv

(* Every step keeps the invariant.                                         *)
LEMMA StepInv == IInv /\ [Next]_vars => IInv'
  <1> SUFFICES ASSUME IInv, [Next]_vars PROVE IInv'
    OBVIOUS
  <1>1. ASSUME NEW p \in Procs, Starts(p) PROVE IInv'
    BY <1>1, StageCreateInv, RecoverCreateInv, ReadToClaimInv, ReadToReconcileInv,
       BeginExecuteInv, RecoverInFlightInv DEF Starts
  <1>2. ASSUME NEW p \in Procs, Continues(p) PROVE IInv'
    BY <1>2, LinkCreateInv, FinishCreateInv, FailCreateInv, CleanUpCreateInv, SwapClaimInv,
       SwapReconcileInv, RefuseSwapInv, PutInFlightInv, StopExpiredInv, ReadClockInv,
       InvokeInv, AnswerInv DEF Continues
  <1>3. ASSUME NEW p \in Procs, Die(p) PROVE IInv'
    BY <1>3, DieInv
  <1>4. CASE World
    BY <1>4, ExpireInv, ProviderInv DEF World
  <1>5. CASE UNCHANGED vars
    BY <1>5 DEF vars, IInv, TypeOK, Exclusive, Snapshots, Progress, Windows, SuccessInWindow,
                Predecessors, PredecessorProven, Accepted
  <1> QED
    BY <1>1, <1>2, <1>3, <1>4, <1>5 DEF Next

LEMMA AlwaysInv == Spec => []IInv
  BY InitInv, StepInv, PTL DEF Spec

-----------------------------------------------------------------------------
(* What an operation that was sent tells of the file.                      *)
LEMMA SentIsRecorded ==
  ASSUME IInv, NEW l \in Phases, NEW s \in Ops(l), calls[l][s] > 0
  PROVE  /\ status[l] # "NONE"
         /\ s <= nextOp[l]
         /\ \/ status[l] = "IN_FLIGHT" /\ nextOp[l] = s
            \/ outcome[l][s] # "none"
  <1>1. s \in Nat /\ nextOp[l] \in Nat /\ status[l] \in Statuses /\ calls[l][s] \in Nat
    <2>1. s \in Nat
      BY DEF Ops
    <2> QED
      BY <2>1 DEF IInv, TypeOK
  <1>2. s <= nextOp[l]
    BY <1>1 DEF IInv, Progress
  <1>3. CASE s < nextOp[l]
    BY <1>1, <1>3 DEF IInv, Progress, Ops
  <1>4. CASE s = nextOp[l]
    BY <1>1, <1>4 DEF IInv, Progress, Statuses, Before, Over
  <1> QED
    BY <1>1, <1>2, <1>3, <1>4

(* Type correctness of the phase ledger.                                   *)
THEOREM PhaseTypes == Spec => []TypeOK
  BY AlwaysInv, PTL DEF IInv

(* One callback per exact operation (execute_claimed_phase): no operation  *)
(* is sent twice, for any number of runners, recoveries and deaths.        *)
THEOREM PhaseAttemptedOnce == Spec => []AttemptedOnce
  <1>1. IInv => AttemptedOnce
    BY DEF IInv, Progress, AttemptedOnce
  <1> QED
    BY <1>1, AlwaysInv, PTL

(* An operation that was sent is in flight in the ledger or has an outcome *)
(* there (prepare_operation_in_flight comes before the provider).          *)
THEOREM PhaseWriteAhead == Spec => []WriteAhead
  <1>1. IInv => WriteAhead
    BY SentIsRecorded DEF WriteAhead
  <1> QED
    BY <1>1, AlwaysInv, PTL

(* A recorded success was carried out within the phase's window (the clock *)
(* is read after the call).                                                *)
THEOREM PhaseSuccessInWindow == Spec => []SuccessInWindow
  BY AlwaysInv, PTL DEF IInv

(* An operation is sent only after everything before it, in its phase and  *)
(* in the one before (_validate_pre_effect_predecessor), was carried out.  *)
THEOREM PhaseEffectsInOrder == Spec => []EffectsInOrder
  <1>1. IInv => EffectsInOrder
    <2> SUFFICES ASSUME IInv, NEW l \in Phases, NEW s \in Ops(l), calls[l][s] > 0
                 PROVE  /\ \A t \in 1 .. (s - 1) : request[l][t] = "done"
                        /\ l > 1 => \A t \in Ops(l - 1) : request[l - 1][t] = "done"
      BY DEF EffectsInOrder
    <2>0. l \in Nat /\ s \in Nat /\ nextOp[l] \in Nat /\ OpCount[l] \in Nat
      BY PhaseAssumption DEF Phases, Ops, IInv, TypeOK
    <2>1. status[l] # "NONE" /\ s <= nextOp[l]
      BY SentIsRecorded
    <2>2. \A t \in 1 .. (s - 1) : t \in Ops(l) /\ t < nextOp[l]
      BY <2>0, <2>1 DEF Ops
    <2>3. \A t \in 1 .. (s - 1) : request[l][t] = "done"
      BY <2>2 DEF IInv, Progress, SuccessInWindow
    <2>4. ASSUME l > 1 PROVE \A t \in Ops(l - 1) : request[l - 1][t] = "done"
      <3>1. l - 1 \in Phases /\ (l - 1) + 1 = l
        BY <2>0, <2>4, PhaseAssumption DEF Phases
      <3>2. Accepted(l - 1)
        BY <2>1, <3>1 DEF IInv, Predecessors, PredecessorProven
      <3> QED
        BY <3>1, <3>2 DEF Accepted, IInv, SuccessInWindow
    <2> QED
      BY <2>3, <2>4
  <1> QED
    BY <1>1, AlwaysInv, PTL

(* A phase that is over sends nothing more and keeps its outcomes, however *)
(* slow its runner is (recover_persisted_in_flight must win the lease).    *)
THEOREM PhaseOver == Spec => OverMeansOver
  <1> DEFINE Stays(l) ==
        status[l] \in {"AMBIGUOUS", "CONSUMED", "RECONCILED"} =>
          /\ calls'[l] = calls[l]
          /\ outcome'[l] = outcome[l]
          /\ status'[l] \in {status[l], "RECONCILED"}
  <1>1. IInv /\ [Next]_vars => \A l \in Phases : Stays(l)
    <2> SUFFICES ASSUME IInv, [Next]_vars, NEW l \in Phases,
                        status[l] \in {"AMBIGUOUS", "CONSUMED", "RECONCILED"}
                 PROVE  /\ calls'[l] = calls[l]
                        /\ outcome'[l] = outcome[l]
                        /\ status'[l] \in {status[l], "RECONCILED"}
      OBVIOUS
    <2> TypeOK /\ Exclusive /\ Snapshots
      BY DEF IInv
    <2>1. CASE UNCHANGED <<fileVars, calls>>
      BY <2>1 DEF fileVars
    <2>2. ASSUME NEW p \in Procs, LinkCreate(p) PROVE at[p] # l /\ Stays(l)
      BY <2>2 DEF LinkCreate, Exclusive, TypeOK, worldVars
    <2>3. ASSUME NEW p \in Procs, SwapClaim(p) PROVE Stays(l)
      BY <2>3 DEF SwapClaim, Unchanged, Snapshots, TypeOK, worldVars
    <2>4. ASSUME NEW p \in Procs, SwapReconcile(p) PROVE Stays(l)
      BY <2>4 DEF SwapReconcile, Unchanged, Snapshots, TypeOK, worldVars
    <2>5. ASSUME NEW p \in Procs, PutInFlight(p) PROVE Stays(l)
      BY <2>5 DEF PutInFlight, Exclusive, TypeOK, worldVars
    <2>6. ASSUME NEW k \in Phases, NEW r \in Results, RecordOutcome(k, r),
                 status[k] = "IN_FLIGHT", UNCHANGED worldVars
          PROVE  Stays(l)
      BY <2>6, OutcomeRecorded DEF worldVars
    <2>7. ASSUME NEW p \in Procs, ReadClock(p) PROVE Stays(l)
      <3>1. at[p] \in Phases /\ status[at[p]] = "IN_FLIGHT"
        BY <2>7 DEF ReadClock, Exclusive, TypeOK
      <3>2. "AMBIGUOUS" \in Results /\ UNCHANGED worldVars
        BY <2>7 DEF Results, ReadClock
      <3>3. UNCHANGED fileVars \/ RecordOutcome(at[p], "AMBIGUOUS")
        BY <2>7 DEF ReadClock
      <3> QED
        BY <3>1, <3>2, <3>3, <2>6 DEF fileVars, worldVars
    <2>8. ASSUME NEW p \in Procs, Answer(p) PROVE Stays(l)
      <3>1. at[p] \in Phases /\ status[at[p]] = "IN_FLIGHT" /\ UNCHANGED worldVars
        BY <2>8 DEF Answer, Exclusive, TypeOK
      <3>2. PICK answer \in Answers(at[p]) : RecordOutcome(at[p], InWindow(at[p], answer))
        BY <2>8 DEF Answer
      <3>3. InWindow(at[p], answer) \in Results
        BY DEF InWindow, Answers, Results
      <3> QED
        BY <3>1, <3>2, <3>3, <2>6
    <2>9. ASSUME NEW p \in Procs, NEW k \in Phases, RecoverInFlight(p, k) PROVE Stays(l)
      BY <2>9, <2>6, "AMBIGUOUS" \in Results DEF RecoverInFlight, Results
    <2>10. ASSUME NEW p \in Procs, Invoke(p) PROVE Stays(l)
      BY <2>10 DEF Invoke, Exclusive, TypeOK, fileVars
    <2>11. ASSUME NEW p \in Procs, Starts(p) PROVE Stays(l)
      BY <2>11, <2>1, <2>9 DEF Starts, StageCreate, RecoverCreate, ReadToClaim,
         ReadToReconcile, BeginExecute, worldVars
    <2>12. ASSUME NEW p \in Procs, Continues(p) PROVE Stays(l)
      BY <2>12, <2>1, <2>2, <2>3, <2>4, <2>5, <2>7, <2>8, <2>10
      DEF Continues, FinishCreate, FailCreate, CleanUpCreate, RefuseSwap, StopExpired, worldVars
    <2>13. ASSUME NEW p \in Procs, Die(p) PROVE Stays(l)
      BY <2>13, <2>1 DEF Die, worldVars
    <2>14. CASE World
      BY <2>14, <2>1 DEF World, Expire, CarryOut, Refuse, worldVars
    <2>15. CASE UNCHANGED vars
      BY <2>15, <2>1 DEF vars, fileVars
    <2> QED
      BY <2>11, <2>12, <2>13, <2>14, <2>15 DEF Next
  <1>2. IInv /\ [Next]_vars => [\A l \in Phases : Stays(l)]_vars
    BY <1>1
  <1> QED
    BY <1>2, AlwaysInv, PTL DEF Spec, OverMeansOver

-----------------------------------------------------------------------------
(* The phases implement OrderedEffects.                                    *)

(* An operation that was not sent has no fate, and what came late was      *)
(* carried out.                                                            *)
Fates ==
  \A l \in Phases : \A s \in Ops(l) :
    /\ calls[l][s] = 0 => request[l][s] = "unsent"
    /\ late[l][s] => request[l][s] = "done"

LEMMA InitFates == Init => Fates
  BY DEF Init, Fates

(* The steps that touch neither the provider nor a report nor the clock.   *)
Silent == UNCHANGED <<worldVars, outcome, expired>>

(* The step that records an outcome, which is true of the operation.       *)
Records(l) ==
  \E result \in Results :
    /\ status[l] = "IN_FLIGHT" /\ RecordOutcome(l, result)
    /\ UNCHANGED <<worldVars, expired>>
    /\ result = "SUCCEEDED" => request[l][nextOp[l]] = "done" /\ ~late[l][nextOp[l]]
    /\ result = "FAILED" => request[l][nextOp[l]] = "refused"

LEMMA PhaseSteps ==
  ASSUME IInv, [Next]_vars
  PROVE  \/ Silent
         \/ \E p \in Procs : Invoke(p)
         \/ \E l \in Phases : Records(l) \/ Expire(l)
         \/ \E l \in Phases : \E s \in Ops(l) : CarryOut(l, s) \/ Refuse(l, s)
  <1> TypeOK /\ Exclusive /\ Windows
    BY DEF IInv
  <1> USE DEF Silent
  <1>1. ASSUME NEW p \in Procs, Starts(p)
        PROVE  Silent \/ \E l \in Phases : Records(l)
    <2> PICK l \in Phases :
          \/ StageCreate(p, l) \/ RecoverCreate(p, l)
          \/ ReadToClaim(p, l) \/ ReadToReconcile(p, l)
          \/ BeginExecute(p, l) \/ RecoverInFlight(p, l)
      BY <1>1 DEF Starts
    <2>1. CASE RecoverInFlight(p, l)
      BY <2>1 DEF RecoverInFlight, Records, Results
    <2>2. CASE ~RecoverInFlight(p, l)
      BY <2>2 DEF StageCreate, RecoverCreate, ReadToClaim, ReadToReconcile, BeginExecute,
                  fileVars
    <2> QED
      BY <2>1, <2>2
  <1>2. ASSUME NEW p \in Procs, Continues(p), ~Invoke(p)
        PROVE  Silent \/ \E l \in Phases : Records(l)
    <2>1. CASE ReadClock(p)
      <3>1. at[p] \in Phases /\ status[at[p]] = "IN_FLIGHT"
        BY <2>1 DEF ReadClock, Exclusive, TypeOK
      <3>2. \/ UNCHANGED <<fileVars, worldVars, expired>>
            \/ RecordOutcome(at[p], "AMBIGUOUS") /\ UNCHANGED <<worldVars, expired>>
        BY <2>1 DEF ReadClock
      <3> QED
        BY <3>1, <3>2 DEF Records, Results, fileVars
    <2>2. CASE Answer(p)
      <3>1. at[p] \in Phases /\ status[at[p]] = "IN_FLIGHT" /\ nextOp[at[p]] \in Ops(at[p])
        BY <2>2 DEF Answer, Exclusive, TypeOK
      <3>2. PICK answer \in Answers(at[p]) : RecordOutcome(at[p], InWindow(at[p], answer))
        BY <2>2 DEF Answer
      <3>3. UNCHANGED <<worldVars, expired>>
        BY <2>2 DEF Answer
      <3>4. /\ InWindow(at[p], answer) \in Results
            /\ InWindow(at[p], answer) = "SUCCEEDED" =>
                 request[at[p]][nextOp[at[p]]] = "done" /\ ~late[at[p]][nextOp[at[p]]]
            /\ InWindow(at[p], answer) = "FAILED" => request[at[p]][nextOp[at[p]]] = "refused"
        BY <3>1 DEF InWindow, Answers, Results, Windows
      <3> QED
        BY <3>1, <3>2, <3>3, <3>4 DEF Records
    <2>3. CASE ~ReadClock(p) /\ ~Answer(p)
      BY <1>2, <2>3 DEF Continues, LinkCreate, FinishCreate, FailCreate, CleanUpCreate,
         SwapClaim, SwapReconcile, RefuseSwap, PutInFlight, StopExpired, fileVars
    <2> QED
      BY <2>1, <2>2, <2>3
  <1>3. ASSUME NEW p \in Procs, Die(p) PROVE Silent
    BY <1>3 DEF Die, fileVars
  <1>4. CASE World
    BY <1>4 DEF World
  <1>5. CASE UNCHANGED vars
    BY <1>5 DEF vars, worldVars
  <1> QED
    BY <1>1, <1>2, <1>3, <1>4, <1>5 DEF Next

(* What a call does at the provider.                                       *)
LEMMA Sends ==
  ASSUME IInv, NEW p \in Procs, Invoke(p)
  PROVE  \E l \in Phases : \E s \in Ops(l) :
           /\ calls[l][s] = 0 /\ status[l] = "IN_FLIGHT" /\ nextOp[l] = s
           /\ calls' = [calls EXCEPT ![l][s] = @ + 1]
           /\ request' = [request EXCEPT ![l][s] = "open"]
           /\ UNCHANGED <<outcome, late, expired>>
  <1>1. /\ at[p] \in Phases /\ nextOp[at[p]] \in Ops(at[p])
        /\ calls[at[p]][nextOp[at[p]]] = 0 /\ status[at[p]] = "IN_FLIGHT"
    BY DEF Invoke, IInv, TypeOK, Exclusive
  <1> QED
    BY <1>1 DEF Invoke, fileVars

LEMMA StepFates == IInv /\ Fates /\ [Next]_vars => Fates'
  <1> SUFFICES ASSUME IInv, Fates, [Next]_vars PROVE Fates'
    OBVIOUS
  <1> WorldTypes
    BY WorldTypesSplit DEF IInv
  <1>1. CASE Silent
    BY <1>1 DEF Silent, worldVars, Fates
  <1>2. ASSUME NEW p \in Procs, Invoke(p) PROVE Fates'
    <2> PICK l \in Phases : \E s \in Ops(l) :
           /\ calls[l][s] = 0
           /\ calls' = [calls EXCEPT ![l][s] = @ + 1]
           /\ request' = [request EXCEPT ![l][s] = "open"]
           /\ UNCHANGED late
      BY <1>2, Sends
    <2> PICK s \in Ops(l) :
           /\ calls[l][s] = 0
           /\ calls' = [calls EXCEPT ![l][s] = @ + 1]
           /\ request' = [request EXCEPT ![l][s] = "open"]
           /\ UNCHANGED late
      OBVIOUS
    <2>1. \A k \in Phases : \A t \in Ops(k) :
            \/ calls'[k][t] = calls[k][t] /\ request'[k][t] = request[k][t]
            \/ k = l /\ t = s /\ calls'[k][t] = 1
      BY DEF WorldTypes
    <2>2. ~late[l][s]
      BY DEF Fates
    <2> QED
      BY <2>1, <2>2 DEF Fates
  <1>3. ASSUME NEW l \in Phases, Records(l) \/ Expire(l) PROVE Fates'
    BY <1>3 DEF Records, Expire, worldVars, Fates
  <1>4. ASSUME NEW l \in Phases, NEW s \in Ops(l), CarryOut(l, s) \/ Refuse(l, s)
        PROVE  Fates'
    <2>1. /\ request[l][s] = "open" /\ UNCHANGED calls
          /\ request'[l][s] \in {"done", "refused"}
          /\ request'[l][s] = "refused" => late'[l][s] = late[l][s]
      BY <1>4 DEF CarryOut, Refuse, WorldTypes
    <2>2. \A k \in Phases : \A t \in Ops(k) : k # l \/ t # s =>
            request'[k][t] = request[k][t] /\ late'[k][t] = late[k][t]
      BY <1>4 DEF CarryOut, Refuse, WorldTypes
    <2> QED
      BY <2>1, <2>2 DEF Fates
  <1> QED
    BY <1>1, <1>2, <1>3, <1>4, PhaseSteps

LEMMA EffectsPositions ==
  Effects!Phases = Phases /\ \A l \in Phases : Effects!Ops(l) = Ops(l)
  BY DEF Effects!Phases, Effects!Ops, Phases, Ops

(* A phase in flight has an operation whose turn it is.                    *)
LEMMA InFlightTurn ==
  ASSUME IInv, NEW l \in Phases, status[l] = "IN_FLIGHT"
  PROVE  nextOp[l] \in Ops(l) /\ Effects!Turn(l, nextOp[l])
  <1>1. /\ nextOp[l] \in Ops(l) /\ outcome[l][nextOp[l]] = "none"
        /\ \A t \in Ops(l) : t < nextOp[l] => outcome[l][t] = "SUCCEEDED"
    BY DEF IInv, TypeOK, Progress
  <1>2. PredecessorProven(l)
    BY DEF IInv, Predecessors
  <1> QED
    BY <1>1, <1>2, EffectsPositions DEF Effects!Turn, PredecessorProven, Accepted

(* What one operation looks like changes alone.                            *)
LEMMA SeenChange ==
  ASSUME NEW l \in Phases, NEW s \in Ops(l), NEW e,
         (IF late[l][s] THEN "late" ELSE request[l][s])' = e,
         \A k \in Phases : \A t \in Ops(k) : k # l \/ t # s =>
            late'[k][t] = late[k][t] /\ request'[k][t] = request[k][t]
  PROVE  EffectSeen' = [EffectSeen EXCEPT ![l][s] = e]
  <1>1. \A k \in Phases : k # l => EffectSeen'[k] = EffectSeen[k]
    BY DEF EffectSeen
  <1>2. EffectSeen'[l] = [EffectSeen[l] EXCEPT ![s] = e]
    BY DEF EffectSeen
  <1> QED
    BY <1>1, <1>2 DEF EffectSeen

LEMMA InvokeEffect ==
  ASSUME IInv, Fates, NEW p \in Procs, Invoke(p)
  PROVE  Effects!Next
  <1> WorldTypes
    BY WorldTypesSplit DEF IInv
  <1> PICK l \in Phases : \E s \in Ops(l) :
           /\ calls[l][s] = 0 /\ status[l] = "IN_FLIGHT" /\ nextOp[l] = s
           /\ request' = [request EXCEPT ![l][s] = "open"]
           /\ UNCHANGED <<outcome, late, expired>>
    BY Sends
  <1> PICK s \in Ops(l) :
           /\ calls[l][s] = 0 /\ status[l] = "IN_FLIGHT" /\ nextOp[l] = s
           /\ request' = [request EXCEPT ![l][s] = "open"]
           /\ UNCHANGED <<outcome, late, expired>>
    OBVIOUS
  <1>1. ~late[l][s] /\ request[l][s] = "unsent"
    BY DEF Fates
  <1>2. /\ request'[l][s] = "open"
        /\ \A k \in Phases : \A t \in Ops(k) : k # l \/ t # s =>
             request'[k][t] = request[k][t]
    BY DEF WorldTypes
  <1>3. EffectSeen' = [EffectSeen EXCEPT ![l][s] = "open"]
    BY <1>1, <1>2, SeenChange
  <1>4. EffectSeen[l][s] = "unsent"
    BY <1>1 DEF EffectSeen
  <1>5. Effects!Send(l, s)
    BY <1>3, <1>4, InFlightTurn DEF Effects!Send
  <1> QED
    BY <1>5, EffectsPositions DEF Effects!Next

LEMMA ProviderEffectStep ==
  ASSUME IInv, Fates, NEW l \in Phases, NEW s \in Ops(l), CarryOut(l, s) \/ Refuse(l, s)
  PROVE  Effects!Next
  <1> WorldTypes
    BY WorldTypesSplit DEF IInv
  <1> DEFINE seen1 == (IF late[l][s] THEN "late" ELSE request[l][s])'
  <1>1. request[l][s] = "open" /\ ~late[l][s] /\ UNCHANGED <<outcome, expired>>
    BY DEF CarryOut, Refuse, Fates, fileVars
  <1>2. \A k \in Phases : \A t \in Ops(k) : k # l \/ t # s =>
            late'[k][t] = late[k][t] /\ request'[k][t] = request[k][t]
    BY DEF CarryOut, Refuse, WorldTypes
  <1>3. seen1 \in {"refused", IF expired[l] THEN "late" ELSE "done"}
    <2>1. CASE CarryOut(l, s)
      BY <2>1, <1>1 DEF CarryOut, WorldTypes
    <2>2. CASE Refuse(l, s)
      BY <2>2, <1>1 DEF Refuse, WorldTypes
    <2> QED
      BY <2>1, <2>2
  <1> HIDE DEF seen1
  <1>4. EffectSeen' = [EffectSeen EXCEPT ![l][s] = seen1]
    BY <1>2, SeenChange DEF seen1
  <1>5. EffectSeen[l][s] = "open"
    BY <1>1 DEF EffectSeen
  <1>6. Effects!Settle(l, s)
    BY <1>1, <1>3, <1>4, <1>5 DEF Effects!Settle
  <1> QED
    BY <1>6, EffectsPositions DEF Effects!Next

LEMMA RecordEffect ==
  ASSUME IInv, Fates, NEW l \in Phases, Records(l)
  PROVE  Effects!Next
  <1> PICK result \in Results :
        /\ status[l] = "IN_FLIGHT" /\ RecordOutcome(l, result)
        /\ UNCHANGED <<worldVars, expired>>
        /\ result = "SUCCEEDED" => request[l][nextOp[l]] = "done" /\ ~late[l][nextOp[l]]
        /\ result = "FAILED" => request[l][nextOp[l]] = "refused"
    BY DEF Records
  <1>1. nextOp[l] \in Ops(l) /\ Effects!Turn(l, nextOp[l])
    BY InFlightTurn
  <1>2. EffectSeen' = EffectSeen
    BY DEF EffectSeen, worldVars
  <1>3. /\ result = "SUCCEEDED" => EffectSeen[l][nextOp[l]] = "done"
        /\ result = "FAILED" => EffectSeen[l][nextOp[l]] = "refused"
    BY <1>1 DEF EffectSeen, Fates
  <1>4. outcome' = [outcome EXCEPT ![l][nextOp[l]] = result]
    BY DEF RecordOutcome
  <1>5. Effects!Report(l, nextOp[l])
    BY <1>1, <1>2, <1>3, <1>4 DEF Effects!Report, Results
  <1> QED
    BY <1>1, <1>5, EffectsPositions DEF Effects!Next

LEMMA StepEffects ==
  IInv /\ Fates /\ [Next]_vars => [Effects!Next]_(Effects!effectVars)
  <1> SUFFICES ASSUME IInv, Fates, [Next]_vars
               PROVE  Effects!Next \/ UNCHANGED Effects!effectVars
    OBVIOUS
  <1>1. CASE Silent
    BY <1>1 DEF Silent, worldVars, Effects!effectVars, EffectSeen
  <1>2. ASSUME NEW p \in Procs, Invoke(p) PROVE Effects!Next
    BY <1>2, InvokeEffect
  <1>3. ASSUME NEW l \in Phases, Records(l) PROVE Effects!Next
    BY <1>3, RecordEffect
  <1>4. ASSUME NEW l \in Phases, Expire(l) PROVE Effects!Next
    <2>1. Effects!Close(l)
      BY <1>4 DEF Expire, Effects!Close, EffectSeen, worldVars, fileVars
    <2> QED
      BY <2>1, EffectsPositions DEF Effects!Next
  <1>5. ASSUME NEW l \in Phases, NEW s \in Ops(l), CarryOut(l, s) \/ Refuse(l, s)
        PROVE  Effects!Next
    BY <1>5, ProviderEffectStep
  <1> QED
    BY <1>1, <1>2, <1>3, <1>4, <1>5, PhaseSteps

(* Processes that race for the files of a plan, die and recover each       *)
(* other's records send every operation once and in its turn, and report   *)
(* of it once, and truly.                                                  *)
THEOREM PhaseImplementsOrderedEffects == Spec => ImplementsOrderedEffects
  <1>1. Init => Effects!Init
    BY EffectsPositions DEF Init, Effects!Init, EffectSeen
  <1> QED
    BY <1>1, InitInv, StepInv, InitFates, StepFates, StepEffects, PTL
    DEF Spec, Effects!Spec, ImplementsOrderedEffects

-----------------------------------------------------------------------------
(* The live engine.                                                        *)

(* The types of what a run holds and of the records.                       *)
RunSteps == {"idle", "put_plan", "create_ledger", "approve", "cas", "confirm", "fetch",
             "applying", "terraform", "recover", "final", "health", "receipt", "publish",
             "reconcile", "decision"}

RunRecord ==
  [pc: RunSteps, exec: Executions \cup {Absent}, cur: Document \cup {Absent},
   prop: Document \cup SavedPlan \cup {Absent}, tries: Nat,
   outcome: Document \cup {Absent},
   receipt: HealthReceipt \cup ReconciliationReceipt \cup {Absent}]

LiveTypes ==
  /\ run \in [Runs -> RunRecord]
  /\ ledger \in [Executions -> Document \cup {Absent}]
  /\ plan \in [Executions -> SavedPlan \cup {Absent}]
  /\ health \in [Executions -> HealthReceipt \cup {Absent}]
  /\ recon \in [Executions -> ReconciliationReceipt \cup {Absent}]
  /\ starts \in [Executions -> Nat]
  /\ states \in Seq(Configs \cup {Partial})
  /\ object \subseteq Executions /\ published \subseteq Executions
  /\ approvals \subseteq Runs /\ succeeded \subseteq Executions
  /\ losses \in 0 .. MaxLosses
  /\ lateWrites \subseteq Executions \X Document \X Document

(* The attempt is consumed exactly when the plan may have been applied.    *)
Consumed(d) == d.attempts = 1 <=> d.status \notin {"PLANNED", "APPROVED"}

(* A document the ledger holds or once held.  The approval of a consumed   *)
(* attempt stays.                                                          *)
Behind(d, e) ==
  /\ d \in Document /\ ledger[e] \in Document /\ Consumed(d)
  /\ d.version <= ledger[e].version
  /\ d.version = ledger[e].version => d = ledger[e]
  /\ d.attempts = 1 => ledger[e].attempts = 1 /\ ledger[e].approval = d.approval

(* A serial under which the state had the configuration of the plan.       *)
Shows(e, serial) == serial \in 1 .. Serial /\ states[serial] = Config(e)

(* The evidence for what a document says.                                  *)
Backed(d, e) ==
  /\ d.status = "APPLIED" => e \in succeeded
  /\ d.status = "HEALTHY" =>
       e \in published /\ health[e] # Absent /\ health[e].version + 1 = d.version
  /\ d.status = "RECONCILED_APPLIED" =>
       recon[e] # Absent /\ recon[e].decision = "RECONCILED_APPLIED"

(* A swap of cur for prop is one step of the table, with its evidence.     *)
Proposal(e, cur, prop) ==
  /\ Behind(cur, e)
  /\ prop \in Document /\ Consumed(prop) /\ Backed(prop, e)
  /\ prop.status \in Transitions[cur.status]
  /\ prop.version = cur.version + 1
  /\ prop.status # "APPROVED" => prop.approval = cur.approval

Stored(e) ==
  ledger[e] # Absent =>
    /\ Consumed(ledger[e]) /\ Backed(ledger[e], e)
    /\ plan[e] \in SavedPlan /\ e \in object

Receipts(e) ==
  /\ health[e] # Absent => ledger[e] # Absent /\ Shows(e, health[e].serial)
  /\ recon[e] # Absent =>
       /\ ledger[e] # Absent
       /\ recon[e].decision = "RECONCILED_APPLIED" =>
            Shows(e, recon[e].serial) /\ recon[e].serial > plan[e].serial

(* One run makes the plan and the ledger of an execution.                  *)
Making(r) == run[r].pc \in {"put_plan", "create_ledger"}

Creator(r) ==
  Making(r) =>
    /\ run[r].exec \in object /\ ledger[run[r].exec] = Absent
    /\ run[r].pc = "put_plan" => run[r].prop \in SavedPlan
    /\ run[r].pc = "create_ledger" => plan[run[r].exec] \in SavedPlan
    /\ \A s \in Runs : Making(s) /\ run[s].exec = run[r].exec => s = r

(* The run has given its approval and not started Terraform.               *)
PreStart(r) ==
  \/ run[r].pc \in {"approve", "fetch", "applying"}
  \/ run[r].pc \in {"cas", "confirm"} /\ run[r].prop.status \in {"APPROVED", "APPLYING"}

(* What a run knows at each of its steps.                                  *)
At(r, S) == run[r].pc \in S

Reads(r) ==
  /\ ~At(r, {"idle", "put_plan", "create_ledger"}) =>
       run[r].exec \in Executions /\ ledger[run[r].exec] # Absent
  /\ ~At(r, {"idle", "put_plan", "create_ledger", "approve"}) =>
       Behind(run[r].cur, run[r].exec)
  /\ run[r].outcome # Absent => run[r].outcome.status = "APPLIED"

Applies(r) ==
  /\ PreStart(r) => r \in approvals
  /\ At(r, {"fetch"}) => run[r].cur.status = "APPROVED"
  /\ At(r, {"fetch", "applying"}) => run[r].cur.approval = r
  /\ At(r, {"cas", "confirm"}) =>
       /\ Proposal(run[r].exec, run[r].cur, run[r].prop)
       /\ PreStart(r) => run[r].prop.approval = r
  /\ At(r, {"applying", "terraform", "recover"}) => run[r].cur.status = "APPLYING"

Settles(r) ==
  /\ At(r, {"health", "receipt", "publish"}) =>
       run[r].cur.status \in {"APPLIED", "RECONCILED_APPLIED"}
  /\ At(r, {"receipt"}) =>
       /\ run[r].receipt \in HealthReceipt
       /\ run[r].receipt.version = run[r].cur.version
       /\ Shows(run[r].exec, run[r].receipt.serial)
  /\ At(r, {"publish"}) =>
       /\ health[run[r].exec] # Absent
       /\ health[run[r].exec].version = run[r].cur.version
  /\ At(r, {"reconcile", "decision"}) => run[r].cur.status = "UNCERTAIN"
  /\ At(r, {"decision"}) =>
       /\ run[r].receipt \in ReconciliationReceipt
       /\ run[r].receipt.decision = "RECONCILED_APPLIED" =>
            /\ Shows(run[r].exec, run[r].receipt.serial)
            /\ run[r].receipt.serial > plan[run[r].exec].serial

Holds(r) == Reads(r) /\ Applies(r) /\ Settles(r)

(* Terraform was started by the run whose approval the ledger names, which *)
(* cannot do so again.                                                     *)
Started(e) ==
  /\ starts[e] <= 1
  /\ starts[e] = 1 =>
       /\ ledger[e] # Absent /\ ledger[e].attempts = 1
       /\ ledger[e].approval \in approvals /\ ~PreStart(ledger[e].approval)

LiveInv ==
  /\ LiveTypes
  /\ \A e \in Executions : Stored(e) /\ Receipts(e) /\ Started(e)
  /\ \A r \in Runs : Creator(r) /\ Holds(r)
  /\ \A w \in lateWrites : Proposal(w[1], w[2], w[3])

-----------------------------------------------------------------------------
(* The next document of the table.                                         *)
LEMMA TransitionType ==
    ASSUME NEW d \in Document, NEW s \in LedgerStatuses
    PROVE  /\ Transition(d, s) \in Document
           /\ Transition(d, s).status = s /\ Transition(d, s).version = d.version + 1
           /\ Transition(d, s).approval = d.approval
           /\ Transition(d, s).attempts = (IF s = "APPLYING" THEN 1 ELSE d.attempts)
  <1> DEFINE v == d.version + 1
             a == IF s = "APPLYING" THEN 1 ELSE d.attempts
  <1>1. v \in Nat /\ a \in 0 .. 1
    BY DEF Document
  <1>2. Transition(d, s) = [d EXCEPT !.status = s, !.version = v, !.attempts = a]
    BY DEF Transition
  <1> HIDE DEF v, a
  <1>3. /\ Transition(d, s) \in Document
        /\ Transition(d, s).status = s /\ Transition(d, s).version = v
        /\ Transition(d, s).approval = d.approval /\ Transition(d, s).attempts = a
    BY <1>1, <1>2 DEF Document
  <1> QED
    BY <1>3 DEF v, a

(* What the table allows.                                                  *)
LEMMA TransitionTable ==
    ASSUME NEW s \in LedgerStatuses, NEW t
    PROVE  t \in Transitions[s] <=>
             \/ s \in {"PLANNED", "APPROVED"} /\ t = "APPROVED"
             \/ s = "APPROVED" /\ t = "APPLYING"
             \/ s = "APPLYING" /\ t \in {"APPLIED", "UNCERTAIN"}
             \/ s \in {"APPLIED", "RECONCILED_APPLIED"} /\ t = "HEALTHY"
             \/ s = "UNCERTAIN" /\ t \in {"RECONCILED_APPLIED", "RECONCILIATION_REQUIRED"}
  BY DEF Transitions, LedgerStatuses

(* A step of the table keeps the bookkeeping of the attempt.               *)
LEMMA TransitionConsumes ==
    ASSUME NEW d \in Document, Consumed(d), NEW s \in Transitions[d.status]
    PROVE  s \in LedgerStatuses /\ Consumed(Transition(d, s))
  <1>1. d.status \in LedgerStatuses /\ d.attempts \in 0 .. 1
    BY DEF Document
  <1>2. s \in LedgerStatuses
    BY <1>1, TransitionTable DEF LedgerStatuses
  <1>3. /\ Transition(d, s).status = s
        /\ Transition(d, s).attempts = (IF s = "APPLYING" THEN 1 ELSE d.attempts)
    BY <1>2, TransitionType
  <1> QED
    BY <1>1, <1>2, <1>3, TransitionTable DEF Consumed

(* An attempt that is consumed stays so, under its approval.               *)
LEMMA AttemptStays ==
    ASSUME NEW cur \in Document, NEW prop \in Document, Consumed(cur), Consumed(prop),
           prop.status \in Transitions[cur.status], cur.attempts = 1,
           prop.status # "APPROVED" => prop.approval = cur.approval
    PROVE  prop.attempts = 1 /\ prop.approval = cur.approval
  <1>1. cur.status \in LedgerStatuses
    BY DEF Document
  <1> QED
    BY <1>1, TransitionTable DEF Consumed

-----------------------------------------------------------------------------
(* How a step may change a ledger, and how the evidence grows.             *)
Advances(e) ==
  \/ ledger'[e] = ledger[e]
  \/ ledger[e] = Absent
  \/ ledger'[e] # Absent /\ Proposal(e, ledger[e], ledger'[e])

Grows(e) ==
  /\ e \in succeeded => e \in succeeded'
  /\ e \in published => e \in published'
  /\ health[e] # Absent => health'[e] = health[e]
  /\ recon[e] # Absent => recon'[e] = recon[e]
  /\ ledger[e] # Absent => plan'[e] = plan[e]
  /\ \A i \in 1 .. Serial : i \in 1 .. Serial' /\ states'[i] = states[i]

LEMMA BehindKept ==
    ASSUME NEW e \in Executions, Advances(e), NEW d, Behind(d, e), LiveTypes'
    PROVE  Behind(d, e)'
  <1>1. /\ d \in Document /\ ledger[e] \in Document /\ ledger[e] # Absent
        /\ d.version \in Nat /\ ledger[e].version \in Nat
    BY AbsentAssumption DEF Behind, Document
  <1>2. CASE ledger'[e] = ledger[e]
    BY <1>2 DEF Behind
  <1>3. CASE Proposal(e, ledger[e], ledger'[e])
    <2>1. /\ ledger'[e] \in Document /\ ledger'[e].version = ledger[e].version + 1
          /\ Consumed(ledger[e]) /\ Consumed(ledger'[e])
          /\ ledger'[e].status \in Transitions[ledger[e].status]
          /\ ledger'[e].status # "APPROVED" => ledger'[e].approval = ledger[e].approval
      BY <1>3 DEF Proposal, Behind
    <2>2. d.attempts = 1 => ledger'[e].attempts = 1 /\ ledger'[e].approval = d.approval
      BY <1>1, <2>1, AttemptStays DEF Behind
    <2>3. Consumed(d) /\ d.version <= ledger[e].version
      BY DEF Behind
    <2> QED
      BY <1>1, <2>1, <2>2, <2>3 DEF Behind, Consumed
  <1> QED
    BY <1>1, <1>2, <1>3 DEF Advances

LEMMA ShowsKept ==
    ASSUME NEW e \in Executions, Grows(e), NEW n, Shows(e, n)
    PROVE  Shows(e, n)'
  BY DEF Grows, Shows

LEMMA BackedKept ==
    ASSUME NEW e \in Executions, Grows(e), NEW d, Backed(d, e)
    PROVE  Backed(d, e)'
  BY DEF Grows, Backed

LEMMA ProposalKept ==
    ASSUME NEW e \in Executions, Advances(e), Grows(e), LiveTypes', NEW cur, NEW prop,
           Proposal(e, cur, prop)
    PROVE  Proposal(e, cur, prop)'
  BY BehindKept, BackedKept DEF Proposal, Consumed

(* A run that does not move still holds what it held.                      *)
LEMMA HoldsKept ==
    ASSUME LiveInv, LiveTypes', NEW r \in Runs, run'[r] = run[r],
           \A e \in Executions : Advances(e) /\ Grows(e), approvals \subseteq approvals'
    PROVE  Holds(r)'
  <1> DEFINE e == run[r].exec
  <1>1. Holds(r)
    BY DEF LiveInv
  <1>2. /\ ~At(r, {"idle", "put_plan", "create_ledger"}) =>
              e \in Executions /\ ledger[e] # Absent
        /\ \A S : At(r, S)' <=> At(r, S)
        /\ PreStart(r)' <=> PreStart(r)
    BY <1>1 DEF Holds, Reads, At, PreStart
  <1>3. ~At(r, {"idle", "put_plan", "create_ledger"}) => ledger'[e] # Absent
    BY <1>2 DEF Advances
  <1>4. Reads(r)'
    BY <1>1, <1>2, <1>3, BehindKept DEF Holds, Reads, At
  <1>5. Applies(r)'
    BY <1>1, <1>2, ProposalKept DEF Holds, Applies, At
  <1>6. Settles(r)'
    BY <1>1, <1>2, ShowsKept DEF Holds, Settles, At, Grows
  <1> QED
    BY <1>4, <1>5, <1>6 DEF Holds

LEMMA StoredKept ==
    ASSUME NEW e \in Executions, Stored(e), Advances(e), Grows(e), object \subseteq object',
           ledger'[e] = Absent \/ ledger[e] # Absent
    PROVE  Stored(e)'
  <1>1. CASE ledger'[e] = Absent
    BY <1>1 DEF Stored
  <1>2. CASE ledger'[e] = ledger[e] /\ ledger[e] # Absent
    BY <1>2, BackedKept DEF Stored, Consumed, Grows
  <1>3. CASE Proposal(e, ledger[e], ledger'[e]) /\ ledger[e] # Absent
    <2> PICK d : d = ledger'[e]
      OBVIOUS
    <2>1. Consumed(d) /\ Backed(d, e)
      BY <1>3 DEF Proposal
    <2>2. Backed(d, e)'
      BY <2>1, BackedKept
    <2> QED
      BY <1>3, <2>1, <2>2 DEF Stored, Consumed, Grows
  <1> QED
    BY <1>1, <1>2, <1>3 DEF Advances

LEMMA StartedKept ==
    ASSUME LiveTypes, NEW e \in Executions, Started(e), Advances(e), starts'[e] = starts[e],
           approvals \subseteq approvals',
           \A s \in approvals : PreStart(s)' => PreStart(s)
    PROVE  Started(e)'
  <1>1. CASE starts[e] # 1
    BY <1>1 DEF Started
  <1>2. CASE starts[e] = 1
    <2>1. /\ ledger[e] # Absent /\ ledger[e] \in Document /\ ledger[e].attempts = 1
          /\ ledger[e].approval \in approvals /\ ~PreStart(ledger[e].approval)
      BY <1>2 DEF Started, LiveTypes
    <2>2. ledger'[e] # Absent /\ ledger'[e].attempts = 1
          /\ ledger'[e].approval = ledger[e].approval
      <3>1. CASE ledger'[e] = ledger[e]
        BY <2>1, <3>1
      <3>2. CASE ledger'[e] # Absent /\ Proposal(e, ledger[e], ledger'[e])
        BY <2>1, <3>2, AttemptStays DEF Proposal, Behind
      <3> QED
        BY <2>1, <3>1, <3>2 DEF Advances
    <2> QED
      BY <1>2, <2>1, <2>2 DEF Started
  <1> QED
    BY <1>1, <1>2

LEMMA CreatorKept ==
    ASSUME NEW r \in Runs, Creator(r), run'[r] = run[r],
           object \subseteq object',
           Making(r) => ledger'[run[r].exec] = ledger[run[r].exec]
                          /\ plan'[run[r].exec] = plan[run[r].exec],
           \A s \in Runs : s # r /\ Making(s)' =>
              (Making(s) /\ run'[s].exec = run[s].exec)
              \/ (Making(r) => run'[s].exec # run[r].exec)
    PROVE  Creator(r)'
  BY DEF Creator, Making

(* A step of one run that writes no ledger.                                *)
LEMMA RunMoves ==
    ASSUME LiveInv, LiveTypes', NEW r \in Runs,
           \A s \in Runs : s # r => run'[s] = run[s],
           UNCHANGED <<ledger, plan, starts>>,
           \A e \in Executions : Grows(e) /\ Receipts(e)',
           object \subseteq object', approvals \subseteq approvals',
           \A w \in lateWrites' : w \in lateWrites \/ Proposal(w[1], w[2], w[3]),
           ~Making(r)',
           r \in approvals /\ PreStart(r)' => PreStart(r),
           Holds(r)'
    PROVE  LiveInv'
  <1>1. \A e \in Executions : Advances(e)
    BY DEF Advances
  <1>2. \A e \in Executions : Stored(e)'
    <2> SUFFICES ASSUME NEW e \in Executions PROVE Stored(e)'
      OBVIOUS
    <2>1. CASE ledger'[e] = Absent
      BY <2>1 DEF Stored
    <2>2. CASE ledger[e] # Absent
      BY <1>1, <2>2, StoredKept DEF LiveInv
    <2> QED
      BY <2>1, <2>2
  <1>3. \A e \in Executions : Started(e)'
    <2>1. \A s \in Runs : s # r => (PreStart(s)' <=> PreStart(s))
      BY DEF PreStart
    <2>2. \A s \in approvals : PreStart(s)' => PreStart(s)
      BY <2>1 DEF LiveInv, LiveTypes
    <2> QED
      BY <1>1, <2>2, StartedKept DEF LiveInv
  <1>4. \A s \in Runs : Creator(s)'
    <2>1. Creator(r)'
      BY DEF Creator
    <2>2. ASSUME NEW s \in Runs, s # r PROVE Creator(s)'
      <3>1. \A q \in Runs : q # s /\ Making(q)' => Making(q) /\ run'[q].exec = run[q].exec
        BY DEF Making
      <3> QED
        BY <2>2, <3>1, CreatorKept DEF LiveInv
    <2> QED
      BY <2>1, <2>2
  <1>5. \A s \in Runs : Holds(s)'
    BY <1>1, HoldsKept
  <1>6. \A w \in lateWrites' : Proposal(w[1], w[2], w[3])'
    <2> SUFFICES ASSUME NEW w \in lateWrites' PROVE Proposal(w[1], w[2], w[3])'
      OBVIOUS
    <2>1. Proposal(w[1], w[2], w[3])
      BY DEF LiveInv
    <2>2. w[1] \in Executions
      BY DEF LiveTypes
    <2> QED
      BY <1>1, <2>1, <2>2, ProposalKept
  <1> QED
    BY <1>2, <1>3, <1>4, <1>5, <1>6 DEF LiveInv

(* The same for a step that writes no record at all.                       *)
LEMMA RunReads ==
    ASSUME LiveInv, NEW r \in Runs, run' \in [Runs -> RunRecord],
           \A s \in Runs : s # r => run'[s] = run[s],
           UNCHANGED <<cloud, records, ledger, lateWrites>>, losses' \in 0 .. MaxLosses,
           ~Making(r)',
           r \in approvals /\ PreStart(r)' => PreStart(r),
           Holds(r)'
    PROVE  LiveInv'
  <1>1. /\ UNCHANGED <<states, starts, succeeded, object, plan, approvals, health, recon,
                       published>>
        /\ LiveTypes'
    BY DEF cloud, records, LiveInv, LiveTypes
  <1>2. \A e \in Executions : Grows(e)
    BY <1>1 DEF Grows, Serial
  <1>3. \A e \in Executions : Receipts(e)'
    BY <1>1 DEF LiveInv, Receipts, Shows, Serial
  <1>4. \A w \in lateWrites' : w \in lateWrites
    OBVIOUS
  <1> QED
    BY <1>1, <1>2, <1>3, <1>4, RunMoves

(* A run that stops owes nothing.                                          *)
LEMMA IdleHolds ==
    ASSUME LiveInv, NEW r \in Runs, Stop(r)
    PROVE  /\ run' \in [Runs -> RunRecord]
           /\ \A s \in Runs : s # r => run'[s] = run[s]
           /\ ~Making(r)' /\ ~PreStart(r)' /\ Holds(r)'
  <1>1. Idle \in RunRecord
    BY DEF Idle, RunRecord, RunSteps
  <1>2. /\ run' \in [Runs -> RunRecord] /\ run'[r] = Idle
        /\ \A s \in Runs : s # r => run'[s] = run[s]
    BY <1>1 DEF Stop, LiveInv, LiveTypes
  <1>3. run'[r].pc = "idle" /\ run'[r].outcome = Absent
    BY <1>2 DEF Idle
  <1>4. ~Making(r)' /\ ~PreStart(r)'
    BY <1>3 DEF Making, PreStart
  <1>5. Holds(r)'
    BY <1>3, <1>4 DEF Holds, Reads, Applies, Settles, At
  <1> QED
    BY <1>2, <1>4, <1>5

LEMMA StopInv ==
    ASSUME LiveInv, NEW r \in Runs, Stop(r), UNCHANGED <<cloud, records, ledger, lateWrites>>,
           losses' \in 0 .. MaxLosses
    PROVE  LiveInv'
  BY IdleHolds, RunReads

-----------------------------------------------------------------------------
(* The steps that write no record.                                         *)
Active == RunSteps \ {"idle", "put_plan", "create_ledger"}

LEMMA RunUpdate ==
    ASSUME LiveTypes, NEW r \in Runs, NEW x \in RunRecord, run' = [run EXCEPT ![r] = x]
    PROVE  /\ run' \in [Runs -> RunRecord] /\ run'[r] = x
           /\ \A s \in Runs : s # r => run'[s] = run[s]
  BY DEF LiveTypes

LEMMA RunGoes ==
    ASSUME LiveTypes, NEW r \in Runs, NEW step \in Active, RunGoto(r, step)
    PROVE  /\ run' \in [Runs -> RunRecord]
           /\ \A s \in Runs : s # r => run'[s] = run[s]
           /\ run'[r].pc = step /\ run'[r].exec = run[r].exec /\ run'[r].cur = run[r].cur
           /\ run'[r].prop = run[r].prop /\ run'[r].outcome = run[r].outcome
           /\ run'[r].receipt = run[r].receipt
           /\ ~Making(r)'
  <1>1. run[r] \in RunRecord /\ step \in RunSteps
    BY DEF LiveTypes, Active
  <1>2. [run[r] EXCEPT !.pc = step] \in RunRecord
    BY <1>1 DEF RunRecord
  <1>3. run' = [run EXCEPT ![r] = [run[r] EXCEPT !.pc = step]]
    BY DEF RunGoto, LiveTypes
  <1>4. run'[r] = [run[r] EXCEPT !.pc = step]
    BY <1>2, <1>3, RunUpdate
  <1> QED
    BY <1>1, <1>2, <1>3, <1>4, RunUpdate DEF RunRecord, Making, Active

(* A run sets out to swap its document for the next one.                   *)
LEMMA RunSwaps ==
    ASSUME LiveInv, NEW r \in Runs, NEW doc, Swap(r, doc),
           run[r].exec \in Executions, ledger[run[r].exec] # Absent,
           Proposal(run[r].exec, run[r].cur, doc), doc.status # "APPROVED",
           doc.status = "APPLYING" => PreStart(r) /\ doc.approval = r,
           UNCHANGED <<cloud, records, ledger, lateWrites>>, losses' \in 0 .. MaxLosses
    PROVE  LiveInv'
  <1> DEFINE x == [run[r] EXCEPT !.pc = "cas", !.prop = doc, !.tries = 0]
  <1>1. /\ LiveTypes /\ run[r] \in RunRecord /\ Holds(r) /\ doc \in Document
        /\ Behind(run[r].cur, run[r].exec)
    BY DEF LiveInv, LiveTypes, Proposal
  <1>2. x \in RunRecord
    BY <1>1 DEF RunRecord, RunSteps
  <1>3. run' = [run EXCEPT ![r] = x]
    BY <1>1 DEF Swap, LiveTypes
  <1>4. /\ run' \in [Runs -> RunRecord] /\ run'[r] = x
        /\ \A s \in Runs : s # r => run'[s] = run[s]
    BY <1>1, <1>2, <1>3, RunUpdate
  <1>5. /\ run'[r].pc = "cas" /\ run'[r].prop = doc /\ run'[r].exec = run[r].exec
        /\ run'[r].cur = run[r].cur /\ run'[r].outcome = run[r].outcome
    BY <1>1, <1>4 DEF RunRecord
  <1>6. /\ \A e \in Executions : Advances(e) /\ Grows(e)
        /\ LiveTypes'
    BY <1>1, <1>4 DEF Advances, Grows, Serial, LiveTypes, cloud, records
  <1>7. ~Making(r)' /\ (PreStart(r)' => PreStart(r))
    BY <1>5 DEF Making, PreStart
  <1> DEFINE e == run[r].exec
             cur == run[r].cur
  <1>8. Proposal(e, cur, doc)' /\ Behind(cur, e)'
    <2> PICK d : d = cur
      OBVIOUS
    <2> PICK f \in Executions : f = e
      OBVIOUS
    <2>1. Proposal(f, d, doc)'
      BY <1>6, ProposalKept
    <2>2. run'[r].exec = f /\ run'[r].cur = d
      BY <1>5
    <2> QED
      BY <2>1, <2>2 DEF Proposal
  <1>9. Reads(r)'
    BY <1>1, <1>5, <1>8 DEF Reads, At, Holds
  <1>10. Applies(r)'
    <2>1. PreStart(r)' => r \in approvals' /\ doc.approval = r
      BY <1>1, <1>5, <1>7 DEF Holds, Applies, PreStart, records
    <2> QED
      BY <1>5, <1>8, <2>1 DEF Applies, At
  <1>11. Settles(r)'
    BY <1>5 DEF Settles, At
  <1> QED
    BY <1>4, <1>7, <1>9, <1>10, <1>11, RunReads DEF Holds

(* A run goes on with what it holds, or with the document it has just read.*)
LEMMA RunContinues ==
    ASSUME LiveInv, NEW r \in Runs, run' \in [Runs -> RunRecord],
           \A s \in Runs : s # r => run'[s] = run[s],
           UNCHANGED <<cloud, records, ledger, lateWrites>>, losses' \in 0 .. MaxLosses,
           run[r].pc \in Active, run'[r].pc \in Active,
           run'[r].exec = run[r].exec, run'[r].outcome = run[r].outcome,
           Behind(run'[r].cur, run[r].exec),
           PreStart(r)' => PreStart(r),
           Applies(r)', Settles(r)'
    PROVE  LiveInv'
  <1>1. Holds(r) /\ ~Making(r)'
    BY DEF LiveInv, Making, Active
  <1>2. run[r].exec \in Executions /\ ledger[run[r].exec] # Absent
    BY <1>1 DEF Holds, Reads, At, Active
  <1>3. Behind(run[r].cur, run[r].exec)'
    BY DEF Behind, Consumed
  <1>4. Reads(r)'
    BY <1>1, <1>2, <1>3 DEF Reads, Holds, At
  <1> QED
    BY <1>1, <1>4, RunReads DEF Holds

(* What a run at a swap holds.                                             *)
LEMMA AtSwap ==
    ASSUME LiveInv, NEW r \in Runs, run[r].pc \in {"cas", "confirm"}
    PROVE  /\ run[r].exec \in Executions /\ ledger[run[r].exec] # Absent
           /\ run[r] \in RunRecord /\ run[r].pc \in Active
           /\ Proposal(run[r].exec, run[r].cur, run[r].prop)
           /\ run[r].prop \in Document /\ run[r].prop.status \in LedgerStatuses
           /\ run[r].cur \in Document /\ run[r].cur.status \in LedgerStatuses
           /\ run[r].prop.status \in {"APPROVED", "APPLYING"} =>
                run[r].prop.approval = r /\ r \in approvals
  <1>1. Holds(r) /\ LiveTypes
    BY DEF LiveInv
  <1>2. Proposal(run[r].exec, run[r].cur, run[r].prop)
    BY <1>1 DEF Holds, Applies, At
  <1>3. run[r].prop.status \in {"APPROVED", "APPLYING"} =>
          run[r].prop.approval = r /\ r \in approvals
    BY <1>1 DEF Holds, Applies, At, PreStart
  <1>4. run[r].exec \in Executions /\ ledger[run[r].exec] # Absent
    BY <1>1 DEF Holds, Reads, At
  <1>5. run[r].prop \in Document /\ run[r].cur \in Document
    BY <1>2 DEF Proposal, Behind
  <1> QED
    BY <1>1, <1>2, <1>3, <1>4, <1>5 DEF LiveTypes, Document, Active, RunSteps

(* The swap is tried a second time.                                        *)
LEMMA RetryInv ==
    ASSUME LiveInv, NEW r \in Runs, run[r].pc = "confirm",
           run' = [run EXCEPT ![r].pc = "cas", ![r].tries = 1],
           UNCHANGED <<cloud, records, ledger, lateWrites>>, losses' \in 0 .. MaxLosses
    PROVE  LiveInv'
  <1> DEFINE x == [run[r] EXCEPT !.pc = "cas", !.tries = 1]
  <1>1. /\ LiveTypes /\ run[r] \in RunRecord /\ run[r].pc \in Active
        /\ Proposal(run[r].exec, run[r].cur, run[r].prop) /\ Holds(r)
        /\ run[r].exec \in Executions
    BY AtSwap DEF LiveInv
  <1>2. x \in RunRecord /\ run' = [run EXCEPT ![r] = x]
    BY <1>1 DEF RunRecord, RunSteps, LiveTypes
  <1>3. /\ run' \in [Runs -> RunRecord] /\ run'[r] = x
        /\ \A s \in Runs : s # r => run'[s] = run[s]
    BY <1>1, <1>2, RunUpdate
  <1>4. /\ run'[r].pc = "cas" /\ run'[r].prop = run[r].prop /\ run'[r].exec = run[r].exec
        /\ run'[r].cur = run[r].cur /\ run'[r].outcome = run[r].outcome
    BY <1>1, <1>3 DEF RunRecord
  <1>5. PreStart(r)' => PreStart(r)
    BY <1>4 DEF PreStart
  <1>6. Proposal(run[r].exec, run[r].cur, run[r].prop)'
    BY <1>1, <1>4 DEF Proposal, Behind, Consumed, Backed, cloud, records
  <1>7. Applies(r)'
    BY <1>1, <1>4, <1>5, <1>6 DEF Applies, At, Holds, PreStart, records
  <1>8. Settles(r)'
    BY <1>4 DEF Settles, At
  <1> QED
    BY <1>1, <1>3, <1>4, <1>5, <1>7, <1>8, RunContinues DEF Proposal, Active, RunSteps

(* The swap is given up.                                                   *)
LEMMA UnconfirmedInv ==
    ASSUME LiveInv, NEW r \in Runs, run[r].pc = "confirm",
           Continue(r, Unconfirmed(run[r].prop.status)),
           UNCHANGED <<cloud, records, ledger, lateWrites>>, losses' \in 0 .. MaxLosses
    PROVE  LiveInv'
  <1> DEFINE s == run[r].prop.status
  <1>1. CASE s \notin {"APPLIED", "UNCERTAIN"}
    BY <1>1, StopInv DEF Continue, Unconfirmed
  <1>2. ASSUME NEW step \in {"recover", "final"}, RunGoto(r, step),
               step = "recover" => s = "APPLIED"
        PROVE  LiveInv'
    <2>1. /\ LiveTypes /\ run[r].pc \in Active /\ step \in Active
          /\ Proposal(run[r].exec, run[r].cur, run[r].prop) /\ Holds(r)
          /\ run[r].cur.status \in LedgerStatuses
      BY AtSwap DEF LiveInv, Active, RunSteps
    <2>2. /\ run' \in [Runs -> RunRecord]
          /\ \A q \in Runs : q # r => run'[q] = run[q]
          /\ run'[r].pc = step /\ run'[r].exec = run[r].exec /\ run'[r].cur = run[r].cur
          /\ run'[r].outcome = run[r].outcome
      BY <1>2, <2>1, RunGoes
    <2>3. step = "recover" => run[r].cur.status = "APPLYING"
      BY <1>2, <2>1, TransitionTable DEF Proposal
    <2>4. ~PreStart(r)' /\ Applies(r)' /\ Settles(r)'
      BY <2>2, <2>3 DEF PreStart, Applies, Settles, At
    <2> QED
      BY <2>1, <2>2, <2>4, RunContinues DEF Proposal
  <1>3. CASE s = "APPLIED"
    BY <1>2, <1>3 DEF Continue, Unconfirmed
  <1>4. CASE s = "UNCERTAIN"
    BY <1>2, <1>4 DEF Continue, Unconfirmed
  <1> QED
    BY <1>1, <1>3, <1>4

(* The swap is confirmed: the document it proposed is the stored one.      *)
LEMMA ConfirmLedgerInv ==
    ASSUME LiveInv, NEW r \in Runs, ConfirmLedger(r)
    PROVE  LiveInv'
  <1> DEFINE e == run[r].exec
             doc == run[r].prop
  <1>1. /\ run[r].pc = "confirm" /\ UNCHANGED <<cloud, records, ledger, lateWrites, losses>>
        /\ LiveTypes /\ losses' \in 0 .. MaxLosses
    BY DEF ConfirmLedger, LiveInv, LiveTypes
  <1>2. /\ e \in Executions /\ ledger[e] # Absent /\ run[r] \in RunRecord
        /\ run[r].pc \in Active
        /\ Proposal(e, run[r].cur, doc) /\ doc \in Document /\ doc.status \in LedgerStatuses
        /\ run[r].cur.status \in LedgerStatuses
        /\ doc.status \in {"APPROVED", "APPLYING"} => doc.approval = r /\ r \in approvals
    BY <1>1, AtSwap
  <1>3. CASE ledger[e] = doc /\ Confirmed[doc.status] = "done" /\ Stop(r)
    BY <1>1, <1>3, StopInv
  <1>4. CASE /\ ledger[e] = doc /\ Confirmed[doc.status] # "done"
             /\ run' = [run EXCEPT ![r].cur = doc, ![r].pc = Confirmed[doc.status]]
    <2>1. \/ doc.status = "APPROVED" /\ Confirmed[doc.status] = "fetch"
          \/ doc.status = "APPLYING" /\ Confirmed[doc.status] = "applying"
          \/ doc.status = "APPLIED" /\ Confirmed[doc.status] = "health"
      <3>1. doc.status # "PLANNED"
        BY <1>2, TransitionTable DEF Proposal
      <3> QED
        BY <1>2, <1>4, <3>1 DEF Confirmed, LedgerStatuses
    <2> DEFINE step == Confirmed[doc.status]
               x == [run[r] EXCEPT !.cur = doc, !.pc = step]
    <2>2. step \in RunSteps /\ step \in Active
      BY <2>1 DEF RunSteps, Active
    <2> HIDE DEF step
    <2>3. x \in RunRecord /\ run' = [run EXCEPT ![r] = x]
      BY <1>1, <1>2, <1>4, <2>2 DEF RunRecord, LiveTypes, step
    <2>4. /\ run' \in [Runs -> RunRecord] /\ run'[r] = x
          /\ \A q \in Runs : q # r => run'[q] = run[q]
      BY <1>1, <2>3, RunUpdate
    <2>5. /\ run'[r].pc = step /\ run'[r].exec = e /\ run'[r].cur = doc
          /\ run'[r].outcome = run[r].outcome
      BY <1>2, <2>4 DEF RunRecord
    <2>6. Behind(doc, e)
      BY <1>2, <1>4 DEF Behind, Proposal, Document
    <2>7. PreStart(r)' => PreStart(r)
      BY <1>1, <2>1, <2>5 DEF PreStart, step
    <2>8. Applies(r)'
      BY <1>1, <1>2, <2>1, <2>5 DEF Applies, At, PreStart, step, records
    <2>9. Settles(r)'
      BY <2>1, <2>5 DEF Settles, At, step
    <2> QED
      BY <1>1, <1>2, <2>2, <2>4, <2>5, <2>6, <2>7, <2>8, <2>9, RunContinues
  <1>5. CASE run' = [run EXCEPT ![r].pc = "cas", ![r].tries = 1]
    BY <1>1, <1>5, RetryInv
  <1>6. CASE Continue(r, Unconfirmed(doc.status))
    BY <1>1, <1>6, UnconfirmedInv
  <1> QED
    BY <1>3, <1>4, <1>5, <1>6 DEF ConfirmLedger

(* A fault that may happen leaves the bound.                               *)
LEMMA LossBound ==
    ASSUME LiveInv, losses < MaxLosses, losses' = losses + 1
    PROVE  losses' \in 0 .. MaxLosses
  BY LiveAssumption DEF LiveInv, LiveTypes

LEMMA ConfirmUnansweredInv ==
    ASSUME LiveInv, NEW r \in Runs, ConfirmUnanswered(r)
    PROVE  LiveInv'
  <1>1. /\ run[r].pc = "confirm" /\ UNCHANGED <<cloud, records, ledger, lateWrites>>
        /\ losses' \in 0 .. MaxLosses
    BY LossBound DEF ConfirmUnanswered
  <1>2. \/ run' = [run EXCEPT ![r].pc = "cas", ![r].tries = 1]
        \/ Continue(r, Unconfirmed(run[r].prop.status))
    BY DEF ConfirmUnanswered
  <1> QED
    BY <1>1, <1>2, RetryInv, UnconfirmedInv

(* The approval of the run is proposed on the document just read.          *)
LEMMA ApproveInv ==
    ASSUME LiveInv, NEW r \in Runs, Approve(r)
    PROVE  LiveInv'
  <1> DEFINE e == run[r].exec
             doc == ledger[e]
             next == [Transition(doc, "APPROVED") EXCEPT !.approval = r]
             x == [run[r] EXCEPT !.pc = "cas", !.tries = 0, !.cur = doc, !.prop = next]
  <1>1. /\ run[r].pc = "approve" /\ UNCHANGED <<cloud, records, ledger, lateWrites, losses>>
        /\ LiveTypes /\ losses' \in 0 .. MaxLosses /\ run[r].pc \in Active
        /\ run[r] \in RunRecord /\ Holds(r)
    BY DEF Approve, LiveInv, LiveTypes, Active, RunSteps
  <1>2. /\ e \in Executions /\ doc # Absent /\ doc \in Document /\ r \in approvals
    BY <1>1 DEF Holds, Reads, Applies, At, PreStart, LiveTypes
  <1>3. CASE Stop(r)
    BY <1>1, <1>3, StopInv
  <1>4. CASE /\ "APPROVED" \in Transitions[doc.status]
             /\ run' = [run EXCEPT ![r].pc = "cas", ![r].tries = 0, ![r].cur = doc,
                                   ![r].prop = next]
    <2>1. doc.status \in LedgerStatuses /\ Consumed(doc)
      BY <1>2 DEF Document, LiveInv, Stored
    <2>2. doc.status \in {"PLANNED", "APPROVED"} /\ "APPROVED" \in LedgerStatuses
      BY <1>4, <2>1, TransitionTable DEF LedgerStatuses
    <2>3. /\ Transition(doc, "APPROVED") \in Document
          /\ Transition(doc, "APPROVED").status = "APPROVED"
          /\ Transition(doc, "APPROVED").version = doc.version + 1
          /\ Consumed(Transition(doc, "APPROVED"))
      BY <1>2, <1>4, <2>1, <2>2, TransitionType, TransitionConsumes
    <2>4. /\ next \in Document /\ next.status = "APPROVED" /\ next.approval = r
          /\ next.version = doc.version + 1 /\ Consumed(next)
      BY <2>3 DEF Document, Consumed
    <2> HIDE DEF next
    <2>5. Behind(doc, e)
      BY <1>2, <2>1 DEF Behind, Document
    <2>6. Proposal(e, doc, next)
      BY <1>4, <2>4, <2>5 DEF Proposal, Backed
    <2>7. x \in RunRecord /\ run' = [run EXCEPT ![r] = x]
      BY <1>1, <1>2, <1>4, <2>4 DEF RunRecord, RunSteps, LiveTypes
    <2>8. /\ run' \in [Runs -> RunRecord] /\ run'[r] = x
          /\ \A q \in Runs : q # r => run'[q] = run[q]
      BY <1>1, <2>7, RunUpdate
    <2>9. /\ run'[r].pc = "cas" /\ run'[r].exec = e /\ run'[r].cur = doc
          /\ run'[r].prop = next /\ run'[r].outcome = run[r].outcome
      BY <1>1, <2>8 DEF RunRecord
    <2>10. PreStart(r)
      BY <1>1 DEF PreStart
    <2>11. Proposal(run[r].exec, run'[r].cur, run'[r].prop)
      BY <2>6, <2>9
    <2>12. Proposal(run[r].exec, run[r].cur, run[r].prop)'
      BY <1>1, <2>9, <2>11 DEF Proposal, Behind, Consumed, Backed, cloud, records
    <2>13. Applies(r)'
      BY <1>1, <1>2, <2>4, <2>9, <2>12 DEF Applies, At, records
    <2>14. Settles(r)'
      BY <2>9 DEF Settles, At
    <2> QED
      BY <1>1, <2>5, <2>8, <2>9, <2>10, <2>13, <2>14, RunContinues DEF Active, RunSteps
  <1> QED
    BY <1>3, <1>4 DEF Approve

(* What a run holds after its approval was selected.                       *)
LEMMA AtWork ==
    ASSUME LiveInv, NEW r \in Runs, run[r].pc \in Active \ {"approve"}
    PROVE  /\ LiveTypes /\ run[r] \in RunRecord /\ Holds(r)
           /\ run[r].exec \in Executions /\ ledger[run[r].exec] # Absent
           /\ ledger[run[r].exec] \in Document
           /\ Behind(run[r].cur, run[r].exec)
           /\ run[r].cur \in Document /\ run[r].cur.status \in LedgerStatuses
           /\ Consumed(run[r].cur) /\ Stored(run[r].exec) /\ Receipts(run[r].exec)
           /\ plan[run[r].exec] \in SavedPlan
  <1>1. /\ LiveTypes /\ Holds(r) /\ run[r] \in RunRecord
    BY DEF LiveInv, LiveTypes
  <1>2. /\ run[r].exec \in Executions /\ ledger[run[r].exec] # Absent
        /\ Behind(run[r].cur, run[r].exec)
    BY <1>1 DEF Holds, Reads, At, Active
  <1> QED
    BY <1>1, <1>2 DEF LiveInv, Behind, Document, Stored, LiveTypes

(* The next document of the table is a swap the run may propose.           *)
LEMMA NextProposal ==
    ASSUME LiveInv, NEW r \in Runs, run[r].pc \in Active \ {"approve"},
           NEW s \in Transitions[run[r].cur.status], s # "APPROVED",
           Backed(Transition(run[r].cur, s), run[r].exec)
    PROVE  /\ Proposal(run[r].exec, run[r].cur, Transition(run[r].cur, s))
           /\ Transition(run[r].cur, s).status = s
           /\ Transition(run[r].cur, s).approval = run[r].cur.approval
  <1>1. /\ Behind(run[r].cur, run[r].exec) /\ run[r].cur \in Document
        /\ Consumed(run[r].cur)
    BY AtWork
  <1>2. s \in LedgerStatuses /\ Consumed(Transition(run[r].cur, s))
    BY <1>1, TransitionConsumes
  <1> PICK doc : doc = Transition(run[r].cur, s)
    OBVIOUS
  <1>3. /\ doc \in Document /\ doc.status = s /\ doc.version = run[r].cur.version + 1
        /\ doc.approval = run[r].cur.approval
    BY <1>1, <1>2, TransitionType
  <1> QED
    BY <1>1, <1>2, <1>3 DEF Proposal

LEMMA FetchInv ==
    ASSUME LiveInv, NEW r \in Runs, Fetch(r)
    PROVE  LiveInv'
  <1>1. /\ run[r].pc = "fetch" /\ UNCHANGED <<cloud, records, ledger, lateWrites, losses>>
        /\ losses' \in 0 .. MaxLosses /\ run[r].pc \in Active \ {"approve"}
    BY DEF Fetch, LiveInv, LiveTypes, Active, RunSteps
  <1>2. CASE Stop(r)
    BY <1>1, <1>2, StopInv
  <1>3. CASE Swap(r, Transition(run[r].cur, "APPLYING"))
    <2> PICK doc : doc = Transition(run[r].cur, "APPLYING")
      OBVIOUS
    <2>1. /\ run[r].cur.status = "APPROVED" /\ run[r].cur.approval = r
          /\ run[r].exec \in Executions /\ ledger[run[r].exec] # Absent
          /\ run[r].cur \in Document
      BY <1>1, AtWork DEF Holds, Applies, At
    <2>2. "APPLYING" \in Transitions[run[r].cur.status] /\ "APPLYING" \in LedgerStatuses
      BY <2>1, TransitionTable DEF LedgerStatuses
    <2>3. doc.status = "APPLYING"
      BY <2>1, <2>2, TransitionType
    <2>4. Backed(doc, run[r].exec)
      BY <2>3 DEF Backed
    <2>5. Proposal(run[r].exec, run[r].cur, doc) /\ doc.approval = r
      BY <1>1, <2>1, <2>2, <2>4, NextProposal
    <2>6. PreStart(r)
      BY <1>1 DEF PreStart
    <2>7. Swap(r, doc)
      BY <1>3
    <2> QED
      BY <1>1, <2>1, <2>3, <2>5, <2>6, <2>7, RunSwaps
  <1> QED
    BY <1>2, <1>3 DEF Fetch

(* The committed success is found: the run goes on to the health probe.    *)
LEMMA CommittedInv ==
    ASSUME LiveInv, NEW r \in Runs, run[r].pc \in {"recover", "final"},
           ledger[run[r].exec] = run[r].outcome,
           run' = [run EXCEPT ![r].pc = "health", ![r].cur = ledger[run[r].exec]],
           UNCHANGED <<cloud, records, ledger, lateWrites>>, losses' \in 0 .. MaxLosses
    PROVE  LiveInv'
  <1> DEFINE e == run[r].exec
             x == [run[r] EXCEPT !.pc = "health", !.cur = ledger[e]]
  <1>1. run[r].pc \in Active \ {"approve"}
    BY DEF Active, RunSteps
  <1>2. /\ LiveTypes /\ run[r] \in RunRecord /\ Holds(r) /\ Stored(e)
        /\ e \in Executions /\ ledger[e] # Absent /\ ledger[e] \in Document
    BY <1>1, AtWork
  <1>3. x \in RunRecord /\ run' = [run EXCEPT ![r] = x]
    BY <1>2 DEF RunRecord, RunSteps, LiveTypes
  <1>4. /\ run' \in [Runs -> RunRecord] /\ run'[r] = x
        /\ \A q \in Runs : q # r => run'[q] = run[q]
    BY <1>2, <1>3, RunUpdate
  <1>5. /\ run'[r].pc = "health" /\ run'[r].exec = e /\ run'[r].cur = ledger[e]
        /\ run'[r].outcome = run[r].outcome
    BY <1>2, <1>4 DEF RunRecord
  <1>6. ledger[e].status = "APPLIED"
    BY <1>2 DEF Holds, Reads
  <1>7. Behind(ledger[e], e)
    BY <1>2 DEF Behind, Stored, Document
  <1>8. ~PreStart(r)' /\ Applies(r)' /\ Settles(r)'
    BY <1>5, <1>6 DEF PreStart, Applies, Settles, At
  <1> QED
    BY <1>1, <1>4, <1>5, <1>7, <1>8, RunContinues DEF Active, RunSteps

(* UNCERTAIN is proposed on the document under which Terraform was started.*)
LEMMA UncertainInv ==
    ASSUME LiveInv, NEW r \in Runs, run[r].pc = "recover",
           Swap(r, Transition(run[r].cur, "UNCERTAIN")),
           UNCHANGED <<cloud, records, ledger, lateWrites>>, losses' \in 0 .. MaxLosses
    PROVE  LiveInv'
  <1> PICK doc : doc = Transition(run[r].cur, "UNCERTAIN")
    OBVIOUS
  <1>1. run[r].pc \in Active \ {"approve"}
    BY DEF Active, RunSteps
  <1>2. /\ run[r].cur.status = "APPLYING" /\ run[r].exec \in Executions
        /\ ledger[run[r].exec] # Absent /\ run[r].cur \in Document
    BY <1>1, AtWork DEF Holds, Applies, At
  <1>3. "UNCERTAIN" \in Transitions[run[r].cur.status] /\ "UNCERTAIN" \in LedgerStatuses
    BY <1>2, TransitionTable DEF LedgerStatuses
  <1>4. doc.status = "UNCERTAIN"
    BY <1>2, <1>3, TransitionType
  <1>5. Backed(doc, run[r].exec)
    BY <1>4 DEF Backed
  <1>6. Proposal(run[r].exec, run[r].cur, doc)
    BY <1>1, <1>3, <1>5, NextProposal
  <1> QED
    BY <1>2, <1>4, <1>6, RunSwaps

LEMMA ReadAfterErrorInv ==
    ASSUME LiveInv, NEW r \in Runs, ReadAfterError(r)
    PROVE  LiveInv'
  <1>1. /\ run[r].pc = "recover" /\ UNCHANGED <<cloud, records, ledger, lateWrites>>
        /\ losses' \in 0 .. MaxLosses
    BY DEF ReadAfterError, LiveInv, LiveTypes
  <1>2. CASE /\ ledger[run[r].exec] = run[r].outcome
             /\ run' = [run EXCEPT ![r].pc = "health", ![r].cur = ledger[run[r].exec]]
    BY <1>1, <1>2, CommittedInv
  <1>3. CASE Swap(r, Transition(run[r].cur, "UNCERTAIN"))
    BY <1>1, <1>3, UncertainInv
  <1>4. CASE Stop(r)
    BY <1>1, <1>4, StopInv
  <1> QED
    BY <1>2, <1>3, <1>4 DEF ReadAfterError

LEMMA ReadAfterErrorUnansweredInv ==
    ASSUME LiveInv, NEW r \in Runs, ReadAfterErrorUnanswered(r)
    PROVE  LiveInv'
  BY LossBound, UncertainInv DEF ReadAfterErrorUnanswered

LEMMA FinalReadInv ==
    ASSUME LiveInv, NEW r \in Runs, FinalRead(r)
    PROVE  LiveInv'
  <1>1. /\ run[r].pc = "final" /\ UNCHANGED <<cloud, records, ledger, lateWrites>>
        /\ losses' \in 0 .. MaxLosses
    BY DEF FinalRead, LiveInv, LiveTypes
  <1>2. CASE ledger[run[r].exec] = run[r].outcome
    BY <1>1, <1>2, CommittedInv DEF FinalRead
  <1>3. CASE Stop(r)
    BY <1>1, <1>3, StopInv
  <1> QED
    BY <1>2, <1>3 DEF FinalRead

LEMMA RunLostInv ==
    ASSUME LiveInv, NEW r \in Runs, RunLost(r)
    PROVE  LiveInv'
  BY LossBound, StopInv DEF RunLost

(* A probe hands its receipt on.                                           *)
LEMMA ProbedInv ==
    ASSUME LiveInv, NEW r \in Runs, NEW step \in {"receipt", "decision"}, NEW receipt,
           run[r].pc = (IF step = "receipt" THEN "health" ELSE "reconcile"),
           run' = [run EXCEPT ![r].pc = step, ![r].receipt = receipt],
           step = "receipt" =>
             /\ receipt \in HealthReceipt /\ receipt.version = run[r].cur.version
             /\ Shows(run[r].exec, receipt.serial),
           step = "decision" =>
             /\ receipt \in ReconciliationReceipt
             /\ receipt.decision = "RECONCILED_APPLIED" =>
                  /\ Shows(run[r].exec, receipt.serial)
                  /\ receipt.serial > plan[run[r].exec].serial,
           UNCHANGED <<cloud, records, ledger, lateWrites>>, losses' \in 0 .. MaxLosses
    PROVE  LiveInv'
  <1> DEFINE x == [run[r] EXCEPT !.pc = step, !.receipt = receipt]
  <1>1. run[r].pc \in Active \ {"approve"} /\ step \in RunSteps /\ step \in Active
    BY DEF Active, RunSteps
  <1>2. /\ LiveTypes /\ run[r] \in RunRecord /\ Holds(r) /\ Behind(run[r].cur, run[r].exec)
    BY <1>1, AtWork
  <1>3. x \in RunRecord /\ run' = [run EXCEPT ![r] = x]
    BY <1>1, <1>2 DEF RunRecord, LiveTypes
  <1>4. /\ run' \in [Runs -> RunRecord] /\ run'[r] = x
        /\ \A q \in Runs : q # r => run'[q] = run[q]
    BY <1>2, <1>3, RunUpdate
  <1>5. /\ run'[r].pc = step /\ run'[r].exec = run[r].exec /\ run'[r].cur = run[r].cur
        /\ run'[r].outcome = run[r].outcome /\ run'[r].receipt = receipt
    BY <1>2, <1>4 DEF RunRecord
  <1>6. ~PreStart(r)' /\ Applies(r)'
    BY <1>5 DEF PreStart, Applies, At
  <1>7. states' = states /\ plan' = plan
    BY DEF cloud, records
  <1>8. /\ step = "receipt" => run[r].cur.status \in {"APPLIED", "RECONCILED_APPLIED"}
        /\ step = "decision" => run[r].cur.status = "UNCERTAIN"
    BY <1>2 DEF Holds, Settles, At
  <1>9. CASE step = "receipt"
    <2>1. Shows(run[r].exec, receipt.serial)'
      BY <1>5, <1>7, <1>9 DEF Shows, Serial
    <2>2. Settles(r)'
      BY <1>5, <1>8, <1>9, <2>1 DEF Settles, At
    <2> QED
      BY <1>1, <1>2, <1>4, <1>5, <1>6, <2>2, RunContinues
  <1>10. CASE step = "decision"
    <2>1. receipt.decision = "RECONCILED_APPLIED" => Shows(run[r].exec, receipt.serial)'
      BY <1>5, <1>7, <1>10 DEF Shows, Serial
    <2>2. Settles(r)'
      BY <1>5, <1>7, <1>8, <1>10, <2>1 DEF Settles, At
    <2> QED
      BY <1>1, <1>2, <1>4, <1>5, <1>6, <2>2, RunContinues
  <1> QED
    BY <1>9, <1>10

LEMMA ConvergedShows ==
    ASSUME LiveTypes, NEW e \in Executions, Converged(e)
    PROVE  Shows(e, Serial) /\ Serial \in Nat
  BY LenProperties DEF LiveTypes, Converged, Shows, Serial

LEMMA ProbeHealthInv ==
    ASSUME LiveInv, NEW r \in Runs, ProbeHealth(r)
    PROVE  LiveInv'
  <1> DEFINE e == run[r].exec
             receipt == [version |-> run[r].cur.version, serial |-> Serial]
  <1>1. /\ run[r].pc = "health" /\ UNCHANGED <<cloud, records, ledger, lateWrites>>
        /\ losses' \in 0 .. MaxLosses /\ run[r].pc \in Active \ {"approve"}
    BY DEF ProbeHealth, LiveInv, LiveTypes, Active, RunSteps
  <1>2. CASE Stop(r)
    BY <1>1, <1>2, StopInv
  <1>3. CASE /\ HealthyEvidence(e)
             /\ run' = [run EXCEPT ![r].pc = "receipt", ![r].receipt = receipt]
    <2>1. LiveTypes /\ e \in Executions /\ run[r].cur \in Document
      BY <1>1, AtWork
    <2>2. Shows(e, Serial) /\ Serial \in Nat
      BY <1>3, <2>1, ConvergedShows DEF HealthyEvidence
    <2>3. /\ receipt \in HealthReceipt /\ receipt.version = run[r].cur.version
          /\ Shows(e, receipt.serial)
      BY <2>1, <2>2 DEF HealthReceipt, Document
    <2> HIDE DEF receipt
    <2> QED
      BY <1>1, <1>3, <2>3, ProbedInv
  <1> QED
    BY <1>2, <1>3 DEF ProbeHealth

LEMMA ProbeUncertainInv ==
    ASSUME LiveInv, NEW r \in Runs, ProbeUncertain(r)
    PROVE  LiveInv'
  <1> DEFINE e == run[r].exec
             receipt(verified) ==
               [version |-> run[r].cur.version, serial |-> Serial,
                decision |-> IF Reconciled(e) /\ verified THEN "RECONCILED_APPLIED"
                                                          ELSE "RECONCILIATION_REQUIRED"]
  <1>1. /\ run[r].pc = "reconcile" /\ UNCHANGED <<cloud, records, ledger, lateWrites>>
        /\ losses' \in 0 .. MaxLosses /\ run[r].pc \in Active \ {"approve"}
    BY DEF ProbeUncertain, LiveInv, LiveTypes, Active, RunSteps
  <1>2. CASE Stop(r)
    BY <1>1, <1>2, StopInv
  <1>3. ASSUME Serial > 0, NEW verified \in BOOLEAN,
               run' = [run EXCEPT ![r].pc = "decision", ![r].receipt = receipt(verified)]
        PROVE  LiveInv'
    <2>1. /\ LiveTypes /\ e \in Executions /\ run[r].cur \in Document
          /\ plan[e] \in SavedPlan
      BY <1>1, AtWork
    <2> PICK found : found = receipt(verified)
      OBVIOUS
    <2>2. Serial \in Nat /\ plan[e].serial \in Nat /\ run[r].cur.version \in Nat
      BY <2>1, LenProperties DEF LiveTypes, Serial, SavedPlan, Document
    <2>3. /\ found \in ReconciliationReceipt /\ found.serial = Serial
          /\ found.decision = "RECONCILED_APPLIED" => Reconciled(e)
      BY <2>2 DEF ReconciliationReceipt
    <2>4. Reconciled(e) => Shows(e, Serial) /\ Serial > plan[e].serial
      BY <1>3, <2>1, <2>2, ConvergedShows DEF Reconciled
    <2>5. run' = [run EXCEPT ![r].pc = "decision", ![r].receipt = found]
      BY <1>3
    <2>6. found.decision = "RECONCILED_APPLIED" =>
            Shows(e, found.serial) /\ found.serial > plan[e].serial
      BY <2>3, <2>4
    <2> QED
      BY <1>1, <2>3, <2>5, <2>6, ProbedInv
  <1> QED
    BY <1>2, <1>3 DEF ProbeUncertain

-----------------------------------------------------------------------------
(* The steps that write a record other than the ledger.                    *)
LEMMA ReceiptsKept ==
    ASSUME NEW e \in Executions, Receipts(e), Grows(e), health'[e] = health[e],
           recon'[e] = recon[e], ledger[e] # Absent => ledger'[e] # Absent
    PROVE  Receipts(e)'
  <1> PICK n, m : n = health[e].serial /\ m = recon[e].serial
    OBVIOUS
  <1>1. /\ health[e] # Absent => ledger'[e] # Absent /\ Shows(e, n)'
        /\ recon[e] # Absent => ledger'[e] # Absent /\ plan'[e] = plan[e]
        /\ recon[e] # Absent /\ recon[e].decision = "RECONCILED_APPLIED" =>
             Shows(e, m)' /\ m > plan[e].serial
    BY ShowsKept DEF Receipts, Grows
  <1>2. health'[e].serial = n /\ recon'[e].serial = m
    OBVIOUS
  <1> QED
    BY <1>1, <1>2 DEF Receipts, Shows

(* A run that has its approval proposes the next document.                 *)
LEMMA RunProposes ==
    ASSUME LiveInv, LiveTypes', NEW r \in Runs, run[r].pc \in Active \ {"approve"},
           \A s \in Runs : s # r => run'[s] = run[s],
           UNCHANGED <<ledger, plan, starts, lateWrites>>,
           \A e \in Executions : Grows(e) /\ Receipts(e)',
           object \subseteq object', approvals \subseteq approvals',
           NEW e, NEW cur, NEW doc, run[r].exec = e, run[r].cur = cur,
           run'[r].pc = "cas", run'[r].exec = e, run'[r].cur = cur, run'[r].prop = doc,
           run'[r].outcome # Absent => run'[r].outcome.status = "APPLIED",
           NEW s \in Transitions[cur.status] \ {"APPROVED", "APPLYING"},
           doc = Transition(cur, s), Backed(doc, e)'
    PROVE  LiveInv'
  <1>1. /\ e \in Executions /\ ledger[e] # Absent /\ Behind(cur, e) /\ Consumed(cur)
        /\ cur \in Document
    BY AtWork
  <1>2. s \in LedgerStatuses /\ Consumed(doc)
    BY <1>1, TransitionConsumes
  <1>3. /\ doc \in Document /\ doc.status = s /\ doc.version = cur.version + 1
        /\ doc.approval = cur.approval
    BY <1>1, <1>2, TransitionType
  <1>4. Advances(e)
    BY DEF Advances
  <1>5. Behind(cur, e)'
    BY <1>1, <1>4, BehindKept
  <1>6. Proposal(e, cur, doc)'
    BY <1>2, <1>3, <1>5 DEF Proposal, Consumed
  <1>7. ~PreStart(r)' /\ ~Making(r)'
    BY <1>3 DEF PreStart, Making
  <1>8. Proposal(run[r].exec, run[r].cur, run[r].prop)' /\ Behind(run[r].cur, run[r].exec)'
    BY <1>5, <1>6 DEF Proposal
  <1>9. Reads(r)' /\ Applies(r)' /\ Settles(r)'
    BY <1>1, <1>7, <1>8 DEF Reads, Applies, Settles, At
  <1> QED
    BY <1>7, <1>9, RunMoves DEF Holds

LEMMA WriteUnansweredInv ==
    ASSUME LiveInv, NEW r \in Runs, WriteUnanswered(r)
    PROVE  LiveInv'
  <1> PICK e, cur, doc : e = run[r].exec /\ cur = run[r].cur /\ doc = run[r].prop
    OBVIOUS
  <1>1. /\ run[r].pc = "cas" /\ UNCHANGED <<cloud, records, ledger>> /\ LiveTypes /\ Holds(r)
        /\ losses' \in 0 .. MaxLosses /\ run[r].pc \in Active /\ "confirm" \in Active
        /\ RunGoto(r, "confirm")
        /\ lateWrites' \in {lateWrites, lateWrites \cup {<<e, cur, doc>>}}
    BY LossBound DEF WriteUnanswered, LiveInv, Active, RunSteps
  <1>2. /\ run' \in [Runs -> RunRecord]
        /\ \A s \in Runs : s # r => run'[s] = run[s]
        /\ run'[r].pc = "confirm" /\ run'[r].exec = e /\ run'[r].cur = cur
        /\ run'[r].prop = doc /\ run'[r].outcome = run[r].outcome
        /\ ~Making(r)'
    BY <1>1, RunGoes
  <1>3. /\ e \in Executions /\ ledger[e] # Absent /\ Proposal(e, cur, doc)
        /\ cur \in Document /\ doc \in Document
    BY <1>1, AtSwap
  <1>4. \A w \in lateWrites' : w \in lateWrites \/ Proposal(w[1], w[2], w[3])
    <2> SUFFICES ASSUME NEW w \in lateWrites', w = <<e, cur, doc>>
                 PROVE  Proposal(w[1], w[2], w[3])
      BY <1>1
    <2>1. w[1] = e /\ w[2] = cur /\ w[3] = doc
      OBVIOUS
    <2> QED
      BY <1>3, <2>1
  <1>5. LiveTypes'
    <2>1. lateWrites' \subseteq Executions \X Document \X Document
      BY <1>1, <1>3 DEF LiveTypes
    <2> QED
      BY <1>1, <1>2, <2>1 DEF LiveTypes, cloud, records
  <1>6. \A f \in Executions : Grows(f) /\ Receipts(f)' /\ Advances(f)
    BY <1>1 DEF Grows, Receipts, Shows, Serial, cloud, records, LiveInv, Advances
  <1>7. Proposal(e, cur, doc)' /\ Behind(cur, e)'
    BY <1>3, <1>5, <1>6, ProposalKept DEF Proposal
  <1>8. Proposal(run[r].exec, run[r].cur, run[r].prop)' /\ Behind(run[r].cur, run[r].exec)'
    BY <1>2, <1>7 DEF Proposal
  <1>9. PreStart(r)' <=> PreStart(r)
    BY <1>1, <1>2 DEF PreStart
  <1>10. Reads(r)'
    BY <1>1, <1>2, <1>3, <1>8 DEF Holds, Reads, At
  <1>11. Applies(r)'
    BY <1>1, <1>2, <1>8, <1>9 DEF Holds, Applies, At, records
  <1>12. Settles(r)'
    BY <1>2 DEF Settles, At
  <1> QED
    BY <1>1, <1>2, <1>4, <1>5, <1>6, <1>9, <1>10, <1>11, <1>12, RunMoves
       DEF Holds, cloud, records

LEMMA BeginApplyInv ==
    ASSUME LiveInv, NEW r \in Runs, NEW e \in Executions, BeginApply(r, e)
    PROVE  LiveInv'
  <1>1. /\ LiveTypes /\ ledger[e] # Absent /\ ledger[e] \in Document /\ Stored(e)
        /\ UNCHANGED <<cloud, object, plan, health, recon, published, ledger, lateWrites,
                       losses>>
        /\ UNCHANGED <<starts, states, succeeded>>
    BY DEF BeginApply, LiveInv, LiveTypes, cloud
  <1>2. Behind(ledger[e], e)
    BY <1>1 DEF Behind, Stored, Document
  <1>3. ASSUME NEW step \in {"approve", "health", "reconcile"},
               NEW x \in RunRecord, run' = [run EXCEPT ![r] = x],
               x.pc = step, x.exec = e, x.outcome = Absent,
               step # "approve" => x.cur = ledger[e],
               approvals' = approvals \cup (IF step = "approve" THEN {r} ELSE {}),
               step = "approve" => r \notin approvals,
               step = "health" => ledger[e].status \in {"APPLIED", "RECONCILED_APPLIED"},
               step = "reconcile" => ledger[e].status = "UNCERTAIN"
        PROVE  LiveInv'
    <2>2. /\ run' \in [Runs -> RunRecord] /\ run'[r] = x
          /\ \A s \in Runs : s # r => run'[s] = run[s]
      BY <1>1, <1>3, RunUpdate
    <2>3. /\ run'[r].pc = step /\ run'[r].exec = e /\ run'[r].outcome = Absent
          /\ step # "approve" => run'[r].cur = ledger[e]
      BY <1>3, <2>2
    <2>4. LiveTypes'
      BY <1>1, <1>3, <2>2 DEF LiveTypes
    <2>5. \A f \in Executions : Grows(f) /\ Receipts(f)'
      BY <1>1 DEF Grows, Receipts, Shows, Serial, LiveInv
    <2>6. ~Making(r)' /\ (PreStart(r)' <=> step = "approve")
      BY <2>3 DEF Making, PreStart
    <2>7. step # "approve" => Behind(run'[r].cur, e)
      BY <1>2, <2>3
    <2>8. step # "approve" => Behind(run[r].cur, run[r].exec)'
      BY <1>1, <2>3, <2>7 DEF Behind, Consumed
    <2>9. Reads(r)'
      BY <1>1, <2>3, <2>8 DEF Reads, At
    <2>10. Applies(r)'
      BY <1>3, <2>3, <2>6 DEF Applies, At
    <2>11. Settles(r)'
      BY <1>3, <2>3 DEF Settles, At
    <2> QED
      BY <1>1, <1>3, <2>2, <2>4, <2>5, <2>6, <2>9, <2>10, <2>11, RunMoves DEF Holds
  <1>4. CASE /\ r \notin approvals /\ approvals' = approvals \cup {r}
             /\ run' = [run EXCEPT ![r] = [Idle EXCEPT !.pc = "approve", !.exec = e]]
    <2> DEFINE x == [Idle EXCEPT !.pc = "approve", !.exec = e]
    <2>1. x \in RunRecord /\ x.pc = "approve" /\ x.exec = e /\ x.outcome = Absent
      BY DEF Idle, RunRecord, RunSteps
    <2> HIDE DEF x
    <2>2. run' = [run EXCEPT ![r] = x]
      BY <1>4 DEF x
    <2> QED
      BY <1>3, <1>4, <2>1, <2>2
  <1>5. CASE /\ ledger[e].status \in {"APPLIED", "RECONCILED_APPLIED", "UNCERTAIN"}
             /\ UNCHANGED approvals
             /\ \E step \in {"health", "reconcile"} :
                  /\ step = "health" => ledger[e].status \in {"APPLIED", "RECONCILED_APPLIED"}
                  /\ step = "reconcile" => ledger[e].status = "UNCERTAIN"
                  /\ run' = [run EXCEPT ![r] =
                       [Idle EXCEPT !.pc = step, !.exec = e, !.cur = ledger[e]]]
    <2> PICK step \in {"health", "reconcile"} :
          /\ step = "health" => ledger[e].status \in {"APPLIED", "RECONCILED_APPLIED"}
          /\ step = "reconcile" => ledger[e].status = "UNCERTAIN"
          /\ run' = [run EXCEPT ![r] =
               [Idle EXCEPT !.pc = step, !.exec = e, !.cur = ledger[e]]]
      BY <1>5
    <2> DEFINE x == [Idle EXCEPT !.pc = step, !.exec = e, !.cur = ledger[e]]
    <2>1. /\ x \in RunRecord /\ x.pc = step /\ x.exec = e /\ x.outcome = Absent
          /\ x.cur = ledger[e]
      BY <1>1 DEF Idle, RunRecord, RunSteps
    <2> HIDE DEF x
    <2>2. run' = [run EXCEPT ![r] = x]
      BY DEF x
    <2> QED
      BY <1>3, <1>5, <2>1, <2>2
  <1> QED
    BY <1>4, <1>5 DEF BeginApply

(* The state only gains serials.                                           *)
LEMMA StatesGrow ==
    ASSUME LiveTypes, NEW c \in Configs \cup {Partial},
           states' \in {states, Append(states, c)}
    PROVE  /\ states' \in Seq(Configs \cup {Partial})
           /\ \A i \in 1 .. Serial : i \in 1 .. Serial' /\ states'[i] = states[i]
  <1>1. states \in Seq(Configs \cup {Partial}) /\ Len(states) \in Nat
    BY LenProperties DEF LiveTypes
  <1>2. CASE states' = states
    BY <1>1, <1>2 DEF Serial
  <1>3. CASE states' = Append(states, c)
    <2>1. /\ states' \in Seq(Configs \cup {Partial}) /\ Len(states') = Len(states) + 1
          /\ \A i \in 1 .. Len(states) : states'[i] = states[i]
      BY <1>1, <1>3, AppendProperties
    <2> QED
      BY <1>1, <2>1 DEF Serial
  <1> QED
    BY <1>2, <1>3

LEMMA TerraformSucceedsInv ==
    ASSUME LiveInv, NEW r \in Runs, TerraformSucceeds(r)
    PROVE  LiveInv'
  <1> PICK e, cur, doc : /\ e = run[r].exec /\ cur = run[r].cur
                         /\ doc = Transition(run[r].cur, "APPLIED")
    OBVIOUS
  <1> DEFINE x == [run[r] EXCEPT !.pc = "cas", !.prop = doc, !.tries = 0, !.outcome = doc]
  <1>1. /\ run[r].pc = "terraform" /\ run[r].pc \in Active \ {"approve"}
        /\ UNCHANGED <<starts, ledger, lateWrites, losses>>
        /\ UNCHANGED <<object, plan, approvals, health, recon, published>>
        /\ succeeded' = succeeded \cup {e}
        /\ states' \in {states, Append(states, Config(e))}
        /\ run' = [run EXCEPT ![r].pc = "cas", ![r].prop = doc, ![r].tries = 0,
                              ![r].outcome = doc]
    BY DEF TerraformSucceeds, records, Active, RunSteps
  <1>2. /\ LiveTypes /\ run[r] \in RunRecord /\ Holds(r) /\ e \in Executions
        /\ cur \in Document /\ cur.status = "APPLYING" /\ Config(e) \in Configs
    BY <1>1, AtWork, LiveAssumption DEF Holds, Applies, At
  <1>3. "APPLIED" \in Transitions[cur.status] /\ "APPLIED" \in LedgerStatuses
    BY <1>2, TransitionTable DEF LedgerStatuses
  <1>4. doc \in Document /\ doc.status = "APPLIED"
    BY <1>2, <1>3, TransitionType
  <1>5. x \in RunRecord /\ run' = [run EXCEPT ![r] = x]
    BY <1>1, <1>2, <1>4 DEF RunRecord, RunSteps, LiveTypes
  <1>6. /\ run' \in [Runs -> RunRecord] /\ run'[r] = x
        /\ \A s \in Runs : s # r => run'[s] = run[s]
    BY <1>2, <1>5, RunUpdate
  <1>7. /\ run'[r].pc = "cas" /\ run'[r].exec = e /\ run'[r].cur = cur
        /\ run'[r].prop = doc /\ run'[r].outcome = doc
    BY <1>2, <1>6 DEF RunRecord
  <1>8. /\ states' \in Seq(Configs \cup {Partial})
        /\ \A i \in 1 .. Serial : i \in 1 .. Serial' /\ states'[i] = states[i]
    BY <1>1, <1>2, StatesGrow
  <1>9. LiveTypes'
    BY <1>1, <1>2, <1>6, <1>8 DEF LiveTypes
  <1>10. \A f \in Executions : Grows(f) /\ Receipts(f)'
    BY <1>1, <1>8, ReceiptsKept DEF Grows, LiveInv
  <1>11. Backed(doc, e)'
    BY <1>1, <1>4 DEF Backed
  <1> QED
    BY SMTT(30), <1>1, <1>3, <1>4, <1>6, <1>7, <1>9, <1>10, <1>11, RunProposes

LEMMA TerraformFailsInv ==
    ASSUME LiveInv, NEW r \in Runs, TerraformFails(r)
    PROVE  LiveInv'
  <1> PICK e, cur : e = run[r].exec /\ cur = run[r].cur
    OBVIOUS
  <1>1. /\ run[r].pc = "terraform" /\ run[r].pc \in Active \ {"approve"}
        /\ UNCHANGED <<starts, ledger, lateWrites, losses, succeeded>>
        /\ UNCHANGED <<object, plan, approvals, health, recon, published>>
        /\ RunGoto(r, "recover") /\ "recover" \in Active
    BY DEF TerraformFails, records, Active, RunSteps
  <1>2. /\ LiveTypes /\ Holds(r) /\ e \in Executions /\ Config(e) \in Configs
        /\ ledger[e] # Absent /\ Behind(cur, e) /\ cur.status = "APPLYING"
    BY <1>1, AtWork, LiveAssumption DEF Holds, Applies, At
  <1>3. /\ run' \in [Runs -> RunRecord]
        /\ \A s \in Runs : s # r => run'[s] = run[s]
        /\ run'[r].pc = "recover" /\ run'[r].exec = e /\ run'[r].cur = cur
        /\ run'[r].outcome = run[r].outcome /\ ~Making(r)'
    BY <1>1, <1>2, RunGoes
  <1>4. \E c \in Configs \cup {Partial} : states' \in {states, Append(states, c)}
    BY <1>2 DEF TerraformFails
  <1>5. /\ states' \in Seq(Configs \cup {Partial})
        /\ \A i \in 1 .. Serial : i \in 1 .. Serial' /\ states'[i] = states[i]
    BY <1>2, <1>4, StatesGrow
  <1>6. LiveTypes'
    BY <1>1, <1>2, <1>3, <1>5 DEF LiveTypes
  <1>7. \A f \in Executions : Grows(f) /\ Receipts(f)' /\ Advances(f)
    BY <1>1, <1>5, ReceiptsKept DEF Grows, LiveInv, Advances
  <1>8. Behind(cur, e)'
    BY <1>2, <1>6, <1>7, BehindKept
  <1>9. Behind(run[r].cur, run[r].exec)'
    BY <1>3, <1>8 DEF Behind
  <1>10. ~PreStart(r)'
    BY <1>3 DEF PreStart
  <1>11. Reads(r)' /\ Applies(r)' /\ Settles(r)'
    BY <1>1, <1>2, <1>3, <1>9, <1>10 DEF Holds, Reads, Applies, Settles, At
  <1> QED
    BY <1>1, <1>3, <1>6, <1>7, <1>10, <1>11, RunMoves DEF Holds

LEMMA PutHealthInv ==
    ASSUME LiveInv, NEW r \in Runs, PutHealth(r)
    PROVE  LiveInv'
  <1> PICK e, cur, receipt : e = run[r].exec /\ cur = run[r].cur /\ receipt = run[r].receipt
    OBVIOUS
  <1>1. /\ run[r].pc = "receipt" /\ run[r].pc \in Active \ {"approve"} /\ "publish" \in Active
        /\ UNCHANGED <<cloud, object, plan, approvals, recon, published, ledger, lateWrites,
                       losses>>
        /\ UNCHANGED <<states, starts, succeeded>>
    BY DEF PutHealth, cloud, Active, RunSteps
  <1>2. /\ LiveTypes /\ Holds(r) /\ e \in Executions /\ ledger[e] # Absent
        /\ Behind(cur, e) /\ Receipts(e)
    BY <1>1, AtWork
  <1>3. /\ receipt \in HealthReceipt /\ receipt.version = cur.version
        /\ Shows(e, receipt.serial) /\ receipt # Absent
        /\ cur.status \in {"APPLIED", "RECONCILED_APPLIED"}
    BY <1>1, <1>2, AbsentAssumption DEF Holds, Settles, At
  <1>4. CASE Stop(r) /\ UNCHANGED health
    BY <1>1, <1>2, <1>4, StopInv DEF records, LiveTypes
  <1>5. CASE /\ Reproduced(health[e], receipt)
             /\ health' = [health EXCEPT ![e] = receipt] /\ RunGoto(r, "publish")
    <2>1. /\ run' \in [Runs -> RunRecord]
          /\ \A s \in Runs : s # r => run'[s] = run[s]
          /\ run'[r].pc = "publish" /\ run'[r].exec = e /\ run'[r].cur = cur
          /\ run'[r].outcome = run[r].outcome /\ ~Making(r)'
      BY <1>1, <1>2, <1>5, RunGoes
    <2>2. /\ health' \in [Executions -> HealthReceipt \cup {Absent}]
          /\ health'[e] = receipt
          /\ \A f \in Executions : f # e => health'[f] = health[f]
      BY <1>2, <1>3, <1>5 DEF LiveTypes
    <2>3. LiveTypes'
      BY <1>1, <1>2, <2>1, <2>2 DEF LiveTypes
    <2>4. \A f \in Executions : Grows(f) /\ Advances(f)
      BY <1>1, <1>5, <2>2 DEF Grows, Serial, Reproduced, Advances
    <2>5. \A f \in Executions : f # e => Receipts(f)'
      BY <1>1, <2>2, <2>4, ReceiptsKept DEF LiveInv
    <2>6. Receipts(e)'
      <3>1. Shows(e, receipt.serial)'
        BY <1>3, <2>4, <1>2, ShowsKept
      <3>2. health[e] # Absent => ledger'[e] # Absent
        BY <1>1, <1>2
      <3> PICK n : n = recon[e].serial
        OBVIOUS
      <3>3. recon[e] # Absent /\ recon[e].decision = "RECONCILED_APPLIED" =>
              Shows(e, n)' /\ n > plan'[e].serial
        BY <1>1, <1>2, <2>4, ShowsKept DEF Receipts
      <3> QED
        BY <1>1, <1>2, <2>2, <3>1, <3>3 DEF Receipts, Shows
    <2>7. Behind(cur, e)'
      BY <1>2, <2>3, <2>4, BehindKept
    <2>8. Behind(run[r].cur, run[r].exec)'
      BY <2>1, <2>7 DEF Behind
    <2>9. ~PreStart(r)'
      BY <2>1 DEF PreStart
    <2>10. Reads(r)' /\ Applies(r)'
      BY <1>1, <1>2, <2>1, <2>8, <2>9 DEF Holds, Reads, Applies, At
    <2>11. Settles(r)'
      BY <1>3, <2>1, <2>2 DEF Settles, At
    <2> QED
      BY <1>1, <2>1, <2>3, <2>4, <2>5, <2>6, <2>9, <2>10, <2>11, RunMoves DEF Holds
  <1> QED
    BY <1>4, <1>5 DEF PutHealth

(* A run that sets out to swap keeps the rest of what it holds.            *)
LEMMA SwapUpdate ==
    ASSUME LiveTypes, NEW r \in Runs, NEW doc \in Document, Swap(r, doc)
    PROVE  /\ run' \in [Runs -> RunRecord]
           /\ \A s \in Runs : s # r => run'[s] = run[s]
           /\ run'[r].pc = "cas" /\ run'[r].prop = doc /\ run'[r].exec = run[r].exec
           /\ run'[r].cur = run[r].cur /\ run'[r].outcome = run[r].outcome
  <1> DEFINE x == [run[r] EXCEPT !.pc = "cas", !.prop = doc, !.tries = 0]
  <1>1. run[r] \in RunRecord
    BY DEF LiveTypes
  <1>2. x \in RunRecord /\ run' = [run EXCEPT ![r] = x]
    BY <1>1 DEF RunRecord, RunSteps, Swap, LiveTypes
  <1>3. /\ run' \in [Runs -> RunRecord] /\ run'[r] = x
        /\ \A s \in Runs : s # r => run'[s] = run[s]
    BY <1>2, RunUpdate
  <1> QED
    BY <1>1, <1>3 DEF RunRecord

LEMMA PublishInv ==
    ASSUME LiveInv, NEW r \in Runs, Publish(r)
    PROVE  LiveInv'
  <1> PICK e, cur, doc : /\ e = run[r].exec /\ cur = run[r].cur
                         /\ doc = Transition(run[r].cur, "HEALTHY")
    OBVIOUS
  <1>1. /\ run[r].pc = "publish" /\ run[r].pc \in Active \ {"approve"}
        /\ UNCHANGED <<cloud, object, plan, approvals, health, recon, ledger, lateWrites,
                       losses>>
        /\ UNCHANGED <<states, starts, succeeded>>
        /\ published' = published \cup {e} /\ Swap(r, doc)
    BY DEF Publish, cloud, Active, RunSteps
  <1>2. /\ LiveTypes /\ Holds(r) /\ e \in Executions /\ cur \in Document
        /\ cur.status \in LedgerStatuses
    BY <1>1, AtWork
  <1>3. /\ cur.status \in {"APPLIED", "RECONCILED_APPLIED"}
        /\ health[e] # Absent /\ health[e].version = cur.version
    BY <1>1, <1>2 DEF Holds, Settles, At
  <1>4. "HEALTHY" \in Transitions[cur.status] /\ "HEALTHY" \in LedgerStatuses
    BY <1>2, <1>3, TransitionTable DEF LedgerStatuses
  <1>5. doc \in Document /\ doc.status = "HEALTHY" /\ doc.version = cur.version + 1
    BY <1>2, <1>4, TransitionType
  <1>6. /\ run' \in [Runs -> RunRecord]
        /\ \A s \in Runs : s # r => run'[s] = run[s]
        /\ run'[r].pc = "cas" /\ run'[r].prop = doc /\ run'[r].exec = e
        /\ run'[r].cur = cur /\ run'[r].outcome = run[r].outcome
    BY <1>1, <1>2, <1>5, SwapUpdate
  <1>7. LiveTypes'
    BY <1>1, <1>2, <1>6 DEF LiveTypes
  <1>8. \A f \in Executions : Grows(f) /\ Receipts(f)'
    BY <1>1 DEF Grows, Receipts, Shows, Serial, LiveInv
  <1>9. Backed(doc, e)'
    BY <1>1, <1>3, <1>5 DEF Backed
  <1>10. run'[r].outcome # Absent => run'[r].outcome.status = "APPLIED"
    BY <1>2, <1>6 DEF Holds, Reads
  <1> QED
    BY <1>1, <1>4, <1>6, <1>7, <1>8, <1>9, <1>10, RunProposes

LEMMA PutReconciliationInv ==
    ASSUME LiveInv, NEW r \in Runs, PutReconciliation(r)
    PROVE  LiveInv'
  <1> PICK e, cur, receipt : e = run[r].exec /\ cur = run[r].cur /\ receipt = run[r].receipt
    OBVIOUS
  <1> PICK doc : doc = Transition(cur, receipt.decision)
    OBVIOUS
  <1>1. /\ run[r].pc = "decision" /\ run[r].pc \in Active \ {"approve"}
        /\ UNCHANGED <<cloud, object, plan, approvals, health, published, ledger, lateWrites,
                       losses>>
        /\ UNCHANGED <<states, starts, succeeded>>
    BY DEF PutReconciliation, cloud, Active, RunSteps
  <1>2. /\ LiveTypes /\ Holds(r) /\ e \in Executions /\ ledger[e] # Absent /\ Receipts(e)
        /\ cur \in Document /\ cur.status \in LedgerStatuses
    BY <1>1, AtWork
  <1>3. /\ receipt \in ReconciliationReceipt /\ receipt # Absent
        /\ cur.status = "UNCERTAIN"
        /\ receipt.decision = "RECONCILED_APPLIED" =>
             Shows(e, receipt.serial) /\ receipt.serial > plan[e].serial
    BY <1>1, <1>2, AbsentAssumption DEF Holds, Settles, At
  <1> DEFINE s == receipt.decision
  <1>4. /\ s \in {"RECONCILED_APPLIED", "RECONCILIATION_REQUIRED"}
        /\ s \in Transitions[cur.status] /\ s \in LedgerStatuses
    BY <1>2, <1>3, TransitionTable DEF LedgerStatuses, ReconciliationReceipt
  <1>5. doc \in Document /\ doc.status = s
    BY <1>2, <1>4, TransitionType
  <1>6. CASE Stop(r) /\ UNCHANGED recon
    BY <1>1, <1>2, <1>6, StopInv DEF records, LiveTypes
  <1>7. CASE /\ Reproduced(recon[e], receipt)
             /\ recon' = [recon EXCEPT ![e] = receipt] /\ Swap(r, doc)
    <2>1. /\ run' \in [Runs -> RunRecord]
          /\ \A q \in Runs : q # r => run'[q] = run[q]
          /\ run'[r].pc = "cas" /\ run'[r].prop = doc /\ run'[r].exec = e
          /\ run'[r].cur = cur /\ run'[r].outcome = run[r].outcome
      BY <1>2, <1>5, <1>7, SwapUpdate
    <2>2. /\ recon' \in [Executions -> ReconciliationReceipt \cup {Absent}]
          /\ recon'[e] = receipt
          /\ \A f \in Executions : f # e => recon'[f] = recon[f]
      BY <1>2, <1>3, <1>7 DEF LiveTypes
    <2>3. LiveTypes'
      BY <1>1, <1>2, <2>1, <2>2 DEF LiveTypes
    <2>4. \A f \in Executions : Grows(f)
      BY <1>1, <1>7, <2>2 DEF Grows, Serial, Reproduced
    <2>5. \A f \in Executions : f # e => Receipts(f)'
      BY <1>1, <2>2, <2>4, ReceiptsKept DEF LiveInv
    <2>6. Receipts(e)'
      <3>1. s = "RECONCILED_APPLIED" =>
              Shows(e, receipt.serial)' /\ receipt.serial > plan'[e].serial
        BY <1>1, <1>2, <1>3, <2>4, ShowsKept
      <3> PICK n : n = health[e].serial
        OBVIOUS
      <3>2. health[e] # Absent => Shows(e, n)'
        BY <1>2, <2>4, ShowsKept DEF Receipts
      <3> QED
        BY <1>1, <1>2, <2>2, <3>1, <3>2 DEF Receipts, Shows
    <2>7. Backed(doc, e)'
      BY <1>1, <1>3, <1>4, <1>5, <2>2 DEF Backed
    <2>8. run'[r].outcome # Absent => run'[r].outcome.status = "APPLIED"
      BY <1>2, <2>1 DEF Holds, Reads
    <2>9. s \in Transitions[cur.status] \ {"APPROVED", "APPLYING"}
      BY <1>4
    <2> QED
      BY <1>1, <2>1, <2>3, <2>4, <2>5, <2>6, <2>7, <2>8, <2>9, RunProposes
  <1> QED
    BY <1>6, <1>7 DEF PutReconciliation

-----------------------------------------------------------------------------
(* Terraform is started: the run was in front of it, so nobody had.        *)
LEMMA StartTerraformInv ==
    ASSUME LiveInv, NEW r \in Runs, StartTerraform(r)
    PROVE  LiveInv'
  <1> PICK e, cur : e = run[r].exec /\ cur = run[r].cur
    OBVIOUS
  <1>1. /\ run[r].pc = "applying" /\ run[r].pc \in Active \ {"approve"}
        /\ "terraform" \in Active /\ "recover" \in Active
        /\ UNCHANGED <<states, succeeded, records, ledger, lateWrites, losses>>
        /\ UNCHANGED <<object, plan, approvals, health, recon, published>>
    BY DEF StartTerraform, records, Active, RunSteps
  <1>2. /\ LiveTypes /\ Holds(r) /\ e \in Executions /\ ledger[e] # Absent
        /\ Behind(cur, e) /\ Consumed(cur) /\ cur \in Document
    BY <1>1, AtWork
  <1>3. cur.status = "APPLYING" /\ cur.approval = r /\ PreStart(r) /\ r \in approvals
    BY <1>1, <1>2 DEF Holds, Applies, At, PreStart
  <1>4. ASSUME NEW step \in {"terraform", "recover"}, RunGoto(r, step),
               \/ UNCHANGED starts
               \/ step = "terraform" /\ starts' = [starts EXCEPT ![e] = @ + 1]
        PROVE  LiveInv'
    <2>1. /\ run' \in [Runs -> RunRecord]
          /\ \A s \in Runs : s # r => run'[s] = run[s]
          /\ run'[r].pc = step /\ run'[r].exec = e /\ run'[r].cur = cur
          /\ run'[r].outcome = run[r].outcome /\ ~Making(r)'
      BY <1>1, <1>2, <1>4, RunGoes
    <2>2. starts' \in [Executions -> Nat]
      BY <1>2, <1>4 DEF LiveTypes
    <2>3. LiveTypes'
      BY <1>1, <1>2, <2>1, <2>2 DEF LiveTypes
    <2>4. \A f \in Executions : Grows(f) /\ Receipts(f)' /\ Advances(f)
      BY <1>1 DEF Grows, Receipts, Shows, Serial, LiveInv, Advances
    <2>5. ~PreStart(r)' /\ \A s \in Runs : s # r => (PreStart(s)' <=> PreStart(s))
      BY <2>1 DEF PreStart
    <2>6. \A f \in Executions : Started(f)'
      <3> SUFFICES ASSUME NEW f \in Executions PROVE Started(f)'
        OBVIOUS
      <3>1. Started(f)
        BY DEF LiveInv
      <3>2. CASE starts'[f] = starts[f]
        <4>1. \A s \in approvals : PreStart(s)' => PreStart(s)
          BY <2>5, <1>2 DEF LiveTypes
        <4> QED
          BY <1>1, <1>2, <2>4, <3>1, <3>2, <4>1, StartedKept
      <3>3. CASE starts'[f] # starts[f]
        <4>1. f = e /\ starts'[e] = starts[e] + 1 /\ starts[e] \in Nat
          BY <1>2, <1>4, <3>3 DEF LiveTypes
        <4>2. cur.attempts = 1
          BY <1>3, <1>2 DEF Consumed
        <4>3. ledger[e].attempts = 1 /\ ledger[e].approval = r
          BY <1>2, <1>3, <4>2 DEF Behind
        <4>4. starts[e] = 0
          BY <1>3, <3>1, <4>1, <4>3 DEF Started
        <4>5. ~PreStart(r)'
          BY <2>5
        <4>6. starts'[e] = 1 /\ ledger'[e] = ledger[e]
          BY <1>1, <4>1, <4>4
        <4>7. PICK a : a = ledger'[e].approval
          OBVIOUS
        <4>8. a \in approvals' /\ ~PreStart(a)'
          BY <1>1, <1>3, <4>3, <4>5, <4>6, <4>7
        <4> QED
          BY <1>2, <4>1, <4>3, <4>6, <4>7, <4>8 DEF Started, PreStart
      <3> QED
        BY <3>2, <3>3
    <2>7. Behind(cur, e)'
      BY <1>2, <2>3, <2>4, BehindKept
    <2>8. Behind(run[r].cur, run[r].exec)'
      BY <2>1, <2>7 DEF Behind
    <2>9. Reads(r)' /\ Applies(r)' /\ Settles(r)'
      BY <1>1, <1>2, <1>3, <2>1, <2>5, <2>8 DEF Holds, Reads, Applies, Settles, At
    <2>10. \A f \in Executions : Stored(f)'
      BY <1>1 DEF LiveInv, Stored, Backed, Consumed
    <2>11. \A s \in Runs : Creator(s)'
      <3>1. Creator(r)'
        BY <2>1 DEF Creator
      <3>2. ASSUME NEW s \in Runs, s # r PROVE Creator(s)'
        <4>1. \A q \in Runs : q # s /\ Making(q)' => Making(q) /\ run'[q].exec = run[q].exec
          BY <2>1 DEF Making
        <4> QED
          BY <1>1, <2>1, <3>2, <4>1, CreatorKept DEF LiveInv
      <3> QED
        BY <3>1, <3>2
    <2>12. \A s \in Runs : Holds(s)'
      BY <1>1, <2>1, <2>3, <2>4, <2>9, HoldsKept DEF Holds
    <2>13. \A w \in lateWrites' : Proposal(w[1], w[2], w[3])'
      <3> SUFFICES ASSUME NEW w \in lateWrites PROVE Proposal(w[1], w[2], w[3])'
        BY <1>1
      <3>1. Proposal(w[1], w[2], w[3])
        BY DEF LiveInv
      <3>2. w[1] \in Executions
        BY <1>2 DEF LiveTypes
      <3> QED
        BY <2>3, <2>4, <3>1, <3>2, ProposalKept
    <2> QED
      BY <2>3, <2>4, <2>6, <2>10, <2>11, <2>12, <2>13 DEF LiveInv
  <1> QED
    BY <1>4 DEF StartTerraform

-----------------------------------------------------------------------------
(* The steps that make the plan and the ledger, and the swaps.             *)
LEMMA LedgerMoves ==
    ASSUME LiveInv, LiveTypes', UNCHANGED starts, approvals \subseteq approvals',
           \A f \in Executions : Advances(f) /\ Grows(f) /\ Receipts(f)' /\ Stored(f)',
           \A s \in Runs : Creator(s)' /\ (PreStart(s)' => PreStart(s)),
           \A s \in Runs : run'[s] = run[s] \/ Holds(s)',
           lateWrites' \subseteq lateWrites
    PROVE  LiveInv'
  <1>1. \A f \in Executions : Started(f)'
    <2>1. \A s \in approvals : PreStart(s)' => PreStart(s)
      BY DEF LiveInv, LiveTypes
    <2> QED
      BY <2>1, StartedKept DEF LiveInv
  <1>2. \A s \in Runs : Holds(s)'
    BY HoldsKept
  <1>3. \A w \in lateWrites' : Proposal(w[1], w[2], w[3])'
    <2> SUFFICES ASSUME NEW w \in lateWrites PROVE Proposal(w[1], w[2], w[3])'
      OBVIOUS
    <2>1. Proposal(w[1], w[2], w[3]) /\ w[1] \in Executions
      BY DEF LiveInv, LiveTypes
    <2> QED
      BY <2>1, ProposalKept
  <1> QED
    BY <1>1, <1>2, <1>3 DEF LiveInv

(* A run that makes the plan and the ledger of an execution.               *)
LEMMA AtCreation ==
    ASSUME LiveInv, NEW r \in Runs, Making(r)
    PROVE  /\ LiveTypes /\ run[r] \in RunRecord
           /\ run[r].exec \in Executions /\ run[r].exec \in object
           /\ ledger[run[r].exec] = Absent
           /\ health[run[r].exec] = Absent /\ recon[run[r].exec] = Absent
           /\ run[r].outcome # Absent => run[r].outcome.status = "APPLIED"
           /\ \A s \in Runs : s # r /\ Making(s) => run[s].exec # run[r].exec
  <1>1. LiveTypes /\ Creator(r) /\ Holds(r) /\ run[r] \in RunRecord
    BY DEF LiveInv, LiveTypes
  <1>2. run[r].exec \in Executions /\ run[r].exec \in object /\ ledger[run[r].exec] = Absent
    BY <1>1 DEF Creator, LiveTypes
  <1>3. Receipts(run[r].exec)
    BY <1>2 DEF LiveInv
  <1> QED
    BY <1>1, <1>2, <1>3 DEF Creator, Receipts, Holds, Reads

LEMMA TerminalPlanInv ==
    ASSUME LiveInv, NEW r \in Runs, NEW e \in Executions, TerminalPlan(r, e)
    PROVE  LiveInv'
  <1> DEFINE p == [serial |-> Serial, changes |-> ~Converged(e)]
             x == [Idle EXCEPT !.pc = "put_plan", !.exec = e, !.prop = p]
  <1>1. /\ LiveTypes /\ e \notin object /\ object' = object \cup {e}
        /\ UNCHANGED <<cloud, plan, approvals, health, recon, published, ledger,
                       lateWrites, losses>>
        /\ UNCHANGED <<states, starts, succeeded>>
        /\ run' = [run EXCEPT ![r] = x]
    BY DEF TerminalPlan, LiveInv, cloud
  <1>2. p \in SavedPlan
    BY <1>1, LenProperties DEF LiveTypes, Serial, SavedPlan
  <1> HIDE DEF p
  <1>3. /\ x \in RunRecord /\ x.pc = "put_plan" /\ x.exec = e /\ x.prop = p
        /\ x.outcome = Absent
    BY <1>2 DEF Idle, RunRecord, RunSteps
  <1> HIDE DEF x
  <1>4. /\ run' \in [Runs -> RunRecord] /\ run'[r] = x
        /\ \A s \in Runs : s # r => run'[s] = run[s]
    BY <1>1, <1>3, RunUpdate
  <1>5. LiveTypes'
    BY <1>1, <1>4 DEF LiveTypes
  <1>6. \A f \in Executions : Advances(f) /\ Grows(f) /\ Receipts(f)' /\ Stored(f)'
    BY <1>1 DEF Advances, Grows, Receipts, Shows, Serial, Stored, Backed, Consumed, LiveInv
  <1>7. ledger[e] = Absent
    BY <1>1 DEF LiveInv, Stored
  <1>8. \A s \in Runs : Making(s) => run[s].exec # e
    BY <1>1, AtCreation
  <1>9. Making(r)' /\ run'[r].exec = e /\ run'[r].outcome = Absent
    BY <1>3, <1>4 DEF Making
  <1>10. Holds(r)' /\ ~PreStart(r)'
    BY <1>3, <1>4 DEF Holds, Reads, Applies, Settles, At, PreStart
  <1>11. Creator(r)'
    <2>1. \A s \in Runs : Making(s)' /\ run'[s].exec = e => s = r
      BY <1>4, <1>8 DEF Making
    <2>2. run'[r].pc = "put_plan" /\ run'[r].prop \in SavedPlan /\ ledger'[e] = Absent
      BY <1>1, <1>2, <1>3, <1>4, <1>7
    <2> QED
      BY <1>1, <1>9, <2>1, <2>2 DEF Creator
  <1>12. ASSUME NEW s \in Runs, s # r PROVE Creator(s)' /\ (PreStart(s)' => PreStart(s))
    <2>1. \A q \in Runs : q # s /\ Making(q)' =>
             \/ Making(q) /\ run'[q].exec = run[q].exec
             \/ Making(s) => run'[q].exec # run[s].exec
      BY <1>4, <1>8, <1>9 DEF Making
    <2>2. Creator(s)'
      BY <1>1, <1>4, <1>12, <2>1, CreatorKept DEF LiveInv
    <2> QED
      BY <1>4, <1>12, <2>2 DEF PreStart
  <1> QED
    BY <1>1, <1>4, <1>5, <1>6, <1>10, <1>11, <1>12, LedgerMoves

LEMMA PutPlanInv ==
    ASSUME LiveInv, NEW r \in Runs, PutPlan(r)
    PROVE  LiveInv'
  <1> PICK e, p : e = run[r].exec /\ p = run[r].prop
    OBVIOUS
  <1> DEFINE x == [run[r] EXCEPT !.pc = "create_ledger"]
  <1>1. /\ run[r].pc = "put_plan" /\ Making(r) /\ Creator(r)
        /\ UNCHANGED <<cloud, object, approvals, health, recon, published, ledger,
                       lateWrites, losses>>
        /\ UNCHANGED <<states, starts, succeeded>>
        /\ plan' = [plan EXCEPT ![e] = p] /\ RunGoto(r, "create_ledger")
    BY DEF PutPlan, cloud, Making, LiveInv
  <1>2. /\ LiveTypes /\ run[r] \in RunRecord /\ e \in Executions /\ e \in object
        /\ ledger[e] = Absent /\ health[e] = Absent /\ recon[e] = Absent
        /\ run[r].outcome # Absent => run[r].outcome.status = "APPLIED"
        /\ \A s \in Runs : s # r /\ Making(s) => run[s].exec # e
    BY <1>1, AtCreation
  <1>3. p \in SavedPlan
    BY <1>1 DEF Creator
  <1>4. x \in RunRecord /\ run' = [run EXCEPT ![r] = x]
    BY <1>1, <1>2 DEF RunGoto, RunRecord, RunSteps, LiveTypes
  <1>5. /\ run' \in [Runs -> RunRecord] /\ run'[r] = x
        /\ \A s \in Runs : s # r => run'[s] = run[s]
    BY <1>2, <1>4, RunUpdate
  <1>6. /\ run'[r].pc = "create_ledger" /\ run'[r].exec = e
        /\ run'[r].outcome = run[r].outcome
    BY <1>2, <1>5 DEF RunRecord
  <1>7. /\ plan' \in [Executions -> SavedPlan \cup {Absent}] /\ plan'[e] = p
        /\ \A f \in Executions : f # e => plan'[f] = plan[f]
    BY <1>1, <1>2, <1>3 DEF LiveTypes
  <1>8. LiveTypes'
    BY <1>1, <1>2, <1>5, <1>7 DEF LiveTypes
  <1>9. \A f \in Executions : Advances(f) /\ Grows(f)
    BY <1>1, <1>2, <1>7 DEF Advances, Grows, Serial
  <1>10. \A f \in Executions : Receipts(f)' /\ Stored(f)'
    <2>1. Receipts(e)' /\ Stored(e)'
      BY <1>1, <1>2 DEF Receipts, Stored
    <2>2. \A f \in Executions : f # e => Receipts(f)' /\ Stored(f)'
      BY <1>1, <1>7 DEF Receipts, Shows, Serial, Stored, Backed, Consumed, LiveInv
    <2> QED
      BY <2>1, <2>2
  <1>11. Making(r)'
    BY <1>6 DEF Making
  <1>12. run'[r].outcome # Absent => run'[r].outcome.status = "APPLIED"
    BY <1>2, <1>6
  <1>13. Holds(r)' /\ ~PreStart(r)'
    BY <1>6, <1>12 DEF Holds, Reads, Applies, Settles, At, PreStart
  <1>14. Creator(r)'
    <2>1. \A s \in Runs : Making(s)' /\ run'[s].exec = e => s = r
      BY <1>2, <1>5 DEF Making
    <2>2. ledger'[e] = Absent /\ plan'[e] \in SavedPlan
      BY <1>1, <1>2, <1>3, <1>7
    <2> QED
      BY <1>1, <1>2, <1>6, <2>1, <2>2 DEF Creator
  <1>15. ASSUME NEW s \in Runs, s # r PROVE Creator(s)' /\ (PreStart(s)' => PreStart(s))
    <2>1. \A q \in Runs : q # s /\ Making(q)' => Making(q) /\ run'[q].exec = run[q].exec
      BY <1>1, <1>5, <1>6 DEF Making
    <2>2. Making(s) => run[s].exec \in Executions /\ run[s].exec # e
      BY <1>2, <1>15, AtCreation
    <2>3. Creator(s)'
      BY <1>1, <1>5, <1>7, <1>15, <2>1, <2>2, CreatorKept DEF LiveInv
    <2> QED
      BY <1>5, <1>15, <2>3 DEF PreStart
  <1> QED
    BY <1>1, <1>5, <1>8, <1>9, <1>10, <1>13, <1>14, <1>15, LedgerMoves

LEMMA CreateLedgerInv ==
    ASSUME LiveInv, NEW r \in Runs, CreateLedger(r)
    PROVE  LiveInv'
  <1> DEFINE first == [status |-> "PLANNED", version |-> 1, approval |-> Absent,
                       attempts |-> 0]
  <1> PICK e : e = run[r].exec
    OBVIOUS
  <1>1. /\ run[r].pc = "create_ledger" /\ Making(r) /\ Creator(r)
        /\ UNCHANGED <<cloud, records, lateWrites, losses>>
        /\ UNCHANGED <<states, starts, succeeded, object, plan, approvals, health, recon,
                       published>>
        /\ ledger' = [ledger EXCEPT ![e] = first] /\ Stop(r)
    BY DEF CreateLedger, cloud, records, Making, LiveInv
  <1>2. /\ LiveTypes /\ e \in Executions /\ e \in object
        /\ ledger[e] = Absent /\ health[e] = Absent /\ recon[e] = Absent
        /\ \A s \in Runs : s # r /\ Making(s) => run[s].exec # e
    BY <1>1, AtCreation
  <1>3. plan[e] \in SavedPlan
    BY <1>1 DEF Creator
  <1>4. /\ first \in Document /\ Consumed(first) /\ Backed(first, e)'
    BY DEF Document, LedgerStatuses, Consumed, Backed
  <1>5. /\ run' \in [Runs -> RunRecord]
        /\ \A s \in Runs : s # r => run'[s] = run[s]
        /\ ~Making(r)' /\ ~PreStart(r)' /\ Holds(r)'
    BY <1>1, IdleHolds
  <1> HIDE DEF first
  <1>6. /\ ledger' \in [Executions -> Document \cup {Absent}] /\ ledger'[e] = first
        /\ \A f \in Executions : f # e => ledger'[f] = ledger[f]
    BY <1>1, <1>2, <1>4 DEF LiveTypes
  <1>7. LiveTypes'
    BY <1>1, <1>2, <1>5, <1>6 DEF LiveTypes
  <1>8. \A f \in Executions : Advances(f) /\ Grows(f)
    BY <1>1, <1>2, <1>6 DEF Advances, Grows, Serial
  <1>9. \A f \in Executions : Receipts(f)' /\ Stored(f)'
    <2>1. Receipts(e)'
      BY <1>1, <1>2 DEF Receipts
    <2>2. Stored(e)'
      BY <1>1, <1>2, <1>3, <1>4, <1>6 DEF Stored, Consumed, Backed
    <2>3. \A f \in Executions : f # e => Receipts(f)' /\ Stored(f)'
      BY <1>1, <1>6 DEF Receipts, Shows, Serial, Stored, Backed, Consumed, LiveInv
    <2> QED
      BY <2>1, <2>2, <2>3
  <1>10. Creator(r)'
    BY <1>5 DEF Creator
  <1>11. ASSUME NEW s \in Runs, s # r PROVE Creator(s)' /\ (PreStart(s)' => PreStart(s))
    <2>1. \A q \in Runs : q # s /\ Making(q)' => Making(q) /\ run'[q].exec = run[q].exec
      BY <1>5 DEF Making
    <2>2. Making(s) => run[s].exec \in Executions /\ run[s].exec # e
      BY <1>2, <1>11, AtCreation
    <2>3. Creator(s)'
      BY <1>1, <1>5, <1>6, <1>11, <2>1, <2>2, CreatorKept DEF LiveInv
    <2> QED
      BY <1>5, <1>11, <2>3 DEF PreStart
  <1> QED
    BY <1>1, <1>5, <1>7, <1>8, <1>9, <1>10, <1>11, LedgerMoves

(* A conditional put of a proposal, now or late.                           *)
LEMMA SwapAdvances ==
    ASSUME LiveInv, NEW e \in Executions, NEW cur, NEW prop, Proposal(e, cur, prop),
           ledger' = [ledger EXCEPT ![e] = Swapped(e, cur, prop)]
    PROVE  /\ ledger' \in [Executions -> Document \cup {Absent}]
           /\ ledger[e] # Absent /\ ledger'[e] # Absent
           /\ \A f \in Executions : Advances(f)
           /\ \A f \in Executions : f # e => ledger'[f] = ledger[f]
  <1>1. /\ LiveTypes /\ ledger[e] \in Document /\ ledger[e] # Absent
        /\ prop \in Document /\ prop # Absent
    BY AbsentAssumption DEF LiveInv, Proposal, Behind
  <1>2. Swapped(e, cur, prop) \in Document /\ Swapped(e, cur, prop) # Absent
    BY <1>1 DEF Swapped
  <1>3. /\ ledger' \in [Executions -> Document \cup {Absent}]
        /\ ledger'[e] = Swapped(e, cur, prop)
        /\ \A f \in Executions : f # e => ledger'[f] = ledger[f]
    BY <1>1, <1>2 DEF LiveTypes
  <1>4. Advances(e)
    <2>1. CASE ledger[e] = cur
      <3>1. ledger'[e] = prop
        BY <1>3, <2>1 DEF Swapped
      <3> QED
        BY <1>1, <2>1, <3>1 DEF Advances
    <2>2. CASE ledger[e] # cur
      BY <1>3, <2>2 DEF Swapped, Advances
    <2> QED
      BY <2>1, <2>2
  <1>5. \A f \in Executions : f # e => Advances(f)
    BY <1>3 DEF Advances
  <1> QED
    BY <1>1, <1>2, <1>3, <1>4, <1>5

(* What the put leaves alone.                                              *)
LEMMA SwapKeeps ==
    ASSUME LiveInv, NEW e \in Executions, NEW cur, NEW prop, Proposal(e, cur, prop),
           ledger' = [ledger EXCEPT ![e] = Swapped(e, cur, prop)],
           UNCHANGED <<cloud, records>>,
           \A s \in Runs : run'[s] = run[s]
                           \/ (~Making(s) /\ ~Making(s)' /\ (PreStart(s)' => PreStart(s)))
    PROVE  /\ \A f \in Executions : Advances(f) /\ Grows(f) /\ Receipts(f)' /\ Stored(f)'
           /\ \A s \in Runs : Creator(s)' /\ (PreStart(s)' => PreStart(s))
  <1>1. /\ ledger[e] # Absent /\ ledger'[e] # Absent
        /\ \A f \in Executions : Advances(f)
        /\ \A f \in Executions : f # e => ledger'[f] = ledger[f]
    BY SwapAdvances
  <1>2. /\ UNCHANGED <<states, starts, succeeded, object, plan, approvals, health, recon,
                       published>>
    BY DEF cloud, records
  <1>3. \A f \in Executions : Grows(f)
    BY <1>2 DEF Grows, Serial
  <1>4. \A f \in Executions : Receipts(f)'
    BY <1>1, <1>2, <1>3, ReceiptsKept DEF LiveInv
  <1>5. \A f \in Executions : Stored(f)'
    <2> SUFFICES ASSUME NEW f \in Executions PROVE Stored(f)'
      OBVIOUS
    <2>1. ledger'[f] = Absent \/ ledger[f] # Absent
      BY <1>1
    <2> QED
      BY <1>1, <1>2, <1>3, <2>1, StoredKept DEF LiveInv
  <1>6. ASSUME NEW s \in Runs PROVE Creator(s)' /\ (PreStart(s)' => PreStart(s))
    <2>1. CASE ~Making(s)' /\ (PreStart(s)' => PreStart(s))
      BY <2>1 DEF Creator
    <2>2. CASE run'[s] = run[s]
      <3>1. \A q \in Runs : Making(q)' => Making(q) /\ run'[q].exec = run[q].exec
        BY DEF Making
      <3>2. Making(s) => run[s].exec \in Executions /\ run[s].exec # e
        BY <1>1, AtCreation
      <3>3. Creator(s)'
        BY <1>1, <1>2, <2>2, <3>1, <3>2, CreatorKept DEF LiveInv
      <3> QED
        BY <2>2, <3>3 DEF PreStart
    <2> QED
      BY <2>1, <2>2
  <1> QED
    BY <1>1, <1>3, <1>4, <1>5, <1>6

LEMMA WriteLedgerInv ==
    ASSUME LiveInv, NEW r \in Runs, WriteLedger(r)
    PROVE  LiveInv'
  <1> PICK e, cur, doc : e = run[r].exec /\ cur = run[r].cur /\ doc = run[r].prop
    OBVIOUS
  <1>1. /\ run[r].pc = "cas" /\ UNCHANGED <<cloud, records, lateWrites, losses>>
        /\ UNCHANGED <<states, starts, succeeded, object, plan, approvals, health, recon,
                       published>>
        /\ LiveTypes /\ Holds(r) /\ "confirm" \in Active /\ RunGoto(r, "confirm")
        /\ ledger' = [ledger EXCEPT ![e] = Swapped(e, cur, doc)]
    BY DEF WriteLedger, LiveInv, Active, RunSteps, cloud, records
  <1>2. /\ run' \in [Runs -> RunRecord]
        /\ \A s \in Runs : s # r => run'[s] = run[s]
        /\ run'[r].pc = "confirm" /\ run'[r].exec = e /\ run'[r].cur = cur
        /\ run'[r].prop = doc /\ run'[r].outcome = run[r].outcome
        /\ ~Making(r)'
    BY <1>1, RunGoes
  <1>3. /\ e \in Executions /\ Proposal(e, cur, doc)
    BY <1>1, AtSwap
  <1>4. (PreStart(r)' <=> PreStart(r)) /\ ~Making(r)
    BY <1>1, <1>2 DEF PreStart, Making
  <1>5. /\ \A f \in Executions : Advances(f) /\ Grows(f) /\ Receipts(f)' /\ Stored(f)'
        /\ \A s \in Runs : Creator(s)' /\ (PreStart(s)' => PreStart(s))
    <2>1. \A s \in Runs : run'[s] = run[s]
            \/ (~Making(s) /\ ~Making(s)' /\ (PreStart(s)' => PreStart(s)))
      BY <1>2, <1>4 DEF Making, PreStart
    <2>2. UNCHANGED <<cloud, records>>
      BY <1>1
    <2> QED
      BY <1>1, <1>3, <2>1, <2>2, SwapKeeps
  <1>6. ledger' \in [Executions -> Document \cup {Absent}] /\ ledger'[e] # Absent
    BY <1>1, <1>3, SwapAdvances
  <1>7. LiveTypes'
    BY <1>1, <1>2, <1>6 DEF LiveTypes
  <1>8. Proposal(e, cur, doc)' /\ Behind(cur, e)'
    BY <1>3, <1>5, <1>7, ProposalKept DEF Proposal
  <1>9. Proposal(run[r].exec, run[r].cur, run[r].prop)' /\ Behind(run[r].cur, run[r].exec)'
    BY <1>2, <1>8 DEF Proposal
  <1>10. Reads(r)'
    BY <1>1, <1>2, <1>3, <1>6, <1>9 DEF Holds, Reads, At
  <1>11. Applies(r)'
    BY <1>1, <1>2, <1>4, <1>9 DEF Holds, Applies, At
  <1>12. Settles(r)'
    BY <1>2 DEF Settles, At
  <1> QED
    BY <1>1, <1>2, <1>5, <1>7, <1>10, <1>11, <1>12, LedgerMoves DEF Holds

LEMMA LateWriteInv ==
    ASSUME LiveInv, NEW w \in lateWrites, LateWrite(w)
    PROVE  LiveInv'
  <1> PICK e, cur, doc : e = w[1] /\ cur = w[2] /\ doc = w[3]
    OBVIOUS
  <1>1. /\ UNCHANGED <<cloud, records, run, losses>> /\ LiveTypes
        /\ UNCHANGED <<states, starts, succeeded, object, plan, approvals, health, recon,
                       published>>
        /\ lateWrites' = lateWrites \ {w}
        /\ ledger' = [ledger EXCEPT ![e] = Swapped(e, cur, doc)]
    BY DEF LateWrite, LiveInv, cloud, records
  <1>2. e \in Executions /\ Proposal(e, cur, doc)
    BY <1>1 DEF LiveInv, LiveTypes
  <1>3. /\ \A f \in Executions : Advances(f) /\ Grows(f) /\ Receipts(f)' /\ Stored(f)'
        /\ \A s \in Runs : Creator(s)' /\ (PreStart(s)' => PreStart(s))
    <2>1. \A s \in Runs : run'[s] = run[s]
            \/ (~Making(s) /\ ~Making(s)' /\ (PreStart(s)' => PreStart(s)))
      BY <1>1
    <2>2. UNCHANGED <<cloud, records>>
      BY <1>1
    <2> QED
      BY <1>1, <1>2, <2>1, <2>2, SwapKeeps
  <1>4. ledger' \in [Executions -> Document \cup {Absent}]
    BY <1>1, <1>2, SwapAdvances
  <1>5. LiveTypes'
    BY <1>1, <1>4 DEF LiveTypes
  <1> QED
    BY <1>1, <1>3, <1>5, LedgerMoves

-----------------------------------------------------------------------------
(* The initial states, every step, and what follows for the program.       *)
LEMMA LiveInitInv == LiveInit => LiveInv
  <1> SUFFICES ASSUME LiveInit PROVE LiveInv
    OBVIOUS
  <1>1. Idle \in RunRecord /\ Idle.pc = "idle" /\ Idle.outcome = Absent
    BY DEF Idle, RunRecord, RunSteps
  <1>2. /\ run = [r \in Runs |-> Idle]
        /\ \A r \in Runs : run[r].pc = "idle" /\ run[r].outcome = Absent
    BY <1>1 DEF LiveInit
  <1>3. states \in Seq(Configs \cup {Partial})
    <2>1. CASE states = <<>>
      BY <2>1, EmptySeq
    <2>2. ASSUME NEW c \in Configs, states = <<c>>
          PROVE  states \in Seq(Configs \cup {Partial})
      BY <2>2
    <2> QED
      BY <2>1, <2>2 DEF LiveInit
  <1>4. LiveTypes
    BY <1>1, <1>2, <1>3, LiveAssumption DEF LiveInit, LiveTypes
  <1>5. \A e \in Executions : Stored(e) /\ Receipts(e) /\ Started(e)
    <2>1. \A e \in Executions : /\ ledger[e] = Absent /\ health[e] = Absent
                                /\ recon[e] = Absent /\ starts[e] = 0
      BY DEF LiveInit
    <2> SUFFICES ASSUME NEW e \in Executions PROVE Stored(e) /\ Receipts(e) /\ Started(e)
      OBVIOUS
    <2>2. Stored(e) /\ Receipts(e)
      BY <2>1 DEF Stored, Receipts
    <2>3. Started(e)
      <3>1. starts[e] = 0
        BY <2>1
      <3> QED
        BY <3>1 DEF Started
    <2> QED
      BY <2>2, <2>3
  <1>6. \A r \in Runs : Creator(r) /\ Holds(r)
    BY <1>2 DEF Creator, Making, Holds, Reads, Applies, Settles, At, PreStart
  <1>7. \A w \in lateWrites : Proposal(w[1], w[2], w[3])
    BY DEF LiveInit
  <1> QED
    BY <1>4, <1>5, <1>6, <1>7 DEF LiveInv

LEMMA LiveStutters ==
    ASSUME LiveInv, UNCHANGED liveVars
    PROVE  LiveInv'
  <1>1. /\ UNCHANGED <<states, starts, succeeded, object, plan, approvals, health, recon,
                       published, ledger, lateWrites, run, losses>>
    BY DEF liveVars, cloud, records
  <1>2. LiveTypes'
    BY <1>1 DEF LiveTypes, LiveInv
  <1>3. \A e \in Executions :
          Advances(e) /\ Grows(e) /\ Receipts(e)' /\ Stored(e)'
    BY <1>1 DEF Advances, Grows, Receipts, Stored, Shows, Serial, Backed, Consumed, LiveInv
  <1>4. \A r \in Runs : Creator(r)' /\ (PreStart(r)' => PreStart(r))
    BY <1>1 DEF Creator, Making, PreStart, LiveInv
  <1> QED
    BY <1>1, <1>2, <1>3, <1>4, LedgerMoves

LEMMA LiveNextInv == LiveInv /\ [LiveNext]_liveVars => LiveInv'
  <1> SUFFICES ASSUME LiveInv, [LiveNext]_liveVars PROVE LiveInv'
    OBVIOUS
  <1>1. CASE UNCHANGED liveVars
    BY <1>1, LiveStutters
  <1>2. ASSUME NEW r \in Runs, NEW e \in Executions, TerminalPlan(r, e) \/ BeginApply(r, e)
        PROVE  LiveInv'
    BY <1>2, TerminalPlanInv, BeginApplyInv
  <1>3. ASSUME NEW r \in Runs, Step(r) PROVE LiveInv'
    <2>1. CASE PutPlan(r) \/ CreateLedger(r)
      BY <2>1, PutPlanInv, CreateLedgerInv
    <2>2. CASE WriteLedger(r) \/ ConfirmLedger(r)
      BY <2>2, WriteLedgerInv, ConfirmLedgerInv
    <2>3. CASE Approve(r) \/ Fetch(r) \/ StartTerraform(r)
      BY <2>3, ApproveInv, FetchInv, StartTerraformInv
    <2>4. CASE TerraformSucceeds(r) \/ TerraformFails(r)
      BY <2>4, TerraformSucceedsInv, TerraformFailsInv
    <2>5. CASE ReadAfterError(r) \/ FinalRead(r)
      BY <2>5, ReadAfterErrorInv, FinalReadInv
    <2>6. CASE ProbeHealth(r) \/ PutHealth(r) \/ Publish(r)
      BY <2>6, ProbeHealthInv, PutHealthInv, PublishInv
    <2>7. CASE ProbeUncertain(r) \/ PutReconciliation(r)
      BY <2>7, ProbeUncertainInv, PutReconciliationInv
    <2> QED
      BY <1>3, <2>1, <2>2, <2>3, <2>4, <2>5, <2>6, <2>7 DEF Step
  <1>4. ASSUME NEW r \in Runs,
               \/ WriteUnanswered(r) \/ ConfirmUnanswered(r)
               \/ ReadAfterErrorUnanswered(r) \/ RunLost(r)
        PROVE  LiveInv'
    BY <1>4, WriteUnansweredInv, ConfirmUnansweredInv, ReadAfterErrorUnansweredInv, RunLostInv
  <1>5. ASSUME NEW w \in lateWrites, LateWrite(w) PROVE LiveInv'
    BY <1>5, LateWriteInv
  <1> QED
    BY <1>1, <1>2, <1>3, <1>4, <1>5 DEF LiveNext

LEMMA LiveInvariant == LiveSpec => []LiveInv
  BY LiveInitInv, LiveNextInv, PTL DEF LiveSpec

(* Every record of the engine is of its kind, whatever runs overlap or are *)
(* lost (nonprod_live_controller).                                         *)
THEOREM LiveTyping == LiveSpec => []LiveTypeOK
  <1>1. LiveInv => LiveTypeOK
    <2> SUFFICES ASSUME LiveInv PROVE LiveTypeOK
      OBVIOUS
    <2>1. \A i \in DOMAIN states : states[i] \in Configs \cup {Partial}
      <3>1. states \in Seq(Configs \cup {Partial})
        BY DEF LiveInv, LiveTypes
      <3> QED
        BY <3>1, ElementOfSeq, LenProperties
    <2> QED
      BY <2>1 DEF LiveInv, LiveTypes, LiveTypeOK
  <1> QED
    BY <1>1, LiveInvariant, PTL

(* Terraform is started with a saved plan at most once, and only when the  *)
(* ledger says that its attempt is consumed (run_apply_controller).        *)
THEOREM LiveOneApply == LiveSpec => []OneApply
  <1>1. LiveInv => OneApply
    BY DEF LiveInv, Started, OneApply
  <1> QED
    BY <1>1, LiveInvariant, PTL

(* APPLIED rests on Terraform's success, HEALTHY on a receipt for the very *)
(* document it replaced and a published contract, RECONCILED_APPLIED on a  *)
(* state that moved to the plan's configuration (_finalize_applied,        *)
(* _reconcile_uncertain).                                                  *)
THEOREM LiveEvidenceBacked == LiveSpec => []EvidenceBacked
  <1>1. LiveInv => EvidenceBacked
    <2> SUFFICES ASSUME LiveInv, NEW e \in Executions, ledger[e] # Absent
                 PROVE  /\ ledger[e].status = "APPLIED" => e \in succeeded
                        /\ ledger[e].status = "HEALTHY" =>
                             /\ e \in published /\ health[e] # Absent
                             /\ health[e].version = ledger[e].version - 1
                             /\ states[health[e].serial] = Config(e)
                        /\ ledger[e].status = "RECONCILED_APPLIED" =>
                             /\ recon[e] # Absent /\ recon[e].serial > plan[e].serial
                             /\ states[recon[e].serial] = Config(e)
      BY DEF EvidenceBacked
    <2>1. Backed(ledger[e], e) /\ Receipts(e) /\ ledger[e] \in Document
          /\ health[e] \in HealthReceipt \cup {Absent}
      BY DEF LiveInv, Stored, LiveTypes
    <2>2. health[e] # Absent =>
            health[e].version \in Nat /\ ledger[e].version \in Nat
      BY <2>1 DEF HealthReceipt, Document
    <2>3. ledger[e].status = "HEALTHY" =>
             /\ e \in published /\ health[e] # Absent
             /\ health[e].version = ledger[e].version - 1
      BY SMTT(30), <2>1, <2>2 DEF Backed
    <2> QED
      BY <2>1, <2>3 DEF Backed, Receipts, Shows
  <1> QED
    BY <1>1, LiveInvariant, PTL

(* Only the creation and the swaps write a ledger.                         *)
LEMMA LedgerAdvances ==
    ASSUME LiveInv, [LiveNext]_liveVars, NEW e \in Executions
    PROVE  Advances(e)
  <1>1. CASE UNCHANGED ledger
    BY <1>1 DEF Advances
  <1>2. ASSUME NEW r \in Runs, CreateLedger(r) PROVE Advances(e)
    <2>1. Making(r) /\ ledger' = [ledger EXCEPT ![run[r].exec] =
            [status |-> "PLANNED", version |-> 1, approval |-> Absent, attempts |-> 0]]
      BY <1>2 DEF CreateLedger, Making
    <2>2. ledger[run[r].exec] = Absent /\ LiveTypes
      BY <2>1, AtCreation
    <2> QED
      BY <2>1, <2>2 DEF Advances, LiveTypes
  <1>3. ASSUME NEW r \in Runs, WriteLedger(r) PROVE Advances(e)
    <2>1. /\ run[r].exec \in Executions
          /\ Proposal(run[r].exec, run[r].cur, run[r].prop)
          /\ ledger' = [ledger EXCEPT ![run[r].exec] =
                          Swapped(run[r].exec, run[r].cur, run[r].prop)]
      BY <1>3, AtSwap DEF WriteLedger
    <2> QED
      BY <2>1, SwapAdvances
  <1>4. ASSUME NEW w \in lateWrites, LateWrite(w) PROVE Advances(e)
    BY <1>4, SwapAdvances DEF LateWrite, LiveInv, LiveTypes
  <1> QED
    BY ZenonT(60), <1>1, <1>2, <1>3, <1>4
       DEF LiveNext, Step, liveVars, TerminalPlan, BeginApply, PutPlan, ConfirmLedger,
           Approve, Fetch, StartTerraform, TerraformSucceeds, TerraformFails,
           ReadAfterError, FinalRead, ProbeHealth, PutHealth, Publish, ProbeUncertain,
           PutReconciliation, WriteUnanswered, ConfirmUnanswered,
           ReadAfterErrorUnanswered, RunLost

(* Every change of a ledger, also that of a write applied long after its   *)
(* run gave it up, is one step of ALLOWED_LEDGER_TRANSITIONS from the      *)
(* document it replaces (_replace_ledger_confirmed).                       *)
THEOREM LiveLedgerForward == LiveSpec => LedgerForward
  <1> DEFINE Forward ==
        \A e \in Executions :
          ledger[e] # Absent /\ ledger'[e] # ledger[e] =>
            /\ ledger'[e].status \in Transitions[ledger[e].status]
            /\ ledger'[e].version = ledger[e].version + 1
  <1>1. LiveInv /\ [LiveNext]_liveVars => [Forward]_liveVars
    BY LedgerAdvances DEF Advances, Proposal
  <1> QED
    BY <1>1, LiveInvariant, PTL DEF LiveSpec, LedgerForward

-----------------------------------------------------------------------------
(* The identity control plane.                                             *)

(* The rows and the calls of the bootstrap of an administrator.            *)
MaybeToken == Tokens \cup {Nil}

BootRow ==
  [state : {"approved", "claimed", "effects_applied", "audit_committed", "consumed"},
   token : MaybeToken, outcome : Nat \cup {Nil}]

BootCall ==
  [pc : {"idle", "claim", "user", "membership", "effects", "release", "audit",
         "mark_audit", "consume"},
   request : Requests \cup {Nil}, token : MaybeToken, now : Nat,
   outcome : Nat \cup {Nil}]

BootMembership == [by : Requests, at : Nat]

BootTyping ==
  /\ requests \in [Requests -> BootRow]
  /\ membership \in BootMembership \cup {Nil}
  /\ call \in [Callers -> BootCall]
  /\ clock \in Nat

(* An invocation about to record the effects has found, or written, the    *)
(* membership of its own request.                                          *)
BootCaller(c) ==
  /\ call[c].pc # "idle" => call[c].request \in Requests
  /\ call[c].pc = "effects" =>
       membership # Nil /\ membership.by = call[c].request

BootInv ==
  /\ BootTyping
  /\ \A c \in Callers : BootCaller(c)
  /\ Bootstrap!OneBeneficiary

(* The rows and the calls of the provisioning of a credential.             *)
BindingRow ==
  [status : {"none", "provisioning", "active"}, token : MaybeToken,
   claimedAt : Nat, client : Clients \cup {Nil}]

M2MCall ==
  [pc : {"idle", "claim", "reacquire", "describe", "list", "create", "relist",
         "secret", "complete", "delete", "audit"},
   now : Nat, token : MaybeToken, seen : MaybeToken,
   client : Clients \cup {Nil}, created : BOOLEAN]

M2MTyping ==
  /\ binding \in BindingRow
  /\ clients \subseteq used /\ strays \subseteq used /\ used \subseteq Clients
  /\ secret \in Clients \cup {Nil} /\ lateSecrets \subseteq Clients
  /\ call \in [Callers -> M2MCall]
  /\ clock \in Nat

Provisioning(c) ==
  call[c].pc \in {"describe", "list", "create", "relist", "secret", "complete", "delete"}

(* An invocation runs no longer than the Lambda timeout.                   *)
Timely(c) ==
  call[c].pc # "idle" => call[c].now <= clock /\ clock - call[c].now <= Timeout

(* One that provisions holds the claim, since it took it; a claim that was *)
(* found expired, and is still there, is no one's any more.                *)
HoldsClaim(c) ==
  /\ Provisioning(c) =>
       /\ binding.status = "provisioning"
       /\ binding.token = call[c].token
       /\ binding.claimedAt = call[c].now
  /\ call[c].pc = "reacquire" /\ binding.status = "provisioning"
     /\ binding.token = call[c].seen =>
       \A d \in Callers : ~Provisioning(d)

(* What it knows of the clients and of the secret stays so, because no     *)
(* other one provisions: only requests given up still make clients.        *)
Knows(c) ==
  /\ call[c].pc = "create" => clients \subseteq strays
  /\ call[c].pc \in {"secret", "complete"} =>
       call[c].client \in Clients /\ call[c].client \in clients
  /\ call[c].pc = "complete" => secret = call[c].client

M2MInv ==
  /\ M2MTyping
  /\ \A c \in Callers : Timely(c) /\ HoldsClaim(c) /\ Knows(c)
  /\ \A c, d \in Callers : Provisioning(c) /\ Provisioning(d) => c = d
  /\ \A k, l \in clients \ strays : k = l
  /\ M2M!ActiveIsUsable
  /\ binding.status = "active" => binding.client \in Clients

(* A behaviour is about one of the two commands.                           *)
PlaneInv ==
  \/ command = "bootstrap" /\ BootInv /\ M2M!Unprovisioned
  \/ command = "provision" /\ M2MInv /\ Bootstrap!Reviewed

-----------------------------------------------------------------------------
(* Fresh tokens.                                                           *)

(* A function has no more values than arguments.                           *)
LEMMA ValuesBound ==
  ASSUME NEW S, IsFiniteSet(S), NEW f, DOMAIN f = S, f = [x \in S |-> f[x]]
  PROVE  LET R == {f[x] : x \in S}
         IN IsFiniteSet(R) /\ Cardinality(R) <= Cardinality(S)
<1> DEFINE R == {f[x] : x \in S}
<1>1. f \in Surjection(S, R)
  <2>1. f \in [S -> R]
    OBVIOUS
  <2>2. \A t \in R : \E x \in S : f[x] = t
    OBVIOUS
  <2> QED
    BY <2>1, <2>2 DEF Surjection
<1> QED
  BY <1>1, FS_Surjection

LEMMA TwoSets ==
  ASSUME NEW S, NEW T, IsFiniteSet(S), IsFiniteSet(T)
  PROVE  /\ IsFiniteSet(S \cup T)
         /\ Cardinality(S \cup T) <= Cardinality(S) + Cardinality(T)
<1>1. /\ IsFiniteSet(S \cup T)
      /\ Cardinality(S \cup T) = Cardinality(S) + Cardinality(T) - Cardinality(S \cap T)
  BY FS_Union
<1>2. Cardinality(S \cap T) \in Nat
  <2>1. IsFiniteSet(S \cap T)
    BY FS_Subset
  <2> QED
    BY <2>1, FS_CardinalityType
<1>3. Cardinality(S) \in Nat /\ Cardinality(T) \in Nat
  BY FS_CardinalityType
<1> QED
  BY <1>1, <1>2, <1>3

(* More tokens than are in use: one is left.                               *)
LEMMA SpareToken ==
  ASSUME NEW U, IsFiniteSet(U), Cardinality(U) < Cardinality(Tokens)
  PROVE  \E t \in Tokens : t \notin U
<1> SUFFICES ASSUME Tokens \subseteq U PROVE FALSE
  OBVIOUS
<1>1. Cardinality(Tokens) <= Cardinality(U)
  BY FS_Subset
<1>2. Cardinality(Tokens) \in Nat /\ Cardinality(U) \in Nat
  BY TokenAssumption, FS_CardinalityType
<1> QED
  BY <1>1, <1>2

LEMMA BootFreshToken == Bootstrap!FreshToken \in Tokens
<1> DEFINE f == [r \in Requests |-> requests[r].token]
           g == [c \in Callers |-> call[c].token]
           F == {f[r] : r \in Requests}
           G == {g[c] : c \in Callers}
<1>1. IsFiniteSet(F) /\ Cardinality(F) <= Cardinality(Requests)
  BY TokenAssumption, ValuesBound
<1>2. IsFiniteSet(G) /\ Cardinality(G) <= Cardinality(Callers)
  BY TokenAssumption, ValuesBound
<1>3. \E t \in Tokens : t \notin F \cup G
  <2>1. IsFiniteSet(F \cup G) /\ Cardinality(F \cup G) <= Cardinality(F) + Cardinality(G)
    BY <1>1, <1>2, TwoSets
  <2>2. /\ Cardinality(F) \in Nat /\ Cardinality(G) \in Nat /\ Cardinality(F \cup G) \in Nat
        /\ Cardinality(Requests) \in Nat /\ Cardinality(Callers) \in Nat
        /\ Cardinality(Tokens) \in Nat
    BY <1>1, <1>2, <2>1, TokenAssumption, FS_CardinalityType
  <2>3. Cardinality(F \cup G) < Cardinality(Tokens)
    BY <1>1, <1>2, <2>1, <2>2, TokenAssumption
  <2> QED
    BY <2>1, <2>3, SpareToken
<1>4. \E t \in Tokens : /\ \A r \in Requests : requests[r].token # t
                        /\ \A c \in Callers : call[c].token # t
  BY <1>3
<1> QED
  BY <1>4 DEF Bootstrap!FreshToken

LEMMA M2MFreshToken ==
  /\ M2M!FreshToken \in Tokens
  /\ binding.token # M2M!FreshToken
  /\ \A c \in Callers : call[c].token # M2M!FreshToken /\ call[c].seen # M2M!FreshToken
<1> DEFINE f == [c \in Callers |-> call[c].token]
           g == [c \in Callers |-> call[c].seen]
           F == {f[c] : c \in Callers}
           G == {g[c] : c \in Callers}
           B == {binding.token}
<1>1. IsFiniteSet(F) /\ Cardinality(F) <= Cardinality(Callers)
  BY TokenAssumption, ValuesBound
<1>2. IsFiniteSet(G) /\ Cardinality(G) <= Cardinality(Callers)
  BY TokenAssumption, ValuesBound
<1>3. IsFiniteSet(B) /\ Cardinality(B) = 1
  BY FS_Singleton
<1>4. \E t \in Tokens : t \notin (F \cup G) \cup B
  <2>1. IsFiniteSet(F \cup G) /\ Cardinality(F \cup G) <= Cardinality(F) + Cardinality(G)
    BY <1>1, <1>2, TwoSets
  <2>2. /\ IsFiniteSet((F \cup G) \cup B)
        /\ Cardinality((F \cup G) \cup B) <= Cardinality(F \cup G) + Cardinality(B)
    BY <1>3, <2>1, TwoSets
  <2>3. /\ Cardinality(F) \in Nat /\ Cardinality(G) \in Nat /\ Cardinality(F \cup G) \in Nat
        /\ Cardinality((F \cup G) \cup B) \in Nat
        /\ Cardinality(Callers) \in Nat /\ Cardinality(Tokens) \in Nat
    BY <1>1, <1>2, <2>1, <2>2, TokenAssumption, FS_CardinalityType
  <2>4. Cardinality((F \cup G) \cup B) < Cardinality(Tokens)
    BY <1>1, <1>2, <1>3, <2>1, <2>2, <2>3, TokenAssumption
  <2> QED
    BY <2>2, <2>4, SpareToken
<1>5. \E t \in Tokens : binding.token # t
        /\ \A c \in Callers : call[c].token # t /\ call[c].seen # t
  BY <1>4
<1> QED
  BY <1>5 DEF M2M!FreshToken

-----------------------------------------------------------------------------
(* The bootstrap of an administrator.                                      *)

Recorded == {"effects_applied", "audit_committed", "consumed"}

(* What a step of an invocation has to do for the invariant to hold after  *)
(* it.                                                                     *)
LEMMA BootKeeps ==
  ASSUME BootInv, NEW c \in Callers,
         call' \in [Callers -> BootCall],
         \A d \in Callers : d # c => call'[d] = call[d],
         requests' \in [Requests -> BootRow],
         membership' \in BootMembership \cup {Nil},
         membership # Nil => membership' = membership,
         clock' \in Nat,
         BootCaller(c)',
         \A r \in Requests :
           requests'[r].state \in Recorded /\ requests[r].state \notin Recorded =>
             membership' # Nil /\ membership'.by = r
  PROVE  BootInv'
<1>1. BootTyping'
  BY DEF BootTyping
<1>2. \A d \in Callers : BootCaller(d)'
  BY DEF BootInv, BootCaller
<1>3. Bootstrap!OneBeneficiary'
  BY DEF BootInv, Bootstrap!OneBeneficiary, Recorded
<1> QED
  BY <1>1, <1>2, <1>3 DEF BootInv

LEMMA BootLoad ==
  ASSUME BootInv, NEW c \in Callers, NEW r \in Requests, Bootstrap!Load(c, r)
  PROVE  BootInv'
<1>1. /\ call' = [call EXCEPT ![c] = call'[c]]
      /\ call'[c] = [pc |-> Bootstrap!FirstStep[requests[r].state], request |-> r,
                     token |-> requests[r].token, now |-> clock,
                     outcome |-> requests[r].outcome]
      /\ UNCHANGED <<requests, membership, events, clock, failures>>
  BY DEF Bootstrap!Load, BootInv, BootTyping
<1>2. requests[r] \in BootRow /\ clock \in Nat
  BY DEF BootInv, BootTyping
<1>3. requests[r].state \in {"approved", "claimed", "effects_applied", "audit_committed"}
  BY <1>2 DEF Bootstrap!Load, Bootstrap!Valid, BootRow
<1>4. Bootstrap!FirstStep[requests[r].state] \in {"claim", "user", "audit", "consume"}
  BY <1>3 DEF Bootstrap!FirstStep
<1>5. call'[c] \in BootCall
  BY <1>1, <1>2, <1>4 DEF BootCall, BootRow
<1>6. BootCaller(c)'
  BY <1>1, <1>4 DEF BootCaller
<1> QED
  BY <1>1, <1>5, <1>6, BootKeeps DEF BootInv, BootTyping

(* A call that returns, or goes on to a step that writes no effects.       *)
LEMMA BootGoes ==
  ASSUME BootInv, NEW c \in Callers, NEW to \in {"idle", "user", "membership", "release",
           "audit", "mark_audit", "consume"},
         Bootstrap!Goto(c, to) \/ Bootstrap!Return(c),
         call[c].pc # "idle"
  PROVE  /\ call' \in [Callers -> BootCall]
         /\ \A d \in Callers : d # c => call'[d] = call[d]
         /\ BootCaller(c)'
<1>1. call \in [Callers -> BootCall] /\ call[c] \in BootCall /\ call[c].request \in Requests
  BY DEF BootInv, BootTyping, BootCaller
<1>2. CASE Bootstrap!Goto(c, to)
  <2>1. call' = [call EXCEPT ![c] = [call[c] EXCEPT !.pc = to]]
    BY <1>1, <1>2 DEF Bootstrap!Goto
  <2>2. [call[c] EXCEPT !.pc = to] \in BootCall
    BY <1>1 DEF BootCall
  <2>3. call'[c].pc = to /\ call'[c].request = call[c].request
    BY <1>1, <2>1 DEF BootCall
  <2> QED
    BY <1>1, <2>1, <2>2, <2>3 DEF BootCaller
<1>3. CASE Bootstrap!Return(c)
  <2>1. call' = [call EXCEPT ![c] = Bootstrap!Idle]
    BY <1>3 DEF Bootstrap!Return
  <2>2. Bootstrap!Idle \in BootCall /\ Bootstrap!Idle.pc = "idle"
    BY DEF Bootstrap!Idle, BootCall, MaybeToken
  <2> QED
    BY <1>1, <2>1, <2>2 DEF BootCaller
<1> QED
  BY <1>2, <1>3

LEMMA BootClaim ==
  ASSUME BootInv, NEW c \in Callers, Bootstrap!Claim(c)
  PROVE  BootInv'
<1> DEFINE r == call[c].request
<1>1. /\ call \in [Callers -> BootCall] /\ call[c] \in BootCall /\ r \in Requests
      /\ call[c].pc = "claim" /\ requests \in [Requests -> BootRow] /\ requests[r] \in BootRow
      /\ clock \in Nat /\ membership \in BootMembership \cup {Nil}
  BY DEF BootInv, BootTyping, BootCaller, Bootstrap!Claim
<1>2. UNCHANGED <<membership, events, clock, failures>>
  BY DEF Bootstrap!Claim
<1>3. CASE Bootstrap!Return(c) /\ UNCHANGED requests
  BY <1>1, <1>2, <1>3, BootGoes, BootKeeps
<1>4. CASE ~(Bootstrap!Return(c) /\ UNCHANGED requests)
  <2> DEFINE t == Bootstrap!FreshToken
  <2>1. /\ requests' = [requests EXCEPT ![r].state = "claimed", ![r].token = t]
        /\ call' = [call EXCEPT ![c].pc = "user", ![c].token = t]
    BY <1>4 DEF Bootstrap!Claim
  <2>2. t \in MaybeToken
    BY BootFreshToken DEF MaybeToken
  <2> HIDE DEF t
  <2>3. /\ requests' = [requests EXCEPT ![r] = requests'[r]]
        /\ requests'[r] = [requests[r] EXCEPT !.state = "claimed", !.token = t]
        /\ call' = [call EXCEPT ![c] = call'[c]]
        /\ call'[c] = [call[c] EXCEPT !.pc = "user", !.token = t]
    BY <1>1, <2>1
  <2>4. requests'[r] \in BootRow /\ requests'[r].state = "claimed"
    BY <1>1, <2>2, <2>3 DEF BootRow
  <2>5. call'[c] \in BootCall /\ call'[c].pc = "user" /\ call'[c].request = r
    BY <1>1, <2>2, <2>3 DEF BootCall
  <2>6. BootCaller(c)'
    BY <1>1, <2>5 DEF BootCaller
  <2>7. /\ requests' \in [Requests -> BootRow]
        /\ \A x \in Requests : requests'[x].state \in Recorded => requests[x].state \in Recorded
        /\ call' \in [Callers -> BootCall]
        /\ \A d \in Callers : d # c => call'[d] = call[d]
    BY <1>1, <2>3, <2>4, <2>5 DEF Recorded
  <2> QED
    BY <1>1, <1>2, <2>6, <2>7, BootKeeps
<1> QED
  BY <1>3, <1>4

LEMMA BootMembershipStep ==
  ASSUME BootInv, NEW c \in Callers,
         Bootstrap!EnsureMembership(c) \/ Bootstrap!EnsureUser(c) \/ Bootstrap!AuditAllow(c)
           \/ Bootstrap!DependencyFails(c) \/ Bootstrap!Lost(c)
  PROVE  BootInv'
<1> DEFINE own == Bootstrap!OwnMembership(c)
<1>1. /\ call \in [Callers -> BootCall] /\ call[c] \in BootCall
      /\ call[c].request \in Requests
      /\ call[c].pc # "idle" /\ requests \in [Requests -> BootRow]
      /\ clock \in Nat /\ membership \in BootMembership \cup {Nil}
  BY DEF BootInv, BootTyping, BootCaller, Bootstrap!EnsureMembership, Bootstrap!EnsureUser,
     Bootstrap!AuditAllow, Bootstrap!DependencyFails, Bootstrap!Lost
<1>2. UNCHANGED <<requests, clock>>
  BY DEF Bootstrap!EnsureMembership, Bootstrap!EnsureUser,
     Bootstrap!AuditAllow, Bootstrap!DependencyFails, Bootstrap!Lost
<1>3. own \in BootMembership /\ own # Nil /\ own.by = call[c].request
  BY <1>1, ControlPlaneAssumption DEF Bootstrap!OwnMembership, BootMembership, BootCall
<1> HIDE DEF own
<1>4. CASE /\ membership \in {Nil, own} /\ membership' = own /\ Bootstrap!Goto(c, "effects")
  <2>1. call' = [call EXCEPT ![c] = [call[c] EXCEPT !.pc = "effects"]]
    BY <1>1, <1>4 DEF Bootstrap!Goto
  <2>2. [call[c] EXCEPT !.pc = "effects"] \in BootCall
    BY <1>1 DEF BootCall
  <2>3. call'[c].pc = "effects" /\ call'[c].request = call[c].request
    BY <1>1, <2>1 DEF BootCall
  <2>4. BootCaller(c)'
    BY <1>1, <1>3, <1>4, <2>3 DEF BootCaller
  <2> QED
    BY <1>1, <1>2, <1>3, <1>4, <2>1, <2>2, <2>4, BootKeeps
<1>5. CASE /\ membership' = membership \/ (membership = Nil /\ membership' = own)
           /\ \/ \E to \in {"idle", "user", "membership", "release", "audit", "mark_audit", "consume"} :
                   Bootstrap!Goto(c, to)
              \/ Bootstrap!Return(c)
  <2>1. /\ call' \in [Callers -> BootCall]
        /\ \A d \in Callers : d # c => call'[d] = call[d]
        /\ BootCaller(c)'
    BY <1>1, <1>5, BootGoes
  <2> QED
    BY <1>1, <1>2, <1>3, <1>5, <2>1, BootKeeps
<1> QED
  BY <1>4, <1>5 DEF Bootstrap!EnsureMembership, Bootstrap!EnsureUser,
     Bootstrap!AuditAllow, Bootstrap!DependencyFails, Bootstrap!Lost, own

(* The row of a request changes under the claim only.                      *)
LEMMA BootConditional ==
  ASSUME BootInv, NEW c \in Callers, call[c].pc # "idle",
         NEW from, NEW row \in BootRow,
         row.state \in Recorded => requests[call[c].request].state \in Recorded
           \/ requests[call[c].request].state # from,
         NEW to \in {"idle", "consume"},
         Bootstrap!Conditional(c, from, row, to),
         UNCHANGED <<membership, clock>>
  PROVE  BootInv'
<1> DEFINE r == call[c].request
<1>1. /\ r \in Requests /\ requests \in [Requests -> BootRow] /\ clock \in Nat
      /\ membership \in BootMembership \cup {Nil}
  BY DEF BootInv, BootTyping, BootCaller
<1>2. Bootstrap!Goto(c, to) \/ Bootstrap!Return(c)
  BY DEF Bootstrap!Conditional
<1>3. /\ call' \in [Callers -> BootCall]
      /\ \A d \in Callers : d # c => call'[d] = call[d]
      /\ BootCaller(c)'
  BY <1>2, BootGoes
<1>4. /\ requests' \in [Requests -> BootRow]
      /\ \A x \in Requests : requests'[x].state \in Recorded => requests[x].state \in Recorded
  BY <1>1 DEF Bootstrap!Conditional
<1> QED
  BY <1>1, <1>3, <1>4, BootKeeps

(* The effects are recorded for the request that wrote the membership.     *)
LEMMA BootMarkEffects ==
  ASSUME BootInv, NEW c \in Callers, Bootstrap!MarkEffectsApplied(c)
  PROVE  BootInv'
<1> DEFINE r == call[c].request
<1>1. /\ call \in [Callers -> BootCall] /\ call[c] \in BootCall /\ r \in Requests
      /\ call[c].pc = "effects" /\ requests \in [Requests -> BootRow] /\ requests[r] \in BootRow
      /\ clock \in Nat /\ membership \in BootMembership \cup {Nil}
      /\ membership # Nil /\ membership.by = r
  BY DEF BootInv, BootTyping, BootCaller, Bootstrap!MarkEffectsApplied
<1>2. UNCHANGED <<membership, events, clock, failures>>
  BY DEF Bootstrap!MarkEffectsApplied
<1>3. CASE Bootstrap!Return(c) /\ UNCHANGED requests
  BY <1>1, <1>2, <1>3, BootGoes, BootKeeps
<1>4. CASE /\ requests' = [requests EXCEPT ![r].state = "effects_applied",
                                           ![r].outcome = call[c].now]
           /\ call' = [call EXCEPT ![c].pc = "audit", ![c].outcome = call[c].now]
  <2>1. /\ requests' = [requests EXCEPT ![r] = requests'[r]]
        /\ requests'[r] = [requests[r] EXCEPT !.state = "effects_applied",
                                              !.outcome = call[c].now]
        /\ call' = [call EXCEPT ![c] = call'[c]]
        /\ call'[c] = [call[c] EXCEPT !.pc = "audit", !.outcome = call[c].now]
    BY <1>1, <1>4
  <2>2. call[c].now \in Nat
    BY <1>1 DEF BootCall
  <2>3. requests'[r] \in BootRow
    BY <1>1, <2>1, <2>2 DEF BootRow
  <2>4. call'[c] \in BootCall /\ call'[c].pc = "audit" /\ call'[c].request = r
    BY <1>1, <2>1, <2>2 DEF BootCall
  <2>5. BootCaller(c)'
    BY <1>1, <2>4 DEF BootCaller
  <2>6. /\ requests' \in [Requests -> BootRow]
        /\ \A x \in Requests : x # r => requests'[x] = requests[x]
        /\ call' \in [Callers -> BootCall]
        /\ \A d \in Callers : d # c => call'[d] = call[d]
    BY <1>1, <2>1, <2>3, <2>4
  <2> QED
    BY <1>1, <1>2, <2>5, <2>6, BootKeeps
<1> QED
  BY <1>3, <1>4 DEF Bootstrap!MarkEffectsApplied

LEMMA BootNext ==
  ASSUME BootInv, Bootstrap!Next
  PROVE  BootInv'
<1>1. ASSUME NEW c \in Callers, Bootstrap!Release(c)
      PROVE  BootInv'
  <2>1. [state |-> "approved", token |-> Nil, outcome |-> Nil] \in BootRow
    BY DEF BootRow, MaybeToken
  <2> QED
    BY <1>1, <2>1, BootConditional DEF Bootstrap!Release, Recorded
<1>2. ASSUME NEW c \in Callers,
             Bootstrap!MarkAuditCommitted(c) \/ Bootstrap!Consume(c)
      PROVE  BootInv'
  <2> DEFINE row == requests[call[c].request]
  <2>1. row \in BootRow /\ call[c].pc # "idle" /\ UNCHANGED <<membership, clock>>
    BY <1>2 DEF BootInv, BootTyping, BootCaller, Bootstrap!MarkAuditCommitted,
       Bootstrap!Consume
  <2>2. CASE Bootstrap!MarkAuditCommitted(c)
    <3>1. Bootstrap!Advanced(c, "audit_committed") \in BootRow
      BY <2>1 DEF Bootstrap!Advanced, BootRow
    <3> QED
      BY <2>1, <2>2, <3>1, BootConditional DEF Bootstrap!MarkAuditCommitted, Recorded
  <2>3. CASE Bootstrap!Consume(c)
    <3>1. [Bootstrap!Advanced(c, "consumed") EXCEPT !.token = Nil] \in BootRow
      BY <2>1 DEF Bootstrap!Advanced, BootRow, MaybeToken
    <3> QED
      BY <2>1, <2>3, <3>1, BootConditional DEF Bootstrap!Consume, Recorded
  <2> QED
    BY <1>2, <2>2, <2>3
<1>3. ASSUME Bootstrap!Tick
      PROVE  BootInv'
  BY <1>3 DEF Bootstrap!Tick, BootInv, BootTyping, BootCaller, Bootstrap!OneBeneficiary
<1> QED
  BY <1>1, <1>2, <1>3, BootLoad, BootClaim, BootMembershipStep, BootMarkEffects
  DEF Bootstrap!Next, Bootstrap!Step

(* A row whose effects are recorded is changed only under its last states. *)
LEMMA BootForward ==
  ASSUME BootInv, Bootstrap!Next, NEW r \in Requests,
         requests[r].state \in Recorded
  PROVE  /\ requests'[r].state \notin {"approved", "claimed"}
         /\ requests[r].state = "consumed" => requests'[r] = requests[r]
<1>1. requests \in [Requests -> BootRow] /\ requests[r] \in BootRow
  BY DEF BootInv, BootTyping
<1>2. CASE requests' = requests
  BY ZenonT(30), <1>2 DEF Recorded
<1>3. ASSUME NEW c \in Callers, Bootstrap!Claim(c) \/ Bootstrap!Release(c)
               \/ Bootstrap!MarkEffectsApplied(c)
      PROVE  requests'[r] = requests[r]
  BY <1>1, <1>3 DEF Bootstrap!Claim, Bootstrap!Release, Bootstrap!Conditional,
     Bootstrap!MarkEffectsApplied, Recorded
<1>4. ASSUME NEW c \in Callers, Bootstrap!MarkAuditCommitted(c)
      PROVE  requests'[r] = requests[r]
             \/ (requests[r].state = "effects_applied" /\ requests'[r].state = "audit_committed")
  BY <1>1, <1>4 DEF Bootstrap!MarkAuditCommitted, Bootstrap!Conditional,
     Bootstrap!Advanced, BootRow
<1>5. ASSUME NEW c \in Callers, Bootstrap!Consume(c)
      PROVE  requests'[r] = requests[r]
             \/ (requests[r].state = "audit_committed" /\ requests'[r].state = "consumed")
  BY ZenonT(40), <1>1, <1>5 DEF Bootstrap!Consume, Bootstrap!Conditional,
     Bootstrap!Advanced, BootRow
<1>6. \/ requests' = requests
      \/ \E c \in Callers :
           \/ Bootstrap!Claim(c) \/ Bootstrap!Release(c) \/ Bootstrap!MarkEffectsApplied(c)
           \/ Bootstrap!MarkAuditCommitted(c) \/ Bootstrap!Consume(c)
  BY DEF Bootstrap!Next, Bootstrap!Step, Bootstrap!Load, Bootstrap!EnsureUser,
     Bootstrap!EnsureMembership, Bootstrap!AuditAllow, Bootstrap!DependencyFails,
     Bootstrap!Lost, Bootstrap!Tick
<1> QED
  BY <1>2, <1>3, <1>4, <1>5, <1>6 DEF Recorded

-----------------------------------------------------------------------------
(* The provisioning of a credential.                                       *)

ProvisioningPcs ==
  {"describe", "list", "create", "relist", "secret", "complete", "delete"}

(* What a step of an invocation that leaves the binding alone has to do:   *)
(* another one never begins to provision by it, and the client and the     *)
(* secret are changed only by the one that does.                           *)
LEMMA M2MKeeps ==
  ASSUME M2MInv, NEW c \in Callers,
         M2MTyping',
         \A d \in Callers : d # c => call'[d] = call[d],
         binding' = binding, clock' = clock,
         call'[c].pc \in ProvisioningPcs => Provisioning(c),
         \/ UNCHANGED <<clients, strays>> /\ (secret' = secret \/ secret = Nil)
         \/ Provisioning(c),
         \A k, l \in clients' \ strays' : k = l,
         Timely(c)', HoldsClaim(c)', Knows(c)'
  PROVE  M2MInv'
<1>1. M2MTyping /\ Nil \notin Clients
  BY ControlPlaneAssumption DEF M2MInv
<1>2. \A d \in Callers : Provisioning(d)' => Provisioning(d)
  BY DEF Provisioning, ProvisioningPcs
<1>3. ASSUME NEW d \in Callers, d # c
      PROVE  Timely(d)' /\ HoldsClaim(d)' /\ Knows(d)'
  <2>1. Timely(d) /\ HoldsClaim(d) /\ Knows(d) /\ call'[d] = call[d]
    BY <1>3 DEF M2MInv
  <2>2. Timely(d)'
    BY <2>1 DEF Timely
  <2>3. HoldsClaim(d)'
    BY <1>2, <2>1 DEF HoldsClaim, Provisioning
  <2>4. Knows(d)'
    <3>1. CASE Provisioning(c)
      <4>1. ~Provisioning(d)
        BY <1>3, <3>1 DEF M2MInv
      <4> QED
        BY <2>1, <4>1 DEF Knows, Provisioning
    <3>2. CASE ~Provisioning(c)
      BY <1>1, <2>1, <3>2 DEF Knows
    <3> QED
      BY <3>1, <3>2
  <2> QED
    BY <2>2, <2>3, <2>4
<1>4. \A d \in Callers : Timely(d)' /\ HoldsClaim(d)' /\ Knows(d)'
  BY <1>3
<1>5. \A d, e \in Callers : Provisioning(d)' /\ Provisioning(e)' => d = e
  BY <1>2 DEF M2MInv
<1>6. M2M!ActiveIsUsable' /\ (binding'.status = "active" => binding'.client \in Clients)
  <2>1. CASE Provisioning(c)
    <3>1. binding.status = "provisioning"
      BY <2>1 DEF M2MInv, HoldsClaim
    <3> QED
      BY <3>1 DEF M2M!ActiveIsUsable
  <2>2. CASE ~Provisioning(c)
    BY <1>1, <2>2 DEF M2MInv, M2M!ActiveIsUsable
  <2> QED
    BY <2>1, <2>2
<1> QED
  BY <1>4, <1>5, <1>6 DEF M2MInv, Provisioning

(* An invocation that ends or goes on to another step.                     *)
LEMMA M2MReturns ==
  ASSUME M2MTyping, NEW c \in Callers, M2M!Return(c)
  PROVE  /\ call' \in [Callers -> M2MCall]
         /\ \A d \in Callers : d # c => call'[d] = call[d]
         /\ call'[c].pc = "idle"
         /\ Timely(c)' /\ HoldsClaim(c)' /\ Knows(c)'
<1>1. M2M!Idle \in M2MCall /\ M2M!Idle.pc = "idle"
  BY DEF M2M!Idle, M2MCall, MaybeToken
<1>2. call' = [call EXCEPT ![c] = M2M!Idle] /\ call \in [Callers -> M2MCall]
  BY DEF M2M!Return, M2MTyping
<1>3. call'[c].pc = "idle"
  BY <1>1, <1>2
<1> QED
  BY <1>1, <1>2, <1>3 DEF Timely, HoldsClaim, Knows, Provisioning

LEMMA M2MReturnKeeps ==
  ASSUME M2MInv, NEW c \in Callers, M2M!Return(c),
         UNCHANGED <<binding, clients, used, strays, secret, clock>>,
         lateSecrets' \subseteq Clients
  PROVE  M2MInv'
<1>1. M2MTyping
  BY DEF M2MInv
<1>2. M2MTyping'
  BY <1>1, M2MReturns DEF M2MTyping
<1> QED
  BY <1>1, <1>2, M2MReturns, M2MKeeps DEF M2MInv, ProvisioningPcs

(* A step of one that provisions to its next one.                          *)
LEMMA M2MGoes ==
  ASSUME M2MInv, NEW c \in Callers, Provisioning(c), NEW to \in ProvisioningPcs,
         NEW k \in Clients \cup {Nil}, NEW b \in BOOLEAN,
         call' = [call EXCEPT ![c] = [call[c] EXCEPT !.pc = to, !.client = k, !.created = b]],
         UNCHANGED <<binding, clock>>,
         clients' \subseteq used', strays' \subseteq used', used' \subseteq Clients,
         secret' \in Clients \cup {Nil}, lateSecrets' \subseteq Clients,
         \A x, y \in clients' \ strays' : x = y,
         to = "create" => clients' \subseteq strays',
         to \in {"secret", "complete"} => k \in Clients /\ k \in clients',
         to = "complete" => secret' = k
  PROVE  M2MInv'
<1>1. M2MTyping /\ call \in [Callers -> M2MCall] /\ call[c] \in M2MCall
  BY DEF M2MInv, M2MTyping
<1>2. [call[c] EXCEPT !.pc = to, !.client = k, !.created = b] \in M2MCall
  BY <1>1 DEF M2MCall, ProvisioningPcs
<1>3. /\ call' \in [Callers -> M2MCall]
      /\ \A d \in Callers : d # c => call'[d] = call[d]
      /\ call'[c].pc = to /\ call'[c].client = k
      /\ call'[c].now = call[c].now /\ call'[c].token = call[c].token
      /\ call'[c].seen = call[c].seen
  BY <1>1, <1>2 DEF M2MCall
<1>4. M2MTyping'
  BY <1>1, <1>3 DEF M2MTyping
<1>5. Timely(c)' /\ HoldsClaim(c)' /\ Knows(c)'
  <2>1. Timely(c) /\ HoldsClaim(c)
    BY DEF M2MInv
  <2>2. call[c].pc # "idle" /\ to # "reacquire"
    BY DEF Provisioning, ProvisioningPcs
  <2> QED
    BY <1>3, <2>1, <2>2 DEF Timely, HoldsClaim, Knows, Provisioning
<1> QED
  BY <1>3, <1>4, <1>5, M2MKeeps

LEMMA M2MLoad ==
  ASSUME M2MInv, NEW c \in Callers, M2M!Load(c)
  PROVE  M2MInv'
<1>1. /\ M2MTyping /\ call \in [Callers -> M2MCall] /\ clock \in Nat
      /\ binding \in BindingRow /\ binding.claimedAt \in Nat
      /\ binding.token \in MaybeToken /\ binding.client \in Clients \cup {Nil}
      /\ binding.status \in {"none", "provisioning", "active"}
      /\ Lease \in Nat /\ Timeout \in Nat /\ Timeout < Lease
  BY ControlPlaneAssumption DEF M2MInv, M2MTyping, BindingRow
<1> DEFINE to == CASE binding.status = "none" -> "claim"
                   [] binding.status = "active" -> "audit"
                   [] OTHER -> "reacquire"
<1>2. call' = [call EXCEPT ![c] = [M2M!Idle EXCEPT !.pc = to, !.now = clock,
                                     !.seen = binding.token, !.client = binding.client]]
      /\ UNCHANGED <<binding, clients, used, strays, secret, lateSecrets, clock>>
      /\ (binding.status = "provisioning" => clock > binding.claimedAt + Lease)
  BY DEF M2M!Load, M2M!LeaseExpired
<1>3. to \in {"claim", "audit", "reacquire"}
      /\ (to = "reacquire" => binding.status = "provisioning")
  BY <1>1
<1> HIDE DEF to
<1>4. /\ call'[c] = [M2M!Idle EXCEPT !.pc = to, !.now = clock,
                       !.seen = binding.token, !.client = binding.client]
      /\ \A d \in Callers : d # c => call'[d] = call[d]
      /\ call' = [call EXCEPT ![c] = call'[c]]
  BY <1>1, <1>2
<1>5. call'[c] \in M2MCall /\ call'[c].pc = to /\ call'[c].now = clock
  BY <1>1, <1>3, <1>4 DEF M2M!Idle, M2MCall, MaybeToken
<1>6. M2MTyping'
  BY <1>1, <1>2, <1>4, <1>5 DEF M2MTyping
<1>7. to = "reacquire" => \A d \in Callers : ~Provisioning(d)
  <2> SUFFICES ASSUME to = "reacquire", NEW d \in Callers, Provisioning(d)
               PROVE  FALSE
    OBVIOUS
  <2>1. binding.claimedAt = call[d].now /\ call[d].now \in Nat
        /\ clock - call[d].now <= Timeout
    BY <1>1 DEF M2MInv, HoldsClaim, Timely, Provisioning, M2MCall
  <2>2. clock > binding.claimedAt + Lease
    BY <1>2, <1>3
  <2> QED
    BY <1>1, <2>1, <2>2
<1>8. Timely(c)' /\ Knows(c)'
  BY <1>1, <1>2, <1>3, <1>5 DEF Timely, Knows
<1>9. HoldsClaim(c)'
  BY <1>3, <1>4, <1>5, <1>7 DEF HoldsClaim, Provisioning
<1> QED
  BY <1>2, <1>3, <1>4, <1>5, <1>6, <1>8, <1>9, M2MKeeps DEF M2MInv, ProvisioningPcs

(* The claim is taken, or taken over, when no one provisions.              *)
LEMMA M2MAcquire ==
  ASSUME M2MInv, NEW c \in Callers, M2M!Acquire(c)
  PROVE  M2MInv'
<1>1. /\ M2MTyping /\ call \in [Callers -> M2MCall] /\ call[c] \in M2MCall
      /\ binding \in BindingRow
      /\ UNCHANGED <<clients, used, strays, secret, lateSecrets, clock>>
  BY DEF M2MInv, M2MTyping, M2M!Acquire
<1>2. CASE M2M!Return(c) /\ UNCHANGED binding
  BY <1>1, <1>2, M2MReturnKeeps DEF M2MTyping
<1>3. CASE ~(M2M!Return(c) /\ UNCHANGED binding)
  <2> DEFINE t == M2M!FreshToken
  <2>1. /\ M2M!Free(c)
        /\ binding' = [status |-> "provisioning", token |-> t,
                       claimedAt |-> call[c].now, client |-> Nil]
        /\ call' = [call EXCEPT ![c].pc = "describe", ![c].token = t]
        /\ call[c].pc \in {"claim", "reacquire"}
    BY <1>3 DEF M2M!Acquire
  <2>2. t \in MaybeToken /\ \A d \in Callers : call[d].seen # t
    BY M2MFreshToken DEF MaybeToken
  <2> HIDE DEF t
  <2>3. \A d \in Callers : ~Provisioning(d)
    BY <1>1, <2>1 DEF M2M!Free, M2MInv, HoldsClaim
  <2>4. /\ call' = [call EXCEPT ![c] = call'[c]]
        /\ call'[c] = [call[c] EXCEPT !.pc = "describe", !.token = t]
    BY <1>1, <2>1
  <2>5. /\ call'[c] \in M2MCall /\ call'[c].pc = "describe" /\ call'[c].token = t
        /\ call'[c].now = call[c].now /\ call[c].now \in Nat
    BY <1>1, <2>2, <2>4 DEF M2MCall
  <2>6. /\ call' \in [Callers -> M2MCall]
        /\ \A d \in Callers : d # c => call'[d] = call[d]
    BY <1>1, <2>4, <2>5
  <2>7. M2MTyping'
    BY <1>1, <2>1, <2>2, <2>5, <2>6 DEF M2MTyping, BindingRow
  <2>8. Timely(c)' /\ HoldsClaim(c)' /\ Knows(c)'
    <3>1. Timely(c)
      BY DEF M2MInv
    <3> QED
      BY <1>1, <2>1, <2>5, <3>1 DEF Timely, HoldsClaim, Knows, Provisioning
  <2>9. ASSUME NEW d \in Callers, d # c
        PROVE  Timely(d)' /\ HoldsClaim(d)' /\ Knows(d)' /\ ~Provisioning(d)'
    <3>1. /\ Timely(d) /\ Knows(d) /\ ~Provisioning(d) /\ call'[d] = call[d]
          /\ call[d].seen # t
      BY <2>2, <2>3, <2>6, <2>9 DEF M2MInv
    <3>2. ~Provisioning(d)' /\ Timely(d)' /\ Knows(d)'
      BY <1>1, <3>1 DEF Timely, Knows, Provisioning
    <3>3. HoldsClaim(d)'
      BY <2>1, <3>1, <3>2 DEF HoldsClaim
    <3> QED
      BY <3>2, <3>3
  <2>10. \A d, e \in Callers : Provisioning(d)' /\ Provisioning(e)' => d = e
    BY <2>9
  <2>11. \A d \in Callers : Timely(d)' /\ HoldsClaim(d)' /\ Knows(d)'
    BY <2>8, <2>9
  <2>12. binding'.status = "provisioning"
    BY <2>1
  <2>13. \A k, l \in clients' \ strays' : k = l
    BY <1>1 DEF M2MInv
  <2> QED
    BY <2>7, <2>10, <2>11, <2>12, <2>13 DEF M2MInv, M2M!ActiveIsUsable
<1> QED
  BY <1>2, <1>3

(* The binding becomes active with the client and the secret it names.     *)
LEMMA M2MComplete ==
  ASSUME M2MInv, NEW c \in Callers, M2M!Complete(c)
  PROVE  M2MInv'
<1>1. /\ M2MTyping /\ call \in [Callers -> M2MCall] /\ call[c] \in M2MCall
      /\ binding \in BindingRow /\ call[c].pc = "complete" /\ Provisioning(c)
      /\ UNCHANGED <<clients, used, strays, secret, lateSecrets, clock>>
  BY DEF M2MInv, M2MTyping, M2M!Complete, Provisioning
<1>2. CASE M2M!Return(c) /\ UNCHANGED binding
  BY <1>1, <1>2, M2MReturnKeeps DEF M2MTyping
<1>3. CASE binding' = M2M!Activated(c) /\ M2M!Goto(c, "audit")
  <2>1. /\ call[c].client \in Clients /\ call[c].client \in clients
        /\ secret = call[c].client
    BY <1>1 DEF M2MInv, Knows
  <2>2. /\ binding' \in BindingRow /\ binding'.status = "active"
        /\ binding'.client = call[c].client
    BY <1>1, <1>3, <2>1 DEF M2M!Activated, BindingRow, MaybeToken
  <2>3. call' = [call EXCEPT ![c] = [call[c] EXCEPT !.pc = "audit"]]
    BY <1>1, <1>3 DEF M2M!Goto
  <2>4. /\ call' \in [Callers -> M2MCall]
        /\ \A d \in Callers : d # c => call'[d] = call[d]
        /\ call'[c].pc = "audit" /\ call'[c].now = call[c].now
    BY <1>1, <2>3 DEF M2MCall
  <2>5. M2MTyping'
    BY <1>1, <2>2, <2>4 DEF M2MTyping
  <2>6. \A d \in Callers : ~Provisioning(d)'
    <3>1. \A d \in Callers : d # c => ~Provisioning(d)
      BY <1>1 DEF M2MInv
    <3> QED
      BY <2>4, <3>1 DEF Provisioning
  <2>7. ASSUME NEW d \in Callers
        PROVE  Timely(d)' /\ HoldsClaim(d)' /\ Knows(d)'
    <3>1. Timely(d)
      BY DEF M2MInv
    <3>2. Timely(d)'
      BY <1>1, <2>4, <3>1 DEF Timely
    <3> QED
      BY <2>2, <2>6, <3>2 DEF HoldsClaim, Knows, Provisioning
  <2>8. \A k, l \in clients' \ strays' : k = l
    BY <1>1 DEF M2MInv
  <2> QED
    BY <1>1, <2>1, <2>2, <2>5, <2>6, <2>7, <2>8 DEF M2MInv, M2M!ActiveIsUsable
<1> QED
  BY <1>2, <1>3 DEF M2M!Complete

LEMMA M2MNewClient ==
  ASSUME M2MTyping, used # Clients
  PROVE  M2M!NewClient \in Clients
<1>1. \E k \in Clients : k \notin used
  BY DEF M2MTyping
<1> QED
  BY <1>1 DEF M2M!NewClient

(* The client is looked for, created, and looked for again.                *)
LEMMA M2MClientStep ==
  ASSUME M2MInv, NEW c \in Callers,
         M2M!DescribeSecret(c) \/ M2M!ListClients(c) \/ M2M!CreateClient(c)
           \/ M2M!CreateClientUnanswered(c) \/ M2M!RelistClients(c)
  PROVE  M2MInv'
<1>1. /\ M2MTyping /\ call \in [Callers -> M2MCall] /\ call[c] \in M2MCall
      /\ Provisioning(c) /\ UNCHANGED <<binding, clock, secret, lateSecrets>>
      /\ call[c].client \in Clients \cup {Nil} /\ call[c].created \in BOOLEAN
      /\ secret \in Clients \cup {Nil} /\ lateSecrets \subseteq Clients
      /\ clients \subseteq used /\ strays \subseteq used /\ used \subseteq Clients
      /\ \A k, l \in clients \ strays : k = l
  BY DEF M2MInv, M2MTyping, M2MCall, Provisioning, M2M!DescribeSecret, M2M!ListClients,
     M2M!CreateClient, M2M!CreateClientUnanswered, M2M!RelistClients
<1>2. CASE M2M!Return(c) /\ UNCHANGED <<clients, used, strays>>
  BY <1>1, <1>2, M2MReturnKeeps
<1>3. ASSUME NEW to \in {"list", "create", "relist"}, M2M!Goto(c, to),
             clients' = clients, used \subseteq used', used' \subseteq Clients,
             strays \subseteq strays', strays' \subseteq used',
             to = "create" => clients \subseteq strays'
      PROVE  M2MInv'
  <2>1. call' = [call EXCEPT ![c] = [call[c] EXCEPT !.pc = to, !.client = call[c].client,
                                                    !.created = call[c].created]]
    BY <1>1, <1>3 DEF M2M!Goto, M2MCall
  <2>2. to \in ProvisioningPcs
    BY DEF ProvisioningPcs
  <2>3. clients' \subseteq used' /\ \A k, l \in clients' \ strays' : k = l
    BY <1>1, <1>3
  <2> HIDE DEF ProvisioningPcs
  <2> QED
    BY ZenonT(40), <1>1, <1>3, <2>1, <2>2, <2>3, M2MGoes
<1>4. ASSUME NEW k \in Clients, NEW to \in {"secret", "complete"}, NEW b \in BOOLEAN,
             call' = [call EXCEPT ![c] = [call[c] EXCEPT !.pc = to, !.client = k, !.created = b]],
             k \in clients', clients' \subseteq used', used' \subseteq Clients,
             strays' = strays, strays' \subseteq used',
             \A x, y \in clients' \ strays' : x = y,
             to = "complete" => secret = k
      PROVE  M2MInv'
  <2>1. to \in ProvisioningPcs /\ to # "create"
    BY DEF ProvisioningPcs
  <2> QED
    BY <1>1, <1>4, <2>1, M2MGoes
<1>5. CASE M2M!DescribeSecret(c)
  <2>1. CASE secret # Nil /\ clients = {secret}
             /\ call' = [call EXCEPT ![c].client = secret, ![c].pc = "complete"]
    <3>1. call' = [call EXCEPT ![c] = [call[c] EXCEPT !.pc = "complete", !.client = secret,
                                                      !.created = call[c].created]]
      BY <1>1, <2>1 DEF M2MCall
    <3>2. secret \in Clients /\ secret \in clients /\ UNCHANGED <<clients, used, strays>>
      BY <1>1, <1>5, <2>1 DEF M2M!DescribeSecret
    <3> QED
      BY <1>1, <1>4, <3>1, <3>2
  <2>2. CASE M2M!Goto(c, "list")
    BY <1>1, <1>3, <1>5, <2>2 DEF M2M!DescribeSecret
  <2> QED
    BY <1>2, <1>5, <2>1, <2>2 DEF M2M!DescribeSecret
<1>6. ASSUME NEW k \in clients, UNCHANGED <<clients, used, strays>>,
             call' = [call EXCEPT ![c].client = k, ![c].pc = "secret"]
      PROVE  M2MInv'
  <2>1. call' = [call EXCEPT ![c] = [call[c] EXCEPT !.pc = "secret", !.client = k,
                                                    !.created = call[c].created]]
    BY <1>1, <1>6 DEF M2MCall
  <2>2. k \in Clients
    BY <1>1
  <2> QED
    BY ZenonT(40), <1>1, <1>4, <1>6, <2>1, <2>2
<1>7. CASE M2M!ListClients(c)
  <2>1. CASE clients = {} /\ M2M!Goto(c, "create")
    BY <1>1, <1>3, <1>7, <2>1 DEF M2M!ListClients
  <2> QED
    BY <1>2, <1>6, <1>7, <2>1 DEF M2M!ListClients
<1>8. CASE M2M!RelistClients(c)
  BY <1>2, <1>6, <1>8 DEF M2M!RelistClients
<1>9. CASE M2M!CreateClient(c)
  <2>1. call' = [call EXCEPT ![c] = [call[c] EXCEPT !.pc = "secret",
                                       !.client = M2M!NewClient, !.created = TRUE]]
    BY <1>1, <1>9 DEF M2M!CreateClient, M2MCall
  <2>2. clients \subseteq strays
    BY <1>9 DEF M2MInv, Knows, M2M!CreateClient
  <2>3. M2M!NewClient \in Clients
    BY <1>1, <1>9, M2MNewClient DEF M2M!CreateClient
  <2>4. /\ used' = used \cup {M2M!NewClient} /\ clients' = clients \cup {M2M!NewClient}
        /\ strays' = strays
    BY <1>9 DEF M2M!CreateClient
  <2>5. \A x, y \in clients' \ strays' : x = y
    BY <2>2, <2>4
  <2> QED
    BY <1>1, <1>4, <2>1, <2>3, <2>4, <2>5
<1>10. CASE M2M!CreateClientUnanswered(c)
  <2>1. clients \subseteq strays
    BY <1>10 DEF M2MInv, Knows, M2M!CreateClientUnanswered
  <2>2. M2M!NewClient \in Clients
    BY <1>1, <1>10, M2MNewClient DEF M2M!CreateClientUnanswered
  <2>3. /\ used' = used \cup {M2M!NewClient} /\ strays' = strays \cup {M2M!NewClient}
        /\ clients' = clients /\ (M2M!Goto(c, "create") \/ M2M!Goto(c, "relist"))
    BY <1>10 DEF M2M!CreateClientUnanswered
  <2> QED
    BY <1>1, <1>3, <2>1, <2>2, <2>3
<1> QED
  BY <1>5, <1>7, <1>8, <1>9, <1>10

(* A request that was given up makes a client: what the others know of     *)
(* their own stays so.                                                     *)
LEMMA M2MStrayCreated ==
  ASSUME M2MInv, NEW k \in Clients, M2M!StrayCreated(k)
  PROVE  M2MInv'
<1>1. /\ M2MTyping /\ UNCHANGED <<binding, used, strays, secret, lateSecrets, call, clock>>
      /\ k \in strays /\ clients' = clients \cup {k}
  BY DEF M2MInv, M2M!StrayCreated
<1>2. M2MTyping'
  BY <1>1 DEF M2MTyping
<1>3. \A c \in Callers : Timely(c)' /\ HoldsClaim(c)' /\ Knows(c)'
  BY <1>1 DEF M2MInv, Timely, HoldsClaim, Knows, Provisioning
<1>4. \A x, y \in clients' \ strays' : x = y
  BY <1>1 DEF M2MInv
<1>5. M2M!ActiveIsUsable' /\ (binding'.status = "active" => binding'.client \in Clients)
  BY <1>1 DEF M2MInv, M2M!ActiveIsUsable
<1> QED
  BY <1>1, <1>2, <1>3, <1>4, <1>5 DEF M2MInv, Provisioning

LEMMA M2MSecretStep ==
  ASSUME M2MInv, NEW c \in Callers,
         M2M!CreateSecret(c) \/ M2M!CreateSecretFails(c) \/ M2M!DeleteClient(c)
  PROVE  M2MInv'
<1>1. /\ M2MTyping /\ call \in [Callers -> M2MCall] /\ call[c] \in M2MCall
      /\ Provisioning(c) /\ UNCHANGED <<binding, clock, used, strays>>
      /\ call[c].client \in Clients \cup {Nil} /\ call[c].created \in BOOLEAN
      /\ secret \in Clients \cup {Nil} /\ lateSecrets \subseteq Clients
      /\ clients \subseteq used /\ strays \subseteq used /\ used \subseteq Clients
      /\ \A k, l \in clients \ strays : k = l
  BY DEF M2MInv, M2MTyping, M2MCall, Provisioning, M2M!CreateSecret,
     M2M!CreateSecretFails, M2M!DeleteClient
<1>2. call[c].pc = "secret" => call[c].client \in Clients /\ call[c].client \in clients
  BY DEF M2MInv, Knows
<1>3. ASSUME NEW to \in {"complete", "delete"}, M2M!Goto(c, to), UNCHANGED clients,
             call[c].pc = "secret", secret' \in Clients \cup {Nil},
             lateSecrets' \subseteq Clients,
             to = "complete" => secret' = call[c].client
      PROVE  M2MInv'
  <2>1. call' = [call EXCEPT ![c] = [call[c] EXCEPT !.pc = to, !.client = call[c].client,
                                                    !.created = call[c].created]]
    BY <1>1, <1>3 DEF M2M!Goto, M2MCall
  <2>2. to \in ProvisioningPcs
    BY DEF ProvisioningPcs
  <2> HIDE DEF ProvisioningPcs
  <2> QED
    BY ZenonT(40), <1>1, <1>2, <1>3, <2>1, <2>2, M2MGoes
<1>4. CASE M2M!CreateSecret(c)
  <2>1. CASE M2M!Return(c) /\ UNCHANGED secret
    BY <1>1, <1>4, <2>1, M2MReturnKeeps DEF M2M!CreateSecret
  <2>2. CASE secret' = call[c].client /\ M2M!Goto(c, "complete")
    BY <1>1, <1>2, <1>3, <1>4, <2>2 DEF M2M!CreateSecret
  <2>3. CASE M2M!Goto(c, "delete") /\ UNCHANGED secret
    BY <1>1, <1>3, <1>4, <2>3 DEF M2M!CreateSecret
  <2> QED
    BY <1>4, <2>1, <2>2, <2>3 DEF M2M!CreateSecret
<1>5. CASE M2M!CreateSecretFails(c)
  <2>1. lateSecrets' \subseteq Clients
    BY <1>1, <1>2, <1>5 DEF M2M!CreateSecretFails
  <2>2. CASE M2M!Return(c)
    BY <1>1, <1>5, <2>1, <2>2, M2MReturnKeeps DEF M2M!CreateSecretFails
  <2>3. CASE M2M!Goto(c, "delete")
    BY <1>1, <1>3, <1>5, <2>1, <2>3 DEF M2M!CreateSecretFails
  <2> QED
    BY <1>5, <2>2, <2>3 DEF M2M!CreateSecretFails
<1>6. CASE M2M!DeleteClient(c)
  <2>1. /\ M2M!Return(c) /\ clients' = clients \ {call[c].client}
        /\ UNCHANGED <<secret, lateSecrets>>
    BY <1>6 DEF M2M!DeleteClient
  <2>2. /\ call' \in [Callers -> M2MCall]
        /\ \A d \in Callers : d # c => call'[d] = call[d]
        /\ call'[c].pc = "idle"
        /\ Timely(c)' /\ HoldsClaim(c)' /\ Knows(c)'
    BY <1>1, <2>1, M2MReturns
  <2>3. M2MTyping'
    BY <1>1, <2>1, <2>2 DEF M2MTyping
  <2> QED
    BY <1>1, <2>1, <2>2, <2>3, M2MKeeps DEF ProvisioningPcs
<1> QED
  BY <1>4, <1>5, <1>6

(* A secret that arrives late finds one already there, if one is relied on.*)
LEMMA M2MLateSecret ==
  ASSUME M2MInv, NEW k \in Clients, M2M!LateSecret(k)
  PROVE  M2MInv'
<1>1. /\ M2MTyping /\ Nil \notin Clients
      /\ UNCHANGED <<binding, clients, used, strays, call, clock>>
      /\ lateSecrets' \subseteq Clients /\ secret' \in Clients \cup {Nil}
      /\ secret' = secret \/ secret = Nil
  BY ControlPlaneAssumption DEF M2MInv, M2MTyping, M2M!LateSecret
<1>2. M2MTyping'
  BY <1>1 DEF M2MTyping
<1>3. \A c \in Callers : Timely(c)' /\ HoldsClaim(c)' /\ Knows(c)'
  BY <1>1 DEF M2MInv, Timely, HoldsClaim, Knows, Provisioning
<1>4. M2M!ActiveIsUsable' /\ (binding'.status = "active" => binding'.client \in Clients)
  BY <1>1 DEF M2MInv, M2M!ActiveIsUsable
<1> QED
  BY <1>1, <1>2, <1>3, <1>4 DEF M2MInv, Provisioning

(* Time passes only while no invocation is due to be ended.                *)
LEMMA M2MTick ==
  ASSUME M2MInv, M2M!Tick
  PROVE  M2MInv'
<1>1. /\ M2MTyping /\ clock \in Nat /\ clock' = clock + 1 /\ Timeout \in Nat
      /\ UNCHANGED <<binding, clients, used, strays, secret, lateSecrets, call>>
      /\ \A c \in Callers : ~M2M!Overdue(c)
  BY ControlPlaneAssumption DEF M2MInv, M2MTyping, M2M!Tick
<1>2. M2MTyping'
  BY <1>1 DEF M2MTyping
<1>3. ASSUME NEW c \in Callers
      PROVE  Timely(c)' /\ HoldsClaim(c)' /\ Knows(c)'
  <2>1. Timely(c) /\ HoldsClaim(c) /\ Knows(c)
    BY DEF M2MInv
  <2>2. call[c].now \in Nat
    BY <1>1 DEF M2MTyping, M2MCall
  <2>3. Timely(c)'
    BY <1>1, <2>1, <2>2 DEF Timely, M2M!Overdue
  <2>4. HoldsClaim(c)' /\ Knows(c)'
    BY <1>1, <2>1 DEF HoldsClaim, Knows, Provisioning
  <2> QED
    BY <2>3, <2>4
<1> QED
  BY <1>1, <1>2, <1>3 DEF M2MInv, Provisioning, M2M!ActiveIsUsable

LEMMA M2MNext ==
  ASSUME M2MInv, M2M!Next
  PROVE  M2MInv'
<1>1. ASSUME NEW c \in Callers, M2M!AuditAllow(c) \/ M2M!Fail(c) \/ M2M!Kill(c)
      PROVE  M2MInv'
  <2>1. M2M!Return(c) /\ UNCHANGED <<binding, clients, used, strays, secret, lateSecrets, clock>>
    BY <1>1 DEF M2M!AuditAllow, M2M!Fail, M2M!Kill
  <2> QED
    BY <2>1, M2MReturnKeeps DEF M2MInv, M2MTyping
<1> QED
  BY <1>1, M2MLoad, M2MAcquire, M2MComplete, M2MClientStep, M2MStrayCreated,
     M2MSecretStep, M2MLateSecret, M2MTick DEF M2M!Next, M2M!Step

-----------------------------------------------------------------------------
(* Both commands.                                                          *)

LEMMA PlaneInitInv == PlaneInit => PlaneInv
<1> SUFFICES ASSUME PlaneInit PROVE PlaneInv
  OBVIOUS
<1>1. CASE command = "bootstrap" /\ Bootstrap!Init /\ M2M!Unprovisioned
  <2>1. Bootstrap!Idle \in BootCall /\ Bootstrap!Idle.pc = "idle"
    BY DEF Bootstrap!Idle, BootCall, MaybeToken
  <2>2. [state |-> "approved", token |-> Nil, outcome |-> Nil] \in BootRow
    BY DEF BootRow, MaybeToken
  <2>3. BootTyping
    BY <1>1, <2>1, <2>2 DEF BootTyping, Bootstrap!Init, Bootstrap!Reviewed
  <2>4. \A c \in Callers : BootCaller(c)
    BY <1>1, <2>1 DEF BootCaller, Bootstrap!Init
  <2>5. Bootstrap!OneBeneficiary
    BY <1>1 DEF Bootstrap!OneBeneficiary, Bootstrap!Init, Bootstrap!Reviewed
  <2> QED
    BY <1>1, <2>3, <2>4, <2>5 DEF PlaneInv, BootInv
<1>2. CASE command = "provision" /\ M2M!Init /\ Bootstrap!Reviewed
  <2>1. M2M!Idle \in M2MCall /\ M2M!Idle.pc = "idle"
    BY DEF M2M!Idle, M2MCall, MaybeToken
  <2>2. M2M!NoBinding \in BindingRow /\ M2M!NoBinding.status = "none"
    BY DEF M2M!NoBinding, BindingRow, MaybeToken
  <2>3. M2MTyping
    BY <1>2, <2>1, <2>2 DEF M2MTyping, M2M!Init, M2M!Unprovisioned
  <2>4. \A c \in Callers : call[c].pc = "idle"
    BY <1>2, <2>1 DEF M2M!Init
  <2>5. \A c \in Callers : Timely(c) /\ HoldsClaim(c) /\ Knows(c) /\ ~Provisioning(c)
    BY <2>4 DEF Timely, HoldsClaim, Knows, Provisioning
  <2>6. clients = {} /\ strays = {} /\ binding.status = "none"
    BY <1>2, <2>2 DEF M2M!Init, M2M!Unprovisioned
  <2> QED
    BY <1>2, <2>3, <2>5, <2>6 DEF PlaneInv, M2MInv, M2M!ActiveIsUsable
<1> QED
  BY <1>1, <1>2 DEF PlaneInit

LEMMA PlaneNextInv ==
  ASSUME PlaneInv, [BootstrapStep \/ ProvisionStep]_planeVars
  PROVE  PlaneInv'
<1>1. CASE BootstrapStep
  <2>1. command = "bootstrap" /\ BootInv /\ M2M!Unprovisioned
    BY <1>1 DEF PlaneInv, BootstrapStep
  <2>2. BootInv'
    BY <1>1, <2>1, BootNext DEF BootstrapStep
  <2>3. command' = "bootstrap" /\ M2M!Unprovisioned'
    BY <1>1, <2>1 DEF BootstrapStep, m2mRows, M2M!Unprovisioned
  <2> QED
    BY <2>2, <2>3 DEF PlaneInv
<1>2. CASE ProvisionStep
  <2>1. command = "provision" /\ M2MInv /\ Bootstrap!Reviewed
    BY <1>2 DEF PlaneInv, ProvisionStep
  <2>2. M2MInv'
    BY <1>2, <2>1, M2MNext DEF ProvisionStep
  <2>3. command' = "provision" /\ Bootstrap!Reviewed'
    BY <1>2, <2>1 DEF ProvisionStep, bootstrapRows, Bootstrap!Reviewed
  <2> QED
    BY <2>2, <2>3 DEF PlaneInv
<1>3. CASE UNCHANGED planeVars
  <2>1. UNCHANGED <<command, requests, membership, events, binding, clients, used, strays,
                    secret, lateSecrets, audited, answered, call, clock, failures>>
    BY <1>3 DEF planeVars, bootstrapRows, m2mRows
  <2>2. BootInv /\ M2M!Unprovisioned => BootInv' /\ M2M!Unprovisioned'
    BY <2>1 DEF BootInv, BootTyping, BootCaller, Bootstrap!OneBeneficiary, M2M!Unprovisioned
  <2>3. M2MInv /\ Bootstrap!Reviewed => M2MInv' /\ Bootstrap!Reviewed'
    BY <2>1 DEF M2MInv, M2MTyping, Timely, HoldsClaim, Knows, Provisioning, M2M!ActiveIsUsable,
       Bootstrap!Reviewed
  <2> QED
    BY <2>1, <2>2, <2>3 DEF PlaneInv
<1> QED
  BY <1>1, <1>2, <1>3

(* BootstrapProcessor: the effects of at most one of the requests for a    *)
(* subject are recorded, and it wrote the membership, for any number of    *)
(* requests and invocations, wherever they overlap, fail or are lost.      *)
THEOREM PlaneOneBeneficiary == PlaneSpec => []OneBeneficiary
<1>1. PlaneInv => OneBeneficiary
  BY DEF PlaneInv, BootInv, OneBeneficiary, Bootstrap!OneBeneficiary, Bootstrap!Reviewed
<1> QED
  BY <1>1, PlaneInitInv, PlaneNextInv, PTL DEF PlaneSpec

(* No late release or claim of an overtaken invocation reopens a request   *)
(* whose effects are recorded; a consumed one stays as it is.              *)
THEOREM PlaneNeverReopened == PlaneSpec => NeverReopened
<1> DEFINE Stays ==
      \A r \in Requests :
        requests[r].state \in {"effects_applied", "audit_committed", "consumed"}
          => requests'[r].state \notin {"approved", "claimed"}
             /\ (requests[r].state = "consumed" => requests'[r] = requests[r])
<1>1. ASSUME PlaneInv, [BootstrapStep \/ ProvisionStep]_planeVars
      PROVE  [Stays]_(Bootstrap!vars)
  <2>1. CASE BootstrapStep
    <3>1. BootInv /\ Bootstrap!Next
      BY <1>1, <2>1 DEF PlaneInv, BootstrapStep
    <3> QED
      BY <3>1, BootForward DEF Recorded
  <2>2. CASE requests' = requests
    BY <2>2
  <2> QED
    BY <1>1, <2>1, <2>2 DEF ProvisionStep, bootstrapRows, planeVars
<1> QED
  BY <1>1, PlaneInitInv, PlaneNextInv, PTL DEF PlaneSpec, NeverReopened, Bootstrap!NeverReopened

(* M2MProvisioner.provision: the name never has two clients whose creation *)
(* was answered, for any number of invocations, any lease longer than the  *)
(* Lambda timeout, and requests that the SDK sends again or gives up and   *)
(* that are applied late.                                                  *)
THEOREM PlaneOneKnownClient == PlaneSpec => []OneKnownClient
<1>1. PlaneInv => OneKnownClient
  <2> SUFFICES ASSUME PlaneInv PROVE OneKnownClient
    OBVIOUS
  <2> DEFINE K == clients \ strays
  <2>1. M2M!Cardinality(K) = Cardinality(K)
    BY DEF M2M!Cardinality, Cardinality
  <2>2. \A k, l \in K : k = l
    BY DEF PlaneInv, M2MInv, M2M!Unprovisioned
  <2>3. Cardinality(K) <= 1
    <3>1. CASE K = {}
      BY <3>1, FS_EmptySet
    <3>2. CASE K # {}
      <4>1. \E k : K = {k}
        BY <2>2, <3>2
      <4> QED
        BY <4>1, FS_Singleton
    <3> QED
      BY <3>1, <3>2
  <2> QED
    BY <2>1, <2>3 DEF OneKnownClient, M2M!OneKnownClient
<1> QED
  BY <1>1, PlaneInitInv, PlaneNextInv, PTL DEF PlaneSpec

(* An active binding names a client that exists and whose secret is in     *)
(* escrow, also when requests given up make other clients of its name.     *)
THEOREM PlaneActiveIsUsable == PlaneSpec => []ActiveIsUsable
<1>1. PlaneInv => ActiveIsUsable
  BY DEF PlaneInv, M2MInv, ActiveIsUsable, M2M!ActiveIsUsable, M2M!Unprovisioned,
     M2M!NoBinding
<1> QED
  BY <1>1, PlaneInitInv, PlaneNextInv, PTL DEF PlaneSpec

=============================================================================
