------------------------------ MODULE ApiProofs -----------------------------
(***************************************************************************)
(* What the three services of the API with records of their own promise:   *)
(* the operation ledger, for any number of calls, any request digests and  *)
(* any setting of the grace, the retention, the skew of the clocks and the *)
(* bounds, and that it implements OnceOperation; the user lifecycle, for   *)
(* any members, keys, commands and number of concurrent calls; the         *)
(* employee profiles of a batch, for any runs, options and people.         *)
(*                                                                         *)
(* None of the properties of the operation ledger is inductive: what the   *)
(* ledger will say next is in the locals of the calls under way.  The      *)
(* invariant says of each call what the record it read is still worth.     *)
(*                                                                         *)
(* Nor are those of the user lifecycle: a write goes by evidence that an   *)
(* earlier step, often of another call, took from a row that may have      *)
(* changed since.  The invariant says that evidence in use is grounded in  *)
(* the version of the row the command names, which stays in the row.       *)
(*                                                                         *)
(* A run that generates profiles has no lock.  The invariant says that the *)
(* version its next put is conditioned on was read after the identity of   *)
(* the object was compared, and that it writes each profile the job record *)
(* lists before that record.                                               *)
(***************************************************************************)
EXTENDS OperationLedger, UserLifecycle, EmployeeProfiles, FiniteSetTheorems,
        SequenceTheorems, TLAPS

-----------------------------------------------------------------------------
(* The operation ledger.                                                   *)


Pcs == {"idle", "reserve", "reread", "write", "look", "resolve", "check",
        "settle", "quarantine", "load", "swap", "verify", "conflict",
        "done", "crashed"}

CallRecord ==
    [pc : Pcs, digest : Digests \cup {"none"}, now : Nat, seen : Record,
     target : {"none"} \cup Completed, error : {"none", "lost", "condition"},
     tells : {"none", "unknown", "conflict", "unavailable", "notFound"} \cup LedgerStates,
     resource : Creates \cup {NoCall}]

(* A call that holds a record of the key, and one inside transition.       *)
Moving == {"load", "swap", "verify", "conflict"}
Working == {"write", "resolve", "check", "settle", "quarantine"} \cup Moving

(* The ledger names a resource once it is reserved.                        *)
Bound ==
    /\ ledger.state = "none" => ledger.resource = NoCall
    /\ ledger.state # "none" => ledger.resource \in Creates

(* A create call that is not past its write has written nothing.           *)
Unwritten(c) ==
    /\ task[c].pc \in {"idle", "reserve", "reread", "write"} /\ c \in Creates =>
          business[c] = "absent"
    /\ task[c].pc = "write" => c \in Creates /\ ledger.resource = c
    /\ task[c].pc = "look" => c \notin Creates

(* The parts of the record that never change are as the call read them.    *)
Works(c) ==
    task[c].pc \in Working =>
        /\ ledger.state # "none" /\ task[c].seen.state # "none"
        /\ task[c].seen.resource = ledger.resource
        /\ task[c].seen.expires = ledger.expires
        /\ c \in Creates => task[c].digest = ledger.digest
        /\ task[c].seen.state = "SUCCEEDED" => Exists(business[ledger.resource])
        /\ task[c].pc \in {"write", "check", "settle", "quarantine"} =>
              task[c].seen.state = "PENDING"

(* The move a call is about to make is one the ledger allows.              *)
Moves(c) ==
    /\ task[c].pc = "settle" => Exists(business[ledger.resource])
    /\ task[c].pc \in Moving =>
          /\ task[c].target \in Completed
          /\ task[c].target = "SUCCEEDED" => Exists(business[ledger.resource])
          /\ \/ task[c].seen.state = "PENDING"
             \/ task[c].target = "EXPIRED" /\ task[c].seen.state # "EXPIRED"
          /\ task[c].target = "EXPIRED" => task[c].now >= ledger.expires

(* Behind the checks of transition: the version still vouches for them.    *)
Swaps(c) ==
    task[c].pc = "swap" =>
        /\ task[c].seen.version <= ledger.version
        /\ task[c].seen.version = ledger.version => ledger = task[c].seen
        /\ task[c].now >= task[c].seen.updated
        /\ task[c].target # "EXPIRED" => task[c].now < ledger.expires

Tells(c) ==
    /\ task[c].pc # "done" => task[c].tells = "none"
    /\ task[c].tells = "SUCCEEDED" =>
          /\ ledger.state # "none"
          /\ task[c].resource = ledger.resource
          /\ Exists(business[ledger.resource])
          /\ c \in Creates => task[c].digest = ledger.digest

CallInv(c) ==
    /\ task[c].now <= MaxTime + Skew
    /\ Unwritten(c) /\ Works(c) /\ Moves(c) /\ Swaps(c) /\ Tells(c)

LedgerInv ==
    /\ LedgerTypeOK
    /\ Bound /\ AtMostOneResource /\ SuccessBacked /\ RecordReadable
    /\ \A c \in Calls : CallInv(c)

-----------------------------------------------------------------------------
(* The steps of one call and what the others see of them.                  *)
OnlyCall(c, r) ==
    /\ r \in CallRecord
    /\ task' \in [Calls -> CallRecord]
    /\ task'[c] = r
    /\ \A d \in Calls : d # c => task'[d] = task[d]

LEMMA Typing ==
  LedgerTypeOK <=> /\ ledger \in Record
             /\ business \in [Creates -> {"absent", "late", "CREATED", "ADVANCED"}]
             /\ task \in [Calls -> CallRecord]
             /\ clock \in 0..MaxTime
             /\ errors \in 0..MaxErrors
  BY DEF LedgerTypeOK, CallRecord, Pcs

LEMMA TaskUpdate ==
  ASSUME LedgerTypeOK, NEW c \in Calls, NEW r \in CallRecord,
         task' = [task EXCEPT ![c] = r]
  PROVE  OnlyCall(c, r)
  BY Typing DEF OnlyCall

LEMMA IdleCallTyped ==
  IdleCall \in CallRecord /\ NoRecord \in Record
  BY TimeAssumption DEF IdleCall, NoRecord, NoTime, CallRecord, Record, LedgerStates, Pcs

LEMMA FaultTyped ==
  ASSUME LedgerTypeOK, Fault \/ UNCHANGED errors
  PROVE  errors' \in 0..MaxErrors
  BY TimeAssumption DEF LedgerTypeOK, Fault

LEMMA NowTyped ==
  ASSUME NEW t \in Now
  PROVE  t \in Nat /\ t <= MaxTime + Skew
  BY TimeAssumption DEF Now, Times

(* A call keeps what it knows while another steps: the ledger is reserved  *)
(* or moved on by one version, and no business record is taken away.       *)
LEMMA OtherKept ==
  ASSUME LedgerInv, NEW c \in Calls, task'[c] = task[c],
         \/ ledger' = ledger
         \/ ledger.state = "none"
         \/ /\ ledger'.state # "none" /\ ledger'.version = ledger.version + 1
            /\ ledger'.resource = ledger.resource /\ ledger'.digest = ledger.digest
            /\ ledger'.expires = ledger.expires,
         \A d \in Creates : Exists(business[d]) => Exists(business'[d]),
         c \in Creates /\ business[c] = "absent" =>
            business'[c] = "absent" \/ task[c].pc \notin {"idle", "reserve", "reread", "write"}
  PROVE  CallInv(c)'
  <1> LedgerTypeOK /\ Bound /\ CallInv(c) /\ task[c] \in CallRecord /\ ledger \in Record
    BY Typing DEF LedgerInv
  <1>1. Unwritten(c)'
    BY DEF CallInv, Unwritten, Works, Working
  <1>2. Works(c)'
    BY DEF CallInv, Works, Working, Moving, Bound
  <1>3. Moves(c)'
    BY DEF CallInv, Works, Moves, Working, Moving, Bound
  <1>4. Swaps(c)'
    BY DEF CallInv, Works, Swaps, Working, Moving, CallRecord, Record
  <1>5. Tells(c)'
    BY DEF CallInv, Tells, Bound
  <1> QED
    BY <1>1, <1>2, <1>3, <1>4, <1>5 DEF CallInv

(* A step that changes one call and nothing else but the clock and the     *)
(* count of faults.                                                        *)
LEMMA TaskMoves ==
  ASSUME LedgerInv, NEW c \in Calls, NEW r, OnlyCall(c, r), CallInv(c)',
         UNCHANGED <<ledger, business, clock>>, Fault \/ UNCHANGED errors
  PROVE  LedgerInv'
  <1>1. LedgerTypeOK'
    BY Typing, FaultTyped DEF LedgerInv, LedgerTypeOK, OnlyCall, CallRecord, Pcs
  <1>2. \A d \in Calls : CallInv(d)'
    BY OtherKept DEF OnlyCall
  <1> QED
    BY <1>1, <1>2 DEF LedgerInv, Bound, AtMostOneResource, SuccessBacked, RecordReadable

(* The call ends: it holds nothing any more, and what it tells of success  *)
(* is so.                                                                  *)
TellsTruth(c, what, res) ==
    what = "SUCCEEDED" =>
        /\ ledger.state # "none" /\ res = ledger.resource
        /\ Exists(business[ledger.resource])
        /\ c \in Creates => task[c].digest = ledger.digest

LEMMA Ends ==
  ASSUME LedgerInv, NEW c \in Calls, NEW res \in Creates \cup {NoCall},
         NEW what \in {"none", "unknown", "conflict", "unavailable", "notFound"} \cup LedgerStates,
         Told(c, what, res), TellsTruth(c, what, res),
         UNCHANGED <<ledger, business, clock>>, Fault \/ UNCHANGED errors
  PROVE  LedgerInv'
  <1> DEFINE r == [IdleCall EXCEPT !.pc = "done", !.digest = task[c].digest,
                                   !.tells = what, !.resource = res]
  <1>0. LedgerTypeOK /\ task[c] \in CallRecord
    BY Typing DEF LedgerInv
  <1>1. r \in CallRecord
    BY ZenonT(40), <1>0, IdleCallTyped DEF CallRecord, IdleCall, Pcs
  <1>2. OnlyCall(c, r)
    BY <1>0, <1>1, TaskUpdate DEF Told
  <1>3. /\ r.pc = "done" /\ r.now = 0 /\ r.tells = what /\ r.resource = res
        /\ r.digest = task[c].digest
    BY DEF IdleCall
  <1> HIDE DEF r
  <1>4. CallInv(c)'
    BY <1>2, <1>3, TimeAssumption
    DEF OnlyCall, CallInv, Unwritten, Works, Moves, Swaps, Tells, Working, Moving, TellsTruth
  <1> QED
    BY <1>2, <1>4, TaskMoves

LEMMA EndsPlainly ==
  ASSUME LedgerInv, NEW c \in Calls, NEW what \in {"unknown", "conflict", "unavailable", "notFound"},
         Answers(c, what),
         UNCHANGED <<ledger, business, clock>>, Fault \/ UNCHANGED errors
  PROVE  LedgerInv'
  <1>1. what # "SUCCEEDED"
    OBVIOUS
  <1> QED
    BY <1>1, Ends DEF Answers, TellsTruth

LEMMA EndsWith ==
  ASSUME LedgerInv, NEW c \in Calls, NEW record \in Record, AnswersWith(c, record),
         TellsTruth(c, record.state, record.resource),
         UNCHANGED <<ledger, business, clock>>, Fault \/ UNCHANGED errors
  PROVE  LedgerInv'
  <1>1. record.state \in LedgerStates /\ record.resource \in Creates \cup {NoCall}
    BY DEF Record
  <1> QED
    BY <1>1, Ends DEF AnswersWith

(* What the stored record says may be told by a call that works on it.     *)
LEMMA LedgerIsTruth ==
  ASSUME LedgerInv, NEW c \in Calls, task[c].pc \in Working
  PROVE  ledger \in Record /\ TellsTruth(c, ledger.state, ledger.resource)
  BY DEF LedgerInv, LedgerTypeOK, SuccessBacked, CallInv, Works, TellsTruth

LEMMA ReturnsLedger ==
  ASSUME LedgerInv, NEW c \in Calls, task[c].pc \in Working, Returns(c, ledger),
         UNCHANGED <<ledger, business, clock>>, Fault \/ UNCHANGED errors
  PROVE  LedgerInv'
  BY LedgerIsTruth, EndsPlainly, EndsWith DEF Returns

(* The call goes on with another program counter.                          *)
LEMMA TaskGoesOn ==
  ASSUME LedgerTypeOK, NEW c \in Calls, NEW pc \in Pcs, TaskGoto(c, pc)
  PROVE  /\ OnlyCall(c, [task[c] EXCEPT !.pc = pc])
         /\ task'[c].pc = pc
         /\ \A f \in {"digest", "now", "seen", "target", "error", "tells", "resource"} :
               task'[c][f] = task[c][f]
  <1>1. task[c] \in CallRecord
    BY Typing
  <1>2. [task[c] EXCEPT !.pc = pc] \in CallRecord
    BY <1>1 DEF CallRecord
  <1>3. task' = [task EXCEPT ![c] = [task[c] EXCEPT !.pc = pc]]
    BY DEF TaskGoto
  <1>4. OnlyCall(c, [task[c] EXCEPT !.pc = pc])
    BY <1>2, <1>3, TaskUpdate
  <1> QED
    BY <1>1, <1>4 DEF OnlyCall, CallRecord
-----------------------------------------------------------------------------
(* One lemma per action.                                                   *)
LEMMA BeginInv ==
  ASSUME LedgerInv, NEW c \in Calls, Begin(c)
  PROVE  LedgerInv'
  <1>0. LedgerTypeOK /\ CallInv(c) /\ task[c] \in CallRecord
    BY Typing DEF LedgerInv
  <1>1. PICK now \in Now :
          \/ /\ c \in Creates
             /\ \E d \in Digests :
                   task' = [task EXCEPT ![c].pc = "reserve", ![c].digest = d, ![c].now = now]
          \/ /\ c \in Reconcilers
             /\ task' = [task EXCEPT ![c] = [IdleCall EXCEPT !.pc = "look", !.now = now]]
    BY DEF Begin, Begins
  <1>2. now \in Nat /\ now <= MaxTime + Skew
    BY NowTyped
  <1>3. CASE c \in Creates
    <2>1. PICK d \in Digests :
            task' = [task EXCEPT ![c].pc = "reserve", ![c].digest = d, ![c].now = now]
      BY <1>1, <1>3, CallAssumption
    <2> DEFINE r == [task[c] EXCEPT !.pc = "reserve", !.digest = d, !.now = now]
    <2>2. r \in CallRecord
      BY <1>0, <1>2 DEF CallRecord, Pcs
    <2>3. task' = [task EXCEPT ![c] = r]
      BY <2>1
    <2>4. OnlyCall(c, r)
      BY <1>0, <2>2, <2>3, TaskUpdate
    <2>5. r.pc = "reserve" /\ r.now = now /\ r.tells = task[c].tells
      BY <1>0 DEF CallRecord
    <2>6. task[c].pc = "idle"
      BY <1>3, CallAssumption DEF Begin, TaskAt
    <2> HIDE DEF r
    <2>7. CallInv(c)'
      BY <1>0, <1>2, <2>4, <2>5, <2>6
      DEF Begin, OnlyCall, CallInv, Unwritten, Works, Moves, Swaps, Tells, Working, Moving
    <2> QED
      BY <2>4, <2>7, TaskMoves DEF Begin
  <1>4. CASE c \notin Creates
    <2> DEFINE r == [IdleCall EXCEPT !.pc = "look", !.now = now]
    <2>1. r \in CallRecord
      BY <1>2, IdleCallTyped DEF CallRecord, IdleCall, Pcs
    <2>2. OnlyCall(c, r)
      BY <1>0, <1>1, <1>4, <2>1, TaskUpdate
    <2>3. r.pc = "look" /\ r.now = now /\ r.tells = "none"
      BY DEF IdleCall
    <2> HIDE DEF r
    <2>4. CallInv(c)'
      BY <1>2, <1>4, <2>2, <2>3
      DEF OnlyCall, CallInv, Unwritten, Works, Moves, Swaps, Tells, Working, Moving
    <2> QED
      BY <2>2, <2>4, TaskMoves DEF Begin
  <1> QED
    BY <1>3, <1>4

LEMMA CrashInv ==
  ASSUME LedgerInv, NEW c \in Calls, Crash(c)
  PROVE  LedgerInv'
  <1> DEFINE r == [IdleCall EXCEPT !.pc = "crashed"]
  <1>1. r \in CallRecord
    BY IdleCallTyped DEF CallRecord, IdleCall, Pcs
  <1>2. OnlyCall(c, r)
    BY <1>1, TaskUpdate DEF Crash, LedgerInv
  <1>3. r.pc = "crashed" /\ r.now = 0 /\ r.tells = "none"
    BY DEF IdleCall
  <1> HIDE DEF r
  <1>4. CallInv(c)'
    BY <1>2, <1>3, TimeAssumption
    DEF OnlyCall, CallInv, Unwritten, Works, Moves, Swaps, Tells, Working, Moving
  <1> QED
    BY <1>2, <1>4, TaskMoves DEF Crash

(* The call takes up a record.                                             *)
LEMMA TakesUp ==
  ASSUME LedgerTypeOK, NEW c \in Calls, NEW pc \in Pcs, NEW record \in Record,
         task' = [task EXCEPT ![c].pc = pc, ![c].seen = record]
  PROVE  /\ OnlyCall(c, [task[c] EXCEPT !.pc = pc, !.seen = record])
         /\ task'[c].pc = pc /\ task'[c].seen = record
         /\ \A f \in {"digest", "now", "target", "error", "tells", "resource"} :
               task'[c][f] = task[c][f]
  <1>1. task[c] \in CallRecord
    BY Typing
  <1>2. [task[c] EXCEPT !.pc = pc, !.seen = record] \in CallRecord
    BY <1>1 DEF CallRecord
  <1>3. task' = [task EXCEPT ![c] = [task[c] EXCEPT !.pc = pc, !.seen = record]]
    OBVIOUS
  <1>4. OnlyCall(c, [task[c] EXCEPT !.pc = pc, !.seen = record])
    BY <1>2, <1>3, TaskUpdate
  <1> QED
    BY <1>1, <1>4 DEF OnlyCall, CallRecord

(* The answer of a put or an update is in doubt, or an error.              *)
LEMMA TakesError ==
  ASSUME LedgerTypeOK, NEW c \in Calls, NEW pc \in Pcs, NEW e \in {"none", "lost", "condition"},
         task' = [task EXCEPT ![c].pc = pc, ![c].error = e]
  PROVE  /\ OnlyCall(c, [task[c] EXCEPT !.pc = pc, !.error = e])
         /\ task'[c].pc = pc
         /\ \A f \in {"digest", "now", "seen", "target", "tells", "resource"} :
               task'[c][f] = task[c][f]
  <1>1. task[c] \in CallRecord
    BY Typing
  <1>2. [task[c] EXCEPT !.pc = pc, !.error = e] \in CallRecord
    BY <1>1 DEF CallRecord
  <1>3. task' = [task EXCEPT ![c] = [task[c] EXCEPT !.pc = pc, !.error = e]]
    OBVIOUS
  <1>4. OnlyCall(c, [task[c] EXCEPT !.pc = pc, !.error = e])
    BY <1>2, <1>3, TaskUpdate
  <1> QED
    BY <1>1, <1>4 DEF OnlyCall, CallRecord

LEMMA ReservedTyped ==
  ASSUME LedgerTypeOK, NEW c \in Creates
  PROVE  /\ Reserved(c) \in Record
         /\ Reserved(c).state = "PENDING" /\ Reserved(c).resource = c
         /\ Reserved(c).digest = task[c].digest
         /\ Reserved(c).created = task[c].now /\ Reserved(c).updated = task[c].now
         /\ Reserved(c).expires = task[c].now + Retention
         /\ Reserved(c).completed = NoTime /\ Reserved(c).version = 1
  <1>1. task[c] \in CallRecord
    BY Typing DEF Calls
  <1> QED
    BY <1>1, TimeAssumption DEF Reserved, Record, LedgerStates, CallRecord, NoTime

LEMMA ReserveKeyInv ==
  ASSUME LedgerInv, NEW c \in Creates, ReserveKey(c)
  PROVE  LedgerInv' /\ \A d \in Calls : task'[d].tells = task[d].tells
  <1>0. /\ LedgerTypeOK /\ CallInv(c) /\ c \in Calls /\ task[c] \in CallRecord
        /\ task[c].pc = "reserve" /\ business[c] = "absent"
    BY Typing DEF LedgerInv, Calls, ReserveKey, TaskAt, CallInv, Unwritten
  <1>1. UNCHANGED <<business, clock>> /\ (Fault \/ UNCHANGED errors)
    BY DEF ReserveKey
  <1>2. errors' \in 0..MaxErrors
    BY <1>0, <1>1, FaultTyped
  <1>3. CASE UNCHANGED ledger
    <2>1. PICK e \in {"lost", "condition"} : task' = [task EXCEPT ![c].pc = "reread", ![c].error = e]
      BY <1>0, <1>3, ReservedTyped DEF ReserveKey
    <2>2. /\ OnlyCall(c, [task[c] EXCEPT !.pc = "reread", !.error = e])
          /\ task'[c].pc = "reread" /\ task'[c].tells = task[c].tells /\ task'[c].now = task[c].now
      BY ZenonT(40), <1>0, <2>1, TakesError DEF Pcs
    <2>3. CallInv(c)'
      BY <1>0, <1>1, <1>3, <2>2
      DEF CallInv, Unwritten, Works, Moves, Swaps, Tells, Working, Moving
    <2> QED
      BY ZenonT(40), <1>0, <1>1, <1>3, <2>2, <2>3, TaskMoves DEF OnlyCall
  <1>4. CASE ledger.state = "none" /\ ledger' = Reserved(c)
    <2>1. /\ OnlyCall(c, task'[c])
          /\ task'[c].tells = task[c].tells /\ task'[c].now = task[c].now
          /\ task'[c].digest = task[c].digest
          /\ \/ task'[c].pc = "write" /\ task'[c].seen = Reserved(c)
             \/ task'[c].pc = "reread"
      <3>1. CASE task' = [task EXCEPT ![c].pc = "write", ![c].seen = Reserved(c)]
        <4>1. PICK pc \in Pcs, record \in Record :
                /\ pc = "write" /\ record = Reserved(c)
                /\ task' = [task EXCEPT ![c].pc = pc, ![c].seen = record]
          BY <1>0, <3>1, ReservedTyped DEF Pcs
        <4>2. /\ OnlyCall(c, [task[c] EXCEPT !.pc = pc, !.seen = record])
              /\ task'[c].pc = pc /\ task'[c].seen = record
              /\ task'[c].tells = task[c].tells /\ task'[c].now = task[c].now
              /\ task'[c].digest = task[c].digest
          BY ZenonT(60), <1>0, <4>1, TakesUp
        <4> QED
          BY <4>1, <4>2 DEF OnlyCall
      <3>2. CASE \E e \in {"lost", "condition"} :
                    task' = [task EXCEPT ![c].pc = "reread", ![c].error = e]
        <4>1. PICK e \in {"lost", "condition"} :
                task' = [task EXCEPT ![c].pc = "reread", ![c].error = e]
          BY <3>2
        <4>2. /\ OnlyCall(c, [task[c] EXCEPT !.pc = "reread", !.error = e])
              /\ task'[c].pc = "reread"
              /\ task'[c].tells = task[c].tells /\ task'[c].now = task[c].now
              /\ task'[c].digest = task[c].digest
          BY ZenonT(40), <1>0, <4>1, TakesError DEF Pcs
        <4> QED
          BY <4>2 DEF OnlyCall
      <3> QED
        BY <1>4, <3>1, <3>2 DEF ReserveKey
    <2>2. /\ ledger' \in Record /\ ledger'.state = "PENDING" /\ ledger'.resource = c
          /\ ledger'.digest = task[c].digest
          /\ ledger'.created = task[c].now /\ ledger'.updated = task[c].now
          /\ ledger'.expires = task[c].now + Retention /\ ledger'.completed = NoTime
      BY <1>0, <1>4, ReservedTyped
    <2>3. CallInv(c)'
      BY <1>0, <1>1, <1>4, <2>1, <2>2
      DEF CallInv, Unwritten, Works, Moves, Swaps, Tells, Working, Moving
    <2>4. \A d \in Calls : CallInv(d)'
      BY <1>1, <1>4, <2>1, <2>3, OtherKept DEF OnlyCall
    <2>5. LedgerTypeOK'
      BY <1>0, <1>1, <1>2, <2>1, <2>2, Typing DEF LedgerTypeOK, OnlyCall, CallRecord, Pcs
    <2>6. (Bound /\ AtMostOneResource /\ SuccessBacked)'
      BY <1>1, <1>4, <2>2, CallAssumption DEF LedgerInv, Bound, AtMostOneResource, SuccessBacked, Calls
    <2>7. RecordReadable'
      BY <1>0, <2>2, TimeAssumption DEF RecordReadable, Completed, CallRecord
    <2> QED
      BY <1>0, <2>1, <2>4, <2>5, <2>6, <2>7 DEF LedgerInv, OnlyCall
  <1> QED
    BY <1>3, <1>4 DEF ReserveKey

LEMMA RereadInv ==
  ASSUME LedgerInv, NEW c \in Creates, RereadReservation(c)
  PROVE  LedgerInv'
  <1>0. /\ LedgerTypeOK /\ Bound /\ SuccessBacked /\ CallInv(c) /\ c \in Calls /\ task[c] \in CallRecord
        /\ task[c].pc = "reread" /\ business[c] = "absent" /\ ledger \in Record
    BY Typing DEF LedgerInv, Calls, RereadReservation, TaskAt, CallInv, Unwritten
  <1>1. UNCHANGED <<ledger, business, clock>> /\ (Fault \/ UNCHANGED errors)
    BY DEF RereadReservation
  <1>2. CASE Answers(c, "unknown") \/ Answers(c, "conflict")
    BY <1>0, <1>1, <1>2, EndsPlainly
  <1>3. ASSUME ledger.state # "none", SameRequest(c), NEW pc \in {"write", "resolve"},
               task' = [task EXCEPT ![c].pc = pc, ![c].seen = ledger],
               pc = "write" => IsWinner(c)
        PROVE  LedgerInv'
    <2>1. /\ OnlyCall(c, [task[c] EXCEPT !.pc = pc, !.seen = ledger])
          /\ task'[c].pc = pc /\ task'[c].seen = ledger /\ task'[c].now = task[c].now
          /\ task'[c].tells = task[c].tells /\ task'[c].digest = task[c].digest
      BY ZenonT(60), <1>0, <1>3, TakesUp DEF Pcs
    <2>2. pc = "write" => ledger.state = "PENDING" /\ ledger.resource = c
      BY <1>0, <1>3, ReservedTyped DEF IsWinner
    <2>3. CallInv(c)'
      BY <1>0, <1>1, <1>3, <2>1, <2>2
      DEF CallInv, Unwritten, Works, Moves, Swaps, Tells, Working, Moving, SameRequest, SuccessBacked
    <2> QED
      BY SMTT(30), <1>0, <1>1, <2>1, <2>3, TaskMoves
  <1> QED
    BY <1>2, <1>3 DEF RereadReservation

(* The business records: what is there stays there.                        *)
LEMMA BusinessInv ==
  ASSUME LedgerInv, NEW c \in Creates, ledger.resource = c, UNCHANGED <<ledger, clock>>,
         Fault \/ UNCHANGED errors,
         NEW b \in {"absent", "late", "CREATED", "ADVANCED"},
         business' = [business EXCEPT ![c] = b],
         Exists(business[c]) => Exists(b),
         task' \in [Calls -> CallRecord],
         \A d \in Calls : d # c => task'[d] = task[d],
         CallInv(c)'
  PROVE  LedgerInv'
  <1>0. LedgerTypeOK /\ business \in [Creates -> {"absent", "late", "CREATED", "ADVANCED"}]
    BY DEF LedgerInv, LedgerTypeOK
  <1>1. /\ business' \in [Creates -> {"absent", "late", "CREATED", "ADVANCED"}]
        /\ business'[c] = b /\ \A d \in Creates : d # c => business'[d] = business[d]
    BY <1>0
  <1>2. \A d \in Calls : CallInv(d)'
    BY <1>1, OtherKept
  <1>3. LedgerTypeOK'
    BY <1>0, <1>1, FaultTyped DEF LedgerTypeOK, CallRecord, Pcs
  <1> QED
    BY <1>1, <1>2, <1>3 DEF LedgerInv, Bound, AtMostOneResource, SuccessBacked, RecordReadable

LEMMA WriteInv ==
  ASSUME LedgerInv, NEW c \in Creates, WriteBusiness(c)
  PROVE  LedgerInv' /\ \A d \in Calls : task'[d].tells = task[d].tells
  <1>0. /\ LedgerTypeOK /\ CallInv(c) /\ c \in Calls /\ task[c] \in CallRecord
        /\ task[c].pc = "write" /\ business[c] = "absent" /\ ledger.resource = c
    BY Typing DEF LedgerInv, Calls, WriteBusiness, TaskAt, CallInv, Unwritten
  <1>1. PICK b \in {"absent", "late", "CREATED"}, pc \in {"settle", "check"} :
          /\ business' = [business EXCEPT ![c] = b] /\ TaskGoto(c, pc)
          /\ pc = "settle" => b = "CREATED"
          /\ UNCHANGED <<ledger, clock>> /\ (Fault \/ UNCHANGED errors)
    BY DEF WriteBusiness
  <1>2. business'[c] = b
    BY <1>0, <1>1 DEF LedgerTypeOK
  <1>3. /\ OnlyCall(c, [task[c] EXCEPT !.pc = pc])
        /\ task'[c].pc = pc /\ task'[c].seen = task[c].seen /\ task'[c].now = task[c].now
        /\ task'[c].tells = task[c].tells /\ task'[c].digest = task[c].digest
    BY <1>0, <1>1, TaskGoesOn DEF Pcs
  <1>4. CallInv(c)'
    BY <1>0, <1>1, <1>2, <1>3
    DEF CallInv, Unwritten, Works, Moves, Swaps, Tells, Working, Moving, Exists
  <1> QED
    BY <1>0, <1>1, <1>3, <1>4, BusinessInv DEF OnlyCall, Exists

LEMMA LateAndAdvanceInv ==
  ASSUME LedgerInv, NEW c \in Creates, LateWriteLands(c) \/ ResourceAdvances(c)
  PROVE  LedgerInv'
  <1>0. /\ LedgerTypeOK /\ CallInv(c) /\ c \in Calls /\ task \in [Calls -> CallRecord]
        /\ business[c] # "absent" /\ ledger.resource = c
    BY Typing DEF LedgerInv, Calls, LateWriteLands, ResourceAdvances, AtMostOneResource
  <1>1. PICK b \in {"CREATED", "ADVANCED"} :
          business' = [business EXCEPT ![c] = b] /\ UNCHANGED <<ledger, task, clock, errors>>
    BY DEF LateWriteLands, ResourceAdvances
  <1>2. business'[c] = b
    BY <1>0, <1>1 DEF LedgerTypeOK
  <1>3. CallInv(c)'
    BY <1>0, <1>1, <1>2
    DEF CallInv, Unwritten, Works, Moves, Swaps, Tells, Exists
  <1> QED
    BY <1>0, <1>1, <1>3, BusinessInv DEF Exists

LEMMA LookInv ==
  ASSUME LedgerInv, NEW c \in Calls, Look(c)
  PROVE  LedgerInv'
  <1>0. /\ LedgerTypeOK /\ SuccessBacked /\ CallInv(c) /\ c \notin Creates
        /\ task[c].pc = "look" /\ ledger \in Record
    BY DEF LedgerInv, LedgerTypeOK, Look, TaskAt, CallInv, Unwritten
  <1>1. UNCHANGED <<ledger, business, clock>> /\ (Fault \/ UNCHANGED errors)
    BY DEF Look
  <1>2. CASE Answers(c, "unavailable") \/ Answers(c, "notFound")
    BY <1>1, <1>2, EndsPlainly
  <1>3. CASE ledger.state # "none" /\ task' = [task EXCEPT ![c].pc = "resolve", ![c].seen = ledger]
    <2>1. PICK pc \in Pcs, record \in Record :
            /\ pc = "resolve" /\ record = ledger
            /\ task' = [task EXCEPT ![c].pc = pc, ![c].seen = record]
      BY <1>0, <1>3 DEF Pcs
    <2>2. /\ OnlyCall(c, [task[c] EXCEPT !.pc = pc, !.seen = record])
          /\ task'[c].pc = pc /\ task'[c].seen = record /\ task'[c].now = task[c].now
          /\ task'[c].tells = task[c].tells
      BY ZenonT(40), <1>0, <2>1, TakesUp
    <2>3. CallInv(c)'
      BY <1>0, <1>1, <1>3, <2>1, <2>2
      DEF CallInv, Unwritten, Works, Moves, Swaps, Tells, Working, Moving, SuccessBacked
    <2> QED
      BY <1>1, <2>2, <2>3, TaskMoves
  <1> QED
    BY <1>2, <1>3 DEF Look

(* The call begins a move of the record.                                   *)
LEMMA Aims ==
  ASSUME LedgerInv, NEW c \in Calls, task[c].pc \in {"resolve", "settle", "quarantine"},
         NEW now \in Nat, now <= MaxTime + Skew, NEW target \in Completed,
         task' = [task EXCEPT ![c].pc = "load", ![c].now = now, ![c].target = target],
         target = "SUCCEEDED" => task[c].pc = "settle",
         target = "EXPIRED" => now >= task[c].seen.expires /\ task[c].seen.state # "EXPIRED",
         target # "EXPIRED" => task[c].pc # "resolve",
         UNCHANGED <<ledger, business, clock>>, Fault \/ UNCHANGED errors
  PROVE  LedgerInv'
  <1> DEFINE r == [task[c] EXCEPT !.pc = "load", !.now = now, !.target = target]
  <1>0. LedgerTypeOK /\ CallInv(c) /\ task[c] \in CallRecord
    BY Typing DEF LedgerInv
  <1>1. r \in CallRecord
    BY <1>0 DEF CallRecord, Pcs
  <1>2. task' = [task EXCEPT ![c] = r]
    OBVIOUS
  <1>3. OnlyCall(c, r)
    BY <1>0, <1>1, <1>2, TaskUpdate
  <1>4. /\ r.pc = "load" /\ r.now = now /\ r.target = target /\ r.seen = task[c].seen
        /\ r.tells = task[c].tells /\ r.digest = task[c].digest
    BY <1>0 DEF CallRecord
  <1> HIDE DEF r
  <1>5. CallInv(c)'
    BY <1>0, <1>3, <1>4
    DEF OnlyCall, CallInv, Unwritten, Works, Moves, Swaps, Tells, Working, Moving, Completed
  <1> QED
    BY <1>3, <1>5, TaskMoves

LEMMA ResolveInv ==
  ASSUME LedgerInv, NEW c \in Calls, Resolve(c)
  PROVE  LedgerInv'
  <1>0. /\ LedgerTypeOK /\ CallInv(c) /\ task[c] \in CallRecord /\ task[c].seen \in Record
        /\ task[c].pc = "resolve"
    BY Typing DEF LedgerInv, Resolve, TaskAt, CallRecord
  <1>1. PICK now \in (IF c \in Creates THEN Now ELSE {task[c].now}) :
          IF now >= task[c].seen.expires /\ task[c].seen.state # "EXPIRED"
          THEN task' = [task EXCEPT ![c].pc = "load", ![c].now = now, ![c].target = "EXPIRED"]
          ELSE IF task[c].seen.state = "PENDING" THEN TaskGoto(c, "check")
          ELSE AnswersWith(c, task[c].seen)
    BY DEF Resolve
  <1>2. now \in Nat /\ now <= MaxTime + Skew
    BY <1>0, NowTyped DEF CallInv, CallRecord
  <1>3. UNCHANGED <<ledger, business, clock, errors>>
    BY DEF Resolve
  <1>4. CASE /\ now >= task[c].seen.expires /\ task[c].seen.state # "EXPIRED"
             /\ task' = [task EXCEPT ![c].pc = "load", ![c].now = now, ![c].target = "EXPIRED"]
    <2>1. PICK target \in Completed :
            /\ target = "EXPIRED"
            /\ task' = [task EXCEPT ![c].pc = "load", ![c].now = now, ![c].target = target]
      BY <1>4 DEF Completed
    <2> QED
      BY <1>0, <1>2, <1>3, <1>4, <2>1, Aims
  <1>5. CASE task[c].seen.state = "PENDING" /\ TaskGoto(c, "check")
    <2>1. /\ OnlyCall(c, [task[c] EXCEPT !.pc = "check"])
          /\ task'[c].pc = "check" /\ task'[c].seen = task[c].seen /\ task'[c].now = task[c].now
          /\ task'[c].tells = task[c].tells /\ task'[c].digest = task[c].digest
      BY <1>0, <1>5, TaskGoesOn DEF Pcs
    <2>2. CallInv(c)'
      BY <1>0, <1>3, <1>5, <2>1
      DEF CallInv, Unwritten, Works, Moves, Swaps, Tells, Working, Moving
    <2> QED
      BY <1>3, <2>1, <2>2, TaskMoves
  <1>6. CASE AnswersWith(c, task[c].seen)
    <2>1. TellsTruth(c, task[c].seen.state, task[c].seen.resource)
      BY <1>0 DEF CallInv, Works, Working, TellsTruth
    <2> QED
      BY <1>0, <1>3, <1>6, <2>1, EndsWith
  <1> QED
    BY <1>1, <1>4, <1>5, <1>6

LEMMA CheckInv ==
  ASSUME LedgerInv, NEW c \in Calls, CheckBusiness(c)
  PROVE  LedgerInv'
  <1>0. /\ LedgerTypeOK /\ CallInv(c) /\ task[c] \in CallRecord /\ task[c].seen \in Record
        /\ task[c].pc = "check"
    BY Typing DEF LedgerInv, CheckBusiness, TaskAt, CallRecord
  <1>1. UNCHANGED <<ledger, business, clock>> /\ (Fault \/ UNCHANGED errors)
    BY DEF CheckBusiness
  <1>2. CASE Answers(c, "unknown")
    BY <1>1, <1>2, EndsPlainly
  <1>3. CASE AnswersWith(c, task[c].seen)
    <2>1. TellsTruth(c, task[c].seen.state, task[c].seen.resource)
      BY <1>0 DEF CallInv, Works, Working, TellsTruth
    <2> QED
      BY <1>0, <1>1, <1>3, <2>1, EndsWith
  <1>4. ASSUME NEW pc \in {"settle", "quarantine"}, TaskGoto(c, pc),
               pc = "settle" => Exists(business[task[c].seen.resource])
        PROVE  LedgerInv'
    <2>1. /\ OnlyCall(c, [task[c] EXCEPT !.pc = pc])
          /\ task'[c].pc = pc /\ task'[c].seen = task[c].seen /\ task'[c].now = task[c].now
          /\ task'[c].tells = task[c].tells /\ task'[c].digest = task[c].digest
      BY <1>0, <1>4, TaskGoesOn DEF Pcs
    <2>2. CallInv(c)'
      BY <1>0, <1>1, <1>4, <2>1
      DEF CallInv, Unwritten, Works, Moves, Swaps, Tells, Working, Moving
    <2> QED
      BY <1>1, <2>1, <2>2, TaskMoves
  <1> QED
    BY <1>2, <1>3, <1>4 DEF CheckBusiness, BindingMatches, Exists

LEMMA StartInv ==
  ASSUME LedgerInv, NEW c \in Calls, StartTransition(c)
  PROVE  LedgerInv'
  <1>1. PICK now \in Now, target \in Completed :
          /\ task' = [task EXCEPT ![c].pc = "load", ![c].now = now, ![c].target = target]
          /\ target = IF TaskAt(c, "settle") THEN "SUCCEEDED" ELSE "QUARANTINED"
    BY DEF StartTransition, Completed
  <1>2. UNCHANGED <<ledger, business, clock, errors>> /\ task[c].pc \in {"settle", "quarantine"}
    BY DEF StartTransition, TaskAt
  <1>3. /\ target # "EXPIRED" /\ task[c].pc # "resolve"
        /\ target = "SUCCEEDED" => task[c].pc = "settle"
    BY <1>1, <1>2 DEF TaskAt
  <1>4. now \in Nat /\ now <= MaxTime + Skew
    BY NowTyped
  <1> QED
    BY <1>1, <1>2, <1>3, <1>4, Aims

(* Inside transition the call may always give up or look at the conflict.  *)
LEMMA ToConflict ==
  ASSUME LedgerInv, NEW c \in Calls, task[c].pc \in Moving, TaskGoto(c, "conflict"),
         UNCHANGED <<ledger, business, clock>>, Fault \/ UNCHANGED errors
  PROVE  LedgerInv'
  <1>0. LedgerTypeOK /\ CallInv(c)
    BY DEF LedgerInv
  <1>1. /\ OnlyCall(c, [task[c] EXCEPT !.pc = "conflict"])
        /\ task'[c].pc = "conflict" /\ task'[c].seen = task[c].seen /\ task'[c].now = task[c].now
        /\ task'[c].tells = task[c].tells /\ task'[c].digest = task[c].digest
        /\ task'[c].target = task[c].target
    BY <1>0, TaskGoesOn DEF Pcs
  <1>2. CallInv(c)'
    BY <1>0, <1>1 DEF CallInv, Unwritten, Works, Moves, Swaps, Tells, Working, Moving
  <1> QED
    BY <1>1, <1>2, TaskMoves

LEMMA LoadInv ==
  ASSUME LedgerInv, NEW c \in Calls, LoadForTransition(c)
  PROVE  LedgerInv'
  <1>0. /\ LedgerTypeOK /\ SuccessBacked /\ CallInv(c) /\ task[c] \in CallRecord
        /\ task[c].pc = "load" /\ ledger \in Record
    BY Typing DEF LedgerInv, LoadForTransition, TaskAt
  <1>1. UNCHANGED <<ledger, business, clock>> /\ (Fault \/ UNCHANGED errors)
    BY DEF LoadForTransition
  <1>2. CASE Answers(c, "unknown")
    BY <1>1, <1>2, EndsPlainly
  <1>3. CASE Returns(c, ledger)
    BY <1>0, <1>1, <1>3, ReturnsLedger DEF Working, Moving
  <1>4. CASE TaskGoto(c, "conflict")
    BY <1>0, <1>1, <1>4, ToConflict DEF Moving
  <1>5. CASE /\ Expected(c, ledger) /\ ~ClockRegressed(c) /\ ~TooLate(c)
             /\ task' = [task EXCEPT ![c].pc = "swap", ![c].seen = ledger]
    <2>1. PICK pc \in Pcs, record \in Record :
            /\ pc = "swap" /\ record = ledger
            /\ task' = [task EXCEPT ![c].pc = pc, ![c].seen = record]
      BY <1>0, <1>5 DEF Pcs
    <2>2. /\ OnlyCall(c, [task[c] EXCEPT !.pc = pc, !.seen = record])
          /\ task'[c].pc = pc /\ task'[c].seen = record /\ task'[c].now = task[c].now
          /\ task'[c].tells = task[c].tells /\ task'[c].digest = task[c].digest
          /\ task'[c].target = task[c].target
      BY ZenonT(60), <1>0, <2>1, TakesUp
    <2>3. /\ ledger.state = task[c].seen.state
          /\ task[c].now >= ledger.updated
          /\ task[c].target # "EXPIRED" => task[c].now < ledger.expires
      BY <1>0, <1>5 DEF Expected, ClockRegressed, TooLate, CallRecord, Record
    <2>4. CallInv(c)'
      BY <1>0, <1>1, <2>1, <2>2, <2>3
      DEF CallInv, Unwritten, Works, Moves, Swaps, Tells, Working, Moving, SuccessBacked, Record
    <2> QED
      BY <1>1, <2>2, <2>4, TaskMoves
  <1> QED
    BY <1>2, <1>3, <1>4, <1>5 DEF LoadForTransition

LEMMA VerifyInv ==
  ASSUME LedgerInv, NEW c \in Calls, Verify(c) \/ ResolveConflict(c)
  PROVE  LedgerInv'
  <1>0. task[c].pc \in Moving
    BY DEF Verify, ResolveConflict, TaskAt, Moving
  <1>1. UNCHANGED <<ledger, business, clock>> /\ (Fault \/ UNCHANGED errors)
    BY DEF Verify, ResolveConflict
  <1>2. CASE Answers(c, "unknown")
    BY <1>1, <1>2, EndsPlainly
  <1>3. CASE Returns(c, ledger)
    BY <1>0, <1>1, <1>3, ReturnsLedger DEF Working
  <1>4. CASE TaskGoto(c, "conflict")
    BY <1>0, <1>1, <1>4, ToConflict
  <1> QED
    BY <1>2, <1>3, <1>4 DEF Verify, ResolveConflict

(* The record a successful update leaves: the version has kept the record  *)
(* as the checks of transition found it, so the move is an allowed one and *)
(* its times are in order.                                                 *)
LEMMA MovedRecord ==
  ASSUME LedgerInv, NEW c \in Calls, task[c].pc = "swap", SwapCondition(c)
  PROVE  /\ Moved(c, ledger) \in Record
         /\ Moved(c, ledger).state = task[c].target
         /\ Moved(c, ledger).version = ledger.version + 1
         /\ Moved(c, ledger).updated = task[c].now
         /\ Moved(c, ledger).completed = CompletedAt(c, ledger)
         /\ Moved(c, ledger).digest = ledger.digest
         /\ Moved(c, ledger).resource = ledger.resource
         /\ Moved(c, ledger).created = ledger.created
         /\ Moved(c, ledger).expires = ledger.expires
         /\ task[c].target \in Completed
         /\ ledger.state # "none" /\ ledger.state # "EXPIRED"
         /\ ledger.state = "PENDING" \/ task[c].target = "EXPIRED"
         /\ task[c].now >= ledger.updated
         /\ task[c].target = "EXPIRED" <=> task[c].now >= ledger.expires
         /\ task[c].target = "SUCCEEDED" => Exists(business[ledger.resource])
  <1>0. LedgerTypeOK /\ CallInv(c) /\ task[c] \in CallRecord /\ ledger \in Record
    BY Typing DEF LedgerInv
  <1>1. ledger = task[c].seen
    BY <1>0 DEF SwapCondition, Expected, CallInv, Swaps
  <1>2. /\ task[c].target \in Completed
        /\ ledger.state # "none" /\ ledger.state # "EXPIRED"
        /\ ledger.state = "PENDING" \/ task[c].target = "EXPIRED"
        /\ task[c].now >= ledger.updated
        /\ task[c].target = "SUCCEEDED" => Exists(business[ledger.resource])
    BY <1>0, <1>1 DEF CallInv, Works, Moves, Swaps, Working, Moving
  <1>3. task[c].target = "EXPIRED" <=> task[c].now >= ledger.expires
    BY <1>0 DEF CallInv, Moves, Swaps, Moving, CallRecord, Record
  <1>4. CompletedAt(c, ledger) \in Nat
    BY <1>0 DEF CompletedAt, CallRecord, Record
  <1>5. /\ Moved(c, ledger).state = task[c].target
        /\ Moved(c, ledger).version = ledger.version + 1
        /\ Moved(c, ledger).updated = task[c].now
        /\ Moved(c, ledger).completed = CompletedAt(c, ledger)
        /\ Moved(c, ledger).digest = ledger.digest
        /\ Moved(c, ledger).resource = ledger.resource
        /\ Moved(c, ledger).created = ledger.created
        /\ Moved(c, ledger).expires = ledger.expires
    BY <1>0 DEF Moved, Record
  <1>6. Moved(c, ledger) \in Record
    <2>1. ledger.version + 1 \in Nat /\ task[c].now \in Nat /\ task[c].target \in LedgerStates
      BY <1>0, <1>2 DEF Record, CallRecord, LedgerStates
    <2> QED
      BY <1>0, <1>4, <2>1 DEF Moved, Record
  <1> QED
    BY <1>2, <1>3, <1>5, <1>6

LEMMA SwapInv ==
  ASSUME LedgerInv, NEW c \in Calls, Swap(c)
  PROVE  LedgerInv' /\ \A d \in Calls : task'[d].tells = task[d].tells
  <1>0. /\ LedgerTypeOK /\ CallInv(c) /\ task[c] \in CallRecord /\ ledger \in Record
        /\ task[c].pc = "swap" /\ Bound /\ RecordReadable /\ AtMostOneResource
    BY Typing DEF LedgerInv, Swap, TaskAt
  <1>1. PICK e \in {"none", "lost", "condition"} :
          task' = [task EXCEPT ![c].pc = "verify", ![c].error = e]
    BY SMTT(30) DEF Swap
  <1>2. /\ OnlyCall(c, [task[c] EXCEPT !.pc = "verify", !.error = e])
        /\ task'[c].pc = "verify" /\ task'[c].seen = task[c].seen /\ task'[c].now = task[c].now
        /\ task'[c].tells = task[c].tells /\ task'[c].digest = task[c].digest
        /\ task'[c].target = task[c].target
    BY ZenonT(40), <1>0, <1>1, TakesError DEF Pcs
  <1>3. UNCHANGED <<business, clock>> /\ (Fault \/ UNCHANGED errors)
    BY DEF Swap
  <1>4. CASE UNCHANGED ledger
    <2>1. CallInv(c)'
      BY <1>0, <1>2, <1>3, <1>4
      DEF CallInv, Unwritten, Works, Moves, Swaps, Tells, Working, Moving
    <2> QED
      BY <1>2, <1>3, <1>4, <2>1, TaskMoves DEF OnlyCall
  <1>5. CASE SwapCondition(c) /\ ledger' = Moved(c, ledger)
    <2>1. /\ ledger' \in Record /\ ledger'.state = task[c].target
          /\ ledger'.version = ledger.version + 1 /\ ledger'.updated = task[c].now
          /\ ledger'.completed = CompletedAt(c, ledger)
          /\ ledger'.resource = ledger.resource /\ ledger'.digest = ledger.digest
          /\ ledger'.created = ledger.created /\ ledger'.expires = ledger.expires
          /\ task[c].target \in Completed
          /\ ledger.state # "none" /\ ledger.state # "EXPIRED"
          /\ ledger.state = "PENDING" \/ task[c].target = "EXPIRED"
          /\ task[c].now >= ledger.updated
          /\ task[c].target = "EXPIRED" <=> task[c].now >= ledger.expires
          /\ task[c].target = "SUCCEEDED" => Exists(business[ledger.resource])
      BY <1>0, <1>5, MovedRecord
    <2>2. ledger'.state # "none"
      BY <2>1 DEF Completed
    <2>3. CallInv(c)'
      BY <1>0, <1>2, <1>3, <2>1, <2>2
      DEF CallInv, Unwritten, Works, Moves, Swaps, Tells, Working, Moving
    <2>4. \A d \in Calls : CallInv(d)'
      BY <1>2, <1>3, <2>1, <2>2, <2>3, OtherKept DEF OnlyCall
    <2>5. LedgerTypeOK'
      BY <1>0, <1>2, <1>3, <2>1, FaultTyped DEF LedgerTypeOK, OnlyCall, CallRecord, Pcs
    <2>6. (Bound /\ AtMostOneResource /\ SuccessBacked)'
      BY <1>0, <1>3, <2>1, <2>2 DEF Bound, AtMostOneResource, SuccessBacked
    <2>7. RecordReadable'
      <3>1. task[c].now # NoTime
        BY <1>0, TimeAssumption DEF CallInv, NoTime, CallRecord
      <3> QED
        BY <1>0, <2>1, <2>2, <3>1
        DEF RecordReadable, CompletedAt, Completed, CallRecord, Record
    <2> QED
      BY <1>2, <2>4, <2>5, <2>6, <2>7 DEF LedgerInv, OnlyCall
  <1> QED
    BY <1>4, <1>5 DEF Swap

LEMMA TickInv ==
  ASSUME LedgerInv, Tick \/ UNCHANGED ledgerVars
  PROVE  LedgerInv'
  <1>1. UNCHANGED <<ledger, business, task, errors>> /\ clock' \in 0..MaxTime
    BY TimeAssumption DEF LedgerInv, LedgerTypeOK, Tick, ledgerVars
  <1> QED
    BY <1>1 DEF LedgerInv, LedgerTypeOK, Bound, AtMostOneResource, SuccessBacked, RecordReadable,
                CallInv, Unwritten, Works, Moves, Swaps, Tells

LEMMA LedgerInitInv == LedgerInit => LedgerInv
  <1> SUFFICES ASSUME LedgerInit PROVE LedgerInv
    OBVIOUS
  <1>1. LedgerTypeOK
    BY IdleCallTyped, TimeAssumption DEF LedgerInit, LedgerTypeOK, CallRecord, Pcs
  <1>2. \A c \in Calls : CallInv(c)
    BY TimeAssumption
    DEF LedgerInit, IdleCall, CallInv, Unwritten, Works, Moves, Swaps, Tells, Working, Moving
  <1>3. Bound /\ AtMostOneResource /\ SuccessBacked /\ RecordReadable
    BY DEF LedgerInit, NoRecord, Bound, AtMostOneResource, SuccessBacked, RecordReadable
  <1> QED
    BY <1>1, <1>2, <1>3 DEF LedgerInv

LEMMA CallStepInv ==
  ASSUME LedgerInv, NEW c \in Calls, CallStep(c)
  PROVE  LedgerInv'
  BY LookInv, ResolveInv, CheckInv, StartInv, LoadInv, SwapInv, VerifyInv DEF CallStep

LEMMA LedgerNextInv ==
  ASSUME LedgerInv, [LedgerNext]_ledgerVars
  PROVE  LedgerInv'
  <1>1. ASSUME NEW c \in Calls, Begin(c) \/ Crash(c)
        PROVE  LedgerInv'
    BY <1>1, BeginInv, CrashInv
  <1>2. ASSUME NEW c \in Creates, CreateStep(c)
        PROVE  LedgerInv'
    BY <1>2, ReserveKeyInv, RereadInv, WriteInv, CallStepInv DEF CreateStep, Calls
  <1>3. ASSUME NEW c \in Creates, LateWriteLands(c) \/ ResourceAdvances(c)
        PROVE  LedgerInv'
    BY <1>3, LateAndAdvanceInv
  <1>4. ASSUME NEW c \in Reconcilers, CallStep(c)
        PROVE  LedgerInv'
    BY <1>4, CallStepInv DEF Calls
  <1> QED
    BY <1>1, <1>2, <1>3, <1>4, TickInv DEF LedgerNext

-----------------------------------------------------------------------------
(* The calls and the stored records keep their types (operations.py).      *)
THEOREM LedgerTypes == LedgerSpec => []LedgerTypeOK
  <1>1. LedgerInv => LedgerTypeOK
    BY DEF LedgerInv
  <1> QED
    BY <1>1, LedgerInitInv, LedgerNextInv, PTL DEF LedgerSpec

(* However many calls with one key race, lose their answers and are        *)
(* replayed, at most one business record is written, the one the ledger    *)
(* names (reserve and _write_business_once).                               *)
THEOREM LedgerOneResource == LedgerSpec => []AtMostOneResource
  <1>1. LedgerInv => AtMostOneResource
    BY DEF LedgerInv
  <1> QED
    BY <1>1, LedgerInitInv, LedgerNextInv, PTL DEF LedgerSpec

(* A ledger that says SUCCEEDED has its business record                    *)
(* (_transition_success).                                                  *)
THEOREM LedgerSuccessBacked == LedgerSpec => []SuccessBacked
  <1>1. LedgerInv => SuccessBacked
    BY DEF LedgerInv
  <1> QED
    BY <1>1, LedgerInitInv, LedgerNextInv, PTL DEF LedgerSpec

(* All clients told of success are told of the same existing resource, and *)
(* asked for it (reserve's digest comparison, _operation_response).        *)
THEOREM LedgerAnswersAgree == LedgerSpec => []AnswersAgree
  <1>1. LedgerInv => AnswersAgree
    BY DEF LedgerInv, CallInv, Tells, AnswersAgree
  <1> QED
    BY <1>1, LedgerInitInv, LedgerNextInv, PTL DEF LedgerSpec

(* The stored record is always one _record_from_item accepts, whatever the *)
(* clocks of the writers say.                                              *)
THEOREM LedgerReadable == LedgerSpec => []RecordReadable
  <1>1. LedgerInv => RecordReadable
    BY DEF LedgerInv
  <1> QED
    BY <1>1, LedgerInitInv, LedgerNextInv, PTL DEF LedgerSpec

-----------------------------------------------------------------------------
(* How a step changes the record, for the two theorems that follow.        *)
Forward ==
    \/ ledger.state = "none" /\ ledger'.state = "PENDING" /\ ledger'.version = 1
    \/ /\ ledger'.version = ledger.version + 1
       /\ \A f \in {"digest", "resource", "created", "expires"} : ledger'[f] = ledger[f]
       /\ \/ ledger.state = "PENDING" /\ ledger'.state \in Completed
          \/ /\ ledger.state \in {"SUCCEEDED", "QUARANTINED"}
             /\ ledger'.state = "EXPIRED"
             /\ ledger'.completed = ledger.completed

LEMMA SwapForward ==
  ASSUME LedgerInv, NEW c \in Calls, Swap(c), ledger' # ledger
  PROVE  Forward
  <1>0. task[c].pc = "swap" /\ ledger \in Record /\ RecordReadable
    BY DEF LedgerInv, LedgerTypeOK, Swap, TaskAt
  <1>1. SwapCondition(c) /\ ledger' = Moved(c, ledger)
    BY DEF Swap
  <1>2. /\ ledger'.state = task[c].target /\ ledger'.version = ledger.version + 1
        /\ ledger'.completed = CompletedAt(c, ledger)
        /\ ledger'.resource = ledger.resource /\ ledger'.digest = ledger.digest
        /\ ledger'.created = ledger.created /\ ledger'.expires = ledger.expires
        /\ task[c].target \in Completed
        /\ ledger.state # "none" /\ ledger.state # "EXPIRED"
        /\ ledger.state = "PENDING" \/ task[c].target = "EXPIRED"
    BY <1>0, <1>1, MovedRecord
  <1>3. CASE ledger.state = "PENDING"
    BY <1>2, <1>3 DEF Forward
  <1>4. CASE ledger.state # "PENDING"
    <2>1. ledger.state \in {"SUCCEEDED", "QUARANTINED"} /\ task[c].target = "EXPIRED"
      BY <1>0, <1>2, <1>4 DEF Record, LedgerStates, Completed
    <2>2. ledger.completed # NoTime
      BY <1>0, <2>1 DEF RecordReadable, Completed
    <2> QED
      BY <1>2, <2>1, <2>2 DEF Forward, CompletedAt
  <1> QED
    BY <1>3, <1>4

(* Only Reserve and Swap write the ledger.                                 *)
LEMMA LedgerWriters ==
  ASSUME [LedgerNext]_ledgerVars
  PROVE  \/ UNCHANGED ledger
         \/ \E c \in Creates : ReserveKey(c)
         \/ \E c \in Calls : Swap(c)
  <1>1. ASSUME NEW c \in Calls, CallStep(c)
        PROVE  UNCHANGED ledger \/ Swap(c)
    BY <1>1 DEF CallStep, Look, Resolve, CheckBusiness, StartTransition, LoadForTransition,
                Verify, ResolveConflict
  <1>2. ASSUME NEW c \in Creates, CreateStep(c)
        PROVE  UNCHANGED ledger \/ ReserveKey(c) \/ Swap(c)
    BY <1>1, <1>2 DEF CreateStep, RereadReservation, WriteBusiness, Calls
  <1>3. ASSUME NEW c \in Creates, LateWriteLands(c) \/ ResourceAdvances(c)
        PROVE  UNCHANGED ledger
    BY <1>3 DEF LateWriteLands, ResourceAdvances
  <1>4. ASSUME NEW c \in Calls, Begin(c) \/ Crash(c)
        PROVE  UNCHANGED ledger
    BY <1>4 DEF Begin, Crash
  <1>5. ASSUME Tick \/ UNCHANGED ledgerVars
        PROVE  UNCHANGED ledger
    BY <1>5 DEF Tick, ledgerVars
  <1> QED
    BY <1>1, <1>2, <1>3, <1>4, <1>5 DEF LedgerNext, Calls

LEMMA StepForward ==
  ASSUME LedgerInv, [LedgerNext]_ledgerVars, ledger' # ledger
  PROVE  Forward
  <1>1. ASSUME NEW c \in Creates, ReserveKey(c)
        PROVE  Forward
    <2>1. LedgerTypeOK /\ ledger.state = "none" /\ ledger' = Reserved(c)
      BY <1>1 DEF ReserveKey, LedgerInv
    <2> QED
      BY <2>1, ReservedTyped DEF Forward
  <1> QED
    BY <1>1, LedgerWriters, SwapForward

(* The record only moves forward: reserved once, decided once, expired     *)
(* once, one version at a time, its request and resource fixed             *)
(* (_ALLOWED_TRANSITIONS and the condition of the update).                 *)
THEOREM LedgerMovesForward == LedgerSpec => LedgerForward
  <1>1. LedgerInv /\ [LedgerNext]_ledgerVars => [ledger' # ledger => Forward]_ledgerVars
    BY StepForward
  <1> QED
    BY <1>1, LedgerInitInv, LedgerNextInv, PTL DEF LedgerSpec, LedgerForward, Forward

-----------------------------------------------------------------------------
(* The refinement.  A step of the ledger is seen by the clients of the key *)
(* as the binding of a resource, its making, the telling, or not at all.   *)
made == \E c \in Creates : Exists(business[c])
told == \E c \in Calls : task[c].tells = "SUCCEEDED"

(* Only three actions write business records.                              *)
LEMMA BusinessWriters ==
  ASSUME [LedgerNext]_ledgerVars
  PROVE  \/ UNCHANGED business
         \/ \E c \in Creates : WriteBusiness(c) \/ LateWriteLands(c) \/ ResourceAdvances(c)
  <1>1. ASSUME NEW c \in Calls, CallStep(c)
        PROVE  UNCHANGED business
    BY <1>1 DEF CallStep, Look, Resolve, CheckBusiness, StartTransition, LoadForTransition,
                Swap, Verify, ResolveConflict
  <1>2. ASSUME NEW c \in Creates, CreateStep(c)
        PROVE  UNCHANGED business \/ WriteBusiness(c)
    BY <1>1, <1>2 DEF CreateStep, ReserveKey, RereadReservation, Calls
  <1>3. ASSUME NEW c \in Calls, Begin(c) \/ Crash(c)
        PROVE  UNCHANGED business
    BY <1>3 DEF Begin, Crash
  <1>4. ASSUME Tick \/ UNCHANGED ledgerVars
        PROVE  UNCHANGED business
    BY <1>4 DEF Tick, ledgerVars
  <1> QED
    BY ZenonT(30), <1>1, <1>2, <1>3, <1>4 DEF LedgerNext, Calls

(* A write of a business record tells nobody and leaves the ledger.        *)
LEMMA WritesAlone ==
  ASSUME LedgerInv, NEW c \in Creates,
         WriteBusiness(c) \/ LateWriteLands(c) \/ ResourceAdvances(c)
  PROVE  /\ UNCHANGED ledger /\ told' = told
         /\ made => made'
         /\ ledger.resource # NoCall
  <1>1. UNCHANGED ledger /\ \A d \in Calls : task'[d].tells = task[d].tells
    BY WriteInv DEF WriteBusiness, LateWriteLands, ResourceAdvances
  <1>2. ledger.resource = c /\ c # NoCall
    BY CallAssumption
    DEF LedgerInv, WriteBusiness, LateWriteLands, ResourceAdvances, AtMostOneResource,
        CallInv, Unwritten, TaskAt, Calls
  <1>3. \A d \in Creates : Exists(business[d]) => Exists(business'[d])
    <2>1. business \in [Creates -> {"absent", "late", "CREATED", "ADVANCED"}]
      BY DEF LedgerInv, LedgerTypeOK
    <2>2. WriteBusiness(c) => business[c] = "absent"
      BY DEF LedgerInv, WriteBusiness, CallInv, Unwritten, TaskAt, Calls
    <2> QED
      BY <2>1, <2>2 DEF WriteBusiness, LateWriteLands, ResourceAdvances, Exists
  <1> QED
    BY <1>1, <1>2, <1>3 DEF told, made

(* A write of the ledger tells nobody and makes nothing.                   *)
LEMMA LedgerAlone ==
  ASSUME LedgerInv, (\E c \in Creates : ReserveKey(c)) \/ (\E c \in Calls : Swap(c))
  PROVE  /\ UNCHANGED business /\ told' = told
         /\ \/ ledger'.resource = ledger.resource
            \/ ledger.resource = NoCall /\ ledger'.resource \in Creates
  <1>1. ASSUME NEW c \in Creates, ReserveKey(c)
        PROVE  /\ \A d \in Calls : task'[d].tells = task[d].tells
               /\ \/ ledger'.resource = ledger.resource
                  \/ ledger.resource = NoCall /\ ledger'.resource \in Creates
    BY <1>1, ReserveKeyInv, ReservedTyped DEF ReserveKey, LedgerInv, Bound
  <1>2. ASSUME NEW c \in Calls, Swap(c)
        PROVE  /\ \A d \in Calls : task'[d].tells = task[d].tells
               /\ ledger'.resource = ledger.resource
    BY <1>2, SwapInv, MovedRecord DEF Swap, TaskAt
  <1>3. UNCHANGED business
    BY DEF ReserveKey, Swap
  <1> QED
    BY <1>1, <1>2, <1>3 DEF told

LEMMA StepOnce ==
  ASSUME LedgerInv, LedgerInv', [LedgerNext]_ledgerVars
  PROVE  [Once!Next]_(Once!onceVars)
  <1> DEFINE Seen == \/ /\ ledger.resource = NoCall /\ ledger'.resource \in Creates
                        /\ made' = made /\ told' = told
                     \/ /\ ledger.resource # NoCall /\ ~made /\ made' = TRUE
                        /\ ledger'.resource = ledger.resource /\ told' = told
                     \/ /\ made /\ told' = TRUE
                        /\ ledger'.resource = ledger.resource /\ made' = made
                     \/ /\ told' = FALSE
                        /\ ledger'.resource = ledger.resource /\ made' = made
                     \/ /\ ledger'.resource = ledger.resource /\ made' = made /\ told' = told
  <1>0. made \in BOOLEAN /\ made' \in BOOLEAN /\ told \in BOOLEAN /\ told' \in BOOLEAN
    BY DEF made, told
  <1>1. Seen
    <2>1. CASE UNCHANGED ledger /\ UNCHANGED business
      <3>1. made' = made /\ ledger'.resource = ledger.resource
        BY <2>1 DEF made
      <3>2. told' => made'
        BY DEF LedgerInv, told, made, CallInv, Tells, Bound
      <3> QED
        BY <1>0, <3>1, <3>2
    <2>2. CASE UNCHANGED ledger /\ ~UNCHANGED business
      <3>1. /\ ledger'.resource = ledger.resource /\ told' = told
            /\ made => made'
            /\ ledger.resource # NoCall
        BY <2>2, BusinessWriters, WritesAlone
      <3> QED
        BY <1>0, <3>1
    <2>3. CASE ~UNCHANGED ledger
      <3>1. /\ UNCHANGED business /\ told' = told
            /\ \/ ledger'.resource = ledger.resource
               \/ ledger.resource = NoCall /\ ledger'.resource \in Creates
        BY <2>3, LedgerWriters, LedgerAlone
      <3>2. made' = made
        BY <3>1 DEF made
      <3> QED
        BY <3>1, <3>2
    <2> QED
      BY <2>1, <2>2, <2>3
  <1> QED
    BY <1>1
    DEF Once!Next, Once!onceVars, Once!Bind, Once!Make, Once!Tell, Once!Forget, made, told

(* The ledger, with its retries, lost answers, crashes and clocks, is one  *)
(* operation to its clients: a key bound to one resource, made at most     *)
(* once, and announced only after it is made (services/journey.py).        *)
THEOREM LedgerImplementsOnce == LedgerSpec => ImplementsOnce
  <1>1. LedgerInit => Once!Init
    BY DEF LedgerInit, Once!Init, IdleCall, NoRecord, Exists
  <1>2. LedgerInv /\ LedgerInv' /\ [LedgerNext]_ledgerVars => [Once!Next]_(Once!onceVars)
    BY StepOnce
  <1> QED
    BY <1>1, <1>2, LedgerInitInv, LedgerNextInv, PTL DEF LedgerSpec, ImplementsOnce, Once!Spec

-----------------------------------------------------------------------------
(* The user lifecycle.                                                     *)

Types ==
  /\ cmd \in [Ops -> Commands]
  /\ members \in [Members -> Seq(Version)]
  /\ stage \in [Ops -> Stages \cup {"absent"}]
  /\ evidence \in [Ops -> Evidence]
  /\ call \in [Callers -> Call]

\* The evidence ev of the command x names an admissible change of the version
\* x expects.
Based(x, ev) ==
  /\ x.kind = "invite" => ev.to = "invited"
  /\ x.kind = "resend_invitation" => ev.to = "invited"
  /\ x.kind # "invite" => 1 <= x.version /\ x.version <= Len(members[x.target])
  /\ x.kind \notin {"invite", "resend_invitation"} => ev.to \in MayFollow[ev.from]
  /\ ev.to \in States

\* And names another administrator where that change takes one away.
Grounded(x, ev) ==
  /\ Based(x, ev)
  /\ x.kind # "invite" /\ RemovesAdmin(members[x.target][x.version], ev) =>
       ev.replacement # None /\ ev.replacement # x.target

Stored ==
  \A o \in Ops : stage[o] \notin {"absent", "reserved"} => Grounded(cmd[o], evidence[o])

Held(c) ==
  call[c].pc # "idle" =>
    /\ call[c].op \in Ops
    /\ call[c].pc = "replacement" => Based(cmd[call[c].op], call[c].evidence)
    /\ call[c].pc = "checkpoint" \/ call[c].stage # "reserved" =>
         Grounded(cmd[call[c].op], call[c].evidence)
    /\ call[c].pc \in {"write", "readback"} => call[c].stage # "reserved"

IInv ==
  /\ Types /\ AdminRemains /\ Stored
  /\ \A c \in Callers : Held(c)

-----------------------------------------------------------------------------
LEMMA IdleTyped == Idle \in Call /\ NoEvidence \in Evidence
  BY LifecycleAssumption DEF Idle, Call, NoEvidence, Evidence, Stages

\* A row only grows, and the last entry of a row that is not empty is in it.
Grows ==
  \A m \in Members :
    /\ members'[m] \in Seq(Version) /\ Len(members[m]) <= Len(members'[m])
    /\ \A v \in 1..Len(members[m]) : members'[m][v] = members[m][v]

LEMMA LastIn ==
  ASSUME NEW row \in Seq(Version), row # << >>
  PROVE  /\ Len(row) \in Nat /\ 1 <= Len(row)
         /\ Last(row) = row[Len(row)] /\ Last(row) \in Version
  BY DEF Last

LEMMA CommandTyped ==
  ASSUME Types, NEW o \in Ops
  PROVE  /\ cmd[o] \in Command
         /\ cmd[o].target \in Members /\ cmd[o].version \in Nat
         /\ cmd[o].kind \in Kinds /\ cmd[o].role \in Roles
         /\ cmd[o].replacement \in Members \cup {None}
         /\ members[cmd[o].target] \in Seq(Version)
  BY LifecycleAssumption DEF Types, Command

\* Grounded evidence stays grounded.
LEMMA GroundedKept ==
  ASSUME Types, Grows, cmd' = cmd, NEW o \in Ops, NEW ev
  PROVE  /\ Based(cmd[o], ev) => Based(cmd[o], ev)'
         /\ Grounded(cmd[o], ev) => Grounded(cmd[o], ev)'
  <1> DEFINE x == cmd[o]
             t == x.target
             n == x.version
  <1>1. t \in Members /\ n \in Nat /\ members[t] \in Seq(Version)
    BY CommandTyped
  <1>2. Len(members[t]) \in Nat /\ Len(members'[t]) \in Nat /\ Len(members[t]) <= Len(members'[t])
    BY <1>1 DEF Grows
  <1>3. n \in 1..Len(members[t]) => members'[t][n] = members[t][n]
    BY <1>1 DEF Grows
  <1> QED
    BY <1>1, <1>2, <1>3 DEF Grounded, Based

LEMMA GrowsWhenSame ==
  ASSUME Types, UNCHANGED members
  PROVE  Grows
  BY DEF Types, Grows

\* The stages that have been passed.
LEMMA FirstGoal ==
  ASSUME NEW kind \in Kinds
  PROVE  NextStage(kind, "reserved") = "approval_validated"
  BY DEF NextStage, InviteStage, ResendStage, TransitionStage

LEMMA GoalTyped ==
  ASSUME NEW kind \in Kinds, NEW s \in Stages
  PROVE  /\ NextStage(kind, s) \in Stages
         /\ NextStage(kind, s) # "reserved"
  BY DEF NextStage, InviteStage, ResendStage, TransitionStage, Stages

-----------------------------------------------------------------------------
(* The steps of one call. *)

Only(c, r) ==
  /\ call' \in [Callers -> Call]
  /\ call'[c] = r
  /\ \A d \in Callers : d # c => call'[d] = call[d]

LEMMA Update ==
  ASSUME Types, NEW c \in Callers, NEW r \in Call, call' = [call EXCEPT ![c] = r]
  PROVE  Only(c, r)
  BY DEF Types, Only

LEMMA GotoOnly ==
  ASSUME Types, NEW c \in Callers,
         NEW pc \in {"effect", "replacement", "readback", "write", "checkpoint"}, Goto(c, pc)
  PROVE  /\ Only(c, [call[c] EXCEPT !.pc = pc])
         /\ call'[c].pc = pc /\ call'[c].op = call[c].op /\ call'[c].stage = call[c].stage
         /\ call'[c].evidence = call[c].evidence
  <1>1. call[c] \in Call
    BY DEF Types
  <1>2. [call[c] EXCEPT !.pc = pc] \in Call
    BY <1>1 DEF Call
  <1>3. call' = [call EXCEPT ![c] = [call[c] EXCEPT !.pc = pc]]
    BY DEF Goto
  <1>4. Only(c, [call[c] EXCEPT !.pc = pc])
    BY <1>2, <1>3, Update
  <1> QED
    BY <1>1, <1>4 DEF Only, Call

\* A call keeps what it holds while the rows grow.
LEMMA HeldKept ==
  ASSUME IInv, Grows, cmd' = cmd, NEW d \in Callers, call'[d] = call[d]
  PROVE  Held(d)'
  <1> Types /\ Held(d)
    BY DEF IInv
  <1>1. CASE call[d].pc = "idle"
    BY <1>1 DEF Held
  <1>2. CASE call[d].pc # "idle"
    <2>1. call[d].op \in Ops
      BY <1>2 DEF Held
    <2> DEFINE o == call[d].op
               ev == call[d].evidence
    <2>2. /\ Based(cmd[o], ev) => Based(cmd[o], ev)'
          /\ Grounded(cmd[o], ev) => Grounded(cmd[o], ev)'
      <3> HIDE DEF o, ev
      <3>1. PICK k, e : k \in Ops /\ k = o /\ e = ev
        BY <2>1 DEF o
      <3>2. /\ Based(cmd[k], e) => Based(cmd[k], e)'
            /\ Grounded(cmd[k], e) => Grounded(cmd[k], e)'
        BY <3>1, GroundedKept
      <3>3. o' = o /\ ev' = ev
        BY DEF o, ev
      <3> QED
        BY <3>1, <3>2, <3>3 DEF Based, Grounded, RemovesAdmin
    <2> QED
      BY <1>2, <2>1, <2>2 DEF Held
  <1> QED
    BY <1>1, <1>2

LEMMA StoredKept ==
  ASSUME IInv, Grows, UNCHANGED <<cmd, stage, evidence>>
  PROVE  Stored'
  <1> Types /\ Stored
    BY DEF IInv
  <1> SUFFICES ASSUME NEW o \in Ops, stage[o] \notin {"absent", "reserved"}
               PROVE  Grounded(cmd[o], evidence[o])'
    BY DEF Stored
  <1>1. PICK e : e = evidence[o] /\ e = evidence'[o]
    OBVIOUS
  <1>2. Grounded(cmd[o], e) => Grounded(cmd[o], e)'
    BY GroundedKept
  <1> QED
    BY <1>1, <1>2 DEF Stored, Based, Grounded, RemovesAdmin

\* A step that changes one call and no row.
LEMMA CallMoves ==
  ASSUME IInv, NEW c \in Callers, NEW r, Only(c, r), Held(c)',
         UNCHANGED <<cmd, members, stage, evidence>>
  PROVE  IInv'
  <1>0. Types /\ Grows
    BY GrowsWhenSame DEF IInv
  <1>1. Types'
    BY <1>0 DEF Types, Only
  <1>2. Stored'
    BY <1>0, StoredKept
  <1>3. \A d \in Callers : Held(d)'
    BY <1>0, HeldKept DEF Only
  <1> QED
    BY <1>1, <1>2, <1>3 DEF IInv, AdminRemains

LEMMA EndsInv ==
  ASSUME IInv, NEW c \in Callers, call' = [call EXCEPT ![c] = Idle],
         UNCHANGED <<cmd, members, stage, evidence>>
  PROVE  IInv'
  <1>1. Only(c, Idle)
    BY IdleTyped, Update DEF IInv
  <1>2. Held(c)'
    BY <1>1 DEF Only, Held, Idle
  <1> QED
    BY <1>1, <1>2, CallMoves

\* The stage of the call is past the reservation: what it holds, it keeps.
LEMMA GoesOn ==
  ASSUME IInv, NEW c \in Callers, call[c].pc # "idle",
         call[c].stage # "reserved" \/ call[c].pc = "checkpoint",
         NEW pc \in {"readback", "write", "checkpoint"},
         pc # "checkpoint" => call[c].stage # "reserved",
         Goto(c, pc), UNCHANGED <<cmd, members, stage, evidence>>
  PROVE  IInv'
  <1> Types /\ Held(c)
    BY DEF IInv
  <1>1. /\ Only(c, [call[c] EXCEPT !.pc = pc])
        /\ call'[c].pc = pc /\ call'[c].op = call[c].op /\ call'[c].stage = call[c].stage
        /\ call'[c].evidence = call[c].evidence
    BY GotoOnly
  <1>2. Held(c)'
    BY <1>1 DEF Held, Grounded, Based, RemovesAdmin
  <1> QED
    BY <1>1, <1>2, CallMoves

\* An effect other than the checks is behind the reservation.
LEMMA PastReservation ==
  ASSUME IInv, NEW c \in Callers, call[c].pc # "idle", Goal(c) # "approval_validated"
  PROVE  call[c].stage # "reserved"
  BY FirstGoal, CommandTyped DEF IInv, Held, Goal, Kind

-----------------------------------------------------------------------------
(* One lemma per action. *)

\* The effects that change neither a row nor the evidence.
LEMMA EffectInv ==
  ASSUME IInv, NEW c \in Callers,
         \/ ReserveProviderEffect(c) \/ ProviderEffect(c) \/ ReadBack(c)
         \/ LoadMembership(c) \/ RevokeSessions(c) \/ EmitAudit(c)
  PROVE  IInv'
  <1>1. /\ call[c].pc # "idle" /\ UNCHANGED <<cmd, members, stage, evidence>>
        /\ \E pc \in {"readback", "write", "checkpoint"} : Goto(c, pc)
    BY DEF ReserveProviderEffect, ProviderEffect, ReadBack, LoadMembership, RevokeSessions,
           EmitAudit, At
  <1>2. call[c].stage # "reserved"
    <2>1. CASE call[c].pc = "readback"
      BY <2>1 DEF IInv, Held
    <2>2. CASE call[c].pc # "readback"
      <3>1. Goal(c) # "approval_validated"
        BY <2>2 DEF ReserveProviderEffect, ProviderEffect, ReadBack, LoadMembership,
                    RevokeSessions, EmitAudit, At
      <3> QED
        BY <1>1, <3>1, PastReservation
    <2> QED
      BY <2>1, <2>2
  <1> QED
    BY <1>1, <1>2, GoesOn

\* What the checks find of an admissible request.
LEMMA EvidenceGrounds ==
  ASSUME Types, NEW o \in Ops, NEW row, row = members[cmd[o].target],
         cmd[o].kind = "invite" \/ Admissible(cmd[o], row)
  PROVE  /\ EvidenceFor(cmd[o], row) \in Evidence
         /\ EvidenceFor(cmd[o], row).replacement = None
         /\ Based(cmd[o], EvidenceFor(cmd[o], row))
         /\ cmd[o].kind # "invite" => members[cmd[o].target][cmd[o].version] = Last(row)
  <1> DEFINE x == cmd[o]
  <1>0. /\ x \in Command /\ x.version \in Nat /\ x.kind \in Kinds /\ x.role \in Roles
        /\ row \in Seq(Version)
    BY CommandTyped
  <1>1. CASE x.kind = "invite"
    BY <1>0, <1>1, IdleTyped
    DEF EvidenceFor, NoEvidence, Evidence, Based, States
  <1>2. CASE x.kind # "invite"
    <2>1. /\ Len(row) = x.version /\ row # << >> /\ Last(row).state \in ExpectedStates(x.kind)
      BY <1>2 DEF Admissible
    <2>2. /\ 1 <= Len(row) /\ Last(row) = row[Len(row)]
          /\ Last(row).state \in States /\ Last(row).role \in Roles
      BY <1>0, <2>1, LastIn DEF Version
    <2>3. /\ DesiredState(x.kind, Last(row).state) \in States
          /\ x.kind = "resend_invitation" => DesiredState(x.kind, Last(row).state) = "invited"
          /\ x.kind # "resend_invitation" =>
               DesiredState(x.kind, Last(row).state) \in MayFollow[Last(row).state]
      BY <1>0, <1>2, <2>1, <2>2 DEF DesiredState, ExpectedStates, MayFollow, States, Kinds
    <2>4. /\ EvidenceFor(x, row).from = Last(row).state
          /\ EvidenceFor(x, row).to = DesiredState(x.kind, Last(row).state)
          /\ EvidenceFor(x, row).replacement = None
      BY <1>2 DEF EvidenceFor, NoEvidence
    <2>5. EvidenceFor(x, row) \in Evidence
      BY <1>0, <1>2, <2>2, <2>3, IdleTyped DEF EvidenceFor, NoEvidence, Evidence
    <2> QED
      BY <1>0, <1>2, <2>1, <2>2, <2>3, <2>4, <2>5 DEF Based
  <1> QED
    BY <1>1, <1>2

LEMMA ValidateInv ==
  ASSUME IInv, NEW c \in Callers, Validate(c)
  PROVE  IInv'
  <1> DEFINE o == call[c].op
             row == members[cmd[o].target]
             ev == EvidenceFor(cmd[o], row)
             pc == IF cmd[o].kind # "invite" /\ RemovesAdmin(Last(row), ev)
                   THEN "replacement" ELSE "checkpoint"
             r == [call[c] EXCEPT !.evidence = ev, !.pc = pc]
  <1>0. Types /\ Held(c) /\ call[c] \in Call /\ o \in Ops
    BY DEF IInv, Types, Validate, At, Held
  <1>1. /\ ev \in Evidence /\ ev.replacement = None /\ Based(cmd[o], ev)
        /\ cmd[o].kind # "invite" => members[cmd[o].target][cmd[o].version] = Last(row)
    BY <1>0, EvidenceGrounds DEF Validate, Target
  <1>2. call' = [call EXCEPT ![c] = r]
    BY DEF Validate, Target
  <1>3. UNCHANGED <<cmd, members, stage, evidence>>
    BY DEF Validate
  <1>4. pc \in {"replacement", "checkpoint"}
        /\ (pc = "checkpoint" => Grounded(cmd[o], ev))
    BY <1>1 DEF Grounded
  <1> HIDE DEF ev, pc
  <1>5. r \in Call
    BY <1>0, <1>1, <1>4 DEF Call
  <1>6. r.pc = pc /\ r.op = o /\ r.evidence = ev /\ r.stage = call[c].stage
    BY <1>0 DEF Call
  <1>7. Only(c, r)
    BY <1>0, <1>2, <1>5, Update
  <1>8. call[c].stage = "reserved"
    <2>1. Goal(c) = "approval_validated" /\ call[c].stage \in Stages /\ Kind(c) \in Kinds
      BY <1>0, CommandTyped DEF Validate, At, Call, Kind
    <2> QED
      BY <2>1 DEF Goal, NextStage, InviteStage, ResendStage, TransitionStage, Stages
  <1> HIDE DEF r, o
  <1>9. Held(c)'
    BY <1>0, <1>1, <1>3, <1>4, <1>6, <1>7, <1>8
    DEF Held, Only, Grounded, Based, RemovesAdmin
  <1> QED
    BY <1>3, <1>7, <1>9, CallMoves

LEMMA LoadReplacementInv ==
  ASSUME IInv, NEW c \in Callers, LoadReplacement(c)
  PROVE  IInv'
  <1> DEFINE o == call[c].op
             m == cmd[o].replacement
             ev == [call[c].evidence EXCEPT !.replacement = m,
                                            !.replacementVersion = Len(members[m])]
             r == [call[c] EXCEPT !.evidence = ev, !.pc = "checkpoint"]
  <1>0. /\ Types /\ Held(c) /\ call[c] \in Call /\ call[c].evidence \in Evidence
        /\ o \in Ops /\ Based(cmd[o], call[c].evidence)
    BY DEF IInv, Types, LoadReplacement, Held, Call
  <1>1. m \in Members /\ m # None /\ m # cmd[o].target /\ Len(members[m]) \in Nat
    BY <1>0, CommandTyped DEF LoadReplacement, Target, Types
  <1>2. /\ ev \in Evidence /\ ev.replacement = m
        /\ ev.from = call[c].evidence.from /\ ev.to = call[c].evidence.to
    BY <1>0, <1>1 DEF Evidence
  <1>3. call' = [call EXCEPT ![c] = r]
    BY <1>0 DEF LoadReplacement, Call, Evidence
  <1>4. UNCHANGED <<cmd, members, stage, evidence>>
    BY DEF LoadReplacement
  <1>5. Grounded(cmd[o], ev)
    BY <1>0, <1>1, <1>2 DEF Grounded, Based
  <1> HIDE DEF ev
  <1>6. r \in Call /\ r.pc = "checkpoint" /\ r.op = o /\ r.evidence = ev
    BY <1>0, <1>2 DEF Call
  <1>7. Only(c, r)
    BY <1>0, <1>3, <1>6, Update
  <1> HIDE DEF r, o, m
  <1>8. Held(c)'
    BY <1>0, <1>4, <1>5, <1>6, <1>7 DEF Held, Only, Grounded, Based, RemovesAdmin
  <1> QED
    BY <1>4, <1>7, <1>8, CallMoves

LEMMA ReserveInv ==
  ASSUME IInv, NEW c \in Callers, NEW o \in Ops, Reserve(c, o)
  PROVE  IInv'
  <1> DEFINE s == IF stage[o] = "absent" THEN "reserved" ELSE stage[o]
             r == [op |-> o,
                   pc |-> IF stage[o] = "audit_committed" THEN "checkpoint" ELSE "effect",
                   stage |-> s, evidence |-> evidence[o], won |-> FALSE]
  <1>0. Types /\ Stored /\ s \in Stages /\ evidence[o] \in Evidence
    BY DEF IInv, Types, Reserve, Stages
  <1>1. /\ stage' = [stage EXCEPT ![o] = s]
        /\ UNCHANGED <<cmd, members, evidence>>
    BY DEF Reserve
  <1>2. call' = [call EXCEPT ![c] = r]
    BY <1>0, <1>1 DEF Reserve, Types
  <1>3. r \in Call
    BY <1>0 DEF Call
  <1>4. Only(c, r)
    BY <1>0, <1>2, <1>3, Update
  <1>5. s # "reserved" => Grounded(cmd[o], evidence[o])
    BY <1>0 DEF Stored
  <1>6. Types'
    BY <1>0, <1>1, <1>4 DEF Types, Only
  <1>7. Stored'
    BY <1>0, <1>1 DEF Types, Stored, Grounded, Based, RemovesAdmin
  <1>8. Held(c)'
    <2>1. /\ r.pc \in {"checkpoint", "effect"} /\ r.op = o /\ r.stage = s
          /\ r.evidence = evidence[o]
          /\ r.pc = "checkpoint" => s # "reserved"
      OBVIOUS
    <2> HIDE DEF r, s
    <2> QED
      BY <1>1, <1>4, <1>5, <2>1 DEF Held, Only, Grounded, Based, RemovesAdmin
  <1>9. \A d \in Callers : Held(d)'
    BY <1>0, <1>1, <1>4, <1>8, GrowsWhenSame, HeldKept DEF Only
  <1> QED
    BY <1>1, <1>6, <1>7, <1>9 DEF IInv, AdminRemains

LEMMA CheckpointInv ==
  ASSUME IInv, NEW c \in Callers, Checkpoint(c)
  PROVE  IInv'
  <1> DEFINE o == call[c].op
             goal == Goal(c)
  <1>0. /\ Types /\ Stored /\ call[c] \in Call /\ o \in Ops
        /\ Grounded(cmd[o], call[c].evidence)
        /\ call[c].evidence \in Evidence /\ goal \in Stages /\ goal # "reserved"
    BY GoalTyped, CommandTyped DEF IInv, Types, Checkpoint, Held, Call, Goal, Kind
  <1>1. PICK won \in BOOLEAN :
          /\ \/ /\ stage' = [stage EXCEPT ![o] = goal]
                /\ evidence' = [evidence EXCEPT ![o] = call[c].evidence]
             \/ UNCHANGED <<stage, evidence>>
          /\ call' = [call EXCEPT ![c] =
               IF goal = "completed" THEN Idle
               ELSE [call[c] EXCEPT !.stage = goal, !.won = won,
                       !.pc = IF goal = "audit_committed" THEN "checkpoint" ELSE "effect"]]
    BY DEF Checkpoint
  <1>2. UNCHANGED <<cmd, members>>
    BY DEF Checkpoint
  <1> DEFINE r == IF goal = "completed" THEN Idle
                  ELSE [call[c] EXCEPT !.stage = goal, !.won = won,
                          !.pc = IF goal = "audit_committed" THEN "checkpoint" ELSE "effect"]
  <1> HIDE DEF goal
  <1>3. r \in Call
    BY <1>0, IdleTyped DEF Call
  <1>4. Only(c, r)
    BY <1>0, <1>1, <1>3, Update
  <1>5. r.pc = "idle" \/ (r.op = o /\ r.evidence = call[c].evidence)
    BY <1>0 DEF Idle, Call
  <1>6. Held(c)'
    <2>1. r.pc \notin {"replacement", "write", "readback"}
      BY <1>0 DEF Idle, Call
    <2> HIDE DEF r
    <2> QED
      BY <1>0, <1>2, <1>4, <1>5, <2>1 DEF Held, Only, Grounded, Based, RemovesAdmin
  <1>7. Types'
    BY <1>0, <1>1, <1>2, <1>4 DEF Types, Only
  <1>8. Stored'
    BY <1>0, <1>1, <1>2 DEF Types, Stored, Grounded, Based, RemovesAdmin
  <1>9. \A d \in Callers : Held(d)'
    BY <1>0, <1>2, <1>4, <1>6, GrowsWhenSame, HeldKept DEF Only
  <1> QED
    BY <1>2, <1>7, <1>8, <1>9 DEF IInv, AdminRemains

LEMMA Appended ==
  ASSUME NEW row \in Seq(Version), NEW new \in Version
  PROVE  /\ Append(row, new) \in Seq(Version) /\ Append(row, new) # << >>
         /\ Len(Append(row, new)) = Len(row) + 1 /\ Len(row) \in Nat
         /\ Last(Append(row, new)) = new
         /\ \A v \in 1..Len(row) : Append(row, new)[v] = row[v]
  <1>1. Append(row, new) \in Seq(Version) /\ Len(row) \in Nat
        /\ Len(Append(row, new)) = Len(row) + 1
    OBVIOUS
  <1>2. Append(row, new)[Len(row) + 1] = new
    BY <1>1
  <1>3. \A v \in 1..Len(row) : Append(row, new)[v] = row[v]
    OBVIOUS
  <1>4. Append(row, new) # << >>
    BY SMTT(30), <1>1
  <1> QED
    BY <1>1, <1>2, <1>3, <1>4 DEF Last

\* The write: what it appends, and why an administrator remains.
LEMMA WriteMembershipInv ==
  ASSUME IInv, NEW c \in Callers, WriteMembership(c)
  PROVE  /\ IInv'
         /\ \A m \in Members : members[m] # << >> /\ members'[m] # members[m] =>
              Last(members'[m]).state \in MayFollow[Last(members[m]).state]
  <1> DEFINE o == call[c].op
             x == cmd[o]
             t == x.target
             ev == call[c].evidence
             row == members[t]
             new == [state |-> ev.to, role |-> ev.role, by |-> o]
  <1>0. /\ Types /\ Stored /\ AdminRemains /\ call[c] \in Call /\ ev \in Evidence /\ o \in Ops
        /\ Grounded(x, ev) /\ call[c].stage # "reserved" /\ call[c].pc = "write"
    BY DEF IInv, Types, WriteMembership, Held, Call
  <1>1. x.kind \in Kinds /\ t \in Members /\ x.version \in Nat /\ row \in Seq(Version)
    BY ZenonT(30), <1>0, CommandTyped
  <1>2. Goto(c, "checkpoint") /\ UNCHANGED <<cmd, stage, evidence>>
    BY DEF WriteMembership
  <1>3. CASE UNCHANGED members
    BY ZenonT(30), <1>0, <1>2, <1>3, GoesOn
  <1>4. CASE /\ MembershipCondition(x, ev, row)
             /\ members' = [members EXCEPT ![t] = Append(row, new)]
    <2>0. new \in Version
      BY ZenonT(30), <1>0 DEF Grounded, Based, Evidence, Version
    <2>1. /\ members' \in [Members -> Seq(Version)]
          /\ members'[t] = Append(row, new)
          /\ \A m \in Members : m # t => members'[m] = members[m]
      <3>1. Append(row, new) \in Seq(Version)
        BY <1>1, <2>0, Appended
      <3> QED
        BY <1>0, <1>1, <1>4, <3>1 DEF Types
    <2>2. /\ members'[t] # << >> /\ Last(members'[t]) = new
          /\ Len(members'[t]) = Len(row) + 1
          /\ \A v \in 1..Len(row) : members'[t][v] = row[v]
      <3> HIDE DEF t, row, new
      <3> QED
        BY <1>1, <2>0, <2>1, Appended
    <2>3. Grows
      <3> HIDE DEF t, row, new
      <3>1. row = members[t] /\ Len(row) \in Nat
        BY <1>1 DEF row
      <3>2. \A m \in Members : members[m] \in Seq(Version) /\ Len(members[m]) \in Nat
        BY <1>0 DEF Types
      <3> QED
        BY SMTT(30), <2>1, <2>2, <3>1, <3>2 DEF Grows
    <2>4. Only(c, [call[c] EXCEPT !.pc = "checkpoint"])
          /\ call'[c].pc = "checkpoint" /\ call'[c].op = o
          /\ call'[c].stage = call[c].stage /\ call'[c].evidence = ev
      BY <1>0, <1>2, GotoOnly
    <2>5. Held(c)'
      <3>1. PICK k, e : k \in Ops /\ k = o /\ e = ev
        BY <1>0
      <3>2. Grounded(cmd[k], e)'
        BY <1>0, <1>2, <2>3, <3>1, GroundedKept
      <3> QED
        BY <1>0, <1>2, <2>4, <3>1, <3>2 DEF Held, Grounded, Based, RemovesAdmin
    <2>6. \A d \in Callers : Held(d)'
      BY ZenonT(30), <1>2, <2>3, <2>4, <2>5, HeldKept DEF Only
    <2>7. Stored' /\ Types'
      BY ZenonT(30), <1>0, <1>2, <2>1, <2>3, <2>4, StoredKept DEF Types, Only
    <2>8. row # << >> =>
            /\ x.kind # "invite"
            /\ Len(row) = x.version /\ Last(row) = row[x.version]
            /\ x.kind = "resend_invitation" => Last(row).state = "invited"
            /\ x.kind # "resend_invitation" => Last(row).state = ev.from /\ ReplacementStands(ev)
      BY ZenonT(30), <1>1, <1>4, LastIn DEF MembershipCondition, RefreshCondition, TransitionCondition
    <2>9. row # << >> => new.state \in MayFollow[Last(row).state]
      BY <1>0, <2>8 DEF Grounded, Based, MayFollow
    <2>10. AdminRemains'
      <3>1. PICK a \in Members : members[a] # << >> /\ ActiveAdmin(Last(members[a]))
        BY ZenonT(30), <1>0 DEF AdminRemains
      <3>2. CASE a # t
        BY ZenonT(40), <2>1, <3>1, <3>2 DEF AdminRemains
      <3>3. CASE a = t /\ ~RemovesAdmin(Last(row), ev)
        <4>1. ActiveAdmin(new)
          BY ZenonT(30), <3>1, <3>3 DEF RemovesAdmin, ActiveAdmin
        <4> QED
          BY <1>1, <2>2, <4>1 DEF AdminRemains
      <3>4. CASE a = t /\ RemovesAdmin(Last(row), ev)
        <4>1. row # << >> /\ Last(row).state = "active"
          BY ZenonT(30), <3>1, <3>4 DEF ActiveAdmin
        <4>2. ev.replacement # None /\ ev.replacement # t /\ ReplacementStands(ev)
          BY <1>0, <2>8, <3>4, <4>1 DEF Grounded
        <4>3. ev.replacement \in Members
          BY <1>0, <4>2 DEF Evidence
        <4> QED
          BY ZenonT(40), <2>1, <4>2, <4>3 DEF ReplacementStands, AdminRemains
      <3> QED
        BY <3>2, <3>3, <3>4
    <2> QED
      BY ZenonT(40), <2>1, <2>2, <2>6, <2>7, <2>9, <2>10 DEF IInv
  <1> QED
    BY ZenonT(40), <1>3, <1>4 DEF WriteMembership, Target

LEMMA InitInv == Init => IInv
  <1> SUFFICES ASSUME Init PROVE IInv
    OBVIOUS
  <1>1. Types
    BY IdleTyped, LifecycleAssumption DEF Init, Types
  <1>2. AdminRemains
    BY LifecycleAssumption DEF Init, AdminRemains
  <1>3. Stored /\ \A c \in Callers : Held(c)
    BY ZenonT(30) DEF Init, Stored, Held, Idle
  <1> QED
    BY <1>1, <1>2, <1>3 DEF IInv

\* Steps in which no call moves.
LEMMA QuietInv ==
  ASSUME IInv, UNCHANGED <<cmd, members, stage, evidence, call>>
  PROVE  IInv'
  BY DEF IInv, Types, AdminRemains, Stored, Held, Grounded, Based, RemovesAdmin

LEMMA NextInv ==
  ASSUME IInv, [Next]_vars
  PROVE  IInv'
  <1>1. ASSUME NEW c \in Callers, Step(c)
        PROVE  IInv'
    <2>1. CASE Refuse(c)
      BY <2>1, EndsInv DEF Refuse
    <2> QED
      BY <1>1, <2>1, ValidateInv, LoadReplacementInv, EffectInv, WriteMembershipInv, CheckpointInv
      DEF Step
  <1>2. ASSUME NEW c \in Callers, Fail(c)
        PROVE  IInv'
    BY <1>2, EndsInv DEF Fail
  <1>3. ASSUME UNCHANGED vars \/ \E m \in Members : UserConfirms(m)
        PROVE  IInv'
    BY <1>3, QuietInv DEF vars, UserConfirms
  <1> QED
    BY <1>1, <1>2, <1>3, ReserveInv DEF Next

-----------------------------------------------------------------------------
\* The organisation always has an active administrator, whatever commands are
\* given at once by however many calls (_require_last_admin_safe, and the
\* condition check of transition_membership on the replacement).
THEOREM LifecycleAdminRemains == Spec => []AdminRemains
  <1>1. IInv => AdminRemains
    BY DEF IInv
  <1> QED
    BY <1>1, InitInv, NextInv, PTL DEF Spec

\* Every write of a membership row, a late one too, is a step of the state
\* table, and a revoked membership is never written (_ALLOWED_TRANSITIONS and
\* the conditions of the membership writes).
THEOREM LifecycleLegal == Spec => LegalTransitions
  <1> DEFINE Legal ==
        \A m \in Members : members[m] # << >> /\ members'[m] # members[m] =>
          Last(members'[m]).state \in MayFollow[Last(members[m]).state]
  <1>1. ASSUME IInv, [Next]_vars
        PROVE  [Legal]_vars
    <2>1. ASSUME NEW c \in Callers, WriteMembership(c)
          PROVE  Legal
      BY ZenonT(30), <1>1, <2>1, WriteMembershipInv
    <2>2. UNCHANGED members \/ \E c \in Callers : WriteMembership(c)
      BY ZenonT(40), <1>1 DEF Next, Step, Reserve, Fail, UserConfirms, Validate, LoadReplacement,
                  ReserveProviderEffect, ProviderEffect, ReadBack, LoadMembership,
                  RevokeSessions, EmitAudit, Checkpoint, Refuse, vars
    <2> QED
      BY <2>1, <2>2
  <1> QED
    BY <1>1, InitInv, NextInv, PTL DEF Spec, LegalTransitions

-----------------------------------------------------------------------------
(* A completed operation has had its effect.  The invariant follows each   *)
(* effect through the stages: what a stage stands for is so of the stored  *)
(* row, and of every call that goes by it, and a call about to checkpoint  *)
(* has already done what the next stage stands for.                        *)

AfterMembership(kind, s) ==
  \/ s \in {"membership_applied", "sessions_revoked", "audit_committed", "completed"}
  \/ s = "provider_applied" /\ kind \in ProviderLast

AfterSessions(kind, s) ==
  kind \in SessionsRevoked /\ s \in {"sessions_revoked", "audit_committed", "completed"}

Shown(x, ev) ==
  /\ Len(members[x.target]) > x.version
  /\ members[x.target][x.version + 1].state = ev.to
  /\ members[x.target][x.version + 1].role = ev.role

Effect(x, o, ev, s) ==
  /\ AfterMembership(x.kind, s) => Shown(x, ev)
  /\ AfterSessions(x.kind, s) => signedOut[x.target] > x.version
  /\ s \in {"audit_committed", "completed"} => o \in audit

\* The stages an operation of a kind can be at, as far as it matters here.
OnPath(kind, s) ==
  /\ s = "provider_effect_reserved" => kind = "resend_invitation"
  /\ s = "sessions_revoked" => kind \in SessionsRevoked

StoredEffect ==
  \A o \in Ops :
    /\ OnPath(cmd[o].kind, stage[o])
    /\ Effect(cmd[o], o, evidence[o], stage[o])

HeldEffect(c) ==
  call[c].pc # "idle" =>
    /\ OnPath(Kind(c), call[c].stage)
    /\ Effect(cmd[call[c].op], call[c].op, call[c].evidence, call[c].stage)
    /\ call[c].pc = "checkpoint" =>
         Effect(cmd[call[c].op], call[c].op, call[c].evidence, Goal(c))
    /\ call[c].pc = "replacement" => call[c].stage = "reserved"
    /\ call[c].pc = "readback" => Goal(c) = "provider_applied"
    /\ call[c].pc = "write" => Goal(c) = "membership_applied"

EInv ==
  /\ IInv /\ signedOut \in [Members -> Nat] /\ StoredEffect
  /\ \A c \in Callers : HeldEffect(c)

\* The next stage stands for one effect more.
LEMMA StageStep ==
  ASSUME NEW x \in Command, NEW s \in Stages, NEW g, g = NextStage(x.kind, s), OnPath(x.kind, s)
  PROVE  /\ OnPath(x.kind, g)
         /\ AfterMembership(x.kind, g) => g = "membership_applied" \/ AfterMembership(x.kind, s)
         /\ AfterSessions(x.kind, g) => g = "sessions_revoked" \/ AfterSessions(x.kind, s)
         /\ g = "completed" => s \in {"audit_committed", "completed"}
  <1> x.kind \in Kinds
    BY DEF Command
  <1>1. OnPath(x.kind, g)
    BY DEF NextStage, InviteStage, ResendStage, TransitionStage, OnPath, Stages, Kinds,
           SessionsRevoked, ProviderLast, ProviderFirst
  <1>2. AfterMembership(x.kind, g) => g = "membership_applied" \/ AfterMembership(x.kind, s)
    BY DEF NextStage, InviteStage, ResendStage, TransitionStage, OnPath, Stages, Kinds,
           SessionsRevoked, ProviderLast, ProviderFirst, AfterMembership
  <1>3. AfterSessions(x.kind, g) => g = "sessions_revoked" \/ AfterSessions(x.kind, s)
    BY DEF NextStage, InviteStage, ResendStage, TransitionStage, OnPath, Stages, Kinds,
           SessionsRevoked, ProviderLast, ProviderFirst, AfterSessions
  <1>4. g = "completed" => s \in {"audit_committed", "completed"}
    BY DEF NextStage, InviteStage, ResendStage, TransitionStage, OnPath, Stages, Kinds,
           SessionsRevoked, ProviderLast, ProviderFirst
  <1> QED
    BY <1>1, <1>2, <1>3, <1>4

\* An effect is not undone: rows grow, events stay, and a sign-out is of the
\* row as it is.
Lasts ==
  /\ Grows /\ cmd' = cmd /\ audit \subseteq audit'
  /\ signedOut' \in [Members -> Nat]
  /\ \A m \in Members : signedOut'[m] = signedOut[m] \/ signedOut'[m] = Len(members[m])

LEMMA EffectKept ==
  ASSUME Types, Lasts, NEW o \in Ops, NEW ev, NEW s, Effect(cmd[o], o, ev, s)
  PROVE  Effect(cmd[o], o, ev, s)'
  <1> DEFINE x == cmd[o]
             t == x.target
             n == x.version
  <1>1. t \in Members /\ n \in Nat /\ members[t] \in Seq(Version)
    BY CommandTyped
  <1>2. Len(members[t]) \in Nat /\ Len(members'[t]) \in Nat /\ Len(members[t]) <= Len(members'[t])
    BY <1>1 DEF Grows, Lasts
  <1>3. n + 1 \in 1..Len(members[t]) => members'[t][n + 1] = members[t][n + 1]
    BY <1>1 DEF Grows, Lasts
  <1>4. Shown(x, ev) => Shown(x, ev)'
    BY SMTT(30), <1>1, <1>2, <1>3 DEF Shown, Lasts
  <1>5. AfterSessions(x.kind, s) => AfterMembership(x.kind, s)
    BY DEF AfterSessions, AfterMembership
  <1>6. AfterSessions(x.kind, s) => signedOut'[t] > n
    BY <1>1, <1>5 DEF Effect, Shown, Lasts
  <1> QED
    BY <1>4, <1>6 DEF Effect, Lasts, AfterMembership, AfterSessions

\* The same of what a call holds, unprimed values named so that they may be
\* followed through the step.
LEMMA HeldEffectKept ==
  ASSUME EInv, Lasts, NEW d \in Callers, call'[d] = call[d]
  PROVE  HeldEffect(d)'
  <1> Types /\ Held(d) /\ HeldEffect(d)
    BY DEF EInv, IInv
  <1>1. CASE call[d].pc = "idle"
    BY SMTT(30), <1>1 DEF HeldEffect
  <1>2. CASE call[d].pc # "idle"
    <2>1. PICK o, ev, s, g : /\ o \in Ops
                             /\ o = call[d].op /\ ev = call[d].evidence
                             /\ s = call[d].stage /\ g = Goal(d)
      BY <1>2 DEF Held
    <2>2. /\ Goal(d)' = Goal(d) /\ Kind(d)' = Kind(d) /\ cmd' = cmd
      BY DEF Goal, Kind, Lasts
    <2>3. /\ Effect(cmd[o], o, ev, s) => Effect(cmd[o], o, ev, s)'
          /\ Effect(cmd[o], o, ev, g) => Effect(cmd[o], o, ev, g)'
      BY <2>1, EffectKept
    <2> QED
      BY ZenonT(40), <1>2, <2>1, <2>2, <2>3 DEF HeldEffect, Effect, Shown, AfterMembership, AfterSessions, OnPath
  <1> QED
    BY <1>1, <1>2

LEMMA StoredEffectKept ==
  ASSUME EInv, Lasts, NEW o \in Ops, stage'[o] = stage[o], evidence'[o] = evidence[o]
  PROVE  (OnPath(cmd[o].kind, stage[o]) /\ Effect(cmd[o], o, evidence[o], stage[o]))'
  <1> Types /\ StoredEffect
    BY DEF EInv, IInv
  <1>1. PICK ev, s : ev = evidence[o] /\ s = stage[o]
    OBVIOUS
  <1>2. Effect(cmd[o], o, ev, s)'
    BY <1>1, EffectKept DEF StoredEffect
  <1> QED
    BY <1>1, <1>2
    DEF StoredEffect, Effect, Shown, AfterMembership, AfterSessions, OnPath, Lasts

\* A step of one call that leaves the operation rows.
LEMMA CallEffects ==
  ASSUME EInv, IInv', NEW c \in Callers, Lasts, HeldEffect(c)',
         \A d \in Callers : d # c => call'[d] = call[d],
         UNCHANGED <<stage, evidence>>
  PROVE  EInv'
  <1>1. \A d \in Callers : HeldEffect(d)'
    BY HeldEffectKept
  <1>2. StoredEffect'
    BY StoredEffectKept DEF StoredEffect
  <1> QED
    BY <1>1, <1>2 DEF EInv, Lasts

LEMMA LastsWhenSame ==
  ASSUME EInv, UNCHANGED <<cmd, members, audit, signedOut>>
  PROVE  Lasts
  BY GrowsWhenSame DEF EInv, IInv, Lasts

\* The call goes on to another step of the same stage.
LEMMA GotoEffect ==
  ASSUME EInv, IInv', Lasts, NEW c \in Callers, call[c].pc # "idle",
         NEW pc \in {"readback", "write", "checkpoint"}, Goto(c, pc),
         UNCHANGED <<stage, evidence>>,
         pc = "readback" => Goal(c) = "provider_applied",
         pc = "write" => Goal(c) = "membership_applied",
         pc = "checkpoint" /\ Goal(c) = "membership_applied" =>
           Shown(cmd[call[c].op], call[c].evidence)',
         pc = "checkpoint" /\ Goal(c) = "sessions_revoked" =>
           signedOut'[Target(c)] > cmd[call[c].op].version,
         pc = "checkpoint" /\ Goal(c) = "audit_committed" => call[c].op \in audit'
  PROVE  EInv'
  <1>0. Types /\ Held(c) /\ HeldEffect(c) /\ call[c] \in Call
    BY DEF EInv, IInv, Types
  <1>1. PICK o, s, ev, g :
          /\ o \in Ops /\ s \in Stages
          /\ o = call[c].op /\ ev = call[c].evidence /\ s = call[c].stage /\ g = Goal(c)
          /\ g = NextStage(cmd[o].kind, s)
    <2>1. call[c].op \in Ops /\ call[c].stage \in Stages
      BY <1>0 DEF Held, Call
    <2>2. Goal(c) = NextStage(cmd[call[c].op].kind, call[c].stage)
      BY DEF Goal, Kind
    <2> QED
      BY <2>1, <2>2
  <1>2. /\ Only(c, [call[c] EXCEPT !.pc = pc])
        /\ call'[c].pc = pc /\ call'[c].op = o /\ call'[c].stage = s /\ call'[c].evidence = ev
    BY <1>0, <1>1, GotoOnly
  <1>3. cmd' = cmd /\ Goal(c)' = g /\ Kind(c)' = Kind(c) /\ Kind(c) = cmd[o].kind
    BY <1>1, <1>2 DEF Goal, Kind, Lasts
  <1>4. Effect(cmd[o], o, ev, s)' /\ OnPath(cmd[o].kind, s)
    BY <1>0, <1>1, EffectKept DEF HeldEffect, Kind
  <1>5. pc = "checkpoint" => Effect(cmd[o], o, ev, g)'
    <2>0. cmd[o] \in Command
      BY <1>0, <1>1, CommandTyped
    <2>1. SUFFICES ASSUME pc = "checkpoint" PROVE Effect(cmd[o], o, ev, g)'
      BY ZenonT(30), SMTT(30)
    <2>2. /\ g = "membership_applied" => Shown(cmd[o], ev)'
          /\ g = "sessions_revoked" => signedOut'[cmd[o].target] > cmd[o].version
          /\ g = "audit_committed" => o \in audit'
      BY ZenonT(40), <1>1, <1>2, <1>3, <2>1 DEF Shown, Target
    <2>3. /\ OnPath(cmd[o].kind, g)
          /\ AfterMembership(cmd[o].kind, g) =>
               g = "membership_applied" \/ AfterMembership(cmd[o].kind, s)
          /\ AfterSessions(cmd[o].kind, g) =>
               g = "sessions_revoked" \/ AfterSessions(cmd[o].kind, s)
          /\ g = "completed" => s \in {"audit_committed", "completed"}
      BY ZenonT(30), <1>1, <1>4, <2>0, StageStep
    <2> QED
      BY <1>3, <1>4, <2>2, <2>3 DEF Effect, AfterMembership, AfterSessions
  <1>6. HeldEffect(c)'
    BY ZenonT(40), <1>0, <1>1, <1>2, <1>3, <1>4, <1>5
    DEF HeldEffect, Effect, Shown, AfterMembership, AfterSessions, OnPath
  <1> QED
    BY <1>2, <1>6, CallEffects DEF Only

\* Before the first checkpoint no effect is claimed.
LEMMA EarlyEffect ==
  ASSUME EInv, IInv', NEW c \in Callers, NEW o \in Ops,
         call'[c].op = o, call'[c].stage = "reserved",
         call'[c].pc \in {"replacement", "checkpoint", "effect"}, cmd' = cmd
  PROVE  HeldEffect(c)'
  <1>1. cmd[o].kind \in Kinds
    BY CommandTyped DEF EInv, IInv
  <1>2. Kind(c)' = cmd[o].kind
    BY DEF Kind
  <1>3. Goal(c)' = "approval_validated"
    BY <1>1, <1>2, FirstGoal DEF Goal
  <1> QED
    BY <1>2, <1>3 DEF HeldEffect, Effect, AfterMembership, AfterSessions, OnPath

LEMMA ValidateEffect ==
  ASSUME EInv, IInv', NEW c \in Callers, Validate(c) \/ LoadReplacement(c)
  PROVE  EInv'
  <1>0. /\ Types /\ Held(c) /\ HeldEffect(c) /\ call[c] \in Call /\ call[c].pc # "idle"
        /\ call[c].op \in Ops
    BY ZenonT(30) DEF EInv, IInv, Types, Held, Validate, LoadReplacement, At
  <1>1. UNCHANGED <<cmd, members, stage, evidence, audit, signedOut>>
    BY DEF Validate, LoadReplacement
  <1>2. call[c].stage = "reserved"
    <2>1. CASE Validate(c)
      <3>1. Goal(c) = "approval_validated" /\ call[c].stage \in Stages /\ Kind(c) \in Kinds
        BY ZenonT(30), <1>0, <2>1, CommandTyped DEF Validate, At, Call, Kind
      <3> QED
        BY <3>1 DEF Goal, NextStage, InviteStage, ResendStage, TransitionStage, Stages
    <2>2. CASE LoadReplacement(c)
      BY <1>0, <2>2 DEF HeldEffect, LoadReplacement
    <2> QED
      BY <2>1, <2>2
  <1>3. /\ call'[c].op = call[c].op /\ call'[c].stage = call[c].stage
        /\ call'[c].pc \in {"replacement", "checkpoint"}
        /\ \A d \in Callers : d # c => call'[d] = call[d]
    BY <1>0 DEF Types, Call, Validate, LoadReplacement
  <1>4. HeldEffect(c)'
    <2>1. PICK o \in Ops : o = call[c].op
      BY <1>0
    <2> QED
      BY <1>1, <1>2, <1>3, <2>1, EarlyEffect
  <1> QED
    BY ZenonT(30), <1>1, <1>3, <1>4, LastsWhenSame, CallEffects

LEMMA ProviderSteps ==
  ASSUME EInv, IInv', NEW c \in Callers,
         ReserveProviderEffect(c) \/ ProviderEffect(c) \/ ReadBack(c)
  PROVE  EInv'
  <1>1. /\ call[c].pc # "idle" /\ UNCHANGED <<cmd, members, stage, evidence, audit, signedOut>>
    BY DEF ReserveProviderEffect, ProviderEffect, ReadBack, At
  <1>2. Goal(c) \in {"provider_effect_reserved", "provider_applied"}
    BY DEF ReserveProviderEffect, ProviderEffect, ReadBack, At, EInv, HeldEffect
  <1>3. \/ Goto(c, "checkpoint")
        \/ Goto(c, "readback") /\ Goal(c) = "provider_applied"
    BY DEF ReserveProviderEffect, ProviderEffect, ReadBack, At
  <1>4. Lasts
    BY <1>1, LastsWhenSame
  <1>5. PICK pc \in {"readback", "checkpoint"} :
          Goto(c, pc) /\ (pc = "readback" => Goal(c) = "provider_applied")
    BY <1>3
  <1> QED
    BY <1>1, <1>2, <1>4, <1>5, GotoEffect

LEMMA AuditEffect ==
  ASSUME EInv, IInv', NEW c \in Callers, EmitAudit(c)
  PROVE  EInv'
  <1>1. /\ call[c].pc = "effect" /\ Goal(c) = "audit_committed"
        /\ audit' = audit \cup {call[c].op} /\ Goto(c, "checkpoint")
        /\ UNCHANGED <<cmd, members, stage, evidence, signedOut>>
    BY DEF EmitAudit, At
  <1>2. Lasts
    BY <1>1, GrowsWhenSame DEF EInv, IInv, Lasts
  <1>3. PICK pc \in {"checkpoint"} : Goto(c, pc)
    BY <1>1
  <1> QED
    BY <1>1, <1>2, <1>3, GotoEffect

\* Sessions are revoked only after the row was written.
LEMMA SessionsEffect ==
  ASSUME EInv, IInv', NEW c \in Callers, RevokeSessions(c)
  PROVE  EInv'
  <1> DEFINE o == call[c].op
             t == Target(c)
  <1>0. /\ Types /\ HeldEffect(c) /\ o \in Ops /\ call[c].stage \in Stages
        /\ signedOut \in [Members -> Nat]
    BY DEF EInv, IInv, Types, RevokeSessions, At, Held, Call
  <1>1. /\ call[c].pc = "effect" /\ Goal(c) = "sessions_revoked"
        /\ signedOut' = [signedOut EXCEPT ![t] = Len(members[t])] /\ Goto(c, "checkpoint")
        /\ UNCHANGED <<cmd, members, stage, evidence, audit>>
    BY DEF RevokeSessions, At
  <1>2. t \in Members /\ Len(members[t]) \in Nat /\ cmd[o] \in Command
        /\ t = cmd[o].target
    BY <1>0, CommandTyped DEF Target, Types
  <1>3. AfterMembership(cmd[o].kind, call[c].stage)
    <2>1. /\ OnPath(cmd[o].kind, call[c].stage)
          /\ "sessions_revoked" = NextStage(cmd[o].kind, call[c].stage)
      BY <1>0, <1>1 DEF HeldEffect, Goal, Kind
    <2>2. AfterMembership(cmd[o].kind, "sessions_revoked")
      BY ZenonT(30) DEF AfterMembership
    <2> QED
      BY <1>0, <1>2, <2>1, <2>2, StageStep
  <1>4. Len(members[t]) > cmd[o].version
    BY ZenonT(30), <1>0, <1>1, <1>2, <1>3 DEF HeldEffect, Effect, Shown
  <1>5. signedOut'[t] > cmd[o].version /\ Lasts
    BY <1>0, <1>1, <1>2, <1>4, GrowsWhenSame DEF Lasts
  <1>6. PICK pc \in {"checkpoint"} : Goto(c, pc)
    BY <1>1
  <1> QED
    BY <1>1, <1>5, <1>6, GotoEffect

LEMMA RecognisedShown ==
  ASSUME Types, NEW o \in Ops, NEW ev, AlreadyApplied(cmd[o], ev, members[cmd[o].target])
  PROVE  Shown(cmd[o], ev)
  BY CommandTyped DEF AlreadyApplied, Shown, Last

LEMMA LoadMembershipEffect ==
  ASSUME EInv, IInv', NEW c \in Callers, LoadMembership(c)
  PROVE  EInv'
  <1>0. Types /\ call[c].op \in Ops /\ call[c].pc = "effect" /\ Goal(c) = "membership_applied"
    BY DEF EInv, IInv, Held, LoadMembership, At
  <1>1. UNCHANGED <<cmd, members, stage, evidence, audit, signedOut>>
    BY DEF LoadMembership
  <1>2. PICK pc \in {"write", "checkpoint"} :
          /\ Goto(c, pc)
          /\ pc = "checkpoint" =>
               AlreadyApplied(cmd[call[c].op], call[c].evidence, members[Target(c)])
    BY DEF LoadMembership, Recognised
  <1>3. pc = "checkpoint" => Shown(cmd[call[c].op], call[c].evidence)
    BY <1>0, <1>2, RecognisedShown DEF Target
  <1>4. call'[c].op = call[c].op /\ call'[c].evidence = call[c].evidence
    BY <1>0, <1>2, GotoOnly
  <1>5. pc = "checkpoint" => Shown(cmd[call[c].op], call[c].evidence)'
    BY <1>1, <1>3, <1>4 DEF Shown
  <1> QED
    BY <1>0, <1>1, <1>2, <1>5, LastsWhenSame, GotoEffect

LEMMA WriteShows ==
  ASSUME IInv, NEW c \in Callers, WriteMembership(c)
  PROVE  Grows /\ Shown(cmd[call[c].op], call[c].evidence)'
  <1> DEFINE o == call[c].op
             x == cmd[o]
             t == x.target
             ev == call[c].evidence
             row == members[t]
             new == [state |-> ev.to, role |-> ev.role, by |-> o]
  <1>0. /\ Types /\ o \in Ops /\ ev \in Evidence /\ Grounded(x, ev) /\ x \in Commands
    BY SMTT(30) DEF IInv, Types, WriteMembership, Held, Call
  <1>1. x.kind \in Kinds /\ t \in Members /\ x.version \in Nat /\ row \in Seq(Version)
    BY ZenonT(30), <1>0, CommandTyped
  <1>2. /\ cmd' = cmd /\ call'[c].op = o /\ call'[c].evidence = ev
    BY ZenonT(40), <1>0, GotoOnly DEF WriteMembership
  <1>3. CASE UNCHANGED members /\ AlreadyApplied(x, ev, row)
    <2>1. Shown(x, ev)
      BY <1>0, <1>3, RecognisedShown
    <2> QED
      BY <1>0, <1>2, <1>3, <2>1, GrowsWhenSame DEF Shown
  <1>4. CASE /\ MembershipCondition(x, ev, row)
             /\ members' = [members EXCEPT ![t] = Append(row, new)]
    <2>0. new \in Version /\ new.state = ev.to /\ new.role = ev.role
      BY ZenonT(30), <1>0 DEF Grounded, Based, Evidence, Version
    <2>1. Len(row) = x.version
      BY ZenonT(30), <1>0, <1>1, <1>4, LifecycleAssumption
      DEF MembershipCondition, RefreshCondition, TransitionCondition
    <2>2. members'[t] = Append(row, new) /\ \A m \in Members : m # t => members'[m] = members[m]
      BY <1>0, <1>1, <1>4 DEF Types
    <2>3. /\ members'[t] \in Seq(Version) /\ Last(members'[t]) = new /\ Len(row) \in Nat
          /\ Len(members'[t]) = Len(row) + 1
          /\ \A v \in 1..Len(row) : members'[t][v] = row[v]
      <3> HIDE DEF t, row, new
      <3> QED
        BY <1>1, <2>0, <2>2, Appended
    <2>4. Grows
      <3> HIDE DEF t, row, new
      <3>1. row = members[t]
        BY DEF row
      <3>2. \A m \in Members : members[m] \in Seq(Version) /\ Len(members[m]) \in Nat
        BY <1>0 DEF Types
      <3> SUFFICES ASSUME NEW m \in Members
                   PROVE  /\ members'[m] \in Seq(Version) /\ Len(members[m]) <= Len(members'[m])
                          /\ \A v \in 1..Len(members[m]) : members'[m][v] = members[m][v]
        BY DEF Grows
      <3>3. CASE m = t
        BY <2>3, <3>1, <3>3
      <3>4. CASE m # t
        BY SMTT(30), <2>2, <3>2, <3>4
      <3> QED
        BY <3>3, <3>4
    <2>5. Len(members'[t]) > x.version /\ members'[t][x.version + 1] = new
      BY SMTT(30), <1>1, <2>1, <2>3 DEF Last
    <2> QED
      BY <1>2, <2>0, <2>4, <2>5 DEF Shown
  <1> QED
    BY ZenonT(40), <1>3, <1>4 DEF WriteMembership, Target

LEMMA WriteEffect ==
  ASSUME EInv, IInv', NEW c \in Callers, WriteMembership(c)
  PROVE  EInv'
  <1>1. /\ call[c].pc = "write" /\ Goal(c) = "membership_applied"
        /\ UNCHANGED <<cmd, stage, evidence, audit, signedOut>>
    BY ZenonT(40) DEF EInv, HeldEffect, WriteMembership
  <1>2. Lasts /\ Shown(cmd[call[c].op], call[c].evidence)'
    BY ZenonT(30), <1>1, WriteShows DEF EInv, Lasts
  <1>3. PICK pc \in {"checkpoint"} : Goto(c, pc)
    BY DEF WriteMembership
  <1> QED
    BY ZenonT(30), <1>1, <1>2, <1>3, GotoEffect

LEMMA EndsEffect ==
  ASSUME EInv, IInv', NEW c \in Callers, call' = [call EXCEPT ![c] = Idle],
         UNCHANGED <<cmd, members, stage, evidence, audit, signedOut>>
  PROVE  EInv'
  <1>1. Only(c, Idle)
    BY IdleTyped, Update DEF EInv, IInv
  <1>2. HeldEffect(c)'
    BY <1>1 DEF Only, HeldEffect, Idle
  <1> QED
    BY <1>1, <1>2, LastsWhenSame, CallEffects DEF Only

LEMMA ReserveEffect ==
  ASSUME EInv, IInv', NEW c \in Callers, NEW o \in Ops, Reserve(c, o)
  PROVE  EInv'
  <1>0. /\ Types /\ stage[o] \in Stages \cup {"absent"} /\ cmd[o] \in Command
        /\ OnPath(cmd[o].kind, stage[o]) /\ Effect(cmd[o], o, evidence[o], stage[o])
    BY CommandTyped DEF EInv, IInv, Types, StoredEffect
  <1>1. PICK s, pc, ev :
          /\ s \in Stages /\ pc \in {"checkpoint", "effect"}
          /\ s = (IF stage[o] = "absent" THEN "reserved" ELSE stage[o])
          /\ ev = evidence[o] /\ stage'[o] = s
          /\ pc = "checkpoint" <=> s = "audit_committed"
          /\ call'[c].op = o /\ call'[c].stage = s /\ call'[c].evidence = ev /\ call'[c].pc = pc
    <2>1. (IF stage[o] = "absent" THEN "reserved" ELSE stage[o]) \in Stages
      BY <1>0 DEF Stages
    <2>2. stage'[o] = IF stage[o] = "absent" THEN "reserved" ELSE stage[o]
      BY <1>0 DEF Reserve, Types
    <2>3. call'[c] = [op |-> o,
                      pc |-> IF stage[o] = "audit_committed" THEN "checkpoint" ELSE "effect",
                      stage |-> stage'[o], evidence |-> evidence[o], won |-> FALSE]
      BY <1>0 DEF Reserve, Types
    <2> QED
      BY <2>1, <2>2, <2>3
  <1>2. /\ UNCHANGED <<cmd, members, evidence, audit, signedOut>>
        /\ \A d \in Callers : d # c => call'[d] = call[d]
        /\ \A p \in Ops : p # o => stage'[p] = stage[p]
    BY <1>0 DEF Reserve, Types
  <1>3. Effect(cmd[o], o, ev, s) /\ OnPath(cmd[o].kind, s)
    BY <1>0, <1>1 DEF Effect, OnPath, AfterMembership, AfterSessions
  <1>4. Lasts
    BY <1>2, LastsWhenSame
  <1>5. Effect(cmd[o], o, ev, s)'
    BY <1>0, <1>3, <1>4, EffectKept
  <1>6. HeldEffect(c)'
    <2>1. Kind(c)' = cmd[o].kind /\ Goal(c)' = NextStage(cmd[o].kind, s)
      BY <1>1, <1>2 DEF Kind, Goal
    <2>2. s = "audit_committed" => NextStage(cmd[o].kind, s) = "completed"
      BY DEF NextStage, InviteStage, ResendStage, TransitionStage
    <2> QED
      BY <1>1, <1>2, <1>3, <1>5, <2>1, <2>2
      DEF HeldEffect, Effect, Shown, AfterMembership, AfterSessions, OnPath
  <1>7. \A d \in Callers : HeldEffect(d)'
    BY <1>2, <1>4, <1>6, HeldEffectKept
  <1>8. StoredEffect'
    <2>1. \A p \in Ops \ {o} :
            (OnPath(cmd[p].kind, stage[p]) /\ Effect(cmd[p], p, evidence[p], stage[p]))'
      BY <1>2, <1>4, StoredEffectKept
    <2>2. (OnPath(cmd[o].kind, stage[o]) /\ Effect(cmd[o], o, evidence[o], stage[o]))'
      BY <1>1, <1>2, <1>3, <1>5
      DEF Effect, Shown, AfterMembership, AfterSessions, OnPath
    <2> QED
      BY <2>1, <2>2 DEF StoredEffect
  <1> QED
    BY <1>4, <1>7, <1>8 DEF EInv, Lasts

LEMMA CheckpointEffect ==
  ASSUME EInv, IInv', NEW c \in Callers, Checkpoint(c)
  PROVE  EInv'
  <1>0. /\ Types /\ HeldEffect(c) /\ call[c] \in Call /\ call[c].op \in Ops
        /\ call[c].stage \in Stages /\ call[c].pc = "checkpoint"
    BY DEF EInv, IInv, Types, Checkpoint, Held, Call
  <1>1. PICK o, s, ev, g :
          /\ o \in Ops /\ s \in Stages
          /\ o = call[c].op /\ ev = call[c].evidence /\ s = call[c].stage /\ g = Goal(c)
    BY <1>0
  <1>2. /\ UNCHANGED <<cmd, members, audit, signedOut>>
        /\ \/ /\ stage' = [stage EXCEPT ![o] = g]
              /\ evidence' = [evidence EXCEPT ![o] = ev]
           \/ UNCHANGED <<stage, evidence>>
        /\ \E won \in BOOLEAN :
             call' = [call EXCEPT ![c] =
               IF g = "completed" THEN Idle
               ELSE [call[c] EXCEPT !.stage = g, !.won = won,
                       !.pc = IF g = "audit_committed" THEN "checkpoint" ELSE "effect"]]
    BY <1>1 DEF Checkpoint
  <1>3. /\ \A d \in Callers : d # c => call'[d] = call[d]
        /\ \/ call'[c].pc = "idle"
           \/ /\ call'[c].op = o /\ call'[c].stage = g /\ call'[c].evidence = ev
              /\ call'[c].pc = IF g = "audit_committed" THEN "checkpoint" ELSE "effect"
    BY <1>0, <1>1, <1>2 DEF Types, Call, Idle
  <1>4. Lasts
    BY <1>2, LastsWhenSame
  <1>5. /\ Effect(cmd[o], o, ev, g) /\ OnPath(cmd[o].kind, g)
    <2>1. g = NextStage(cmd[o].kind, s) /\ OnPath(cmd[o].kind, s) /\ cmd[o] \in Command
      BY <1>0, <1>1, CommandTyped DEF HeldEffect, Goal, Kind
    <2>2. OnPath(cmd[o].kind, g)
      BY <1>1, <2>1, StageStep
    <2> QED
      BY <1>0, <1>1, <2>2 DEF HeldEffect
  <1>6. Effect(cmd[o], o, ev, g)'
    BY <1>0, <1>1, <1>4, <1>5, EffectKept
  <1>7. HeldEffect(c)'
    <2>1. CASE call'[c].pc = "idle"
      BY ZenonT(30), <2>1 DEF HeldEffect
    <2>2. CASE /\ call'[c].op = o /\ call'[c].stage = g /\ call'[c].evidence = ev
               /\ call'[c].pc = IF g = "audit_committed" THEN "checkpoint" ELSE "effect"
      <3>1. Kind(c)' = cmd[o].kind /\ Goal(c)' = NextStage(cmd[o].kind, g)
        BY <1>2, <2>2 DEF Kind, Goal
      <3>2. g = "audit_committed" => NextStage(cmd[o].kind, g) = "completed"
        BY DEF NextStage, InviteStage, ResendStage, TransitionStage
      <3> QED
        BY ZenonT(40), <1>2, <1>5, <1>6, <2>2, <3>1, <3>2
        DEF HeldEffect, Effect, Shown, AfterMembership, AfterSessions, OnPath
    <2> QED
      BY <1>3, <2>1, <2>2
  <1>8. \A d \in Callers : HeldEffect(d)'
    BY <1>3, <1>4, <1>7, HeldEffectKept
  <1>9. StoredEffect'
    <2>1. \A p \in Ops :
            \/ stage'[p] = stage[p] /\ evidence'[p] = evidence[p]
            \/ p = o /\ stage'[p] = g /\ evidence'[p] = ev
      BY <1>0, <1>2 DEF Types
    <2> SUFFICES ASSUME NEW p \in Ops
                 PROVE  (OnPath(cmd[p].kind, stage[p])
                           /\ Effect(cmd[p], p, evidence[p], stage[p]))'
      BY DEF StoredEffect
    <2>2. CASE stage'[p] = stage[p] /\ evidence'[p] = evidence[p]
      BY <1>4, <2>2, StoredEffectKept
    <2>3. CASE p = o /\ stage'[p] = g /\ evidence'[p] = ev
      BY <1>2, <1>5, <1>6, <2>3
      DEF Effect, Shown, AfterMembership, AfterSessions, OnPath
    <2> QED
      BY <2>1, <2>2, <2>3
  <1> QED
    BY <1>4, <1>8, <1>9 DEF EInv, Lasts

LEMMA InitEffect == Init => EInv
  <1> SUFFICES ASSUME Init PROVE EInv
    OBVIOUS
  <1>1. IInv
    BY InitInv
  <1>2. signedOut \in [Members -> Nat]
    BY DEF Init
  <1>3. StoredEffect /\ \A c \in Callers : HeldEffect(c)
    BY DEF Init, StoredEffect, HeldEffect, Idle, Effect, OnPath, AfterMembership, AfterSessions
  <1> QED
    BY <1>1, <1>2, <1>3 DEF EInv

LEMMA QuietEffect ==
  ASSUME EInv, IInv', UNCHANGED <<cmd, members, stage, evidence, audit, signedOut, call>>
  PROVE  EInv'
  <1>1. Lasts
    BY LastsWhenSame
  <1>2. \A d \in Callers : HeldEffect(d)'
    BY <1>1, HeldEffectKept
  <1>3. StoredEffect'
    BY <1>1, StoredEffectKept DEF StoredEffect
  <1> QED
    BY <1>1, <1>2, <1>3 DEF EInv, Lasts

LEMMA NextEffect ==
  ASSUME EInv, [Next]_vars
  PROVE  EInv'
  <1>0. IInv'
    BY NextInv DEF EInv
  <1>1. ASSUME NEW c \in Callers, Step(c)
        PROVE  EInv'
    <2>1. CASE Refuse(c)
      BY <1>0, <2>1, EndsEffect DEF Refuse
    <2> QED
      BY <1>0, <1>1, <2>1, ValidateEffect, ProviderSteps, LoadMembershipEffect, WriteEffect,
         SessionsEffect, AuditEffect, CheckpointEffect
      DEF Step
  <1>2. ASSUME NEW c \in Callers, Fail(c)
        PROVE  EInv'
    BY <1>0, <1>2, EndsEffect DEF Fail
  <1>3. ASSUME UNCHANGED vars \/ \E m \in Members : UserConfirms(m)
        PROVE  EInv'
    BY <1>0, <1>3, QuietEffect DEF vars, UserConfirms
  <1> QED
    BY <1>0, <1>1, <1>2, <1>3, ReserveEffect DEF Next

\* A completed operation has had its effect: the row shows the change it asked
\* for, the event is in the audit trail, and its sessions were revoked after
\* the row was written, by whichever of the calls with its key
\* (checkpoint_operation, _audit_and_complete).
THEOREM LifecycleCompleted == Spec => []CompletedTookEffect
  <1>1. ASSUME EInv PROVE CompletedTookEffect
    <2> SUFFICES ASSUME NEW o \in Ops, stage[o] = "completed"
                 PROVE  /\ Shown(cmd[o], evidence[o]) /\ o \in audit
                        /\ cmd[o].kind \in SessionsRevoked =>
                             signedOut[cmd[o].target] > cmd[o].version
      BY DEF CompletedTookEffect, Shown
    <2> QED
      BY <1>1 DEF EInv, StoredEffect, Effect, AfterMembership, AfterSessions
  <1> QED
    BY <1>1, InitEffect, NextEffect, PTL DEF Spec
-----------------------------------------------------------------------------
(* One RESEND.  A call may ask Cognito only if its own checkpoint moved    *)
(* the stage after its key won the reservation.  There is one such call,   *)
(* it has not asked yet, and no call is ahead of the stored stage, so that *)
(* none can win the same checkpoint again.                                 *)

Early == {"absent", "reserved", "approval_validated"}

HasReserved(o) == <<cmd[o].target, cmd[o].version, o>> \in effects

MaySend(c) ==
  call[c].pc = "effect" /\ call[c].won /\ call[c].stage = "provider_effect_reserved"

OneReservation ==
  \A e, f \in effects : e[1] = f[1] /\ e[2] = f[2] => e = f

Sends(o) ==
  /\ Len(resends[o]) <= 1
  /\ resends[o] # << >> => HasReserved(o)
  /\ stage[o] \in Early => resends[o] = << >>

HeldSend(c) ==
  call[c].pc # "idle" =>
    /\ call[c].stage \notin Early => stage[call[c].op] \notin Early
    /\ call[c].pc = "checkpoint" /\ Goal(c) = "provider_effect_reserved" =>
         HasReserved(call[c].op)
    /\ MaySend(c) => HasReserved(call[c].op) /\ resends[call[c].op] = << >>

OneSender ==
  \A c, d \in Callers :
    MaySend(c) /\ MaySend(d) /\ call[c].op = call[d].op => c = d

SInv ==
  /\ effects \subseteq Members \X Nat \X Ops /\ resends \in [Ops -> Seq(Nat)]
  /\ OneReservation /\ OneSender
  /\ \A o \in Ops : Sends(o)
  /\ \A c \in Callers : HeldSend(c)

\* The next stage is past the approval too; only an approved operation wins a
\* reservation, and only a reservation leads an invitation to be sent again.
LEMMA GoalPasses ==
  ASSUME NEW kind \in Kinds, NEW s \in Stages
  PROVE  /\ s \notin Early => NextStage(kind, s) \notin Early
         /\ NextStage(kind, s) = "provider_effect_reserved" => s = "approval_validated"
         /\ kind = "resend_invitation" /\ NextStage(kind, s) = "provider_applied" =>
              s = "provider_effect_reserved"
  BY DEF NextStage, InviteStage, ResendStage, TransitionStage, Stages, Kinds, Early

\* A call that does not move keeps its claim to the reservation.
LEMMA HeldSendKept ==
  ASSUME EInv, NEW d \in Callers, HeldSend(d), call'[d] = call[d],
         cmd' = cmd, effects \subseteq effects',
         \A o \in Ops : stage[o] \notin Early => stage'[o] \notin Early,
         MaySend(d) => resends'[call[d].op] = resends[call[d].op]
  PROVE  HeldSend(d)'
  <1>1. call[d].pc # "idle" => call[d].op \in Ops
    BY DEF EInv, IInv, Held
  <1>2. Goal(d)' = Goal(d)
    BY DEF Goal, Kind
  <1> QED
    BY <1>1, <1>2 DEF HeldSend, MaySend, HasReserved

\* A step of one call that leaves it no sender, and the rows it sends by.
LEMMA SendsOn ==
  ASSUME EInv, SInv, NEW c \in Callers, UNCHANGED <<cmd, stage, effects, resends>>,
         \A d \in Callers : d # c => call'[d] = call[d],
         \/ call'[c].pc = "idle"
         \/ /\ call[c].pc # "idle" /\ call'[c].pc # "effect"
            /\ call'[c].op = call[c].op /\ call'[c].stage = call[c].stage
            /\ call'[c].pc = "checkpoint" => Goal(c) # "provider_effect_reserved"
  PROVE  SInv'
  <1>1. ~MaySend(c)'
    BY DEF MaySend
  <1>2. HeldSend(c)'
    <2>1. CASE call'[c].pc = "idle"
      BY <2>1 DEF HeldSend
    <2>2. CASE call'[c].pc # "idle"
      <3>1. Goal(c)' = Goal(c) /\ HeldSend(c)
        BY <2>2 DEF Goal, Kind, SInv
      <3> QED
        BY <1>1, <2>2, <3>1 DEF HeldSend
    <2> QED
      BY <2>1, <2>2
  <1>3. \A d \in Callers : d # c => HeldSend(d)'
    BY HeldSendKept DEF SInv
  <1>4. OneSender'
    BY <1>1 DEF SInv, OneSender, MaySend
  <1>5. OneReservation' /\ \A o \in Ops : Sends(o)'
    BY DEF SInv, OneReservation, Sends, HasReserved
  <1> QED
    BY <1>2, <1>3, <1>4, <1>5 DEF SInv

LEMMA EndsSends ==
  ASSUME EInv, SInv, NEW c \in Callers, call' = [call EXCEPT ![c] = Idle],
         UNCHANGED <<cmd, stage, effects, resends>>
  PROVE  SInv'
  <1>1. /\ call'[c].pc = "idle"
        /\ \A d \in Callers : d # c => call'[d] = call[d]
    BY DEF EInv, IInv, Types, Idle
  <1> QED
    BY <1>1, SendsOn

\* The steps that neither reserve nor send.
LEMMA OtherSends ==
  ASSUME EInv, SInv, NEW c \in Callers,
         \/ Validate(c) \/ LoadReplacement(c) \/ ReadBack(c) \/ LoadMembership(c)
         \/ WriteMembership(c) \/ RevokeSessions(c) \/ EmitAudit(c)
  PROVE  SInv'
  <1>0. Types /\ HeldEffect(c) /\ call[c] \in Call
    BY ZenonT(30) DEF EInv, IInv, Types
  <1>1. call[c].pc # "idle" /\ UNCHANGED <<cmd, stage, effects, resends>>
    BY ZenonT(40) DEF Validate, LoadReplacement, ReadBack, LoadMembership, WriteMembership,
           RevokeSessions, EmitAudit, At
  <1>2. /\ call'[c].pc # "effect"
        /\ call'[c].op = call[c].op /\ call'[c].stage = call[c].stage
        /\ \A d \in Callers : d # c => call'[d] = call[d]
    <2>1. CASE Validate(c)
      <3> DEFINE x == cmd[call[c].op]
                 row == members[Target(c)]
                 ev == EvidenceFor(x, row)
                 pc == IF x.kind # "invite" /\ RemovesAdmin(Last(row), ev)
                       THEN "replacement" ELSE "checkpoint"
      <3>1. call' = [call EXCEPT ![c].evidence = ev, ![c].pc = pc]
        BY ZenonT(30), <2>1 DEF Validate
      <3>2. pc # "effect"
        OBVIOUS
      <3> HIDE DEF ev, pc
      <3> QED
        BY <1>0, <3>1, <3>2 DEF Types, Call
    <2>3. CASE LoadReplacement(c)
      <3> DEFINE r == cmd[call[c].op].replacement
                 n == Len(members[r])
      <3>1. call' = [call EXCEPT ![c].evidence.replacement = r,
                                 ![c].evidence.replacementVersion = n,
                                 ![c].pc = "checkpoint"]
        BY ZenonT(30), <2>3 DEF LoadReplacement
      <3> HIDE DEF r, n
      <3> QED
        BY <1>0, <3>1 DEF Types, Call
    <2>2. CASE ~(Validate(c) \/ LoadReplacement(c))
      <3>1. PICK pc \in {"write", "checkpoint"} : Goto(c, pc)
        BY ZenonT(40), <2>2 DEF ReadBack, LoadMembership, WriteMembership, RevokeSessions, EmitAudit
      <3> QED
        BY ZenonT(40), <1>0, <3>1, GotoOnly DEF Only
    <2> QED
      BY ZenonT(30), <2>1, <2>2, <2>3
  <1>3. Goal(c) # "provider_effect_reserved"
    <2>1. CASE LoadReplacement(c)
      <3>1. /\ call[c].stage = "reserved" /\ Kind(c) \in Kinds
        BY <1>0, <1>1, <2>1, CommandTyped
        DEF LoadReplacement, HeldEffect, EInv, IInv, Held, Kind
      <3> QED
        BY ZenonT(30), <3>1, FirstGoal DEF Goal
    <2>2. CASE ReadBack(c)
      BY ZenonT(30), <1>0, <1>1, <2>2 DEF ReadBack, HeldEffect
    <2>3. CASE WriteMembership(c)
      BY ZenonT(40), <1>0, <1>1, <2>3 DEF WriteMembership, HeldEffect
    <2>4. CASE Validate(c) \/ LoadMembership(c) \/ RevokeSessions(c) \/ EmitAudit(c)
      BY <2>4 DEF Validate, LoadMembership, RevokeSessions, EmitAudit, At
    <2> QED
      BY <2>1, <2>2, <2>3, <2>4
  <1> QED
    BY <1>1, <1>2, <1>3, SendsOn

\* The reservation of a member and a version that has none.
LEMMA ReserveSends ==
  ASSUME EInv, SInv, NEW c \in Callers, ReserveProviderEffect(c)
  PROVE  SInv'
  <1> DEFINE o == call[c].op
             mine == <<cmd[o].target, cmd[o].version, o>>
  <1>0. /\ Types /\ call[c] \in Call /\ o \in Ops /\ call[c].pc = "effect"
        /\ UNCHANGED <<cmd, stage, resends>> /\ Goto(c, "checkpoint")
        /\ effects' = effects \cup {mine}
        /\ \A e \in effects : <<e[1], e[2]>> # <<cmd[o].target, cmd[o].version>>
    BY DEF EInv, IInv, Types, Held, ReserveProviderEffect, At, Target, EffectKey
  <1>1. /\ call'[c].pc = "checkpoint" /\ call'[c].op = o /\ call'[c].stage = call[c].stage
        /\ \A d \in Callers : d # c => call'[d] = call[d]
    BY <1>0, GotoOnly DEF Only
  <1>2. mine \in Members \X Nat \X Ops
    BY <1>0, CommandTyped
  <1>3. OneReservation'
    <2>1. OneReservation
      BY DEF SInv
    <2> QED
      BY <1>0, <2>1 DEF OneReservation
  <1>4. ~MaySend(c)'
    BY <1>1 DEF MaySend
  <1>5. HeldSend(c)'
    BY <1>0, <1>1, <1>4 DEF SInv, HeldSend, HasReserved
  <1>6. \A d \in Callers : d # c => HeldSend(d)'
    BY <1>0, <1>1, HeldSendKept DEF SInv
  <1>7. OneSender'
    BY <1>1, <1>4 DEF SInv, OneSender, MaySend
  <1>8. \A p \in Ops : Sends(p)'
    BY <1>0 DEF SInv, Sends, HasReserved
  <1> QED
    BY <1>0, <1>2, <1>3, <1>5, <1>6, <1>7, <1>8 DEF SInv

\* The request itself: the one sender stops being one.
LEMMA ProviderSends ==
  ASSUME EInv, SInv, NEW c \in Callers, ProviderEffect(c)
  PROVE  SInv'
  <1> DEFINE o == call[c].op
  <1>0. /\ Types /\ call[c] \in Call /\ o \in Ops /\ call[c].pc = "effect"
        /\ call[c].stage \in Stages /\ Goal(c) = "provider_applied"
        /\ UNCHANGED <<cmd, stage, effects>> /\ Goto(c, "readback")
    BY DEF EInv, IInv, Types, Held, ProviderEffect, At, Call
  <1>1. /\ call'[c].pc = "readback" /\ call'[c].op = o /\ call'[c].stage = call[c].stage
        /\ \A d \in Callers : d # c => call'[d] = call[d]
    BY <1>0, GotoOnly DEF Only
  <1>2. CASE Kind(c) # "resend_invitation"
    <2>1. resends' = resends
      BY <1>2 DEF ProviderEffect
    <2> QED
      BY <1>0, <1>1, <2>1, SendsOn
  <1>3. CASE Kind(c) = "resend_invitation"
    <2>1. call[c].won /\ \E n \in 1..MaxSends : resends' = [resends EXCEPT ![o] = Append(@, n)]
      BY <1>3 DEF ProviderEffect
    <2>2. call[c].stage = "provider_effect_reserved"
      BY <1>0, <1>3, CommandTyped, GoalPasses DEF Goal, Kind
    <2>3. MaySend(c) /\ HasReserved(o) /\ resends[o] = << >> /\ stage[o] \notin Early
      BY <1>0, <2>1, <2>2 DEF MaySend, SInv, HeldSend, Early
    <2>4. /\ resends' \in [Ops -> Seq(Nat)] /\ Len(resends'[o]) = 1
          /\ \A p \in Ops : p # o => resends'[p] = resends[p]
      <3>1. PICK n \in 1..MaxSends : resends' = [resends EXCEPT ![o] = Append(@, n)]
        BY <2>1
      <3>2. Append(<< >>, n) \in Seq(Nat) /\ Len(Append(<< >>, n)) = 1
        BY LifecycleAssumption
      <3>3. resends \in [Ops -> Seq(Nat)] /\ resends[o] = << >> /\ o \in Ops
        BY <1>0, <2>3 DEF SInv
      <3>4. \A p \in Ops : resends'[p] = IF p = o THEN Append(<< >>, n) ELSE resends[p]
        BY <3>1, <3>3
      <3> QED
        BY <3>1, <3>2, <3>3, <3>4
    <2>5. ~MaySend(c)' /\ HeldSend(c)'
      <3>1. HeldSend(c) /\ Goal(c)' = Goal(c)
        BY <1>0, <1>1 DEF SInv, Goal, Kind
      <3> QED
        BY <1>0, <1>1, <3>1 DEF MaySend, HeldSend
    <2>6. ASSUME NEW d \in Callers, d # c PROVE HeldSend(d)'
      <3>1. MaySend(d) => call[d].op \in Ops /\ call[d].op # o
        BY <2>3, <2>6 DEF SInv, OneSender, MaySend, EInv, IInv, Held
      <3> QED
        BY <1>0, <1>1, <2>4, <2>6, <3>1, HeldSendKept DEF SInv
    <2>7. OneSender'
      BY <1>1, <2>5 DEF SInv, OneSender, MaySend
    <2>8. ASSUME NEW p \in Ops PROVE Sends(p)'
      <3>1. Sends(p) /\ stage[o] \notin Early
        BY <2>3 DEF SInv
      <3>2. HasReserved(p)' = HasReserved(p)
        BY <1>0 DEF HasReserved
      <3>3. stage' = stage /\ (p # o => resends'[p] = resends[p])
        BY <1>0, <2>4
      <3>4. CASE p = o
        <4>1. Len(resends'[p]) = 1
          BY <2>4, <3>4
        <4>2. stage'[p] \notin Early
          BY <2>3, <3>3, <3>4
        <4>3. HasReserved(p)
          BY <2>3, <3>4 DEF HasReserved
        <4> QED
          BY <3>2, <4>1, <4>2, <4>3 DEF Sends
      <3>5. CASE p # o
        BY <3>1, <3>2, <3>3, <3>5 DEF Sends
      <3> QED
        BY <3>4, <3>5
    <2>9. OneReservation'
      BY <1>0 DEF SInv, OneReservation
    <2> QED
      BY <1>0, <2>4, <2>5, <2>6, <2>7, <2>8, <2>9 DEF SInv
  <1> QED
    BY <1>2, <1>3

\* A call that takes up a row sends nothing by it: only its own checkpoint
\* will make it a sender.
LEMMA TakeUpSends ==
  ASSUME EInv, SInv, NEW c \in Callers, NEW o \in Ops, Reserve(c, o)
  PROVE  SInv'
  <1>0. /\ Types /\ UNCHANGED <<cmd, effects, resends>> /\ cmd[o].kind \in Kinds
        /\ stage[o] \in Stages \cup {"absent"}
    BY CommandTyped DEF EInv, IInv, Types, Reserve
  <1>1. /\ \A d \in Callers : d # c => call'[d] = call[d]
        /\ call'[c].op = o /\ call'[c].stage = stage'[o] /\ ~call'[c].won
        /\ call'[c].pc = IF stage[o] = "audit_committed" THEN "checkpoint" ELSE "effect"
    BY <1>0 DEF Reserve, Types
  <1>2. /\ stage'[o] = IF stage[o] = "absent" THEN "reserved" ELSE stage[o]
        /\ \A p \in Ops : p # o => stage'[p] = stage[p]
    BY <1>0 DEF Reserve, Types
  <1>3. \A p \in Ops : stage[p] \notin Early <=> stage'[p] \notin Early
    BY <1>2 DEF Early
  <1>4. ~MaySend(c)'
    BY <1>1 DEF MaySend
  <1>5. HeldSend(c)'
    <2>1. call'[c].pc = "checkpoint" => Goal(c)' # "provider_effect_reserved"
      <3>1. call'[c].pc = "checkpoint" => stage'[o] = "audit_committed"
        BY <1>1, <1>2
      <3>2. Goal(c)' = NextStage(cmd[o].kind, stage'[o])
        BY <1>0, <1>1 DEF Goal, Kind
      <3>3. NextStage(cmd[o].kind, "audit_committed") # "provider_effect_reserved"
        BY <1>0, GoalPasses DEF Stages
      <3> QED
        BY <3>1, <3>2, <3>3
    <2> QED
      BY <1>1, <1>4, <2>1 DEF HeldSend
  <1>6. \A d \in Callers : d # c => HeldSend(d)'
    BY <1>0, <1>1, <1>3, HeldSendKept DEF SInv
  <1>7. OneSender'
    BY <1>1, <1>4 DEF SInv, OneSender, MaySend
  <1>8. \A p \in Ops : Sends(p)'
    BY <1>0, <1>3 DEF SInv, Sends, HasReserved
  <1> QED
    BY <1>0, <1>5, <1>6, <1>7, <1>8 DEF SInv, OneReservation

\* The compare-and-swap: the stage leaves the approval once, so one call is
\* told that it won.
LEMMA CheckpointSends ==
  ASSUME EInv, SInv, NEW c \in Callers, Checkpoint(c)
  PROVE  SInv'
  <1>0. /\ Types /\ call[c] \in Call /\ call[c].op \in Ops /\ call[c].stage \in Stages
        /\ call[c].pc = "checkpoint" /\ HeldSend(c)
        /\ UNCHANGED <<cmd, effects, resends>>
    BY DEF EInv, IInv, Types, Checkpoint, Held, Call, SInv
  <1>1. PICK o, s, g : /\ o \in Ops /\ s \in Stages
                       /\ o = call[c].op /\ s = call[c].stage /\ g = Goal(c)
                       /\ g = NextStage(cmd[o].kind, s)
    BY ZenonT(30), <1>0 DEF Goal, Kind
  <1>2. PICK won \in BOOLEAN :
          /\ \/ /\ stage[o] = s
                /\ stage' = [stage EXCEPT ![o] = g]
             \/ /\ ~won /\ stage[o] = g
                /\ UNCHANGED stage
          /\ call' = [call EXCEPT ![c] =
               IF g = "completed" THEN Idle
               ELSE [call[c] EXCEPT !.stage = g, !.won = won,
                       !.pc = IF g = "audit_committed" THEN "checkpoint" ELSE "effect"]]
    BY <1>1 DEF Checkpoint
  <1>3. /\ \A d \in Callers : d # c => call'[d] = call[d]
        /\ \/ call'[c].pc = "idle"
           \/ /\ call'[c].op = o /\ call'[c].stage = g /\ call'[c].won = won
              /\ call'[c].pc = IF g = "audit_committed" THEN "checkpoint" ELSE "effect"
    BY <1>0, <1>1, <1>2 DEF Types, Call, Idle
  <1>4. /\ s \notin Early => g \notin Early
        /\ g = "provider_effect_reserved" => s = "approval_validated"
        /\ \A k \in Kinds : NextStage(k, "audit_committed") # "provider_effect_reserved"
        /\ cmd[o].kind \in Kinds
    BY <1>0, <1>1, CommandTyped, GoalPasses DEF Stages
  <1>5. stage'[o] = g /\ \A p \in Ops : p # o => stage'[p] = stage[p]
    BY <1>0, <1>1, <1>2 DEF Types
  <1>6. \A p \in Ops : stage[p] \notin Early => stage'[p] \notin Early
    BY <1>2, <1>4, <1>5
  <1>7. MaySend(c)' =>
          /\ HasReserved(o) /\ resends[o] = << >>
          /\ \A d \in Callers : MaySend(d) => call[d].op # o
    <2> SUFFICES ASSUME MaySend(c)'
                 PROVE  /\ HasReserved(o) /\ resends[o] = << >>
                        /\ \A d \in Callers : MaySend(d) => call[d].op # o
      OBVIOUS
    <2>1. g = "provider_effect_reserved" /\ won
      BY <1>3 DEF MaySend
    <2>2. stage[o] = "approval_validated" /\ stage[o] \in Early
      BY <1>2, <1>4, <2>1 DEF Early
    <2>3. HasReserved(o) /\ resends[o] = << >>
      BY <1>0, <1>1, <2>1, <2>2 DEF HeldSend, SInv, Sends
    <2>4. \A d \in Callers : MaySend(d) => call[d].op # o
      BY <2>2 DEF SInv, HeldSend, MaySend, Early
    <2> QED
      BY <2>3, <2>4
  <1>8. HeldSend(c)'
    <2>1. CASE call'[c].pc = "idle"
      BY <2>1 DEF HeldSend
    <2>2. CASE /\ call'[c].op = o /\ call'[c].stage = g
               /\ call'[c].pc = IF g = "audit_committed" THEN "checkpoint" ELSE "effect"
      <3>1. Goal(c)' = NextStage(cmd[o].kind, g)
        BY <1>0, <2>2 DEF Goal, Kind
      <3>2. call'[c].pc = "checkpoint" => Goal(c)' # "provider_effect_reserved"
        BY <1>4, <2>2, <3>1
      <3>3. MaySend(c)' => (HasReserved(o) /\ resends[o] = << >>)'
        BY <1>0, <1>7 DEF HasReserved
      <3> QED
        BY <1>5, <2>2, <3>2, <3>3 DEF HeldSend, HasReserved
    <2> QED
      BY <1>3, <2>1, <2>2
  <1>9. \A d \in Callers : d # c => HeldSend(d)'
    BY <1>0, <1>3, <1>6, HeldSendKept DEF SInv
  <1>10. OneSender'
    <2>1. MaySend(c)' => call'[c].op = o
      BY <1>3 DEF MaySend
    <2> QED
      BY <1>3, <1>7, <2>1 DEF SInv, OneSender, MaySend
  <1>11. \A p \in Ops : Sends(p)'
    BY <1>0, <1>6 DEF SInv, Sends, HasReserved
  <1> QED
    BY <1>0, <1>8, <1>9, <1>10, <1>11 DEF SInv, OneReservation

LEMMA InitSends == Init => SInv
  BY DEF Init, SInv, OneReservation, OneSender, Sends, HeldSend, MaySend, Idle

LEMMA NextSends ==
  ASSUME EInv, SInv, [Next]_vars
  PROVE  SInv'
  <1>1. ASSUME NEW c \in Callers, Step(c) \/ Fail(c)
        PROVE  SInv'
    <2>1. CASE Refuse(c)
      BY <2>1, EndsSends DEF Refuse
    <2>2. CASE Fail(c)
      BY <2>2, EndsSends DEF Fail
    <2> QED
      BY <1>1, <2>1, <2>2, OtherSends, ReserveSends, ProviderSends, CheckpointSends
      DEF Step
  <1>2. ASSUME UNCHANGED vars \/ \E m \in Members : UserConfirms(m)
        PROVE  SInv'
    <2>1. UNCHANGED <<cmd, stage, effects, resends, call>>
      BY <1>2 DEF vars, UserConfirms
    <2>2. \A d \in Callers : HeldSend(d)'
      BY <2>1, HeldSendKept DEF SInv
    <2> QED
      BY <2>1, <2>2 DEF SInv, OneReservation, OneSender, MaySend, Sends, HasReserved
  <1> QED
    BY <1>1, <1>2, TakeUpSends DEF Next

\* For any number of keys and calls, the provider is asked at most once to send
\* the invitation of one member at one version again (reserve_provider_effect
\* and the winner of checkpoint_operation), however often the SDK sends it.
THEOREM LifecycleResendOnce == Spec => []ResendOnce
  <1>1. ASSUME EInv, SInv PROVE ResendOnce
    <2> SUFFICES ASSUME NEW o \in Ops
                 PROVE  /\ Len(resends[o]) <= 1
                        /\ resends[o] # << >> => \A p \in Ops \ {o} :
                             cmd[p].target = cmd[o].target /\ cmd[p].version = cmd[o].version
                               => resends[p] = << >>
      BY DEF ResendOnce
    <2>1. Sends(o)
      BY <1>1 DEF SInv
    <2>2. ASSUME NEW p \in Ops \ {o}, resends[o] # << >>,
                 cmd[p].target = cmd[o].target, cmd[p].version = cmd[o].version
          PROVE  resends[p] = << >>
      <3>1. Sends(p)
        BY <1>1 DEF SInv
      <3>2. ~(HasReserved(o) /\ HasReserved(p))
        BY <1>1, <2>2 DEF SInv, OneReservation, HasReserved
      <3> QED
        BY <2>1, <2>2, <3>1, <3>2 DEF Sends
    <2> QED
      BY <2>1, <2>2 DEF Sends
  <1> QED
    BY <1>1, InitEffect, NextEffect, InitSends, NextSends, PTL DEF Spec

-----------------------------------------------------------------------------
(* The provider is asked first to give access and last to take it.  The    *)
(* stage of an activation tells that the user was seen confirmed, and      *)
(* evidence leads to the state its command asks for.                       *)

\* The stages from the provider's receipt on.
AfterProvider ==
  {"provider_applied", "membership_applied", "sessions_revoked", "audit_committed",
   "completed"}

Fits(x, ev) == x.kind # "invite" => ev.to = DesiredState(x.kind, ev.from)

SeenConfirmed(x, s) ==
  x.kind \in ProviderFirst /\ s \in AfterProvider => provider[x.target].confirmed

StoredReceipt ==
  \A o \in Ops :
    /\ stage[o] \notin {"absent", "reserved"} => Fits(cmd[o], evidence[o])
    /\ SeenConfirmed(cmd[o], stage[o])

HeldReceipt(c) ==
  call[c].pc # "idle" =>
    /\ call[c].pc \in {"replacement", "checkpoint"} \/ call[c].stage # "reserved" =>
         Fits(cmd[call[c].op], call[c].evidence)
    /\ SeenConfirmed(cmd[call[c].op], call[c].stage)
    /\ call[c].pc = "checkpoint" => SeenConfirmed(cmd[call[c].op], Goal(c))

PInv ==
  /\ provider \in [Members -> ProviderUser]
  /\ \A m \in Members : provider[m].confirmed => provider[m].exists
  /\ RestrictedFirst /\ StoredReceipt
  /\ \A c \in Callers : HeldReceipt(c)

LEMMA ReceiptGoal ==
  ASSUME NEW x \in Command, NEW s \in Stages, OnPath(x.kind, s), x.kind \in ProviderFirst,
         NextStage(x.kind, s) \in AfterProvider
  PROVE  NextStage(x.kind, s) = "provider_applied" \/ s \in AfterProvider
  BY DEF NextStage, TransitionStage, OnPath, Stages, ProviderFirst, ProviderLast,
         AfterProvider

\* A confirmed user stays confirmed: none that exists is created again.
Confirmed ==
  \A m \in Members : provider[m].confirmed => provider'[m].confirmed

\* A call that does not move keeps what it knows.
LEMMA HeldReceiptKept ==
  ASSUME EInv, NEW d \in Callers, HeldReceipt(d), call'[d] = call[d], cmd' = cmd, Confirmed
  PROVE  HeldReceipt(d)'
  <1>1. CASE call[d].pc = "idle"
    BY <1>1 DEF HeldReceipt
  <1>2. CASE call[d].pc # "idle"
    <2>1. call[d].op \in Ops
      BY <1>2 DEF EInv, IInv, Held
    <2>2. cmd[call[d].op].target \in Members
      BY <2>1, CommandTyped DEF EInv, IInv
    <2>3. Goal(d)' = Goal(d)
      BY DEF Goal, Kind
    <2> QED
      BY <1>2, <2>2, <2>3 DEF HeldReceipt, SeenConfirmed, Fits, Confirmed
  <1> QED
    BY <1>1, <1>2

\* So do the rows of the operations.
LEMMA StoredReceiptKept ==
  ASSUME EInv, StoredReceipt, Confirmed, UNCHANGED <<cmd, stage, evidence>>
  PROVE  StoredReceipt'
  <1>1. \A o \in Ops : cmd[o].target \in Members
    BY CommandTyped DEF EInv, IInv
  <1> QED
    BY <1>1 DEF StoredReceipt, SeenConfirmed, Fits, Confirmed

\* A step of one call that leaves the users and the memberships.
LEMMA ReceiptsOn ==
  ASSUME EInv, PInv, NEW c \in Callers, HeldReceipt(c)',
         \A d \in Callers : d # c => call'[d] = call[d],
         UNCHANGED <<cmd, members, provider, stage, evidence>>
  PROVE  PInv'
  <1>1. Confirmed
    BY DEF Confirmed
  <1>2. \A d \in Callers : d # c => HeldReceipt(d)'
    BY <1>1, HeldReceiptKept DEF PInv
  <1>3. StoredReceipt'
    BY <1>1, StoredReceiptKept DEF PInv
  <1> QED
    BY <1>2, <1>3 DEF PInv, RestrictedFirst

LEMMA EndsReceipt ==
  ASSUME EInv, PInv, NEW c \in Callers, call' = [call EXCEPT ![c] = Idle],
         UNCHANGED <<cmd, members, provider, stage, evidence>>
  PROVE  PInv'
  <1>1. call'[c].pc = "idle" /\ \A d \in Callers : d # c => call'[d] = call[d]
    BY DEF EInv, IInv, Types, Idle
  <1>2. HeldReceipt(c)'
    BY <1>1 DEF HeldReceipt
  <1> QED
    BY <1>1, <1>2, ReceiptsOn

\* The checks: the evidence is taken, and no receipt is claimed yet.
LEMMA ValidateReceipt ==
  ASSUME EInv, PInv, NEW c \in Callers, Validate(c) \/ LoadReplacement(c)
  PROVE  PInv'
  <1> DEFINE o == call[c].op
  <1>0. /\ Types /\ HeldEffect(c) /\ HeldReceipt(c) /\ call[c] \in Call /\ o \in Ops
        /\ call[c].pc # "idle" /\ call[c].stage \in Stages /\ cmd[o].kind \in Kinds
        /\ UNCHANGED <<cmd, members, provider, stage, evidence>>
    BY ZenonT(30), CommandTyped
    DEF EInv, IInv, Types, Held, PInv, Validate, LoadReplacement, At, Call
  <1>1. call[c].stage = "reserved"
    <2>1. CASE Validate(c)
      BY SMTT(30), <1>0, <2>1, GoalPasses DEF Validate, At, Goal, Kind, Early, NextStage, InviteStage,
         ResendStage, TransitionStage, Stages
    <2>2. CASE LoadReplacement(c)
      BY <1>0, <2>2 DEF HeldEffect, LoadReplacement
    <2> QED
      BY SMTT(30), <2>1, <2>2
  <1>2. /\ call'[c].op = o /\ call'[c].stage = "reserved"
        /\ \A d \in Callers : d # c => call'[d] = call[d]
    BY <1>0, <1>1 DEF Types, Call, Validate, LoadReplacement
  <1>3. Fits(cmd[o], call'[c].evidence)
    <2>1. CASE Validate(c)
      <3>1. call'[c].evidence = EvidenceFor(cmd[o], members[cmd[o].target])
        BY <1>0, <2>1 DEF Types, Call, Validate, Target
      <3> QED
        BY <3>1 DEF Fits, EvidenceFor, NoEvidence
    <2>2. CASE LoadReplacement(c)
      <3>1. /\ call'[c].evidence.from = call[c].evidence.from
            /\ call'[c].evidence.to = call[c].evidence.to
        BY ZenonT(30), <1>0, <2>2 DEF Types, Call, Evidence, LoadReplacement
      <3>2. Fits(cmd[o], call[c].evidence)
        BY <1>0, <2>2 DEF HeldReceipt, LoadReplacement
      <3> QED
        BY ZenonT(30), <3>1, <3>2 DEF Fits
    <2> QED
      BY <2>1, <2>2
  <1>4. Goal(c)' = "approval_validated"
    BY <1>0, <1>2, FirstGoal DEF Goal, Kind
  <1>5. HeldReceipt(c)'
    BY <1>0, <1>2, <1>3, <1>4 DEF HeldReceipt, SeenConfirmed, AfterProvider, Fits
  <1> QED
    BY ZenonT(30), <1>0, <1>2, <1>5, ReceiptsOn

\* A call that goes on with what it holds.
LEMMA GotoReceipt ==
  ASSUME EInv, PInv, Confirmed, NEW c \in Callers, call[c].pc # "idle",
         call[c].stage # "reserved", cmd' = cmd,
         NEW pc \in {"readback", "write", "checkpoint"}, Goto(c, pc),
         pc = "checkpoint" /\ Goal(c) = "provider_applied" =>
           SeenConfirmed(cmd[call[c].op], "provider_applied")
  PROVE  HeldReceipt(c)' /\ \A d \in Callers : d # c => call'[d] = call[d]
  <1>0. /\ Types /\ HeldEffect(c) /\ HeldReceipt(c) /\ call[c] \in Call /\ call[c].op \in Ops
    BY DEF EInv, IInv, Types, Held, PInv
  <1>1. PICK o, s, ev, g :
          /\ o \in Ops /\ s \in Stages
          /\ o = call[c].op /\ ev = call[c].evidence /\ s = call[c].stage /\ g = Goal(c)
          /\ g = NextStage(cmd[o].kind, s)
    BY <1>0 DEF Goal, Kind, Call
  <1>2. /\ call'[c].pc = pc /\ call'[c].op = o /\ call'[c].stage = s /\ call'[c].evidence = ev
        /\ \A d \in Callers : d # c => call'[d] = call[d]
    BY <1>0, <1>1, GotoOnly DEF Only
  <1>3. Goal(c)' = g /\ cmd[o] \in Command /\ cmd[o].target \in Members
    BY <1>0, <1>1, <1>2, CommandTyped DEF Goal, Kind
  <1>4. SeenConfirmed(cmd[o], s) /\ Fits(cmd[o], ev) /\ OnPath(cmd[o].kind, s)
    BY <1>0, <1>1 DEF HeldReceipt, HeldEffect, Kind
  <1>5. pc = "checkpoint" => SeenConfirmed(cmd[o], g)
    BY <1>1, <1>3, <1>4, ReceiptGoal DEF SeenConfirmed
  <1>6. HeldReceipt(c)'
    BY <1>2, <1>3, <1>4, <1>5 DEF HeldReceipt, SeenConfirmed, Fits, Confirmed
  <1> QED
    BY <1>2, <1>6

\* The steps after the checks that change neither users nor memberships; an
\* activation is read back confirmed.
LEMMA OtherReceipts ==
  ASSUME EInv, PInv, NEW c \in Callers,
         \/ ReserveProviderEffect(c) \/ ReadBack(c) \/ LoadMembership(c)
         \/ RevokeSessions(c) \/ EmitAudit(c)
  PROVE  PInv'
  <1>0. /\ Types /\ Held(c) /\ call[c].pc # "idle" /\ call[c].op \in Ops
        /\ cmd[call[c].op].kind \in Kinds
        /\ UNCHANGED <<cmd, members, provider, stage, evidence>>
    BY CommandTyped DEF EInv, IInv, Held, ReserveProviderEffect, ReadBack, LoadMembership,
       RevokeSessions, EmitAudit, At
  <1>1. call[c].stage # "reserved"
    <2>1. CASE ReadBack(c)
      BY <1>0, <2>1 DEF Held, ReadBack
    <2>2. CASE ~ReadBack(c)
      <3>1. Goal(c) # "approval_validated"
        BY <2>2 DEF ReserveProviderEffect, LoadMembership, RevokeSessions, EmitAudit, At
      <3> QED
        BY <1>0, <3>1, PastReservation DEF EInv
    <2> QED
      BY <2>1, <2>2
  <1>2. PICK pc \in {"write", "checkpoint"} : Goto(c, pc)
    BY DEF ReserveProviderEffect, ReadBack, LoadMembership, RevokeSessions, EmitAudit
  <1>3. Goal(c) = "provider_applied" => SeenConfirmed(cmd[call[c].op], "provider_applied")
    <2>1. CASE ReadBack(c)
      BY <2>1 DEF ReadBack, SeenConfirmed, Target, Kind, ProviderState,
                  ExpectedProviderState, ProviderFirst
    <2>2. CASE ~ReadBack(c)
      BY <2>2 DEF ReserveProviderEffect, LoadMembership, RevokeSessions, EmitAudit, At
    <2> QED
      BY ZenonT(30), <2>1, <2>2
  <1>4. Confirmed
    BY <1>0 DEF Confirmed
  <1>5. HeldReceipt(c)' /\ \A d \in Callers : d # c => call'[d] = call[d]
    BY ZenonT(30), <1>0, <1>1, <1>2, <1>3, <1>4, GotoReceipt
  <1> QED
    BY <1>0, <1>5, ReceiptsOn

\* A user is created only where there was none, enabled, or disabled after
\* the row shows that the access was taken.
LEMMA ProviderReceipt ==
  ASSUME EInv, PInv, NEW c \in Callers, ProviderEffect(c)
  PROVE  PInv'
  <1> DEFINE o == call[c].op
             t == cmd[o].target
             u == provider[t]
             ev == call[c].evidence
  <1>0. /\ Types /\ HeldEffect(c) /\ HeldReceipt(c) /\ o \in Ops /\ call[c].pc = "effect"
        /\ call[c].stage \in Stages /\ Goal(c) = "provider_applied" /\ Goto(c, "readback")
        /\ cmd[o] \in Command /\ cmd[o].kind \in Kinds /\ t \in Members
        /\ cmd[o].version \in Nat /\ Kind(c) = cmd[o].kind
        /\ UNCHANGED <<cmd, members, stage, evidence>>
    BY CommandTyped
    DEF EInv, IInv, Types, Held, PInv, ProviderEffect, At, Call, Kind
  <1>1. call[c].stage # "reserved"
    BY <1>0, PastReservation DEF EInv
  <1>2. u \in ProviderUser /\ (u.confirmed => u.exists)
    BY <1>0 DEF PInv
  <1>f. ASSUME NEW w \in ProviderUser
        PROVE  /\ \A b \in BOOLEAN : /\ [w EXCEPT !.enabled = b] \in ProviderUser
                                    /\ [w EXCEPT !.enabled = b].exists = w.exists
                                    /\ [w EXCEPT !.enabled = b].enabled = b
                                    /\ [w EXCEPT !.enabled = b].confirmed = w.confirmed
               /\ [exists |-> TRUE, enabled |-> TRUE, confirmed |-> FALSE] \in ProviderUser
    BY ZenonT(30) DEF ProviderUser
  <1>3. /\ provider' \in [Members -> ProviderUser]
        /\ \A m \in Members : m # t => provider'[m] = provider[m]
        /\ \/ /\ ~u.exists
              /\ provider'[t] = [exists |-> TRUE, enabled |-> TRUE, confirmed |-> FALSE]
           \/ provider'[t] = [u EXCEPT !.enabled = TRUE] /\ u.exists
           \/ cmd[o].kind \in ProviderLast /\ provider'[t] = [u EXCEPT !.enabled = FALSE]
           \/ provider'[t] = u
    <2> DEFINE n == CASE cmd[o].kind = "invite" /\ ~u.exists ->
                           [exists |-> TRUE, enabled |-> TRUE, confirmed |-> FALSE]
                      [] cmd[o].kind = "reactivate" -> [u EXCEPT !.enabled = TRUE]
                      [] cmd[o].kind \in ProviderLast -> [u EXCEPT !.enabled = FALSE]
                      [] OTHER -> u
    <2>1. provider' = [provider EXCEPT ![t] = n]
      BY ZenonT(30), <1>0 DEF ProviderEffect, Target
    <2>2. cmd[o].kind # "invite" => u.exists
      BY ZenonT(30), <1>0 DEF ProviderEffect, Target
    <2>3. \/ /\ ~u.exists
             /\ n = [exists |-> TRUE, enabled |-> TRUE, confirmed |-> FALSE]
          \/ n = [u EXCEPT !.enabled = TRUE] /\ u.exists
          \/ cmd[o].kind \in ProviderLast /\ n = [u EXCEPT !.enabled = FALSE]
          \/ n = u
      <3>1. CASE cmd[o].kind = "invite" /\ ~u.exists
        BY ZenonT(30), <3>1 DEF ProviderLast
      <3>2. CASE cmd[o].kind = "reactivate"
        BY <2>2, <3>2
      <3>3. CASE cmd[o].kind \in ProviderLast
        BY ZenonT(30), <3>3 DEF ProviderLast
      <3>4. CASE /\ ~(cmd[o].kind = "invite" /\ ~u.exists)
                 /\ cmd[o].kind # "reactivate" /\ cmd[o].kind \notin ProviderLast
        <4>1. n = u
          BY ZenonT(30), <3>4
        <4> QED
          BY ZenonT(30), <4>1
      <3> QED
        BY ZenonT(40), <3>1, <3>2, <3>3, <3>4
    <2> HIDE DEF n
    <2>4. n \in ProviderUser
      BY ZenonT(60), <1>2, <1>f, <2>3
    <2> QED
      BY ZenonT(40), <1>0, <2>1, <2>3, <2>4 DEF PInv
  <1>4. Confirmed /\ \A m \in Members : provider'[m].confirmed => provider'[m].exists
    <2>1. /\ u.confirmed => provider'[t].confirmed
          /\ provider'[t].confirmed => provider'[t].exists
      BY ZenonT(60), <1>2, <1>3, <1>f
    <2> QED
      BY ZenonT(40), <1>3, <2>1 DEF Confirmed, PInv
  <1>5. cmd[o].kind \in ProviderLast =>
          \E v \in DOMAIN members[t] : members[t][v].state \in {"suspended", "revoked"}
    <2> SUFFICES ASSUME cmd[o].kind \in ProviderLast
                 PROVE  \E v \in DOMAIN members[t] :
                          members[t][v].state \in {"suspended", "revoked"}
      OBVIOUS
    <2>1. AfterMembership(cmd[o].kind, call[c].stage)
      <3>1. /\ OnPath(cmd[o].kind, call[c].stage)
            /\ "provider_applied" = NextStage(cmd[o].kind, call[c].stage)
        BY <1>0 DEF HeldEffect, Goal, Kind
      <3>2. AfterMembership(cmd[o].kind, "provider_applied")
        BY DEF AfterMembership
      <3> QED
        BY <1>0, <3>1, <3>2, StageStep
    <2>2. Shown(cmd[o], ev)
      BY <1>0, <2>1 DEF HeldEffect, Effect
    <2>3. ev.to \in {"suspended", "revoked"}
      BY <1>0, <1>1 DEF HeldReceipt, Fits, DesiredState, ProviderLast
    <2>4. members[t] \in Seq(Version) /\ Len(members[t]) \in Nat
      BY <1>0 DEF Types
    <2>5. cmd[o].version + 1 \in DOMAIN members[t]
      BY <1>0, <2>2, <2>4 DEF Shown
    <2> QED
      BY ZenonT(40), <2>2, <2>3, <2>5 DEF Shown
  <1>6. RestrictedFirst'
    <2> SUFFICES ASSUME NEW m \in Members
                 PROVE  /\ (\E v \in DOMAIN members[m] : members[m][v].state \in {"active"})
                             => provider'[m].confirmed
                        /\ provider'[m].exists /\ ~provider'[m].enabled =>
                             \E v \in DOMAIN members[m] :
                               members[m][v].state \in {"suspended", "revoked"}
      BY <1>0 DEF RestrictedFirst
    <2>1. /\ (\E v \in DOMAIN members[m] : members[m][v].state \in {"active"})
               => provider[m].confirmed
          /\ provider[m].exists /\ ~provider[m].enabled =>
               \E v \in DOMAIN members[m] : members[m][v].state \in {"suspended", "revoked"}
      BY ZenonT(30) DEF PInv, RestrictedFirst
    <2>2. CASE m # t
      BY ZenonT(30), <1>3, <2>1, <2>2
    <2>3. CASE m = t
      <3>1. provider'[t].exists /\ ~provider'[t].enabled =>
              cmd[o].kind \in ProviderLast \/ (u.exists /\ ~u.enabled)
        <4>1. [u EXCEPT !.enabled = TRUE].enabled
          BY ZenonT(30), <1>2, <1>f
        <4>2. \/ provider'[t] = u
              \/ provider'[t] = [u EXCEPT !.enabled = TRUE]
              \/ provider'[t] = [exists |-> TRUE, enabled |-> TRUE, confirmed |-> FALSE]
              \/ cmd[o].kind \in ProviderLast
          BY <1>3
        <4> SUFFICES ASSUME provider'[t].exists, ~provider'[t].enabled
                     PROVE  cmd[o].kind \in ProviderLast \/ (u.exists /\ ~u.enabled)
          OBVIOUS
        <4>3. CASE provider'[t] = u
          BY <4>3
        <4>4. CASE provider'[t] = [u EXCEPT !.enabled = TRUE]
          BY <4>1, <4>4
        <4>5. CASE provider'[t] = [exists |-> TRUE, enabled |-> TRUE, confirmed |-> FALSE]
          BY <4>5
        <4> QED
          BY <4>2, <4>3, <4>4, <4>5
      <3> QED
        BY ZenonT(30), <1>4, <1>5, <2>1, <2>3, <3>1 DEF Confirmed
    <2> QED
      BY <2>2, <2>3
  <1>7. HeldReceipt(c)' /\ \A d \in Callers : d # c => call'[d] = call[d]
    <2>1. PICK pc \in {"readback"} : Goto(c, pc)
      BY <1>0
    <2> QED
      BY <1>0, <1>1, <1>4, <2>1, GotoReceipt
  <1>8. \A d \in Callers : d # c => HeldReceipt(d)'
    BY <1>0, <1>4, <1>7, HeldReceiptKept DEF PInv
  <1>9. StoredReceipt'
    BY <1>0, <1>4, StoredReceiptKept DEF PInv
  <1> QED
    BY ZenonT(40), <1>3, <1>4, <1>6, <1>7, <1>8, <1>9 DEF PInv

\* The versions of a row after the write, one by one.
LEMMA WrittenVersion ==
  ASSUME EInv, NEW c \in Callers, WriteMembership(c), NEW m \in Members,
         NEW v \in DOMAIN members'[m]
  PROVE  \/ v \in DOMAIN members[m] /\ members'[m][v] = members[m][v]
         \/ /\ m = Target(c) /\ members'[m][v].state = call[c].evidence.to
            /\ MembershipCondition(cmd[call[c].op], call[c].evidence, members[m])
  <1> DEFINE x == cmd[call[c].op]
             ev == call[c].evidence
             new == [state |-> ev.to, role |-> ev.role, by |-> call[c].op]
  <1>0. Types /\ members[m] \in Seq(Version) /\ Target(c) = x.target
    BY DEF EInv, IInv, Types, Target
  <1>1. CASE UNCHANGED members
    BY <1>1
  <1>2. CASE /\ MembershipCondition(x, ev, members[x.target])
             /\ members' = [members EXCEPT ![x.target] = Append(@, new)]
    <2>1. CASE m # x.target
      BY <1>0, <1>2, <2>1 DEF Types
    <2>2. CASE m = x.target
      <3>1. members'[m] = Append(members[m], new)
        BY <1>0, <1>2, <2>2 DEF Types
      <3>2. new.state = ev.to
        OBVIOUS
      <3> HIDE DEF new
      <3>3. \/ v \in 1..Len(members[m]) /\ members'[m][v] = members[m][v]
            \/ members'[m][v] = new
        BY <1>0, <3>1
      <3>4. CASE v \in 1..Len(members[m]) /\ members'[m][v] = members[m][v]
        <4>1. DOMAIN members[m] = 1..Len(members[m])
          BY <1>0
        <4> QED
          BY <3>4, <4>1
      <3>5. CASE members'[m][v] = new
        <4>1. members'[m][v].state = ev.to
          BY ZenonT(30), <3>2, <3>5
        <4>2. MembershipCondition(x, ev, members[m])
          BY <1>2, <2>2
        <4>3. m = Target(c)
          BY <1>0, <2>2
        <4> QED
          BY <4>1, <4>2, <4>3
      <3> QED
        BY ZenonT(30), <3>3, <3>4, <3>5
    <2> QED
      BY <2>1, <2>2
  <1>3. \/ UNCHANGED members
        \/ /\ MembershipCondition(x, ev, members[x.target])
           /\ members' = [members EXCEPT ![x.target] = Append(@, new)]
    BY Zenon, <1>0 DEF WriteMembership
  <1> QED
    BY Zenon, <1>1, <1>2, <1>3

\* Access is written only for a user seen confirmed, or where the version
\* before it gave it already.
LEMMA WriteReceipt ==
  ASSUME EInv, PInv, NEW c \in Callers, WriteMembership(c)
  PROVE  PInv'
  <1> DEFINE o == call[c].op
             t == cmd[o].target
             ev == call[c].evidence
  <1>0. /\ Types /\ Held(c) /\ HeldEffect(c) /\ HeldReceipt(c) /\ o \in Ops
        /\ call[c].pc = "write" /\ call[c].stage # "reserved" /\ call[c].stage \in Stages
        /\ Goal(c) = "membership_applied" /\ Kind(c) = cmd[o].kind
        /\ cmd[o] \in Command /\ cmd[o].kind \in Kinds /\ t \in Members /\ Target(c) = t
        /\ members[t] \in Seq(Version)
        /\ UNCHANGED <<cmd, provider, stage, evidence>>
    BY ZenonT(40), CommandTyped
    DEF EInv, IInv, Types, Held, PInv, WriteMembership, HeldEffect, Call, Kind, Target
  <1>1. Grows
    BY WriteShows DEF EInv
  <1>2. Grounded(cmd[o], ev) /\ Fits(cmd[o], ev) /\ OnPath(cmd[o].kind, call[c].stage)
    BY <1>0 DEF Held, HeldReceipt, HeldEffect
  <1>3. ev.to = "active" /\ MembershipCondition(cmd[o], ev, members[t]) =>
          provider[t].confirmed
    <2> SUFFICES ASSUME ev.to = "active", MembershipCondition(cmd[o], ev, members[t])
                 PROVE  provider[t].confirmed
      OBVIOUS
    <2>1. cmd[o].kind \notin {"invite", "resend_invitation", "suspend", "revoke"}
      BY <1>2 DEF Grounded, Based, Fits, DesiredState
    <2>2. CASE cmd[o].kind \in ProviderFirst
      <3>1. NextStage(cmd[o].kind, call[c].stage) = "membership_applied"
        BY <1>0 DEF Goal
      <3>2. call[c].stage \in AfterProvider
        BY ZenonT(30), <1>0, <1>2, <2>2, <3>1, ReceiptGoal DEF AfterProvider
      <3> QED
        BY <1>0, <2>2, <3>2 DEF HeldReceipt, SeenConfirmed
    <2>3. CASE cmd[o].kind \notin ProviderFirst
      <3>1. ev.from = "active"
        BY <1>0, <1>2, <2>1, <2>3 DEF Fits, DesiredState, ProviderFirst, Kinds
      <3>2. members[t] # << >> /\ Last(members[t]).state = "active"
        BY <2>1, <3>1 DEF MembershipCondition, TransitionCondition
      <3>3. /\ Len(members[t]) \in DOMAIN members[t]
            /\ members[t][Len(members[t])].state = "active"
        BY <1>0, <3>2, LastIn
      <3> QED
        BY <1>0, <3>3 DEF PInv, RestrictedFirst
    <2> QED
      BY <2>2, <2>3
  <1>4. RestrictedFirst'
    <2> SUFFICES ASSUME NEW m \in Members
                 PROVE  /\ (\E v \in DOMAIN members'[m] : members'[m][v].state \in {"active"})
                             => provider[m].confirmed
                        /\ provider[m].exists /\ ~provider[m].enabled =>
                             \E v \in DOMAIN members'[m] :
                               members'[m][v].state \in {"suspended", "revoked"}
      BY <1>0 DEF RestrictedFirst
    <2>1. /\ (\E v \in DOMAIN members[m] : members[m][v].state \in {"active"})
               => provider[m].confirmed
          /\ provider[m].exists /\ ~provider[m].enabled =>
               \E v \in DOMAIN members[m] : members[m][v].state \in {"suspended", "revoked"}
      <3>1. RestrictedFirst
        BY DEF PInv
      <3> QED
        BY <3>1 DEF RestrictedFirst
    <2>2. ASSUME NEW v \in DOMAIN members'[m], members'[m][v].state = "active"
          PROVE  provider[m].confirmed
      BY <1>0, <1>3, <2>1, <2>2, WrittenVersion
    <2>3. \A v \in DOMAIN members[m] :
            v \in DOMAIN members'[m] /\ members'[m][v] = members[m][v]
      <3>1. /\ members[m] \in Seq(Version) /\ members'[m] \in Seq(Version)
            /\ Len(members[m]) <= Len(members'[m])
            /\ \A v \in 1..Len(members[m]) : members'[m][v] = members[m][v]
        BY SMTT(30), <1>0, <1>1 DEF Types, Grows
      <3> QED
        BY <3>1
    <2> QED
      BY <2>1, <2>2, <2>3
  <1>5. Confirmed
    BY <1>0 DEF Confirmed
  <1>6. HeldReceipt(c)' /\ \A d \in Callers : d # c => call'[d] = call[d]
    <2>1. PICK pc \in {"checkpoint"} : Goto(c, pc)
      BY DEF WriteMembership
    <2> QED
      BY ZenonT(30), <1>0, <1>5, <2>1, GotoReceipt
  <1>7. \A d \in Callers : d # c => HeldReceipt(d)'
    BY <1>0, <1>5, <1>6, HeldReceiptKept DEF PInv
  <1>8. StoredReceipt'
    BY <1>0, <1>5, StoredReceiptKept DEF PInv
  <1> QED
    BY ZenonT(30), <1>0, <1>4, <1>6, <1>7, <1>8 DEF PInv

\* A row taken up: what it stores was established for it.
LEMMA TakeUpReceipt ==
  ASSUME EInv, PInv, NEW c \in Callers, NEW o \in Ops, Reserve(c, o)
  PROVE  PInv'
  <1>0. /\ Types /\ stage[o] \in Stages \cup {"absent"} /\ cmd[o].kind \in Kinds
        /\ cmd[o].target \in Members
        /\ UNCHANGED <<cmd, members, provider, evidence>>
    BY CommandTyped DEF EInv, IInv, Types, Reserve
  <1>1. /\ call'[c].op = o /\ call'[c].stage = stage'[o] /\ call'[c].evidence = evidence[o]
        /\ call'[c].pc = IF stage[o] = "audit_committed" THEN "checkpoint" ELSE "effect"
        /\ \A d \in Callers : d # c => call'[d] = call[d]
    BY <1>0 DEF Reserve, Types
  <1>2. /\ stage'[o] = IF stage[o] = "absent" THEN "reserved" ELSE stage[o]
        /\ \A p \in Ops : p # o => stage'[p] = stage[p]
    BY <1>0 DEF Reserve, Types
  <1>3. Confirmed
    BY <1>0 DEF Confirmed
  <1>4. /\ stage'[o] # "reserved" => Fits(cmd[o], evidence[o])
        /\ SeenConfirmed(cmd[o], stage'[o])
    BY <1>2 DEF PInv, StoredReceipt, SeenConfirmed, AfterProvider
  <1>5. HeldReceipt(c)'
    <2>1. Goal(c)' = NextStage(cmd[o].kind, stage'[o])
      BY <1>0, <1>1 DEF Goal, Kind
    <2>2. call'[c].pc = "checkpoint" => stage'[o] = "audit_committed"
      BY <1>1, <1>2
    <2>3. call'[c].pc = "checkpoint" => SeenConfirmed(cmd[o], Goal(c)')
      BY <1>4, <2>2 DEF SeenConfirmed, AfterProvider
    <2>4. call'[c].pc # "replacement"
      BY <1>1
    <2> QED
      BY <1>0, <1>1, <1>4, <2>2, <2>3, <2>4 DEF HeldReceipt, SeenConfirmed, Fits
  <1>6. \A d \in Callers : d # c => HeldReceipt(d)'
    BY <1>0, <1>1, <1>3, HeldReceiptKept DEF PInv
  <1>7. StoredReceipt'
    <2>1. \A p \in Ops : p # o =>
            /\ stage'[p] \notin {"absent", "reserved"} => Fits(cmd[p], evidence[p])
            /\ SeenConfirmed(cmd[p], stage'[p])
      BY <1>2 DEF PInv, StoredReceipt
    <2> QED
      BY <1>0, <1>4, <2>1 DEF StoredReceipt, SeenConfirmed, Fits
  <1> QED
    BY <1>0, <1>5, <1>6, <1>7 DEF PInv, RestrictedFirst

\* The checkpoint stores what the call holds.
LEMMA CheckpointReceipt ==
  ASSUME EInv, PInv, NEW c \in Callers, Checkpoint(c)
  PROVE  PInv'
  <1>0. /\ Types /\ call[c] \in Call /\ call[c].op \in Ops /\ call[c].stage \in Stages
        /\ call[c].pc = "checkpoint" /\ HeldReceipt(c)
        /\ UNCHANGED <<cmd, members, provider>>
    BY DEF EInv, IInv, Types, Checkpoint, Held, Call, PInv
  <1>1. PICK o, ev, g :
          /\ o \in Ops /\ o = call[c].op /\ ev = call[c].evidence /\ g = Goal(c)
    BY <1>0
  <1>2. /\ \/ /\ stage' = [stage EXCEPT ![o] = g]
              /\ evidence' = [evidence EXCEPT ![o] = ev]
           \/ UNCHANGED <<stage, evidence>>
        /\ \E won \in BOOLEAN :
             call' = [call EXCEPT ![c] =
               IF g = "completed" THEN Idle
               ELSE [call[c] EXCEPT !.stage = g, !.won = won,
                       !.pc = IF g = "audit_committed" THEN "checkpoint" ELSE "effect"]]
    BY <1>1 DEF Checkpoint
  <1>3. /\ \A d \in Callers : d # c => call'[d] = call[d]
        /\ \/ call'[c].pc = "idle"
           \/ /\ call'[c].op = o /\ call'[c].stage = g /\ call'[c].evidence = ev
              /\ call'[c].pc = IF g = "audit_committed" THEN "checkpoint" ELSE "effect"
    BY <1>0, <1>1, <1>2 DEF Types, Call, Idle
  <1>4. Fits(cmd[o], ev) /\ SeenConfirmed(cmd[o], g)
    BY <1>0, <1>1 DEF HeldReceipt
  <1>5. Confirmed
    BY <1>0 DEF Confirmed
  <1>6. HeldReceipt(c)'
    <2>1. CASE call'[c].pc = "idle"
      BY <2>1 DEF HeldReceipt
    <2>2. CASE /\ call'[c].op = o /\ call'[c].stage = g /\ call'[c].evidence = ev
               /\ call'[c].pc = IF g = "audit_committed" THEN "checkpoint" ELSE "effect"
      <3>1. call'[c].pc = "checkpoint" => SeenConfirmed(cmd[o], Goal(c)')
        BY <1>4, <2>2 DEF SeenConfirmed, AfterProvider
      <3> QED
        BY <1>0, <1>4, <2>2, <3>1 DEF HeldReceipt, SeenConfirmed, Fits
    <2> QED
      BY <1>3, <2>1, <2>2
  <1>7. \A d \in Callers : d # c => HeldReceipt(d)'
    BY <1>0, <1>3, <1>5, HeldReceiptKept DEF PInv
  <1>8. StoredReceipt'
    <2>1. \A p \in Ops :
            \/ stage'[p] = stage[p] /\ evidence'[p] = evidence[p]
            \/ p = o /\ stage'[p] = g /\ evidence'[p] = ev
      BY <1>0, <1>2 DEF Types
    <2> QED
      BY <1>0, <1>4, <2>1 DEF PInv, StoredReceipt, SeenConfirmed, Fits
  <1> QED
    BY <1>0, <1>6, <1>7, <1>8 DEF PInv, RestrictedFirst

\* The seeded users are as their rows have them.
LEMMA InitReceipt == Init => PInv
  <1> SUFFICES ASSUME Init PROVE PInv
    OBVIOUS
  <1>1. \A m \in Members :
          /\ SeedUser(Seed[m]) \in ProviderUser
          /\ SeedUser(Seed[m]).confirmed => SeedUser(Seed[m]).exists
    BY DEF SeedUser, ProviderUser
  <1>2. StoredReceipt /\ \A c \in Callers : HeldReceipt(c)
    BY DEF Init, StoredReceipt, HeldReceipt, Idle, SeenConfirmed, AfterProvider
  <1>3. RestrictedFirst
    <2> SUFFICES ASSUME NEW m \in Members
                 PROVE  /\ (\E v \in DOMAIN Seed[m] : Seed[m][v].state \in {"active"})
                             => SeedUser(Seed[m]).confirmed
                        /\ SeedUser(Seed[m]).exists /\ ~SeedUser(Seed[m]).enabled =>
                             \E v \in DOMAIN Seed[m] :
                               Seed[m][v].state \in {"suspended", "revoked"}
      BY DEF Init, RestrictedFirst
    <2>1. Seed[m] \in Seq(Version)
      BY LifecycleAssumption
    <2>2. ASSUME NEW v \in DOMAIN Seed[m], Seed[m][v].state = "active"
          PROVE  SeedUser(Seed[m]).confirmed
      <3>1. Seed[m] # << >> /\ Last(Seed[m]).state # "invited"
        BY <2>1, <2>2, SeedAssumption
      <3> QED
        BY <3>1 DEF SeedUser
    <2>3. ASSUME SeedUser(Seed[m]).exists, ~SeedUser(Seed[m]).enabled
          PROVE  \E v \in DOMAIN Seed[m] : Seed[m][v].state \in {"suspended", "revoked"}
      <3>1. Seed[m] # << >> /\ Last(Seed[m]).state \notin {"invited", "active"}
        BY <2>3 DEF SeedUser
      <3>2. /\ Len(Seed[m]) \in DOMAIN Seed[m] /\ Last(Seed[m]) = Seed[m][Len(Seed[m])]
            /\ Last(Seed[m]).state \in States
        <4>1. /\ Len(Seed[m]) \in Nat /\ 1 <= Len(Seed[m])
              /\ Last(Seed[m]) = Seed[m][Len(Seed[m])] /\ Last(Seed[m]) \in Version
          BY <2>1, <3>1, LastIn
        <4>2. DOMAIN Seed[m] = 1..Len(Seed[m])
          BY <2>1
        <4> QED
          BY <4>1, <4>2 DEF Version
      <3> QED
        BY <3>1, <3>2 DEF States
    <2> QED
      BY <2>2, <2>3
  <1> QED
    BY <1>1, <1>2, <1>3 DEF Init, PInv

LEMMA NextReceipt ==
  ASSUME EInv, PInv, [Next]_vars
  PROVE  PInv'
  <1>1. ASSUME NEW c \in Callers, Step(c) \/ Fail(c)
        PROVE  PInv'
    <2>1. CASE Refuse(c)
      BY <2>1, EndsReceipt DEF Refuse
    <2>2. CASE Fail(c)
      BY <2>2, EndsReceipt DEF Fail
    <2> QED
      BY <1>1, <2>1, <2>2, ValidateReceipt, OtherReceipts, ProviderReceipt, WriteReceipt,
         CheckpointReceipt
      DEF Step
  <1>2. ASSUME UNCHANGED <<cmd, members, stage, evidence, call>>, Confirmed,
               provider' \in [Members -> ProviderUser],
               \A m \in Members : /\ provider'[m].exists = provider[m].exists
                                  /\ provider'[m].enabled = provider[m].enabled
                                  /\ provider'[m].confirmed => provider[m].exists
        PROVE  PInv'
    <2>1. \A d \in Callers : HeldReceipt(d)'
      BY <1>2, HeldReceiptKept DEF PInv
    <2>2. StoredReceipt'
      BY <1>2, StoredReceiptKept DEF PInv
    <2>3. RestrictedFirst'
      BY <1>2 DEF PInv, RestrictedFirst, Confirmed
    <2> QED
      BY <1>2, <2>1, <2>2, <2>3 DEF PInv
  <1>3. CASE UNCHANGED vars
    BY <1>2, <1>3 DEF vars, PInv, Confirmed
  <1>4. ASSUME NEW m \in Members, UserConfirms(m)
        PROVE  PInv'
    <2>1. /\ provider[m] \in ProviderUser /\ provider[m].exists
          /\ provider' = [provider EXCEPT ![m].confirmed = TRUE]
      BY <1>4 DEF PInv, UserConfirms, ProviderState
    <2>2. provider' \in [Members -> ProviderUser]
      BY <2>1 DEF PInv, ProviderUser
    <2>3. \A n \in Members : /\ provider'[n].exists = provider[n].exists
                             /\ provider'[n].enabled = provider[n].enabled
                             /\ provider'[n].confirmed => provider[n].exists
      BY <2>1 DEF PInv, ProviderUser
    <2>4. Confirmed
      BY <2>1 DEF Confirmed, PInv, ProviderUser
    <2> QED
      BY <1>2, <1>4, <2>2, <2>3, <2>4 DEF UserConfirms
  <1> QED
    BY <1>1, <1>3, <1>4, TakeUpReceipt DEF Next

\* Whatever operations overtake each other: an active membership is of a user
\* seen confirmed, and a disabled user is one whose membership took the access
\* away first (_transition and the receipts of the provider).
THEOREM LifecycleRestrictedFirst == Spec => []RestrictedFirst
  <1>1. PInv => RestrictedFirst
    BY DEF PInv
  <1> QED
    BY <1>1, InitEffect, NextEffect, InitReceipt, NextReceipt, PTL DEF Spec

\* The variables the invariants above leave out.
Counters == audit \subseteq Ops /\ faults \in Nat

LEMMA NextCounters ==
  ASSUME EInv, Counters, [Next]_vars
  PROVE  Counters'
  <1> USE DEF Counters
  <1>1. ASSUME NEW c \in Callers, EmitAudit(c) \/ Fail(c)
        PROVE  Counters'
    BY SMTT(30), <1>1 DEF EmitAudit, Fail, At, EInv, IInv, Held
  <1>2. ASSUME NEW c \in Callers, Step(c), ~EmitAudit(c)
        PROVE  UNCHANGED <<audit, faults>>
    BY ZenonT(40), <1>2 DEF Step, Validate, LoadReplacement, ReserveProviderEffect, ProviderEffect,
       ReadBack, LoadMembership, WriteMembership, RevokeSessions, Checkpoint, Refuse
  <1> QED
    BY <1>1, <1>2 DEF Next, Reserve, UserConfirms, vars

\* The rows, users, counters and calls keep their types.
THEOREM LifecycleTyping == Spec => []TypeOK
  <1>1. Init => Counters
    BY DEF Init, Counters
  <1>2. EInv /\ SInv /\ PInv /\ Counters => TypeOK
    BY DEF Counters, TypeOK, EInv, IInv, Types, SInv, PInv
  <1> QED
    BY <1>1, <1>2, InitEffect, NextEffect, InitSends, NextSends, InitReceipt, NextReceipt,
       NextCounters, PTL DEF Spec

-----------------------------------------------------------------------------
(* The user lifecycle implements Administration.  Evidence speaks of the   *)
(* version a command names, which no later write changes: it is what the   *)
(* abstract specification computes from the command and that version.      *)

Evident(x, ev, rows) ==
  /\ Promise!Askable(x, rows[x.target])
  /\ ev.to = Promise!Wanted(x, rows[x.target]).state
  /\ ev.role = Promise!Wanted(x, rows[x.target]).role

HeldEvident(c) ==
  /\ call[c].pc # "idle"
  /\ call[c].pc \in {"replacement", "checkpoint"} \/ call[c].stage # "reserved"
  => Evident(cmd[call[c].op], call[c].evidence, members)

WInv ==
  /\ \A o \in Ops :
       stage[o] \notin {"absent", "reserved"} => Evident(cmd[o], evidence[o], members)
  /\ \A c \in Callers : HeldEvident(c)

\* The table of the abstract specification is the one of the checks
\* (_ALLOWED_TRANSITIONS and the three operations outside it).
LEMMA ChangeTable ==
  /\ Promise!Change["invite"]["none"] = "invited"
  /\ \A kind \in Kinds \ {"invite"} : \A s \in ExpectedStates(kind) :
       /\ s \in DOMAIN Promise!Change[kind]
       /\ Promise!Change[kind][s] = DesiredState(kind, s)
  <1> USE DEF Promise!Change, ExpectedStates, DesiredState
  <1>1. Promise!Change["invite"]["none"] = "invited"
    OBVIOUS
  <1>2. ASSUME NEW kind \in Kinds \ {"invite"}, NEW s \in ExpectedStates(kind)
        PROVE  s \in DOMAIN Promise!Change[kind]
               /\ Promise!Change[kind][s] = DesiredState(kind, s)
    <2>1. CASE kind = "resend_invitation"
      BY <2>1, <1>2
    <2>2. CASE kind = "activate"
      BY <2>2, <1>2
    <2>3. CASE kind = "change_role"
      BY <2>3, <1>2
    <2>4. CASE kind = "suspend"
      BY <2>4, <1>2
    <2>5. CASE kind = "reactivate"
      BY <2>5, <1>2
    <2>6. CASE kind = "revoke"
      BY <2>6, <1>2
    <2>7. CASE kind = "revoke_sessions"
      BY <2>7, <1>2
    <2> QED
      BY <2>1, <2>2, <2>3, <2>4, <2>5, <2>6, <2>7 DEF Kinds
  <1> QED
    BY <1>1, <1>2

\* What a command names does not change under it.
LEMMA EvidentKept ==
  ASSUME Types, Grows, NEW o \in Ops, NEW ev, Evident(cmd[o], ev, members)
  PROVE  Evident(cmd[o], ev, members')
  <1> DEFINE x == cmd[o]
             t == x.target
             n == x.version
  <1>1. t \in Members /\ n \in Nat /\ members[t] \in Seq(Version)
    BY CommandTyped
  <1>2. /\ Len(members[t]) \in Nat /\ Len(members'[t]) \in Nat
        /\ Len(members[t]) <= Len(members'[t])
    BY <1>1 DEF Grows
  <1>3. n \in 1..Len(members[t]) => members'[t][n] = members[t][n]
    BY <1>1 DEF Grows
  <1>4. Len(members[t]) >= n /\ (x.kind # "invite" => n > 0)
    BY DEF Evident, Promise!Askable
  <1>5. x.kind # "invite" => members'[t][n] = members[t][n]
    BY SMTT(30), <1>1, <1>2, <1>3, <1>4
  <1>6. Promise!Wanted(x, members'[t]) = Promise!Wanted(x, members[t])
    BY <1>5 DEF Promise!Wanted
  <1>7. Promise!Askable(x, members'[t])
    BY <1>1, <1>2, <1>4, <1>5 DEF Evident, Promise!Askable
  <1> QED
    BY <1>6, <1>7 DEF Evident

\* The checks find what the command asks for.
LEMMA EvidenceEvident ==
  ASSUME Types, NEW o \in Ops, NEW row, row = members[cmd[o].target],
         cmd[o].kind = "invite" \/ Admissible(cmd[o], row)
  PROVE  Evident(cmd[o], EvidenceFor(cmd[o], row), members)
  <1> DEFINE x == cmd[o]
             ev == EvidenceFor(x, row)
  <1>0. /\ x \in Command /\ x.version \in Nat /\ x.kind \in Kinds /\ x.role \in Roles
        /\ row \in Seq(Version)
    BY CommandTyped
  <1>1. CASE x.kind = "invite"
    <2>1. ev.to = "invited" /\ ev.role = x.role
      BY <1>1 DEF EvidenceFor, NoEvidence
    <2>2. x.version = 0 /\ Len(row) \in Nat
      BY <1>0, <1>1, LifecycleAssumption DEF Types
    <2> QED
      BY <1>1, <2>1, <2>2, ChangeTable DEF Evident, Promise!Askable, Promise!Wanted
  <1>2. CASE x.kind # "invite"
    <2>1. /\ Len(row) = x.version /\ row # << >> /\ Last(row).state \in ExpectedStates(x.kind)
      BY <1>2 DEF Admissible
    <2>2. 1 <= Len(row) /\ Last(row) = row[Len(row)]
      BY <1>0, <2>1, LastIn
    <2>3. /\ ev.to = DesiredState(x.kind, Last(row).state)
          /\ ev.role = IF x.kind = "change_role" THEN x.role ELSE Last(row).role
      BY <1>2 DEF EvidenceFor, NoEvidence
    <2>4. /\ Last(row).state \in DOMAIN Promise!Change[x.kind]
          /\ Promise!Change[x.kind][Last(row).state] = DesiredState(x.kind, Last(row).state)
      BY <1>0, <1>2, <2>1, ChangeTable
    <2>5. Promise!Askable(x, row)
      BY <1>0, <1>2, <2>1, <2>2, <2>4 DEF Promise!Askable
    <2>6. row[x.version] = Last(row)
      BY <2>1, <2>2
    <2>7. /\ Promise!Wanted(x, row).state = DesiredState(x.kind, Last(row).state)
          /\ Promise!Wanted(x, row).role =
               IF x.kind = "change_role" THEN x.role ELSE Last(row).role
      BY <1>2, <2>4, <2>6 DEF Promise!Wanted
    <2> QED
      BY <2>3, <2>5, <2>7 DEF Evident
  <1> QED
    BY <1>1, <1>2

\* A row changes only by a write, and then grows.
LEMMA RowsGrow ==
  ASSUME IInv, [Next]_vars
  PROVE  Grows /\ cmd' = cmd
  <1>0. Types
    BY DEF IInv
  <1>1. ASSUME UNCHANGED members PROVE Grows
    BY <1>0, <1>1, GrowsWhenSame
  <1>2. ASSUME NEW c \in Callers, WriteMembership(c) PROVE Grows
    BY <1>2, WriteShows
  <1>3. UNCHANGED members \/ \E c \in Callers : WriteMembership(c)
    BY ZenonT(40) DEF Next, Step, Reserve, Fail, UserConfirms, Validate, LoadReplacement,
       ReserveProviderEffect, ProviderEffect, ReadBack, LoadMembership, RevokeSessions,
       EmitAudit, Checkpoint, Refuse, vars
  <1>4. cmd' = cmd
    BY ZenonT(40) DEF Next, Step, Reserve, Fail, UserConfirms, Validate, LoadReplacement,
       ReserveProviderEffect, ProviderEffect, ReadBack, LoadMembership, WriteMembership,
       RevokeSessions, EmitAudit, Checkpoint, Refuse, vars
  <1> QED
    BY <1>1, <1>2, <1>3, <1>4

\* What a call holds after a step on its way: what it held, or what it checked.
LEMMA CallEvident ==
  ASSUME EInv, NEW c \in Callers, HeldEvident(c), Step(c), ~Refuse(c), ~Checkpoint(c)
  PROVE  /\ call'[c].op = call[c].op /\ call[c].op \in Ops
         /\ Evident(cmd[call[c].op], call'[c].evidence, members)
         /\ \A d \in Callers : d # c => call'[d] = call[d]
         /\ UNCHANGED <<stage, evidence>>
  <1> DEFINE o == call[c].op
             x == cmd[o]
  <1>0. /\ Types /\ Held(c) /\ HeldEffect(c) /\ call[c] \in Call
    BY DEF EInv, IInv, Types
  <1>1. call[c].pc # "idle" /\ UNCHANGED <<stage, evidence>>
    BY ZenonT(40) DEF Step, Validate, LoadReplacement, ReserveProviderEffect, ProviderEffect,
       ReadBack, LoadMembership, WriteMembership, RevokeSessions, EmitAudit, At
  <1>2. o \in Ops
    BY <1>0, <1>1 DEF Held
  <1>3. CASE Validate(c)
    <2> DEFINE ev == EvidenceFor(x, members[x.target])
               pc == IF x.kind # "invite" /\ RemovesAdmin(Last(members[x.target]), ev)
                     THEN "replacement" ELSE "checkpoint"
    <2>1. Evident(x, ev, members)
      BY <1>0, <1>2, <1>3, EvidenceEvident DEF Validate, Target
    <2>2. call' = [call EXCEPT ![c].evidence = ev, ![c].pc = pc]
      BY <1>3 DEF Validate, Target
    <2> HIDE DEF ev, pc
    <2>3. /\ call'[c].op = o /\ call'[c].evidence = ev
          /\ \A d \in Callers : d # c => call'[d] = call[d]
      BY <1>0, <2>2 DEF Types, Call
    <2> QED
      BY <1>1, <1>2, <2>1, <2>3
  <1>4. CASE LoadReplacement(c)
    <2>1. Evident(x, call[c].evidence, members)
      BY ZenonT(30), <1>4 DEF LoadReplacement, HeldEvident
    <2>2. /\ call'[c].op = o
          /\ call'[c].evidence.to = call[c].evidence.to
          /\ call'[c].evidence.role = call[c].evidence.role
          /\ \A d \in Callers : d # c => call'[d] = call[d]
      BY <1>0, <1>4 DEF LoadReplacement, Types, Call, Evidence
    <2> QED
      BY <1>1, <1>2, <2>1, <2>2 DEF Evident
  <1>5. CASE ~Validate(c) /\ ~LoadReplacement(c)
    <2>1. PICK pc \in {"readback", "write", "checkpoint"} : Goto(c, pc)
      BY ZenonT(40), <1>5 DEF Step, ReserveProviderEffect, ProviderEffect, ReadBack,
         LoadMembership, WriteMembership, RevokeSessions, EmitAudit
    <2>2. call[c].stage # "reserved"
      <3>1. CASE call[c].pc \in {"readback", "write"}
        BY <1>0, <3>1 DEF Held
      <3>2. CASE call[c].pc \notin {"readback", "write"}
        <4>1. Goal(c) # "approval_validated"
          BY ZenonT(40), <1>5, <3>2 DEF Step, ReserveProviderEffect, ProviderEffect, ReadBack,
             LoadMembership, WriteMembership, RevokeSessions, EmitAudit, At
        <4> QED
          BY ZenonT(30), <1>1, <4>1, PastReservation DEF EInv
      <3> QED
        BY <3>1, <3>2
    <2>3. Evident(x, call[c].evidence, members)
      BY <1>1, <2>2 DEF HeldEvident
    <2>4. /\ call'[c].op = o /\ call'[c].evidence = call[c].evidence
          /\ \A d \in Callers : d # c => call'[d] = call[d]
      BY <1>0, <2>1, GotoOnly DEF Only
    <2> QED
      BY <1>1, <1>2, <2>3, <2>4
  <1> QED
    BY <1>3, <1>4, <1>5

\* A call that ends, or that was not part of the step.
LEMMA IdleEvident ==
  ASSUME NEW c \in Callers, call'[c].pc = "idle"
  PROVE  HeldEvident(c)'
  BY DEF HeldEvident

LEMMA SameEvident ==
  ASSUME IInv, Grows, cmd' = cmd, NEW c \in Callers, HeldEvident(c), call'[c] = call[c]
  PROVE  HeldEvident(c)'
  <1>1. ASSUME call[c].pc # "idle", Evident(cmd[call[c].op], call[c].evidence, members)
        PROVE  Evident(cmd[call[c].op], call[c].evidence, members')
    <2>1. call[c].op \in Ops
      BY <1>1 DEF IInv, Held
    <2> QED
      BY <1>1, <2>1, EvidentKept DEF IInv
  <1> QED
    BY <1>1 DEF HeldEvident

\* Every step keeps the evidence what the command asks for.
LEMMA NextEvident ==
  ASSUME EInv, WInv, [Next]_vars
  PROVE  WInv'
  <1>0. IInv /\ Types /\ Grows /\ cmd' = cmd
    BY RowsGrow DEF EInv, IInv
  <1>s. ASSUME NEW o \in Ops, stage'[o] = stage[o], evidence'[o] = evidence[o],
               stage[o] \notin {"absent", "reserved"}
        PROVE  Evident(cmd[o], evidence[o], members')
    BY <1>0, <1>s, EvidentKept DEF WInv
  <1>c. ASSUME UNCHANGED <<stage, evidence>>, NEW c \in Callers, HeldEvident(c)',
               \A d \in Callers : d # c => call'[d] = call[d]
        PROVE  WInv'
    <2>1. \A d \in Callers : HeldEvident(d)'
      BY <1>0, <1>c, SameEvident DEF WInv
    <2>2. \A o \in Ops : stage'[o] \notin {"absent", "reserved"} =>
            Evident(cmd[o], evidence'[o], members')
      BY <1>c, <1>s
    <2> QED
      BY <1>0, <2>1, <2>2 DEF WInv
  <1>1. ASSUME NEW c \in Callers, Step(c), ~Refuse(c), ~Checkpoint(c)
        PROVE  WInv'
    <2>1. /\ call'[c].op = call[c].op /\ call[c].op \in Ops
          /\ Evident(cmd[call[c].op], call'[c].evidence, members)
          /\ \A d \in Callers : d # c => call'[d] = call[d]
          /\ UNCHANGED <<stage, evidence>>
      BY <1>1, CallEvident DEF WInv
    <2>2. Evident(cmd[call[c].op], call'[c].evidence, members')
      BY <1>0, <2>1, EvidentKept
    <2>3. HeldEvident(c)'
      BY <1>0, <2>1, <2>2 DEF HeldEvident
    <2> QED
      BY <1>c, <2>1, <2>3
  <1>2. ASSUME NEW c \in Callers, Refuse(c) \/ Fail(c)
        PROVE  WInv'
    <2>1. call'[c].pc = "idle" /\ \A d \in Callers : d # c => call'[d] = call[d]
      BY <1>0, <1>2 DEF Refuse, Fail, Types, Idle
    <2>2. UNCHANGED <<stage, evidence>>
      BY <1>2 DEF Refuse, Fail
    <2> QED
      BY <1>c, <2>1, <2>2, IdleEvident
  <1>3. ASSUME NEW c \in Callers, NEW o \in Ops, Reserve(c, o)
        PROVE  WInv'
    <2>1. /\ call'[c].op = o /\ call'[c].stage = stage'[o] /\ call'[c].evidence = evidence[o]
          /\ call'[c].pc = IF stage[o] = "audit_committed" THEN "checkpoint" ELSE "effect"
          /\ \A d \in Callers : d # c => call'[d] = call[d]
      BY <1>0, <1>3 DEF Reserve, Types
    <2>2. /\ stage'[o] = IF stage[o] = "absent" THEN "reserved" ELSE stage[o]
          /\ \A p \in Ops : p # o => stage'[p] = stage[p]
          /\ evidence' = evidence
      BY <1>0, <1>3 DEF Reserve, Types
    <2>3. \A p \in Ops : stage'[p] \notin {"absent", "reserved"} =>
            Evident(cmd[p], evidence'[p], members')
      BY <2>2, <1>s
    <2>4. HeldEvident(c)'
      <3>1. call'[c].pc = "checkpoint" \/ call'[c].stage # "reserved" =>
              stage'[o] \notin {"absent", "reserved"}
        BY <2>1, <2>2
      <3>2. call'[c].pc # "replacement"
        BY <2>1
      <3> QED
        BY <1>0, <2>1, <2>2, <2>3, <3>1, <3>2 DEF HeldEvident
    <2>5. \A d \in Callers : HeldEvident(d)'
      BY <1>0, <2>1, <2>4, SameEvident DEF WInv
    <2> QED
      BY <1>0, <2>3, <2>5 DEF WInv
  <1>4. ASSUME NEW c \in Callers, Checkpoint(c)
        PROVE  WInv'
    <2> DEFINE o == call[c].op
               ev == call[c].evidence
    <2>0. call[c] \in Call /\ Held(c) /\ call[c].pc = "checkpoint"
      BY <1>0, <1>4 DEF IInv, Types, Checkpoint
    <2>1. o \in Ops
      BY <2>0 DEF Held
    <2>2. Evident(cmd[o], ev, members)
      BY <2>0 DEF WInv, HeldEvident
    <2>3. Evident(cmd[o], ev, members')
      BY <1>0, <2>1, <2>2, EvidentKept
    <2>4. /\ call'[c].pc # "idle" => call'[c].op = o /\ call'[c].evidence = ev
          /\ \A d \in Callers : d # c => call'[d] = call[d]
      BY <1>0, <1>4, <2>0 DEF Checkpoint, Types, Call, Idle
    <2>5. \/ UNCHANGED <<stage, evidence>>
          \/ /\ evidence'[o] = ev
             /\ \A p \in Ops : p # o => stage'[p] = stage[p] /\ evidence'[p] = evidence[p]
      BY <1>0, <1>4, <2>1 DEF Checkpoint, Types
    <2>6. HeldEvident(c)'
      BY <1>0, <2>3, <2>4 DEF HeldEvident
    <2>7. \A d \in Callers : HeldEvident(d)'
      BY <1>0, <2>4, <2>6, SameEvident DEF WInv
    <2>8. \A p \in Ops : stage'[p] \notin {"absent", "reserved"} =>
            Evident(cmd[p], evidence'[p], members')
      BY <2>3, <2>5, <1>s
    <2> QED
      BY <1>0, <2>7, <2>8 DEF WInv
  <1>5. CASE UNCHANGED vars \/ \E m \in Members : UserConfirms(m)
    <2>1. UNCHANGED <<call, stage, evidence>>
      BY <1>5 DEF vars, UserConfirms
    <2>2. \A d \in Callers : HeldEvident(d)'
      BY <1>0, <2>1, SameEvident DEF WInv
    <2>3. \A p \in Ops : stage'[p] \notin {"absent", "reserved"} =>
            Evident(cmd[p], evidence'[p], members')
      BY <2>1, <1>s
    <2> QED
      BY <1>0, <2>2, <2>3 DEF WInv
  <1> QED
    BY <1>1, <1>2, <1>3, <1>4, <1>5 DEF Next

\* The conditional write is a write of the version that was asked for, and
\* leaves an administrator; without the condition it repeats what is there.
LEMMA WriteAsked ==
  ASSUME EInv, WInv, EInv', NEW c \in Callers, WriteMembership(c)
  PROVE  UNCHANGED members \/ Promise!Write(call[c].op)
  <1> DEFINE o == call[c].op
             x == cmd[o]
             t == x.target
             ev == call[c].evidence
             row == members[t]
             new == [state |-> ev.to, role |-> ev.role, by |-> o]
  <1>0. /\ Types /\ Held(c) /\ call[c].pc = "write" /\ call[c].stage # "reserved"
    BY ZenonT(40) DEF EInv, IInv, WriteMembership, Held
  <1>1. o \in Ops /\ Evident(x, ev, members)
    BY ZenonT(30), <1>0 DEF Held, WInv, HeldEvident
  <1>2. CASE /\ MembershipCondition(x, ev, row)
             /\ members' = [members EXCEPT ![t] = Append(row, new)]
    <2>1. Len(row) = x.version
      BY <1>0, <1>1, <1>2, CommandTyped, LifecycleAssumption
      DEF MembershipCondition, RefreshCondition, TransitionCondition, Types
    <2>2. AdminRemains'
      BY DEF EInv, IInv
    <2>3. \E a \in Members : Promise!AdminIn(members'[a])
      BY ZenonT(30), <2>2 DEF AdminRemains, ActiveAdmin, Last, Promise!AdminIn
    <2>4. UNCHANGED <<cmd, signedOut, audit, stage>>
      BY ZenonT(40) DEF WriteMembership
    <2> QED
      BY ZenonT(40), <1>1, <1>2, <2>1, <2>3, <2>4 DEF Evident, Promise!Write, Reported
  <1> QED
    BY ZenonT(40), <1>2 DEF WriteMembership, Target

\* A checkpoint completes an operation when all it stands for is in place, and
\* takes no operation back.
LEMMA CheckpointCompletes ==
  ASSUME EInv, WInv, NEW c \in Callers, Checkpoint(c)
  PROVE  Reported' = Reported \/ Promise!Complete(call[c].op)
  <1> DEFINE o == call[c].op
             x == cmd[o]
             ev == call[c].evidence
  <1>0. /\ Types /\ Held(c) /\ HeldEffect(c) /\ call[c].pc = "checkpoint"
        /\ UNCHANGED <<cmd, members, signedOut, audit>>
    BY DEF EInv, IInv, Checkpoint
  <1>1. o \in Ops /\ Evident(x, ev, members) /\ Effect(x, o, ev, Goal(c))
    BY <1>0 DEF Held, WInv, HeldEvident, HeldEffect
  <1>2. \/ UNCHANGED stage
        \/ stage[o] = call[c].stage /\ stage' = [stage EXCEPT ![o] = Goal(c)]
    BY DEF Checkpoint
  <1>3. CASE stage[o] = call[c].stage /\ stage' = [stage EXCEPT ![o] = Goal(c)]
    <2>1. stage'[o] = Goal(c) /\ \A p \in Ops : p # o => stage'[p] = stage[p]
      BY <1>0, <1>1, <1>3 DEF Types
    <2>2. stage[o] = "completed" => Goal(c) = "completed"
      BY <1>3 DEF Goal, NextStage, InviteStage, ResendStage, TransitionStage
    <2>3. CASE Goal(c) # "completed" \/ stage[o] = "completed"
      BY <2>1, <2>2, <2>3 DEF Reported
    <2>4. CASE Goal(c) = "completed" /\ stage[o] # "completed"
      <3>1. Reported' = Reported \cup {o} /\ o \notin Reported
        BY <1>1, <2>1, <2>4 DEF Reported
      <3>2. /\ Shown(x, ev) /\ o \in audit
            /\ (x.kind \in SessionsRevoked => signedOut[x.target] > x.version)
        BY ZenonT(30), <1>1, <2>4 DEF Effect, AfterMembership, AfterSessions
      <3>3. Promise!Granted(o)
        BY ZenonT(40), <1>1, <3>2 DEF Evident, Shown, Promise!Granted
      <3> QED
        BY <1>0, <3>1, <3>2, <3>3 DEF Promise!Complete, Promise!EndsSessions, SessionsRevoked
    <2> QED
      BY <2>3, <2>4
  <1> QED
    BY <1>2, <1>3 DEF Reported

\* Every step is one of Administration's, or none.
LEMMA StepAdministers ==
  ASSUME EInv, WInv, EInv', [Next]_vars
  PROVE  [Promise!Next]_(Promise!administrationVars)
  <1> USE DEF Promise!Next, Promise!administrationVars
  <1>1. ASSUME NEW c \in Callers, WriteMembership(c)
        PROVE  [Promise!Next]_(Promise!administrationVars)
    <2>1. UNCHANGED <<cmd, signedOut, audit, stage>> /\ call[c].op \in Ops
      BY ZenonT(40), <1>1 DEF WriteMembership, EInv, IInv, Held
    <2> QED
      BY ZenonT(30), <1>1, <2>1, WriteAsked DEF Reported
  <1>2. ASSUME NEW c \in Callers, Checkpoint(c)
        PROVE  [Promise!Next]_(Promise!administrationVars)
    <2>1. UNCHANGED <<cmd, members, signedOut, audit>> /\ call[c].op \in Ops
      BY <1>2 DEF Checkpoint, EInv, IInv, Held
    <2> QED
      BY <1>2, <2>1, CheckpointCompletes
  <1>3. ASSUME NEW c \in Callers, RevokeSessions(c)
        PROVE  [Promise!Next]_(Promise!administrationVars)
    <2>1. call[c].op \in Ops
      BY <1>3 DEF RevokeSessions, At, EInv, IInv, Held
    <2>2. Target(c) \in Members
      BY <2>1, CommandTyped DEF Target, EInv, IInv
    <2>3. Promise!SignOut(Target(c))
      BY <1>3 DEF RevokeSessions, Promise!SignOut, Reported
    <2> QED
      BY <2>2, <2>3
  <1>4. ASSUME NEW c \in Callers, EmitAudit(c)
        PROVE  [Promise!Next]_(Promise!administrationVars)
    <2>1. call[c].op \in Ops
      BY <1>4 DEF EmitAudit, At, EInv, IInv, Held
    <2>2. Promise!Log(call[c].op)
      BY <1>4 DEF EmitAudit, Promise!Log, Reported
    <2> QED
      BY <2>1, <2>2
  <1>5. ASSUME NEW c \in Callers, NEW o \in Ops, Reserve(c, o)
        PROVE  [Promise!Next]_(Promise!administrationVars)
    <2>1. UNCHANGED <<cmd, members, signedOut, audit>>
      BY <1>5 DEF Reserve
    <2>2. \A p \in Ops : stage'[p] = "completed" <=> stage[p] = "completed"
      BY <1>5 DEF Reserve, EInv, IInv, Types
    <2> QED
      BY <2>1, <2>2 DEF Reported
  <1>6. CASE \/ UNCHANGED vars \/ \E m \in Members : UserConfirms(m)
             \/ \E c \in Callers :
                  \/ Validate(c) \/ LoadReplacement(c) \/ ReserveProviderEffect(c)
                  \/ ProviderEffect(c) \/ ReadBack(c) \/ LoadMembership(c)
                  \/ Refuse(c) \/ Fail(c)
    <2>1. UNCHANGED <<cmd, members, signedOut, audit, stage>>
      BY ZenonT(40), <1>6 DEF vars, UserConfirms, Validate, LoadReplacement,
         ReserveProviderEffect, ProviderEffect, ReadBack, LoadMembership, Refuse, Fail
    <2> QED
      BY <2>1 DEF Reported
  <1> QED
    BY ZenonT(40), <1>1, <1>2, <1>3, <1>4, <1>5, <1>6 DEF Next, Step

\* The calls of the service, their checkpoints, failures and retries keep what
\* Administration promises (UserLifecycleService): a version is written for
\* the version it was asked of, an administrator remains, and an operation is
\* completed once and after its effects.
THEOREM LifecycleImplementsAdministration == Spec => ImplementsAdministration
  <1>1. Init => WInv
    <2> SUFFICES ASSUME Init PROVE WInv
      OBVIOUS
    <2>1. /\ \A o \in Ops : stage[o] = "absent"
          /\ \A c \in Callers : call[c].pc = "idle"
      BY DEF Init, Idle
    <2> QED
      BY <2>1 DEF WInv, HeldEvident
  <1>2. Init => Promise!Init
    <2> SUFFICES ASSUME Init PROVE Promise!Init
      OBVIOUS
    <2>1. Reported = {}
      BY DEF Init, Reported
    <2> QED
      BY <2>1 DEF Init, Promise!Init
  <1>3. EInv /\ WInv /\ EInv' /\ [Next]_vars => [Promise!Next]_(Promise!administrationVars)
    BY StepAdministers
  <1>4. EInv /\ WInv /\ [Next]_vars => WInv'
    BY NextEvident
  <1> QED
    BY <1>1, <1>2, <1>3, <1>4, InitEffect, NextEffect, PTL
    DEF Spec, ImplementsAdministration, Promise!Spec

-----------------------------------------------------------------------------
(* The employee profiles of a batch.                                       *)

(* A run under way carries the options and the source of its request; it   *)
(* has something to write while it writes; and it knows of no profile      *)
(* before it has loaded the artifacts, which it does in the try.           *)
RunShape(c) ==
    /\ ~RunAt(c, "idle") => run[c].opts \in Options /\ run[c].source \in 1..Sources
    /\ run[c].pc \in {"read", "put"} => run[c].todo # << >>
    /\ run[c].pc \in {"check", "load"} \/ run[c].phase = "start" => run[c].profiles = {}
    /\ RunAt(c, "load") => run[c].phase = "rest"

(* The version a put is conditioned on was read after the identity of the  *)
(* object was compared: while the ETag holds, so does the comparison.      *)
TagRead(c) ==
    RunAt(c, "put") =>
        LET k == Head(run[c].todo) IN
        /\ run[c].tag <= store[k].tag
        /\ store[k].tag = run[c].tag => IsOwn(c, k, store[k])

(* Of the writes ahead of a run that will complete the job, those of the   *)
(* profiles it lists precede those of the job record.                      *)
Precedes(c, todo) ==
    \A i \in 1..Len(todo) :
        todo[i] \in JobKeys =>
            \A p \in run[c].profiles :
                \/ store[ProfileKey(p)].tag # 0
                \/ \E j \in 1..(i - 1) : todo[j] = ProfileKey(p)

ProfilesFirst(c) ==
    run[c].pc \in {"read", "put"} /\ run[c].status \in Done => Precedes(c, run[c].todo)

RunInv(c) == RunShape(c) /\ TagRead(c) /\ ProfilesFirst(c)

ProfilesInv ==
    /\ ProfilesTypeOK
    /\ \A c \in Runs : RunInv(c)
    /\ ProfilesBacked

(* The keys of the four kinds of object are apart.                         *)
LEMMA ProfileKeyFacts ==
    /\ BatchJob \in JobKeys
    /\ \A o \in Options : JobKey(o) \in JobKeys
    /\ JobKeys \subseteq Keys
    /\ BatchProfiles \in Keys /\ BatchProfiles \notin JobKeys
    /\ \A p \in Persons : ProfileKey(p) \in Keys /\ ProfileKey(p) \notin JobKeys
BY DEF BatchJob, JobKey, JobKeys, Keys, BatchProfiles, ProfileKey

(* The writes of the profiles are one for each person, in some order.      *)
LEMMA ProfileOrder ==
    ASSUME NEW P \in SUBSET Persons, IsFiniteSet(Persons)
    PROVE  LET s == SetToSeq({ProfileKey(p) : p \in P})
           IN  /\ s \in Seq(Keys)
               /\ \A i \in 1..Len(s) : s[i] \notin JobKeys
               /\ \A p \in P : \E i \in 1..Len(s) : s[i] = ProfileKey(p)
<1> DEFINE S == {ProfileKey(p) : p \in P}
           n == Cardinality(S)
           s == SetToSeq(S)
           of == [p \in P |-> ProfileKey(p)]
<1>1. IsFiniteSet(P)
  BY FS_Subset
<1>2. of \in Surjection(P, S)
  BY DEF Surjection
<1>3. IsFiniteSet(S)
  BY <1>1, <1>2, FS_Surjection
<1> HIDE DEF S
<1>4. n \in Nat /\ ExistsBijection(1..n, S)
  BY <1>3, FS_CardinalityType
<1>5. \E f \in [1..n -> S] : IsInjective(f)
  BY <1>4 DEF ExistsBijection, Bijection, Injection
<1>6. s \in [1..n -> S] /\ IsInjective(s)
  BY <1>5 DEF SetToSeq
<1>7. s \in Injection(1..n, S)
  BY <1>6 DEF Injection
<1>8. Cardinality(1..n) = n
  BY <1>4, FS_Interval
<1>9. s \in Surjection(1..n, S)
  BY <1>3, <1>7, <1>8, FS_Injection
<1> HIDE DEF s
<1>10. s \in Seq(S) /\ Len(s) = n
  BY <1>4, <1>6, IsASeq
<1>11. S \subseteq Keys /\ \A k \in S : k \notin JobKeys
  BY ProfileKeyFacts DEF S
<1>12. s \in Seq(Keys)
  BY <1>10, <1>11, SeqMonotonic
<1>13. \A i \in 1..Len(s) : s[i] \notin JobKeys
  BY <1>6, <1>10, <1>11
<1>14. \A p \in P : \E i \in 1..Len(s) : s[i] = ProfileKey(p)
  BY <1>9, <1>10 DEF Surjection, S
<1> QED
  BY <1>12, <1>13, <1>14 DEF s, S

(* The two job records are named by the options of the run.                *)
LEMMA JobOrder ==
    ASSUME NEW c \in Runs, run[c].opts \in Options
    PROVE  /\ JobWrites(c) \in Seq(Keys)
           /\ JobWrites(c) # << >>
           /\ Len(JobWrites(c)) = 2
           /\ JobWrites(c)[1] \in JobKeys /\ JobWrites(c)[2] \in JobKeys
BY ProfileKeyFacts DEF JobWrites

(* A generation writes each profile it lists before it completes the job.  *)
LEMMA WriteOrder ==
    ASSUME NEW c \in Runs, run[c].opts \in Options,
           NEW P \in SUBSET Persons, IsFiniteSet(Persons)
    PROVE  LET w == ProfileWrites(c, P)
           IN  /\ w \in Seq(Keys)
               /\ w # << >>
               /\ \A i \in 1..Len(w) :
                     w[i] \in JobKeys =>
                         \A p \in P : \E j \in 1..(i - 1) : w[j] = ProfileKey(p)
<1> DEFINE b == <<BatchProfiles>>
           s == SetToSeq({ProfileKey(p) : p \in P})
           t == JobWrites(c)
           w == (b \o s) \o t
<1>1. /\ s \in Seq(Keys)
      /\ \A i \in 1..Len(s) : s[i] \notin JobKeys
      /\ \A p \in P : \E i \in 1..Len(s) : s[i] = ProfileKey(p)
  BY ProfileOrder
<1>2. t \in Seq(Keys) /\ Len(t) = 2
  BY JobOrder
<1>3. b \in Seq(Keys) /\ Len(b) = 1 /\ b[1] = BatchProfiles
  BY ProfileKeyFacts
<1> HIDE DEF b, s, t
<1>4. /\ b \o s \in Seq(Keys) /\ Len(b \o s) = 1 + Len(s)
      /\ \A i \in 1..(1 + Len(s)) : (b \o s)[i] = IF i <= 1 THEN b[i] ELSE s[i - 1]
  <2>1. /\ b \o s \in Seq(Keys) /\ Len(b \o s) = Len(b) + Len(s)
        /\ \A i \in 1..(Len(b) + Len(s)) :
              (b \o s)[i] = IF i <= Len(b) THEN b[i] ELSE s[i - Len(b)]
    BY <1>1, <1>3, ConcatProperties, Zenon
  <2> QED
    BY <1>3, <2>1
<1>5. /\ w \in Seq(Keys) /\ Len(w) = 3 + Len(s)
      /\ \A i \in 1..(3 + Len(s)) :
            w[i] = IF i <= 1 + Len(s) THEN (b \o s)[i] ELSE t[i - (1 + Len(s))]
  <2>1. /\ w \in Seq(Keys) /\ Len(w) = Len(b \o s) + Len(t)
        /\ \A i \in 1..(Len(b \o s) + Len(t)) :
              w[i] = IF i <= Len(b \o s) THEN (b \o s)[i] ELSE t[i - Len(b \o s)]
    <3>1. b \o s \in Seq(Keys) /\ t \in Seq(Keys)
      BY <1>2, <1>4
    <3> QED
      BY <3>1, ConcatProperties, ZenonT(30)
  <2>2. Len(s) \in Nat /\ Len(b \o s) + Len(t) = 3 + Len(s)
    BY <1>1, <1>2, <1>4, LenProperties
  <2> QED
    BY <1>4, <2>1, <2>2
<1>6. Len(s) \in Nat
  BY <1>1, LenProperties
<1>7. \A i \in 1..(1 + Len(s)) : w[i] = IF i = 1 THEN BatchProfiles ELSE s[i - 1]
  BY <1>3, <1>4, <1>5, <1>6
<1> HIDE DEF w
<1>8. \A i \in 1..Len(w) : w[i] \in JobKeys => i > 1 + Len(s)
  <2> SUFFICES ASSUME NEW i \in 1..Len(w), i <= 1 + Len(s)
               PROVE  w[i] \notin JobKeys
    BY <1>5, <1>6
  <2>1. CASE i = 1
    BY <2>1, <1>6, <1>7, ProfileKeyFacts
  <2>2. CASE i # 1
    <3>1. i - 1 \in 1..Len(s) /\ i \in 1..(1 + Len(s))
      BY <2>2, <1>6
    <3> QED
      BY <2>2, <3>1, <1>1, <1>7
  <2> QED
    BY <2>1, <2>2
<1>9. \A p \in P : \E j \in 1..(1 + Len(s)) : w[j] = ProfileKey(p)
  <2> SUFFICES ASSUME NEW p \in P
               PROVE  \E j \in 1..(1 + Len(s)) : w[j] = ProfileKey(p)
    OBVIOUS
  <2>1. PICK i \in 1..Len(s) : s[i] = ProfileKey(p)
    BY <1>1
  <2>2. i + 1 \in 1..(1 + Len(s)) /\ i + 1 # 1 /\ (i + 1) - 1 = i
    BY <1>6
  <2>3. w[i + 1] = ProfileKey(p)
    BY <1>7, <2>1, <2>2
  <2> QED
    BY <2>2, <2>3
<1>10. \A i \in 1..Len(w) :
          w[i] \in JobKeys => \A p \in P : \E j \in 1..(i - 1) : w[j] = ProfileKey(p)
  BY <1>5, <1>6, <1>8, <1>9
<1>11. w # << >>
  BY <1>5, <1>6
<1>12. w = ProfileWrites(c, P)
  BY DEF w, b, s, t, ProfileWrites
<1> QED
  BY <1>5, <1>10, <1>11, <1>12

(* The records of the runs and of the objects.                             *)
RunRecord ==
    [pc : {"idle", "check", "read", "put", "load"}, opts : Options \cup {"none"},
     source : 0..Sources, phase : {"none", "start", "rest", "failed"},
     status : Statuses \cup {"none"}, built : 0..Sources, profiles : SUBSET Persons,
     todo : Seq(Keys), tag : Nat,
     told : {"none", "existing", "stale", "generated", "notFound", "conflict", "error"}]

ObjectRecord ==
    [tag : Nat, id : Options \cup {"none"}, status : Statuses \cup {"none"},
     source : 0..Sources, built : 0..Sources, profiles : SUBSET Persons]

ProfilesTyping ==
    /\ store \in [Keys -> ObjectRecord]
    /\ docs \in 1..Sources
    /\ run \in [Runs -> RunRecord]
    /\ generations \in 0..MaxGenerations
    /\ mishaps \in 0..MaxMishaps

LEMMA TypedByRecords == ProfilesTypeOK <=> ProfilesTyping
BY DEF ProfilesTypeOK, ProfilesTyping, RunRecord, ObjectRecord

LEMMA ProfilesInitInv == ProfilesInit => ProfilesInv
<1> SUFFICES ASSUME ProfilesInit PROVE ProfilesInv
  OBVIOUS
<1> USE ProfilesAssumption DEF ProfilesInit
<1>1. Absent \in ObjectRecord
  BY DEF Absent, ObjectRecord
<1>2. NoRun \in RunRecord
  BY DEF NoRun, RunRecord
<1>3. ProfilesTyping
  BY <1>1, <1>2 DEF ProfilesTyping
<1>4. \A c \in Runs : RunInv(c)
  BY DEF RunInv, RunShape, TagRead, ProfilesFirst, RunAt, NoRun
<1>5. ProfilesBacked
  BY ProfileKeyFacts DEF ProfilesBacked, Absent, Done
<1> QED
  BY <1>3, <1>4, <1>5, TypedByRecords DEF ProfilesInv

-----------------------------------------------------------------------------
(* What a step does to the run that takes it, and to the objects.          *)

(* A run that ends, or breaks, is of its type and keeps the invariant.     *)
LEMMA EndsTyped ==
    ASSUME ProfilesTyping, NEW c \in Runs,
           NEW what \in {"none", "existing", "stale", "generated", "notFound",
                         "conflict", "error"},
           RunEnds(c, what)
    PROVE  /\ run' \in [Runs -> RunRecord]
           /\ \A d \in Runs : d # c => run'[d] = run[d]
           /\ RunInv(c)'
<1>1. run' = [run EXCEPT ![c] = [NoRun EXCEPT !.opts = run[c].opts, !.told = what]]
  BY DEF RunEnds
<1>2. [NoRun EXCEPT !.opts = run[c].opts, !.told = what] \in RunRecord
  <2>1. NoRun \in RunRecord
    BY ProfilesAssumption DEF RunRecord, NoRun
  <2>2. run[c].opts \in Options \cup {"none"}
    BY DEF ProfilesTyping, RunRecord
  <2> QED
    BY <2>1, <2>2 DEF RunRecord
<1>3. run' \in [Runs -> RunRecord] /\ \A d \in Runs : d # c => run'[d] = run[d]
  BY <1>1, <1>2 DEF ProfilesTyping
<1>4. /\ run'[c].pc = "idle" /\ run'[c].phase = "none"
  BY <1>1 DEF ProfilesTyping, NoRun
<1>5. RunInv(c)'
  BY <1>4 DEF RunInv, RunShape, TagRead, ProfilesFirst, RunAt
<1> QED
  BY <1>3, <1>5

LEMMA BreaksTyped ==
    ASSUME ProfilesTyping, NEW c \in Runs, RunShape(c), ~RunAt(c, "idle"), Breaks(c)
    PROVE  /\ run' \in [Runs -> RunRecord]
           /\ \A d \in Runs : d # c => run'[d] = run[d]
           /\ RunInv(c)'
<1>1. CASE run[c].phase # "rest"
  <2>1. RunEnds(c, "error")
    BY <1>1 DEF Breaks
  <2> QED
    BY <2>1, EndsTyped
<1>2. CASE run[c].phase = "rest"
  <2>1. run' = [run EXCEPT ![c].pc = "read", ![c].phase = "failed",
                           ![c].status = "FAILED", ![c].todo = JobWrites(c)]
    BY <1>2 DEF Breaks
  <2>2. run[c].opts \in Options /\ run[c].source \in 1..Sources /\ run[c] \in RunRecord
    BY DEF RunShape, ProfilesTyping
  <2>3. JobWrites(c) \in Seq(Keys) /\ JobWrites(c) # << >>
    BY <2>2, JobOrder
  <2>4. /\ run' = [run EXCEPT ![c] = run'[c]]
        /\ run'[c] = [run[c] EXCEPT !.pc = "read", !.phase = "failed",
                                    !.status = "FAILED", !.todo = JobWrites(c)]
    BY <2>1 DEF ProfilesTyping
  <2>5. run'[c] \in RunRecord
    BY <2>2, <2>3, <2>4 DEF RunRecord, Statuses
  <2>6. run' \in [Runs -> RunRecord] /\ \A d \in Runs : d # c => run'[d] = run[d]
    BY <2>4, <2>5 DEF ProfilesTyping
  <2>7. /\ run'[c].pc = "read" /\ run'[c].phase = "failed" /\ run'[c].status = "FAILED"
        /\ run'[c].todo # << >> /\ run'[c].opts = run[c].opts
        /\ run'[c].source = run[c].source
    BY <2>2, <2>3, <2>4 DEF RunRecord
  <2>8. RunInv(c)'
    BY <2>2, <2>7 DEF RunInv, RunShape, TagRead, ProfilesFirst, RunAt, Done
  <2> QED
    BY <2>6, <2>8
<1> QED
  BY <1>1, <1>2

(* The objects stay, or one of them is written over by its next version.   *)
WritesOver(c, k) == store' = [store EXCEPT ![k] = Object(c, @.tag + 1)]

LEMMA TagsGrow ==
    ASSUME ProfilesTyping, NEW c \in Runs,
           store' = store \/ \E k \in Keys : WritesOver(c, k)
    PROVE  /\ store' \in [Keys -> ObjectRecord]
           /\ \A k \in Keys :
                 /\ store[k].tag \in Nat
                 /\ store'[k] = store[k] \/ store'[k].tag = store[k].tag + 1
                 /\ store[k].tag # 0 => store'[k].tag # 0
<1>1. CASE store' = store
  BY <1>1 DEF ProfilesTyping, ObjectRecord
<1>2. CASE \E k \in Keys : WritesOver(c, k)
  <2>1. PICK k \in Keys : WritesOver(c, k)
    BY <1>2
  <2>2. store' = [store EXCEPT ![k] = Object(c, store[k].tag + 1)]
    BY <2>1 DEF WritesOver, ProfilesTyping
  <2>3. store \in [Keys -> ObjectRecord] /\ store[k].tag \in Nat /\ run[c] \in RunRecord
    BY DEF ProfilesTyping, ObjectRecord
  <2>4. Object(c, store[k].tag + 1) \in ObjectRecord /\ Object(c, store[k].tag + 1).tag = store[k].tag + 1
    BY <2>3 DEF Object, ObjectRecord, RunRecord
  <2>5. \A x \in Keys : store[x].tag \in Nat
    BY <2>3 DEF ObjectRecord
  <2> HIDE DEF Object
  <2>6. store' \in [Keys -> ObjectRecord] /\ store'[k].tag = store[k].tag + 1
        /\ \A x \in Keys : x # k => store'[x] = store[x]
    BY <2>2, <2>3, <2>4
  <2> QED
    BY <2>3, <2>5, <2>6
<1> QED
  BY <1>1, <1>2

(* A run keeps its invariant while another one takes a step.               *)
LEMMA OthersKeep ==
    ASSUME ProfilesTyping, NEW c \in Runs, NEW d \in Runs, RunInv(d), run'[d] = run[d],
           store' = store \/ \E k \in Keys : WritesOver(c, k)
    PROVE  RunInv(d)'
<1>1. \A k \in Keys :
          /\ store[k].tag \in Nat
          /\ store'[k] = store[k] \/ store'[k].tag = store[k].tag + 1
          /\ store[k].tag # 0 => store'[k].tag # 0
  BY TagsGrow
<1>2. run[d] \in RunRecord /\ run[d].tag \in Nat /\ run[d].todo \in Seq(Keys)
      /\ run[d].profiles \subseteq Persons
  BY DEF ProfilesTyping, RunRecord
<1>3. RunShape(d)'
  BY DEF RunInv, RunShape, RunAt
<1>4. TagRead(d)'
  <2> SUFFICES ASSUME run[d].pc = "put"
               PROVE  TagRead(d)'
    BY DEF TagRead, RunAt
  <2>1. run[d].todo # << >>
    BY DEF RunInv, RunShape
  <2>2. Head(run[d].todo) \in Keys
    BY <1>2, <2>1, HeadTailProperties
  <2> DEFINE k == Head(run[d].todo)
  <2>3. run[d].tag <= store[k].tag
        /\ (store[k].tag = run[d].tag => IsOwn(d, k, store[k]))
    BY DEF RunInv, TagRead, RunAt
  <2>4. run'[d].tag <= store'[k].tag
        /\ (store'[k].tag = run'[d].tag => store'[k] = store[k])
    BY SMTT(30), <1>1, <1>2, <2>2, <2>3
  <2>5. store'[k].tag = run'[d].tag => IsOwn(d, k, store[k])'
    BY <2>3, <2>4 DEF IsOwn, JobKeys
  <2> QED
    BY <2>4, <2>5 DEF TagRead
<1>5. ProfilesFirst(d)'
  BY SMTT(30), <1>1, <1>2, ProfileKeyFacts DEF RunInv, ProfilesFirst, Precedes
<1> QED
  BY <1>3, <1>4, <1>5 DEF RunInv

(* What a step of a run has to do for the invariant to hold after it.      *)
LEMMA RunStepKeeps ==
    ASSUME ProfilesInv, NEW c \in Runs,
           store' = store \/ \E k \in Keys : WritesOver(c, k),
           docs' = docs,
           run' \in [Runs -> RunRecord],
           \A d \in Runs : d # c => run'[d] = run[d],
           generations' \in 0..MaxGenerations,
           mishaps' \in 0..MaxMishaps,
           RunInv(c)',
           ProfilesBacked'
    PROVE  ProfilesInv'
<1>1. ProfilesTyping
  BY TypedByRecords DEF ProfilesInv
<1>2. ProfilesTyping'
  BY <1>1, TagsGrow DEF ProfilesTyping
<1>3. \A d \in Runs : RunInv(d)'
  <2> SUFFICES ASSUME NEW d \in Runs, d # c PROVE RunInv(d)'
    OBVIOUS
  <2>1. RunInv(d) /\ run'[d] = run[d]
    BY DEF ProfilesInv
  <2> QED
    BY <1>1, <2>1, OthersKeep
<1>4. ProfilesTypeOK <=> ProfilesTyping
  BY TypedByRecords
<1>5. ProfilesTypeOK'
  BY <1>2, <1>4, TypedByRecords, PTL
<1> QED
  BY <1>3, <1>5 DEF ProfilesInv

(* Profiles that can be opened stay so while no job record is written.     *)
LEMMA BackedKept ==
    ASSUME ProfilesInv, store' = store
    PROVE  ProfilesBacked'
BY DEF ProfilesInv, ProfilesBacked

LEMMA BeginRunKeeps ==
    ASSUME ProfilesInv, NEW c \in Runs, BeginRun(c)
    PROVE  ProfilesInv'
<1>1. ProfilesTyping
  BY TypedByRecords DEF ProfilesInv
<1>2. PICK o \in Options :
          run' = [run EXCEPT ![c] = [NoRun EXCEPT !.pc = "check", !.opts = o, !.source = docs]]
  BY DEF BeginRun
<1>3. [NoRun EXCEPT !.pc = "check", !.opts = o, !.source = docs] \in RunRecord
  <2>1. NoRun \in RunRecord
    BY ProfilesAssumption DEF RunRecord, NoRun
  <2>2. docs \in 0..Sources
    BY <1>1, ProfilesAssumption DEF ProfilesTyping
  <2> QED
    BY <2>1, <2>2 DEF RunRecord
<1>4. run' \in [Runs -> RunRecord] /\ \A d \in Runs : d # c => run'[d] = run[d]
  BY <1>1, <1>2, <1>3 DEF ProfilesTyping
<1>5. /\ run'[c].pc = "check" /\ run'[c].opts = o /\ run'[c].source = docs
      /\ run'[c].phase = "none" /\ run'[c].profiles = {}
  BY <1>1, <1>2 DEF ProfilesTyping, NoRun
<1>6. RunInv(c)'
  BY <1>1, <1>5 DEF RunInv, RunShape, TagRead, ProfilesFirst, RunAt, ProfilesTyping
<1>7. UNCHANGED <<store, docs, generations, mishaps>>
  BY DEF BeginRun
<1> QED
  BY <1>1, <1>4, <1>6, <1>7, RunStepKeeps, BackedKept DEF ProfilesTyping

LEMMA CheckExistingKeeps ==
    ASSUME ProfilesInv, NEW c \in Runs, CheckExisting(c)
    PROVE  ProfilesInv'
<1>1. ProfilesTyping /\ RunShape(c) /\ run[c].pc = "check"
  BY TypedByRecords DEF ProfilesInv, RunInv, CheckExisting, RunAt
<1>2. store' = store /\ docs' = docs /\ ProfilesBacked'
  BY BackedKept DEF CheckExisting
<1>3. CASE \E what \in {"existing", "stale"} :
              RunEnds(c, what) /\ UNCHANGED <<generations, mishaps>>
  BY <1>1, <1>2, <1>3, EndsTyped, RunStepKeeps DEF ProfilesTyping
<1>4. CASE Mishap /\ RunEnds(c, "error") /\ UNCHANGED generations
  <2>1. mishaps' \in 0..MaxMishaps
    BY <1>1, <1>4, ProfilesAssumption DEF ProfilesTyping, Mishap
  <2> QED
    BY <1>1, <1>2, <1>4, <2>1, EndsTyped, RunStepKeeps DEF ProfilesTyping
<1>5. CASE /\ generations < MaxGenerations
           /\ generations' = generations + 1
           /\ run' = [run EXCEPT ![c].pc = "read", ![c].phase = "start",
                                 ![c].status = "RUNNING", ![c].todo = JobWrites(c)]
           /\ UNCHANGED mishaps
  <2>1. /\ run' = [run EXCEPT ![c] = run'[c]]
        /\ run'[c] = [run[c] EXCEPT !.pc = "read", !.phase = "start",
                                    !.status = "RUNNING", !.todo = JobWrites(c)]
    BY <1>1, <1>5 DEF ProfilesTyping
  <2>2. run[c].opts \in Options /\ run[c].source \in 1..Sources /\ run[c] \in RunRecord
        /\ run[c].profiles = {}
    BY <1>1 DEF RunShape, ProfilesTyping, RunAt
  <2>3. JobWrites(c) \in Seq(Keys) /\ JobWrites(c) # << >>
    BY <2>2, JobOrder
  <2>4. run'[c] \in RunRecord
    BY <2>1, <2>2, <2>3 DEF RunRecord, Statuses
  <2>5. run' \in [Runs -> RunRecord] /\ \A d \in Runs : d # c => run'[d] = run[d]
    BY <1>1, <2>1, <2>4 DEF ProfilesTyping
  <2>6. /\ run'[c].pc = "read" /\ run'[c].status = "RUNNING" /\ run'[c].profiles = {}
        /\ run'[c].todo # << >> /\ run'[c].opts = run[c].opts
        /\ run'[c].source = run[c].source
    BY <2>1, <2>2, <2>3 DEF RunRecord
  <2>7. RunInv(c)'
    BY <2>2, <2>6 DEF RunInv, RunShape, TagRead, ProfilesFirst, RunAt, Done
  <2>8. generations' \in 0..MaxGenerations
    BY <1>1, <1>5, ProfilesAssumption DEF ProfilesTyping
  <2> QED
    BY <1>1, <1>2, <1>5, <2>5, <2>7, <2>8, RunStepKeeps DEF ProfilesTyping
<1> QED
  BY <1>3, <1>4, <1>5 DEF CheckExisting

LEMMA ReadVersionKeeps ==
    ASSUME ProfilesInv, NEW c \in Runs, ReadVersion(c)
    PROVE  ProfilesInv'
<1>1. /\ ProfilesTyping /\ RunInv(c) /\ RunShape(c) /\ run[c].pc = "read"
      /\ ~RunAt(c, "idle")
  BY TypedByRecords DEF ProfilesInv, RunInv, ReadVersion, RunAt
<1>2. store' = store /\ docs' = docs /\ generations' = generations /\ ProfilesBacked'
  BY BackedKept DEF ReadVersion
<1> DEFINE k == Head(run[c].todo)
<1>3. run[c] \in RunRecord /\ run[c].todo \in Seq(Keys) /\ run[c].todo # << >>
  BY <1>1 DEF RunShape, ProfilesTyping, RunRecord
<1>4. k \in Keys /\ store[k].tag \in Nat
  BY <1>1, <1>3, HeadTailProperties DEF ProfilesTyping, ObjectRecord
<1>5. CASE /\ IsOwn(c, k, store[k])
           /\ run' = [run EXCEPT ![c].pc = "put", ![c].tag = store[k].tag]
           /\ UNCHANGED mishaps
  <2>1. /\ run' = [run EXCEPT ![c] = run'[c]]
        /\ run'[c] = [run[c] EXCEPT !.pc = "put", !.tag = store[k].tag]
    BY <1>1, <1>5 DEF ProfilesTyping
  <2>2. run'[c] \in RunRecord
    BY <1>3, <1>4, <2>1 DEF RunRecord
  <2>3. run' \in [Runs -> RunRecord] /\ \A d \in Runs : d # c => run'[d] = run[d]
    BY <1>1, <2>1, <2>2 DEF ProfilesTyping
  <2>4. /\ run'[c].pc = "put" /\ run'[c].tag = store[k].tag
        /\ run'[c].status = run[c].status /\ run'[c].profiles = run[c].profiles
        /\ run'[c].todo = run[c].todo /\ run'[c].opts = run[c].opts
        /\ run'[c].source = run[c].source /\ run'[c].phase = run[c].phase
    BY <1>3, <2>1 DEF RunRecord
  <2>5. RunShape(c)'
    BY <1>1, <1>3, <2>4 DEF RunShape, RunAt
  <2>6. TagRead(c)'
    <3>1. IsOwn(c, k, store[k])'
      BY <1>2, <1>5, <2>4 DEF IsOwn, JobKeys
    <3> QED
      BY <1>2, <1>4, <2>4, <3>1 DEF TagRead
  <2>7. ProfilesFirst(c)'
    BY <1>1, <1>2, <2>4 DEF RunInv, ProfilesFirst, Precedes
  <2> QED
    BY <1>1, <1>2, <1>5, <2>3, <2>5, <2>6, <2>7, RunStepKeeps DEF ProfilesTyping, RunInv
<1>6. CASE RunEnds(c, "notFound") /\ UNCHANGED mishaps
  BY <1>1, <1>2, <1>6, EndsTyped, RunStepKeeps DEF ProfilesTyping
<1>7. CASE Mishap /\ Breaks(c)
  <2>1. mishaps' \in 0..MaxMishaps
    BY <1>1, <1>7, ProfilesAssumption DEF ProfilesTyping, Mishap
  <2> QED
    BY <1>1, <1>2, <1>7, <2>1, BreaksTyped, RunStepKeeps DEF ProfilesTyping
<1> QED
  BY <1>5, <1>6, <1>7 DEF ReadVersion

(* A job record that says the job is done is written after the profiles    *)
(* that it lists.                                                          *)
LEMMA WrittenBacked ==
    ASSUME ProfilesInv, NEW c \in Runs, run[c].pc = "put",
           WritesOver(c, Head(run[c].todo))
    PROVE  ProfilesBacked'
<1> DEFINE k == Head(run[c].todo)
<1>1. ProfilesTyping /\ RunInv(c)
  BY TypedByRecords DEF ProfilesInv
<1>2. run[c] \in RunRecord /\ run[c].todo \in Seq(Keys) /\ run[c].todo # << >>
      /\ run[c].profiles \subseteq Persons
  BY <1>1 DEF RunInv, RunShape, ProfilesTyping, RunRecord
<1>3. k \in Keys /\ k = run[c].todo[1] /\ 1 \in 1..Len(run[c].todo)
  BY <1>2, HeadTailProperties, LenProperties, EmptySeq
<1>4. /\ store[k].tag \in Nat
      /\ \A x \in Keys : store[x].tag # 0 => store'[x].tag # 0
  BY <1>1, <1>3, TagsGrow
<1>5. store' = [store EXCEPT ![k] = Object(c, store[k].tag + 1)]
  BY <1>1, <1>3 DEF WritesOver, ProfilesTyping
<1>6. /\ store'[k].status = run[c].status /\ store'[k].profiles = run[c].profiles
      /\ \A x \in Keys : x # k => store'[x] = store[x]
  BY <1>1, <1>3, <1>5 DEF Object, ProfilesTyping
<1> SUFFICES ASSUME NEW x \in JobKeys, store'[x].status \in Done,
                    NEW p \in store'[x].profiles
             PROVE  store'[ProfileKey(p)].tag # 0
  BY DEF ProfilesBacked, JobKeys
<1>7. x \in Keys
  BY ProfileKeyFacts
<1>8. CASE x = k
  <2>1. ProfilesFirst(c) /\ run[c].status \in Done /\ p \in run[c].profiles
    BY <1>1, <1>6, <1>8 DEF RunInv
  <2>2. \/ store[ProfileKey(p)].tag # 0
        \/ \E j \in 1..(1 - 1) : run[c].todo[j] = ProfileKey(p)
    BY <1>3, <1>8, <2>1 DEF ProfilesFirst, Precedes
  <2> QED
    BY <1>2, <1>4, <2>1, <2>2, ProfileKeyFacts
<1>9. CASE x # k
  <2>1. store[x].status \in Done /\ p \in store[x].profiles /\ p \in Persons
    BY <1>1, <1>6, <1>7, <1>9 DEF ProfilesTyping, ObjectRecord
  <2> QED
    BY <1>4, <2>1, ProfileKeyFacts DEF ProfilesInv, ProfilesBacked
<1> QED
  BY <1>8, <1>9

(* What is left to write after the head was written.                       *)
LEMMA TailPrecedes ==
    ASSUME ProfilesTyping, NEW c \in Runs, run[c].todo # << >>, Len(run[c].todo) > 1,
           WritesOver(c, Head(run[c].todo)), Precedes(c, run[c].todo),
           run'[c].profiles = run[c].profiles,
           run'[c].todo = Tail(run[c].todo)
    PROVE  Precedes(c, run[c].todo)' /\ run'[c].todo # << >>
<1> DEFINE s == run[c].todo
           k == Head(s)
<1>1. s \in Seq(Keys) /\ run[c].profiles \subseteq Persons
  BY DEF ProfilesTyping, RunRecord
<1>2. /\ k \in Keys /\ k = s[1]
      /\ Tail(s) \in Seq(Keys) /\ Len(Tail(s)) = Len(s) - 1
      /\ \A i \in 1..Len(Tail(s)) : Tail(s)[i] = s[i + 1]
      /\ Len(s) \in Nat
  BY <1>1, HeadTailProperties, LenProperties
<1>3. /\ \A x \in Keys : store[x].tag # 0 => store'[x].tag # 0
      /\ store'[k].tag # 0
  <2>1. \A x \in Keys : store[x].tag \in Nat /\ (store[x].tag # 0 => store'[x].tag # 0)
    BY <1>2, TagsGrow
  <2>2. store'[k] = Object(c, store[k].tag + 1)
    BY <1>2 DEF WritesOver, ProfilesTyping
  <2> QED
    BY <1>2, <2>1, <2>2 DEF Object
<1>0. run'[c].todo # << >>
  <2>1. ASSUME Tail(s) = << >>
        PROVE  FALSE
    <3>1. Len(Tail(s)) = 0
      BY <2>1, EmptySeq, Zenon
    <3>2. Len(Tail(s)) = Len(s) - 1 /\ Len(s) \in Nat /\ Len(s) > 1
      BY <1>2
    <3>3. \A m, n : ~(m = 0 /\ m = n - 1 /\ n \in Nat /\ n > 1)
      OBVIOUS
    <3> QED
      BY <3>1, <3>2, <3>3, Zenon
  <2> QED
    BY <2>1
<1> SUFFICES ASSUME NEW i \in 1..Len(Tail(s)), Tail(s)[i] \in JobKeys,
                    NEW p \in run[c].profiles
             PROVE  \/ store'[ProfileKey(p)].tag # 0
                    \/ \E j \in 1..(i - 1) : Tail(s)[j] = ProfileKey(p)
  BY <1>0 DEF Precedes
<1>4. i + 1 \in 1..Len(s) /\ s[i + 1] \in JobKeys
  BY <1>2
<1>5. \/ store[ProfileKey(p)].tag # 0
      \/ \E j \in 1..i : s[j] = ProfileKey(p)
  BY <1>4, (i + 1) - 1 = i DEF Precedes
<1>6. CASE store[ProfileKey(p)].tag # 0
  BY <1>1, <1>3, <1>6, ProfileKeyFacts
<1>7. CASE \E j \in 1..i : s[j] = ProfileKey(p)
  <2>1. PICK j \in 1..i : s[j] = ProfileKey(p)
    BY <1>7
  <2>2. CASE j = 1
    BY <1>2, <1>3, <2>1, <2>2
  <2>3. CASE j # 1
    <3>1. j - 1 \in 1..(i - 1) /\ j - 1 \in 1..Len(Tail(s)) /\ (j - 1) + 1 = j
      BY <1>2, <2>3
    <3>2. Tail(s)[j - 1] = ProfileKey(p)
      BY <1>2, <2>1, <3>1
    <3> QED
      BY <3>1, <3>2
  <2> QED
    BY <2>2, <2>3
<1> QED
  BY <1>5, <1>6, <1>7

(* What a run does after a write.                                          *)
LEMMA ProceedsTyped ==
    ASSUME ProfilesTyping, NEW c \in Runs, RunInv(c), run[c].pc = "put",
           WritesOver(c, Head(run[c].todo)), Proceeds(c)
    PROVE  /\ run' \in [Runs -> RunRecord]
           /\ \A d \in Runs : d # c => run'[d] = run[d]
           /\ RunInv(c)'
<1>1. /\ run[c] \in RunRecord /\ run[c].todo \in Seq(Keys) /\ run[c].todo # << >>
      /\ run[c].opts \in Options /\ run[c].source \in 1..Sources
  BY DEF RunInv, RunShape, ProfilesTyping, RunRecord, RunAt
<1>2. CASE Len(run[c].todo) > 1
  <2>1. /\ run' = [run EXCEPT ![c] = run'[c]]
        /\ run'[c] = [run[c] EXCEPT !.pc = "read", !.todo = Tail(run[c].todo)]
    BY <1>2 DEF Proceeds, ProfilesTyping
  <2>2. Tail(run[c].todo) \in Seq(Keys)
    BY <1>1, HeadTailProperties
  <2>3. run'[c] \in RunRecord
    BY <1>1, <2>1, <2>2 DEF RunRecord
  <2>4. run' \in [Runs -> RunRecord] /\ \A d \in Runs : d # c => run'[d] = run[d]
    BY <2>1, <2>3 DEF ProfilesTyping
  <2>5. /\ run'[c].pc = "read" /\ run'[c].todo = Tail(run[c].todo)
        /\ run'[c].opts = run[c].opts /\ run'[c].source = run[c].source
        /\ run'[c].phase = run[c].phase /\ run'[c].status = run[c].status
        /\ run'[c].profiles = run[c].profiles
    BY <1>1, <2>1, <2>2 DEF RunRecord
  <2>6. run'[c].todo # << >>
    <3>1. Len(run[c].todo) \in Nat
      BY <1>1, LenProperties
    <3>2. ASSUME Tail(run[c].todo) = << >> PROVE FALSE
      <4>1. Len(Tail(run[c].todo)) = 0
        BY <3>2, EmptySeq, Zenon
      <4>2. Len(Tail(run[c].todo)) = Len(run[c].todo) - 1
        BY <1>1, HeadTailProperties
      <4>3. \A m, n : ~(m = 0 /\ m = n - 1 /\ n \in Nat /\ n > 1)
        OBVIOUS
      <4> QED
        BY <1>2, <3>1, <4>1, <4>2, <4>3, Zenon
    <3> QED
      BY <2>5, <3>2
  <2>7. RunShape(c)' /\ TagRead(c)'
    BY <1>1, <2>5, <2>6 DEF RunInv, RunShape, RunAt, TagRead
  <2>8. ProfilesFirst(c)'
    <3>1. CASE run[c].status \in Done
      <4>1. Precedes(c, run[c].todo)
        BY <3>1 DEF RunInv, ProfilesFirst
      <4> QED
        BY <1>1, <1>2, <2>5, <4>1, TailPrecedes DEF ProfilesFirst
    <3>2. CASE run[c].status \notin Done
      BY <2>5, <3>2 DEF ProfilesFirst, Done
    <3> QED
      BY <3>1, <3>2
  <2> QED
    BY <2>4, <2>7, <2>8 DEF RunInv
<1>3. CASE ~(Len(run[c].todo) > 1) /\ run[c].phase = "start"
  <2>1. run' = [run EXCEPT ![c].pc = "load", ![c].phase = "rest", ![c].todo = << >>]
    BY <1>3 DEF Proceeds
  <2>2. /\ run' = [run EXCEPT ![c] = run'[c]]
        /\ run'[c] = [run[c] EXCEPT !.pc = "load", !.phase = "rest", !.todo = << >>]
    BY <2>1 DEF ProfilesTyping
  <2>3. << >> \in Seq(Keys)
    BY EmptySeq
  <2>4. run'[c] \in RunRecord
    BY <1>1, <2>2, <2>3 DEF RunRecord
  <2>5. run' \in [Runs -> RunRecord] /\ \A d \in Runs : d # c => run'[d] = run[d]
    BY <2>2, <2>4 DEF ProfilesTyping
  <2>6. run[c].profiles = {}
    BY <1>3 DEF RunInv, RunShape
  <2>7. /\ run'[c].pc = "load" /\ run'[c].phase = "rest" /\ run'[c].profiles = {}
        /\ run'[c].opts = run[c].opts /\ run'[c].source = run[c].source
    BY <1>1, <2>2, <2>6 DEF RunRecord
  <2>8. RunInv(c)'
    BY <1>1, <2>7 DEF RunInv, RunShape, RunAt, TagRead, ProfilesFirst
  <2> QED
    BY <2>5, <2>8
<1>4. CASE ~(Len(run[c].todo) > 1) /\ run[c].phase # "start"
  <2>1. \E what \in {"generated", "error"} : RunEnds(c, what)
    BY <1>4 DEF Proceeds
  <2> QED
    BY <2>1, EndsTyped
<1> QED
  BY <1>2, <1>3, <1>4

LEMMA PutKeeps ==
    ASSUME ProfilesInv, NEW c \in Runs, Put(c)
    PROVE  ProfilesInv'
<1> DEFINE k == Head(run[c].todo)
<1>1. /\ ProfilesTyping /\ RunInv(c) /\ RunShape(c) /\ run[c].pc = "put"
      /\ ~RunAt(c, "idle")
  BY TypedByRecords DEF ProfilesInv, RunInv, Put, RunAt
<1>2. docs' = docs /\ generations' = generations
  BY DEF Put
<1>3. run[c].todo \in Seq(Keys) /\ run[c].todo # << >>
  BY <1>1 DEF RunShape, ProfilesTyping, RunRecord
<1>4. k \in Keys
  BY <1>3, HeadTailProperties
<1>5. mishaps' \in 0..MaxMishaps
  BY <1>1, ProfilesAssumption DEF Put, Mishap, ProfilesTyping
<1>6. CASE WritesOver(c, k) /\ (Proceeds(c) \/ RunEnds(c, "conflict") \/ Breaks(c))
  <2>1. ProfilesBacked'
    BY <1>1, <1>6, WrittenBacked
  <2>2. /\ run' \in [Runs -> RunRecord]
        /\ \A d \in Runs : d # c => run'[d] = run[d]
        /\ RunInv(c)'
    BY <1>1, <1>6, ProceedsTyped, EndsTyped, BreaksTyped
  <2> QED
    BY <1>1, <1>2, <1>4, <1>5, <1>6, <2>1, <2>2, RunStepKeeps DEF ProfilesTyping
<1>7. CASE store' = store /\ (RunEnds(c, "conflict") \/ Breaks(c))
  <2>1. ProfilesBacked'
    BY <1>7, BackedKept
  <2>2. /\ run' \in [Runs -> RunRecord]
        /\ \A d \in Runs : d # c => run'[d] = run[d]
        /\ RunInv(c)'
    BY SMTT(30), <1>1, <1>7, EndsTyped, BreaksTyped
  <2> QED
    BY <1>1, <1>2, <1>5, <1>7, <2>1, <2>2, RunStepKeeps DEF ProfilesTyping
<1> QED
  BY <1>6, <1>7 DEF Put, WritesOver

LEMMA LoadArtifactsKeeps ==
    ASSUME ProfilesInv, NEW c \in Runs, LoadArtifacts(c)
    PROVE  ProfilesInv'
<1> DEFINE people == Eligible[run[c].opts][run[c].source]
<1>1. /\ ProfilesTyping /\ RunInv(c) /\ RunShape(c) /\ run[c].pc = "load"
      /\ ~RunAt(c, "idle")
  BY ZenonT(60), TypedByRecords DEF ProfilesInv, RunInv, LoadArtifacts, RunAt
<1>2. store' = store /\ docs' = docs /\ generations' = generations /\ ProfilesBacked'
  BY ZenonT(40), BackedKept DEF LoadArtifacts
<1>3. /\ run[c] \in RunRecord /\ run[c].opts \in Options /\ run[c].source \in 1..Sources
      /\ run[c].profiles = {}
  BY <1>1 DEF RunShape, RunAt, ProfilesTyping
<1>4. people \subseteq Persons /\ run[c].source \in 0..Sources /\ docs \in 0..Sources
  BY <1>1, <1>3, ProfilesAssumption DEF ProfilesTyping
<1>5. CASE /\ run' = [run EXCEPT ![c].pc = "read", ![c].status = "COMPLETED",
                                 ![c].built = run[c].source,
                                 ![c].todo = Append(JobWrites(c), BatchProfiles)]
           /\ UNCHANGED mishaps
  <2> DEFINE todo == Append(JobWrites(c), BatchProfiles)
  <2>1. todo \in Seq(Keys) /\ todo # << >>
    BY <1>3, JobOrder, ProfileKeyFacts, AppendProperties
  <2> HIDE DEF todo
  <2>2. /\ run' = [run EXCEPT ![c] = run'[c]]
        /\ run'[c] = [run[c] EXCEPT !.pc = "read", !.status = "COMPLETED",
                                    !.built = run[c].source, !.todo = todo]
    BY <1>1, <1>5 DEF ProfilesTyping, todo
  <2>3. run'[c] \in RunRecord
    BY <1>3, <1>4, <2>1, <2>2 DEF RunRecord, Statuses, Done
  <2>4. run' \in [Runs -> RunRecord] /\ \A d \in Runs : d # c => run'[d] = run[d]
    BY <1>1, <2>2, <2>3 DEF ProfilesTyping
  <2>5. /\ run'[c].pc = "read" /\ run'[c].profiles = {} /\ run'[c].todo # << >>
        /\ run'[c].opts = run[c].opts /\ run'[c].source = run[c].source
        /\ run'[c].phase = run[c].phase
    BY <1>3, <2>1, <2>2 DEF RunRecord
  <2>6. RunInv(c)'
    BY <1>3, <2>5 DEF RunInv, RunShape, RunAt, TagRead, ProfilesFirst, Precedes
  <2> QED
    BY <1>1, <1>2, <1>5, <2>4, <2>6, RunStepKeeps DEF ProfilesTyping
<1>6. CASE /\ \E P \in SUBSET people, s \in Done :
                 run' = [run EXCEPT ![c].pc = "read", ![c].status = s, ![c].built = docs,
                                    ![c].profiles = P, ![c].todo = ProfileWrites(c, P)]
           /\ UNCHANGED mishaps
  <2>1. PICK P \in SUBSET people, s \in Done :
           run' = [run EXCEPT ![c].pc = "read", ![c].status = s, ![c].built = docs,
                              ![c].profiles = P, ![c].todo = ProfileWrites(c, P)]
    BY <1>6
  <2> DEFINE todo == ProfileWrites(c, P)
  <2>2. P \in SUBSET Persons
    BY <1>4
  <2>3. /\ todo \in Seq(Keys) /\ todo # << >>
        /\ \A i \in 1..Len(todo) :
              todo[i] \in JobKeys =>
                  \A p \in P : \E j \in 1..(i - 1) : todo[j] = ProfileKey(p)
    BY <1>3, <2>2, WriteOrder, ProfilesAssumption
  <2> HIDE DEF todo
  <2>4. /\ run' = [run EXCEPT ![c] = run'[c]]
        /\ run'[c] = [run[c] EXCEPT !.pc = "read", !.status = s, !.built = docs,
                                    !.profiles = P, !.todo = todo]
    BY <1>1, <2>1 DEF ProfilesTyping, todo
  <2>5. run'[c] \in RunRecord
    BY ZenonT(60), <1>3, <1>4, <2>2, <2>3, <2>4 DEF RunRecord, Statuses
  <2>6. run' \in [Runs -> RunRecord] /\ \A d \in Runs : d # c => run'[d] = run[d]
    BY <1>1, <2>4, <2>5 DEF ProfilesTyping
  <2>7. /\ run'[c].pc = "read" /\ run'[c].profiles = P /\ run'[c].todo = todo
        /\ run'[c].opts = run[c].opts /\ run'[c].source = run[c].source
        /\ run'[c].phase = run[c].phase
    BY <1>3, <2>3, <2>4 DEF RunRecord
  <2>8. run[c].phase # "start"
    BY <1>1 DEF RunShape, RunAt
  <2>9. RunInv(c)'
    BY <1>3, <2>3, <2>7, <2>8 DEF RunInv, RunShape, RunAt, TagRead, ProfilesFirst, Precedes
  <2> QED
    BY ZenonT(30), <1>1, <1>2, <1>6, <2>6, <2>9, RunStepKeeps DEF ProfilesTyping
<1>7. CASE Mishap /\ Breaks(c)
  <2>1. mishaps' \in 0..MaxMishaps
    BY <1>1, <1>7, ProfilesAssumption DEF ProfilesTyping, Mishap
  <2> QED
    BY <1>1, <1>2, <1>7, <2>1, BreaksTyped, RunStepKeeps DEF ProfilesTyping
<1> QED
  BY ZenonT(60), <1>5, <1>6, <1>7 DEF LoadArtifacts

LEMMA RunStopsKeeps ==
    ASSUME ProfilesInv, NEW c \in Runs, RunStops(c)
    PROVE  ProfilesInv'
<1>1. ProfilesTyping
  BY TypedByRecords DEF ProfilesInv
<1>2. store' = store /\ docs' = docs /\ generations' = generations /\ ProfilesBacked'
  BY BackedKept DEF RunStops
<1>3. mishaps' \in 0..MaxMishaps
  BY <1>1, ProfilesAssumption DEF RunStops, Mishap, ProfilesTyping
<1>4. RunEnds(c, "none")
  BY DEF RunStops
<1> QED
  BY <1>1, <1>2, <1>3, <1>4, EndsTyped, RunStepKeeps DEF ProfilesTyping

LEMMA DocumentsChangeKeeps ==
    ASSUME ProfilesInv, DocumentsChange
    PROVE  ProfilesInv'
<1>1. ProfilesTyping /\ UNCHANGED <<store, run, generations, mishaps>>
  BY TypedByRecords DEF ProfilesInv, DocumentsChange
<1>2. docs' \in 1..Sources
  BY <1>1, ProfilesAssumption DEF DocumentsChange, ProfilesTyping
<1>3. ProfilesTypeOK'
  BY <1>1, <1>2, TypedByRecords DEF ProfilesTypeOK, ProfilesTyping, ProfilesInv
<1>4. \A c \in Runs : RunInv(c)'
  BY <1>1, OthersKeep DEF ProfilesInv
<1>5. ProfilesBacked'
  BY <1>1, BackedKept
<1> QED
  BY <1>3, <1>4, <1>5 DEF ProfilesInv

LEMMA ProfilesNextInv ==
    ASSUME ProfilesInv, [ProfilesNext]_profileVars
    PROVE  ProfilesInv'
<1>1. ASSUME NEW c \in Runs, BeginRun(c) \/ RunStep(c) \/ RunStops(c)
      PROVE  ProfilesInv'
  BY <1>1, BeginRunKeeps, CheckExistingKeeps, ReadVersionKeeps, PutKeeps,
     LoadArtifactsKeeps, RunStopsKeeps DEF RunStep
<1>2. CASE UNCHANGED profileVars
  <2>1. ProfilesTyping /\ UNCHANGED <<store, docs, run, generations, mishaps>>
    BY <1>2, TypedByRecords DEF ProfilesInv, profileVars
  <2>2. ProfilesTypeOK'
    BY <2>1, TypedByRecords DEF ProfilesTypeOK, ProfilesInv
  <2>3. \A c \in Runs : RunInv(c)'
    BY <2>1, OthersKeep DEF ProfilesInv
  <2>4. ProfilesBacked'
    BY <2>1, BackedKept
  <2> QED
    BY <2>2, <2>3, <2>4 DEF ProfilesInv
<1> QED
  BY <1>1, <1>2, DocumentsChangeKeeps DEF ProfilesNext

(* A job record is only ever written over by a run whose options are those *)
(* of the record: what the run compared still holds at the put.            *)
LEMMA SameJob ==
    ASSUME ProfilesInv, [ProfilesNext]_profileVars, store[BatchJob].tag # 0
    PROVE  store'[BatchJob].id = store[BatchJob].id
<1>1. ProfilesTyping
  BY TypedByRecords DEF ProfilesInv
<1>2. ASSUME NEW c \in Runs, Put(c)
      PROVE  store'[BatchJob].id = store[BatchJob].id
  <2> DEFINE k == Head(run[c].todo)
  <2>1. run[c].pc = "put" /\ RunInv(c)
    BY <1>2 DEF Put, RunAt, ProfilesInv
  <2>2. CASE store' = store
    BY <2>2
  <2>3. CASE Precondition(c, k) /\ WritesOver(c, k)
    <3>1. store[k].tag = run[c].tag => IsOwn(c, k, store[k])
      BY <2>1 DEF RunInv, TagRead, RunAt
    <3>2. IsOwn(c, k, store[k])
      BY <2>3, <3>1 DEF Precondition
    <3>3. store' = [store EXCEPT ![k] = Object(c, store[k].tag + 1)]
      BY <1>1, <2>3, ProfileKeyFacts DEF WritesOver, ProfilesTyping
    <3>4. CASE k = BatchJob
      BY <1>1, <3>2, <3>3, <3>4, ProfileKeyFacts DEF IsOwn, Object, ProfilesTyping
    <3>5. CASE k # BatchJob
      BY ZenonT(30), <1>1, <3>3, <3>5, ProfileKeyFacts DEF ProfilesTyping
    <3> QED
      BY <3>4, <3>5
  <2> QED
    BY <1>2, <2>2, <2>3 DEF Put, WritesOver
<1>3. store' = store \/ \E c \in Runs : Put(c)
  BY ZenonT(40) DEF ProfilesNext, BeginRun, RunStep, CheckExisting, ReadVersion, LoadArtifacts,
     RunStops, DocumentsChange, profileVars
<1> QED
  BY <1>2, <1>3

(* The objects and the runs are of their types: what a run carries from    *)
(* one write to the next is what it was given or has read.                 *)
THEOREM ProfilesTypingHolds == ProfilesSpec => []ProfilesTypeOK
<1>1. ProfilesInv => ProfilesTypeOK
  BY DEF ProfilesInv
<1> QED
  BY <1>1, ProfilesInitInv, ProfilesNextInv, PTL DEF ProfilesSpec

(* generate_profiles: every profile that a completed job of the batch      *)
(* lists can be opened, for any number of runs and people, whatever fails  *)
(* or is repeated between the writes.                                      *)
THEOREM ProfilesBackedHolds == ProfilesSpec => []ProfilesBacked
<1>1. ProfilesInv => ProfilesBacked
  BY DEF ProfilesInv
<1> QED
  BY <1>1, ProfilesInitInv, ProfilesNextInv, PTL DEF ProfilesSpec

(* The job of a batch stays that of the options it was first made with,    *)
(* whichever runs race to write it (_write_owned_batch_child).             *)
THEOREM ProfilesOneJob == ProfilesSpec => OneJobPerBatch
<1>1. ASSUME ProfilesInv, [ProfilesNext]_profileVars
      PROVE  [store[BatchJob].tag # 0 => store'[BatchJob].id = store[BatchJob].id]_profileVars
  BY <1>1, SameJob
<1> QED
  BY <1>1, ProfilesInitInv, ProfilesNextInv, PTL DEF ProfilesSpec, OneJobPerBatch

=============================================================================
