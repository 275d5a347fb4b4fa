-------------------------- MODULE EmployeeProfiles --------------------------
(***************************************************************************)
(* POST /addons/employee-profiles/generate for one batch                   *)
(* (services/employee_profiles.py).  A generation writes several S3        *)
(* objects, one after the other: the job record of the batch, the record   *)
(* under the job id, the profile list of the batch and one object per      *)
(* profile.  Each write reads the object for its ETag and puts it on the   *)
(* condition that the ETag still holds; nothing spans two writes.  Calls   *)
(* run in any number of tasks of the API, may be repeated, may stop        *)
(* anywhere, and the documents of the batch may change under them.         *)
(*                                                                         *)
(* The documents are a version number; the fingerprint of a source is the  *)
(* options and the version.  The job id is a digest of the batch and the   *)
(* options, so it is the options.  The artifacts a generation reads are    *)
(* those of the version that is current when it reads them.  The limit on  *)
(* the number of documents, and the authorization of the caller, decide    *)
(* before anything is written and are left out.                            *)
(***************************************************************************)
EXTENDS Naturals, FiniteSets, Sequences, SequencesExt

CONSTANTS Runs,            \* concurrent executions of generate_profiles
          Options,         \* the option sets a request may carry
          Forced,          \* those with force
          Persons,         \* people the documents of the batch are about
          Sources,         \* bound: versions of the documents
          Eligible,        \* whom the eligible documents are about
          MaxActive,       \* bound: calls at a time
          MaxGenerations,  \* bound: calls that come to write
          MaxMishaps       \* bound: requests that go wrong, calls that stop

ASSUME ProfilesAssumption ==
    /\ IsFiniteSet(Persons)
    /\ Forced \subseteq Options
    /\ Sources \in Nat \ {0}
    /\ Eligible \in [Options -> [1..Sources -> SUBSET Persons]]
    /\ MaxActive \in Nat /\ MaxGenerations \in Nat /\ MaxMishaps \in Nat

VARIABLES store,        \* the S3 objects, by key
          docs,         \* the version of the documents
          run,          \* the progress of each call
          generations, mishaps

profileVars == <<store, docs, run, generations, mishaps>>

-----------------------------------------------------------------------------
(* The keys of the objects, and what is read of them.                      *)
BatchJob == <<"batch", "job">>
BatchProfiles == <<"batch", "profiles">>
JobKey(o) == <<"job", o>>
ProfileKey(p) == <<"profile", p>>

JobKeys == {BatchJob} \cup {JobKey(o) : o \in Options}
Keys == JobKeys \cup {BatchProfiles} \cup {ProfileKey(p) : p \in Persons}

Done == {"COMPLETED", "PARTIAL"}
Statuses == {"RUNNING", "FAILED"} \cup Done

(* An object: its ETag (0 while there is none), the job it is of, its      *)
(* status, the source fingerprinted, the version of the artifacts it was   *)
(* built from, and the profiles it lists.                                  *)
Absent == [tag |-> 0, id |-> "none", status |-> "none", source |-> 0, built |-> 0,
           profiles |-> {}]

NoRun == [pc |-> "idle", opts |-> "none", source |-> 0, phase |-> "none",
         status |-> "none", built |-> 0, profiles |-> {}, todo |-> << >>, tag |-> 0,
         told |-> "none"]

ProfilesInit ==
    /\ store = [k \in Keys |-> Absent]
    /\ docs = 1
    /\ run = [c \in Runs |-> NoRun]
    /\ generations = 0
    /\ mishaps = 0

-----------------------------------------------------------------------------
RunAt(c, pc) == run[c].pc = pc

Mishap == mishaps < MaxMishaps /\ mishaps' = mishaps + 1

(* The call answers.                                                       *)
RunEnds(c, what) ==
    run' = [run EXCEPT ![c] = [NoRun EXCEPT !.opts = run[c].opts, !.told = what]]

(* generate_profiles up to the fingerprint.                                *)
BeginRun(c) ==
    /\ RunAt(c, "idle")
    /\ Cardinality({d \in Runs : ~RunAt(d, "idle")}) < MaxActive
    /\ \E o \in Options :
          run' = [run EXCEPT ![c] = [NoRun EXCEPT !.pc = "check", !.opts = o, !.source = docs]]
    /\ UNCHANGED <<store, docs, generations, mishaps>>

IsDone(job) == job.status \in Done

SameSource(c, job) == job.id = run[c].opts /\ job.source = run[c].source

JobWrites(c) == <<BatchJob, JobKey(run[c].opts)>>

(* The existing job is read: it answers a call that does not force, or the *)
(* RUNNING records are written.                                            *)
CheckExisting(c) ==
    /\ RunAt(c, "check")
    /\ LET job == store[BatchJob] IN
       \/ /\ run[c].opts \notin Forced /\ IsDone(job)
          /\ RunEnds(c, IF SameSource(c, job) THEN "existing" ELSE "stale")
          /\ UNCHANGED <<generations, mishaps>>
       \/ /\ ~(run[c].opts \notin Forced /\ IsDone(job))
          /\ generations < MaxGenerations
          /\ generations' = generations + 1
          /\ run' = [run EXCEPT ![c].pc = "read", ![c].phase = "start",
                                  ![c].status = "RUNNING", ![c].todo = JobWrites(c)]
          /\ UNCHANGED mishaps
       \/ /\ Mishap /\ RunEnds(c, "error")
          /\ UNCHANGED generations
    /\ UNCHANGED <<store, docs>>

(* An exception other than an AppError: inside the try the job is marked   *)
(* as FAILED, elsewhere the call just ends.                                *)
Breaks(c) ==
    IF run[c].phase = "rest"
    THEN run' = [run EXCEPT ![c].pc = "read", ![c].phase = "failed",
                              ![c].status = "FAILED", ![c].todo = JobWrites(c)]
    ELSE RunEnds(c, "error")

(* Seeded fault: any job record of the batch may be written over.          *)
FaultIsOwn(c, k, object) == TRUE

(* The identity a write compares: the job id of a job record (a profile is *)
(* stored under its own id).                                               *)
IsOwn(c, k, object) == k \in JobKeys /\ object.tag # 0 => object.id = run[c].opts

(* The read before a write.                                                *)
ReadVersion(c) ==
    /\ RunAt(c, "read")
    /\ LET k == Head(run[c].todo) IN
       \/ /\ UNCHANGED mishaps
          /\ IF IsOwn(c, k, store[k])
             THEN run' = [run EXCEPT ![c].pc = "put", ![c].tag = store[k].tag]
             ELSE RunEnds(c, "notFound")
       \/ Mishap /\ Breaks(c)
    /\ UNCHANGED <<store, docs, generations>>

Object(c, tag) ==
    [tag |-> tag, id |-> run[c].opts, status |-> run[c].status, source |-> run[c].source,
     built |-> run[c].built, profiles |-> run[c].profiles]

(* The next write of the call, or what follows the last one.               *)
Proceeds(c) ==
    IF Len(run[c].todo) > 1
    THEN run' = [run EXCEPT ![c].pc = "read", ![c].todo = Tail(@)]
    ELSE CASE run[c].phase = "start" ->
                run' = [run EXCEPT ![c].pc = "load", ![c].phase = "rest", ![c].todo = << >>]
           [] run[c].phase = "rest" -> RunEnds(c, "generated")
           [] OTHER -> RunEnds(c, "error")

Precondition(c, k) == store[k].tag = run[c].tag

(* The put with IfMatch or IfNoneMatch.  A put whose answer is lost is     *)
(* sent again by the client library and then meets itself; a failed        *)
(* precondition is an AppError, which leaves the job as it is.             *)
Put(c) ==
    /\ RunAt(c, "put")
    /\ LET k == Head(run[c].todo) IN
       \/ /\ Precondition(c, k)
          /\ store' = [store EXCEPT ![k] = Object(c, @.tag + 1)]
          /\ \/ Proceeds(c) /\ UNCHANGED mishaps
             \/ Mishap /\ (RunEnds(c, "conflict") \/ Breaks(c))
       \/ /\ ~Precondition(c, k)
          /\ RunEnds(c, "conflict")
          /\ UNCHANGED <<store, mishaps>>
       \/ /\ Mishap /\ Breaks(c)
          /\ UNCHANGED store
    /\ UNCHANGED <<docs, generations>>

(* Seeded fault: the job is marked as completed before the profiles are    *)
(* stored.                                                                 *)
FaultProfileWrites(c, P) ==
    <<BatchProfiles>> \o JobWrites(c) \o SetToSeq({ProfileKey(p) : p \in P})

(* The order of the writes of a generation with documents.                 *)
ProfileWrites(c, P) ==
    <<BatchProfiles>> \o SetToSeq({ProfileKey(p) : p \in P}) \o JobWrites(c)

(* The artifacts are loaded (some may be missing), grouped and merged;     *)
(* without eligible documents the job is completed first and the list      *)
(* written after it.                                                       *)
LoadArtifacts(c) ==
    /\ RunAt(c, "load")
    /\ LET people == Eligible[run[c].opts][run[c].source] IN
       \/ /\ people = {}
          /\ run' = [run EXCEPT ![c].pc = "read", ![c].status = "COMPLETED",
                                  ![c].built = run[c].source,
                                  ![c].todo = Append(JobWrites(c), BatchProfiles)]
          /\ UNCHANGED mishaps
       \/ /\ people # {}
          /\ \E P \in SUBSET people, s \in Done :
                run' = [run EXCEPT ![c].pc = "read", ![c].status = s, ![c].built = docs,
                                     ![c].profiles = P, ![c].todo = ProfileWrites(c, P)]
          /\ UNCHANGED mishaps
       \/ people # {} /\ Mishap /\ Breaks(c)
    /\ UNCHANGED <<store, docs, generations>>

(* The task stops in the middle of a call.                                 *)
RunStops(c) ==
    /\ ~RunAt(c, "idle")
    /\ Mishap
    /\ RunEnds(c, "none")
    /\ UNCHANGED <<store, docs, generations>>

(* A document of the batch arrives, is processed or changes.               *)
DocumentsChange ==
    /\ docs < Sources
    /\ docs' = docs + 1
    /\ UNCHANGED <<store, run, generations, mishaps>>

RunStep(c) == CheckExisting(c) \/ ReadVersion(c) \/ Put(c) \/ LoadArtifacts(c)

ProfilesNext == DocumentsChange \/ \E c \in Runs : BeginRun(c) \/ RunStep(c) \/ RunStops(c)

ProfilesSpec == ProfilesInit /\ [][ProfilesNext]_profileVars

-----------------------------------------------------------------------------
(* The type invariant of the objects and the calls.                        *)
ProfilesTypeOK ==
    /\ store \in [Keys -> [tag : Nat, id : Options \cup {"none"},
                           status : Statuses \cup {"none"}, source : 0..Sources,
                           built : 0..Sources, profiles : SUBSET Persons]]
    /\ docs \in 1..Sources
    /\ run \in [Runs ->
          [pc : {"idle", "check", "read", "put", "load"}, opts : Options \cup {"none"},
           source : 0..Sources, phase : {"none", "start", "rest", "failed"},
           status : Statuses \cup {"none"}, built : 0..Sources, profiles : SUBSET Persons,
           todo : Seq(Keys), tag : Nat,
           told : {"none", "existing", "stale", "generated", "notFound", "conflict", "error"}]]
    /\ generations \in 0..MaxGenerations
    /\ mishaps \in 0..MaxMishaps

(* Every profile that a completed job lists can be opened, also when       *)
(* several generations run over each other or stop half way (the profiles  *)
(* are persisted before the job is completed).                             *)
ProfilesBacked ==
    \A k \in JobKeys :
        store[k].status \in Done =>
            \A p \in store[k].profiles : store[ProfileKey(p)].tag # 0

(* The job of a batch stays the job of the options it was first made with, *)
(* whichever calls race to create it (IfNoneMatch, and the job id that     *)
(* _write_owned_batch_child compares).                                     *)
OneJobPerBatch ==
    [][store[BatchJob].tag # 0 => store'[BatchJob].id = store[BatchJob].id]_profileVars

=============================================================================
