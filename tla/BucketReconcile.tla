--------------------------- MODULE BucketReconcile ---------------------------
(***************************************************************************)
(* One Bucket CR and the filer (internal/controller/bucket_controller.go,  *)
(* bucket_usage.go, bucket_admin.go).                                      *)
(*                                                                         *)
(* A pass runs one filer command after the other and only then records     *)
(* what it did: the claim on the bucket, the owner, the lock and the quota *)
(* in the status, the users with a grant in an annotation. Later passes    *)
(* decide from these records what still has to be done, so what matters is *)
(* how the records and the filer drift apart: a command fails half way, a  *)
(* status write is rejected because the user edited the CR meanwhile, the  *)
(* operator restarts, somebody else creates or deletes the bucket.         *)
(***************************************************************************)
EXTENDS Integers

CONSTANTS
    Names,        \* bucket names
    DefaultName,  \* metadata.name of the CR
    Users,        \* IAM identities: owners and grantees
    Specs,        \* the specs the user picks, all admissible
    MaxEdits,     \* bound: edits by the user, administrators, other agents
    MaxFaults     \* bound: failed commands, crashes

None == "none"

(* quota: no block, size 0, a size, a size AsInt64 rejects. access: the    *)
(* users the pass grants something (spec.access, and the anonymous         *)
(* identity for anonymousRead). placement: some placement argument is set. *)
SpecRecords ==
    [name : Names, adopt : BOOLEAN, reclaim : {"Retain", "Delete"},
     versioning : {"Off", "Enabled", "Suspended"}, lock : BOOLEAN,
     quota : {"none", "zero", "set", "invalid"}, owner : Users \cup {None},
     access : SUBSET Users, placement : BOOLEAN]

ASSUME BoundsAssumption == MaxEdits \in Nat /\ MaxFaults \in Nat
ASSUME UsersAssumption == None \notin Users
ASSUME NamesAssumption == None \notin Names /\ DefaultName \in Names
ASSUME SpecsAssumption ==
    /\ Specs \subseteq SpecRecords /\ Specs # {}
    /\ \A s \in Specs : s.lock => s.versioning = "Enabled"

Phases == {"none", "Pending", "Failed", "Ready", "Terminating"}
Statuses ==
    [name : Names \cup {None}, owner : Users \cup {None}, quota : BOOLEAN,
     lock : BOOLEAN, phase : Phases]
NoStatus ==
    [name |-> None, owner |-> None, quota |-> FALSE, lock |-> FALSE, phase |-> "none"]

(* ann: the users of the applied-access annotation.                        *)
Objects ==
    [exists : BOOLEAN, deleting : BOOLEAN, fin : BOOLEAN, spec : SpecRecords,
     ann : SUBSET Users, st : Statuses]

Fresh(s) ==
    [exists |-> TRUE, deleting |-> FALSE, fin |-> FALSE, spec |-> s,
     ann |-> {}, st |-> NoStatus]
Gone(s) == [Fresh(s) EXCEPT !.exists = FALSE]
NoCopy  == Gone(CHOOSE s \in Specs : TRUE)      \* no pass runs

(* What a cluster keeps for a bucket name. made: who the bucket belongs    *)
(* to: nobody (there is none), this CR by creation or by adoption, or      *)
(* somebody else. Grants live in the identities and placement in the       *)
(* filer's path configuration: both outlive the bucket.                    *)
Buckets ==
    [made : {"none", "us", "adopted", "them"}, owner : Users \cup {None},
     quota : BOOLEAN, lock : BOOLEAN, versioning : {"Off", "Enabled", "Suspended"},
     grants : SUBSET Users, conf : BOOLEAN]

Emptied(f) ==
    [f EXCEPT !.made = "none", !.owner = None, !.quota = FALSE, !.lock = FALSE,
              !.versioning = "Off"]
NoBucket ==
    [made |-> "none", owner |-> None, quota |-> FALSE, lock |-> FALSE,
     versioning |-> "Off", grants |-> {}, conf |-> FALSE]

VARIABLES
    obj,     \* the CR in the API server
    cached,  \* the informer cache's copy of it
    lag,     \* the cached copy is not the latest version
    granted, \* a ResourceReferenceGrant permits its clusterRef
    cluster, \* the referenced Seaweed CR exists
    filer,   \* what the cluster holds for each bucket name
    swapped, \* history: an answer of the API server has changed the spec a
             \* pass was working on
    replaced,\* history: the names somebody has created a bucket of while
             \* the CR, or a copy of it, had them on record as its own
    lost,    \* history: somebody has deleted the bucket under the pass
    torn,    \* history: the aspects an edit has put out of reach of the
             \* records, see Unknown
    pc,      \* where the pass is
    snap,    \* the pass's copy of the CR
    bname,   \* the bucket name the pass resolved
    stale,   \* a version newer than snap exists
    edits, faults

apiVars  == <<obj, cached, lag>>
passVars == <<pc, snap, bname, stale>>
ghosts   == <<swapped, replaced, lost, torn>>
envVars  == <<granted, cluster, ghosts>>
vars == <<apiVars, passVars, envVars, filer, edits, faults>>

Init ==
    /\ \E s \in Specs : obj = Fresh(s)
    /\ cached = obj /\ lag = FALSE /\ snap = NoCopy /\ bname = DefaultName
    /\ granted = TRUE /\ cluster = TRUE
    /\ swapped = FALSE /\ replaced = {} /\ lost = FALSE /\ torn = {}
    /\ filer = [n \in Names |-> NoBucket]
    /\ pc = "idle" /\ stale = FALSE
    /\ edits = 0 /\ faults = 0

Fault == faults < MaxFaults /\ faults' = faults + 1
Edit  == edits < MaxEdits /\ edits' = edits + 1

(* The API server stores o; a write that changes nothing makes no version. *)
Put(o) ==
    IF o = obj THEN UNCHANGED apiVars
    ELSE obj' = o /\ lag' = TRUE /\ UNCHANGED cached

CacheSync ==
    /\ lag /\ cached' = obj /\ lag' = FALSE
    /\ UNCHANGED <<obj, passVars, envVars, filer, edits, faults>>

-----------------------------------------------------------------------------
(* The user, administrators and other agents.                              *)

(* The aspects in which a bucket has what neither the spec nor the records *)
(* of CR o tell, so that no pass will take it away: an owner, a quota,     *)
(* grants.                                                                 *)
Unknown(o, f) ==
    {a \in {"owner", "quota", "access"} :
        CASE a = "owner"  -> o.spec.owner = o.st.owner /\ f.owner # o.spec.owner
          [] a = "quota"  -> o.spec.quota = "none" /\ ~o.st.quota /\ f.quota
          [] a = "access" -> ~(f.grants \subseteq o.spec.access \cup o.ann)}

(* An edit may find on the filer what a pass has done and not recorded.    *)
UserPuts(o) ==
    /\ Edit /\ Put(o) /\ stale' = (stale \/ pc # "idle")
    /\ torn' = torn \cup Unknown(o, filer[o.spec.name])
    /\ UNCHANGED <<pc, snap, bname, granted, cluster, swapped, replaced, lost>>
    /\ UNCHANGED <<filer, faults>>

(* Admission: a set name is not replaced by another, the lock is final,    *)
(* and versioning does not go back to Off.                                 *)
UserEdits(s) ==
    /\ obj.exists /\ s # obj.spec
    /\ s.name # obj.spec.name => DefaultName \in {s.name, obj.spec.name}
    /\ obj.spec.lock => s.lock
    /\ s.versioning = "Off" => obj.spec.versioning = "Off"
    /\ UserPuts([obj EXCEPT !.spec = s])

UserDeletes ==
    /\ obj.exists /\ ~obj.deleting
    /\ UserPuts(IF obj.fin THEN [obj EXCEPT !.deleting = TRUE] ELSE Gone(obj.spec))

(* A CR applied again, after its deletion. What the old CR left on the     *)
(* filer belongs to somebody else as far as the new one is concerned.      *)
UserCreates(s) == ~obj.exists /\ UserPuts(Fresh(s))

GrantChanges ==
    /\ Edit /\ granted' = ~granted
    /\ UNCHANGED <<apiVars, passVars, cluster, ghosts, filer, faults>>

ClusterChanges ==
    /\ Edit /\ cluster' = ~cluster
    /\ UNCHANGED <<apiVars, passVars, granted, ghosts, filer, faults>>

(* The names the CR, or a copy of it, has on record as its own, and the    *)
(* one a pass is settling.                                                 *)
Aspects  == {"lock", "versioning", "quota", "owner", "access", "placement"}
Settling == Aspects \cup {"annotate", "status"}
Claimed ==
    {obj.st.name, cached.st.name, snap.st.name}
    \cup (IF pc \in Settling THEN {bname} ELSE {})

(* The COSI driver, another Bucket CR, an administrator's weed shell.      *)
ForeignCreates(n, u) ==
    /\ Edit /\ filer[n].made = "none"
    /\ filer' = [filer EXCEPT ![n].made = "them", ![n].owner = u]
    /\ replaced' = replaced \cup ({n} \cap Claimed)
    /\ UNCHANGED <<apiVars, passVars, granted, cluster, swapped, lost, torn, faults>>

ForeignDeletes(n) ==
    /\ Edit /\ filer[n].made # "none"
    /\ filer' = [filer EXCEPT ![n] = Emptied(@)]
    /\ lost' = (lost \/ (pc \in Settling /\ n = bname))
    /\ UNCHANGED <<apiVars, passVars, granted, cluster, swapped, replaced, torn, faults>>

(* refreshAllUsage patches status.usage of a CR whose name is recorded: it *)
(* only makes a new version. It counts as an edit.                         *)
UsageRefresh ==
    /\ Edit /\ pc # "idle" /\ cached.st.name # None /\ obj.exists
    /\ stale' = TRUE /\ lag' = TRUE
    /\ UNCHANGED <<obj, cached, pc, snap, bname, envVars, filer, faults>>

-----------------------------------------------------------------------------
(* The pass up to reconcileBucket.                                         *)

EndPass == pc' = "idle" /\ snap' = NoCopy /\ bname' = DefaultName /\ stale' = FALSE
GoTo(p) == pc' = p /\ UNCHANGED <<snap, bname, stale>>

Load ==
    /\ pc = "idle" /\ cached.exists
    /\ pc' = "check" /\ snap' = cached /\ bname' = cached.spec.name /\ stale' = lag
    /\ lost' = FALSE
    /\ UNCHANGED <<apiVars, granted, cluster, swapped, replaced, torn, filer, edits, faults>>

(* Status().Update writes the status alone, Update everything else; both   *)
(* are rejected when snap is not the latest version, and either ends the   *)
(* pass.                                                                   *)
WriteAndEnd(o) ==
    /\ IF stale THEN UNCHANGED apiVars ELSE Put(o)
    /\ EndPass

WriteStatus(st)  == WriteAndEnd([obj EXCEPT !.st = st])
FailPhase(phase) == WriteStatus([snap.st EXCEPT !.phase = phase])

(* A pass that works on an old version leaves on the filer what the CR     *)
(* does not ask for any more.                                              *)
Tears ==
    /\ torn' = IF stale THEN torn \cup Unknown(obj, filer'[bname]) ELSE torn
    /\ UNCHANGED <<granted, cluster, swapped, replaced, lost>>

Renamed(o, n) == o.st.name # None /\ o.st.name # n

(* Mutant: a missing grant is reported as a phase the CRD does not have.   *)
MutGrantPhase ==
    IF Renamed(snap, bname) THEN "Failed"
    ELSE IF ~snap.deleting /\ ~granted THEN "Forbidden"
    ELSE IF ~cluster THEN "Pending"
    ELSE "none"

Refusal ==
    IF Renamed(snap, bname) THEN "Failed"
    ELSE IF ~cluster \/ (~snap.deleting /\ ~granted) THEN "Pending"
    ELSE "none"

Refuse ==
    /\ pc = "check" /\ Refusal # "none"
    /\ FailPhase(Refusal)
    /\ UNCHANGED <<envVars, filer, edits, faults>>

Proceed ==
    /\ pc = "check" /\ Refusal = "none"
    /\ IF snap.deleting /\ ~snap.fin
       THEN EndPass
       ELSE GoTo(CASE snap.deleting -> "handleDeletion"
                   [] ~snap.deleting /\ ~snap.fin -> "addFinalizer"
                   [] ~snap.deleting /\ snap.fin  -> "exists")
    /\ UNCHANGED <<apiVars, envVars, filer, edits, faults>>

AddFinalizer ==
    /\ pc = "addFinalizer"
    /\ WriteAndEnd([obj EXCEPT !.fin = TRUE])
    /\ UNCHANGED <<envVars, filer, edits, faults>>

-----------------------------------------------------------------------------
(* reconcileBucket: existence and ownership.                               *)

(* adoptBucket, and the claim after a creation: in memory, until the next  *)
(* status write.                                                           *)
Claim(made) ==
    /\ filer' = [filer EXCEPT ![bname].made = made]
    /\ snap' = [snap EXCEPT !.st.name = bname]
    /\ pc' = "lock" /\ UNCHANGED <<bname, stale, apiVars>>

AdoptOrRefuse ==
    IF snap.spec.adopt THEN Claim("adopted")
    ELSE FailPhase("Failed") /\ UNCHANGED filer

BucketExists ==
    /\ pc = "exists"
    /\ CASE filer[bname].made = "none" ->
              GoTo("create") /\ UNCHANGED <<apiVars, filer>>
         [] filer[bname].made # "none" /\ snap.st.name # None ->
              GoTo("lock") /\ UNCHANGED <<apiVars, filer>>
         [] filer[bname].made # "none" /\ snap.st.name = None ->
              AdoptOrRefuse
    /\ UNCHANGED <<envVars, edits, faults>>

(* Mutant: the owner is left to SetOwner.                                  *)
MutCreatedWithoutOwner(f, made) ==
    [f EXCEPT !.made = made, !.lock = snap.spec.lock,
              !.versioning = IF snap.spec.lock THEN "Enabled" ELSE "Off"]

(* s3.bucket.create -owner -withLock.                                      *)
Created(f, made) ==
    [f EXCEPT !.made = made, !.owner = snap.spec.owner, !.lock = snap.spec.lock,
              !.versioning = IF snap.spec.lock THEN "Enabled" ELSE "Off"]

CreateBucket ==
    /\ pc = "create"
    /\ IF filer[bname].made # "none"
       THEN AdoptOrRefuse                     \* ErrBucketAlreadyExists
       ELSE /\ filer' = [filer EXCEPT ![bname] = Created(@, "us")]
            /\ snap' = [snap EXCEPT !.st.name = bname]
            /\ pc' = "lock" /\ UNCHANGED <<bname, stale, apiVars>>
    /\ Tears /\ UNCHANGED <<edits, faults>>

(* The existence check or the creation reports an error; the creation may  *)
(* have happened nevertheless.                                             *)
CreateFails ==
    /\ pc \in {"exists", "create"} /\ Fault
    /\ \/ UNCHANGED filer
       \/ /\ pc = "create" /\ filer[bname].made = "none"
          /\ filer' = [filer EXCEPT ![bname] = Created(@, "us")]
    /\ FailPhase("Failed") /\ Tears
    /\ UNCHANGED edits

-----------------------------------------------------------------------------
(* reconcileBucket: one command per aspect.                                *)

NextStep(step) ==
    CASE step = "lock" -> "versioning"    [] step = "versioning" -> "quota"
      [] step = "quota" -> "owner"        [] step = "owner" -> "access"
      [] step = "access" -> "annotate"    [] step = "placement" -> "status"

(* Mutant: a quota on record is not pushed again.                          *)
MutNeeded(step) ==
    CASE step = "lock" -> snap.spec.lock /\ ~snap.st.lock
      [] step = "versioning" -> snap.spec.versioning # "Off"
      [] step = "quota" -> (snap.spec.quota # "none") # snap.st.quota
      [] step = "owner" -> snap.spec.owner # snap.st.owner
      [] step = "access" -> snap.spec.access \cup snap.ann # {}
      [] step = "placement" -> snap.spec.placement

(* Does the pass issue a command? For the lock, the owner and the removal  *)
(* of a quota, only when the status says it has not been done.             *)
Needed(step) ==
    CASE step = "lock" -> snap.spec.lock /\ ~snap.st.lock
      [] step = "versioning" -> snap.spec.versioning # "Off"
      [] step = "quota" -> snap.spec.quota # "none" \/ snap.st.quota
      [] step = "owner" -> snap.spec.owner # snap.st.owner
      [] step = "access" -> snap.spec.access \cup snap.ann # {}
      [] step = "placement" -> snap.spec.placement

(* Does the filer take it? All but access and placement need the bucket.   *)
Accepted(step, f) ==
    /\ step \in {"access", "placement"} \/ f.made # "none"
    /\ step = "versioning" => ~(f.lock /\ snap.spec.versioning = "Suspended")
    /\ step = "quota" => snap.spec.quota # "invalid"

(* What it does. Access: SetAccess for the users of the spec, "none" for   *)
(* those of the annotation that left it.                                   *)
Effect(step, f) ==
    CASE step = "lock" -> [f EXCEPT !.lock = TRUE, !.versioning = "Enabled"]
      [] step = "versioning" -> [f EXCEPT !.versioning = snap.spec.versioning]
      [] step = "quota" -> [f EXCEPT !.quota = (snap.spec.quota = "set")]
      [] step = "owner" -> [f EXCEPT !.owner = snap.spec.owner]
      [] step = "access" ->
            [f EXCEPT !.grants = snap.spec.access \cup (@ \ snap.ann)]
      [] step = "placement" -> [f EXCEPT !.conf = TRUE]

Push(step) ==
    /\ pc = step
    /\ IF Needed(step) /\ ~Accepted(step, filer[bname])
       THEN FailPhase("Failed") /\ UNCHANGED filer
       ELSE /\ filer' = IF Needed(step)
                        THEN [filer EXCEPT ![bname] = Effect(step, @)] ELSE filer
            /\ GoTo(NextStep(step)) /\ UNCHANGED apiVars
    /\ Tears /\ UNCHANGED <<edits, faults>>

(* A command fails. The access commands before it have run: the users of   *)
(* the spec come first, in any order, then the ones to revoke.             *)
PartialAccess(f) ==
    {[f EXCEPT !.grants = @ \cup done] : done \in SUBSET snap.spec.access}
    \cup {[f EXCEPT !.grants = (@ \cup snap.spec.access) \ gone] :
             gone \in SUBSET (snap.ann \ snap.spec.access)}

PushFails(step) ==
    /\ pc = step /\ Needed(step) /\ Fault
    /\ \/ UNCHANGED filer
       \/ /\ Accepted(step, filer[bname])
          /\ filer' = [filer EXCEPT ![bname] = Effect(step, @)]
       \/ /\ step = "access"
          /\ \E f \in PartialAccess(filer[bname]) : filer' = [filer EXCEPT ![bname] = f]
    /\ FailPhase("Failed") /\ Tears
    /\ UNCHANGED edits

(* What decoding the API server's answer into the pass's copy gives: a     *)
(* field the answer omits, because it is unset now, keeps its old value.   *)
MergeSpec(old, new) ==
    [new EXCEPT !.name = old.name,
                !.lock = @ \/ old.lock,
                !.placement = @ \/ old.placement,
                !.quota = IF @ = "none" THEN old.quota ELSE @,
                !.owner = IF @ = None THEN old.owner ELSE @,
                !.access = IF @ = {} THEN old.access ELSE @]

MergeStatus(old, new) ==
    [new EXCEPT !.name = IF @ = None THEN old.name ELSE @,
                !.owner = IF @ = None THEN old.owner ELSE @,
                !.quota = @ \/ old.quota, !.lock = @ \/ old.lock]

(* writeAppliedAccessAnnotation: a merge patch carries no resource         *)
(* version, so it is never rejected, and its answer replaces the pass's    *)
(* copy, spec and version included.                                        *)
Annotate ==
    /\ pc = "annotate"
    /\ CASE snap.ann = snap.spec.access ->
              GoTo("placement") /\ UNCHANGED <<apiVars, swapped>>
         [] snap.ann # snap.spec.access /\ ~obj.exists ->
              EndPass /\ UNCHANGED <<apiVars, swapped>>
         [] snap.ann # snap.spec.access /\ obj.exists ->
              /\ Put([obj EXCEPT !.ann = snap.spec.access])
              /\ snap' = [obj EXCEPT !.ann = snap.spec.access,
                                     !.spec = MergeSpec(snap.spec, obj.spec),
                                     !.st = MergeStatus(snap.st, obj.st)]
              /\ swapped' = (swapped \/ snap'.spec # snap.spec)
              /\ pc' = "placement" /\ stale' = FALSE /\ UNCHANGED bname
    /\ UNCHANGED <<granted, cluster, replaced, lost, torn, filer, edits, faults>>

(* The final status: what the copy's spec says, as the observed state.     *)
RecordReady ==
    /\ pc = "status"
    /\ WriteStatus([name |-> bname, owner |-> snap.spec.owner,
                    quota |-> snap.spec.quota # "none", lock |-> snap.spec.lock,
                    phase |-> "Ready"])
    /\ UNCHANGED <<envVars, filer, edits, faults>>

-----------------------------------------------------------------------------
(* handleDeletion.                                                         *)

(* Mutant: the reclaim policy alone decides.                               *)
MutDeletesUnclaimed == snap.spec.reclaim = "Delete"

MayDelete == snap.spec.reclaim = "Delete" /\ snap.st.name = bname

DeleteBucket ==
    /\ pc = "handleDeletion"
    /\ filer' = IF MayDelete THEN [filer EXCEPT ![bname] = Emptied(@)] ELSE filer
    /\ GoTo("removeFinalizer")
    /\ UNCHANGED <<apiVars, envVars, edits, faults>>

(* Object Lock retention blocks the deletion, or the command fails.        *)
DeleteFails ==
    /\ pc = "handleDeletion" /\ MayDelete
    /\ \/ filer[bname].lock /\ UNCHANGED <<faults, filer>>
       \/ Fault /\ UNCHANGED filer
       \/ Fault /\ filer' = [filer EXCEPT ![bname] = Emptied(@)]
    /\ FailPhase("Terminating")
    /\ UNCHANGED <<envVars, edits>>

(* The ghost made of what the CR leaves behind becomes "them".             *)
Disowned(f) == IF f.made = "none" THEN f ELSE [f EXCEPT !.made = "them"]

RemoveFinalizer ==
    /\ pc = "removeFinalizer"
    /\ WriteAndEnd(Gone(obj.spec))
    /\ filer' = IF stale THEN filer ELSE [n \in Names |-> Disowned(filer[n])]
    /\ UNCHANGED <<envVars, edits, faults>>

(* The operator restarts, or a call to the API server fails.               *)
PassAborts ==
    /\ pc # "idle" /\ Fault
    /\ EndPass
    /\ UNCHANGED <<apiVars, envVars, filer, edits>>

-----------------------------------------------------------------------------
PassStep ==
    \/ Load \/ Refuse \/ Proceed \/ AddFinalizer \/ BucketExists \/ CreateBucket
    \/ \E step \in Aspects : Push(step)
    \/ Annotate \/ RecordReady \/ DeleteBucket \/ RemoveFinalizer

Failure ==
    \/ CreateFails \/ DeleteFails \/ PassAborts
    \/ \E step \in Aspects : PushFails(step)

Outside ==
    \/ UserDeletes \/ GrantChanges \/ ClusterChanges \/ UsageRefresh
    \/ \E s \in Specs : UserEdits(s) \/ UserCreates(s)
    \/ \E n \in Names :
          ForeignDeletes(n) \/ \E u \in Users \cup {None} : ForeignCreates(n, u)

Next == PassStep \/ Failure \/ Outside \/ CacheSync

Spec == Init /\ [][Next]_vars

-----------------------------------------------------------------------------
(* Types of all variables.                                                 *)
TypeOK ==
    /\ obj \in Objects /\ cached \in Objects /\ lag \in BOOLEAN
    /\ granted \in BOOLEAN /\ cluster \in BOOLEAN /\ swapped \in BOOLEAN
    /\ replaced \subseteq Names /\ lost \in BOOLEAN /\ torn \subseteq Aspects
    /\ filer \in [Names -> Buckets]
    /\ pc \in Aspects \cup {"idle", "check", "addFinalizer", "exists", "create",
                            "annotate", "status", "handleDeletion", "removeFinalizer"}
    /\ snap \in Objects
    /\ bname \in Names /\ stale \in BOOLEAN
    /\ edits \in 0 .. MaxEdits /\ faults \in 0 .. MaxFaults

(* README, Bucket: the controller "never adopts or modifies a bucket       *)
(* created by" somebody else unless adoptExisting is set, and              *)
(* reclaimPolicy Delete "only removes a bucket this CR actually created or *)
(* adopted". The first step of a pass on somebody else's bucket is its     *)
(* adoption, under a spec that asks for it. The records hold names, not    *)
(* identities: excepted is a bucket put in the place of one the CR, or a   *)
(* copy of it a late pass works for, has on record.                        *)
ForeignUntouched ==
    [][\A n \in Names :
          filer[n].made = "them" /\ filer'[n] # filer[n] /\ edits' = edits
              => \/ n \in replaced
                 \/ /\ filer'[n] = [filer[n] EXCEPT !.made = "adopted"]
                    /\ snap.spec.adopt /\ bname = n]_vars

(* What a pass that reaches the final status write has done for a spec s.  *)
(* The owner is missing here: it is taken as set when the status names it, *)
(* and the removal of a quota the status does not know of is skipped.      *)
Settled(s, f) ==
    /\ s.lock => f.lock
    /\ s.versioning # "Off" => f.versioning = s.versioning
    /\ s.quota # "none" => s.quota # "invalid" /\ (f.quota <=> s.quota = "set")
    /\ s.access \subseteq f.grants
    /\ s.placement => f.conf

(* reconcileBucket, "record observed state and mark Ready": a pass that is *)
(* about to report Ready has settled its spec on a bucket of its own, and  *)
(* a lock on record is a lock on the filer, although the lock is pushed    *)
(* only when it is not on record, earlier passes failed anywhere and the   *)
(* CR is edited meanwhile. Only once an edit has come into a pass with the *)
(* answer to its own patch may the record say what was not done, and       *)
(* somebody may have taken the bucket away, under the pass or later, or    *)
(* have put another in its place.                                          *)
ReadyIsTrue ==
    ~swapped =>
        /\ pc = "status" /\ ~lost /\ bname \notin replaced =>
               /\ filer[bname].made \in {"us", "adopted"}
               /\ Settled(snap.spec, filer[bname])
        /\ obj.st.lock /\ ~obj.deleting =>
               /\ obj.st.name # None
               /\ \/ filer[obj.st.name].lock
                  \/ filer[obj.st.name].made = "none"
                  \/ obj.st.name \in replaced

-----------------------------------------------------------------------------
(* Fairness: every pass is requeued (30s after a failure, the resync       *)
(* interval otherwise) and runs on once begun; the watch delivers.         *)
(* Edits and faults are bounded.                                           *)
Fairness == WF_vars(PassStep) /\ WF_vars(CacheSync)
FairSpec == Spec /\ Fairness

(* The filer holds what the spec asks for, and nothing the CR once asked   *)
(* for and no longer does; an adopted bucket keeps what the spec is silent *)
(* about. The owner, the lock, the removal of a quota and the revocation   *)
(* of a grant follow the records: they are excepted where an edit met a    *)
(* pass that had not recorded what it did, and on a replaced bucket.       *)
Applied(n, s, f) ==
    /\ f.made \in {"us", "adopted"} \/ n \in replaced
    /\ \/ "owner" \in torn \/ swapped \/ n \in replaced
       \/ f.made = "adopted" /\ s.owner = None
       \/ f.owner = s.owner
    /\ (s.quota = "none" /\ "quota" \in torn) \/ f.quota = (s.quota = "set")
    /\ s.lock => f.lock \/ swapped \/ n \in replaced
    /\ s.versioning # "Off" => f.versioning = s.versioning
    /\ s.access \subseteq f.grants /\ ("access" \in torn \/ f.grants = s.access)
    /\ s.placement => f.conf

(* Bucket's promise to GitOps tools: once edits and faults stop, a CR that *)
(* nothing refuses is Ready with its spec applied on the filer, a bucket   *)
(* and settings deleted behind the operator's back included                *)
(* (reconcileBucket, "drift ... gets re-detected and healed"), and a       *)
(* terminating CR is gone.                                                 *)
SpecApplied ==
    <>[](obj.exists =>
            IF Renamed(obj, obj.spec.name) THEN obj.st.phase = "Failed"
            ELSE IF obj.deleting THEN ~cluster \/ filer[obj.spec.name].lock
            ELSE IF ~granted \/ ~cluster THEN obj.st.phase = "Pending"
            ELSE IF obj.spec.quota = "invalid" THEN obj.st.phase = "Failed"
            ELSE IF obj.st.name = None
                 THEN /\ ~obj.spec.adopt /\ filer[obj.spec.name].made # "none"
                      /\ obj.st.phase = "Failed"
            ELSE /\ obj.st.phase = "Ready"
                 /\ Applied(obj.spec.name, obj.spec, filer[obj.spec.name]))
=============================================================================
