---------------------------- MODULE IamNameClaims ----------------------------
(***************************************************************************)
(* Who owns an IAM name (internal/controller/iam_name_claim.go,            *)
(* s3identity_controller.go, s3policy_controller.go).                      *)
(*                                                                         *)
(* IAM user and policy names are global to a cluster while the CRs that    *)
(* manage them are namespaced. The oldest CR claiming a name owns it, the  *)
(* others are marked Failed; when the owner is deleted, a surviving        *)
(* claimant takes the IAM object over.                                     *)
(*                                                                         *)
(* S3Identity and S3Policy follow one protocol, modelled once, for the CRs *)
(* of one kind that reference one cluster. The S3Policy controller writes  *)
(* with one PutPolicy; S3Identity looks the user up first and then creates *)
(* or updates it, and since its controller has a single worker nobody else *)
(* writes in between: both are one upsert.                                 *)
(*                                                                         *)
(* A pass is cut where it reads or writes what others change: Get (from    *)
(* the cache), the checks, the IAM call, the write to the API server.      *)
(***************************************************************************)
EXTENDS Integers

CONSTANTS
    CRs,               \* namespaced names, as numbers in their string order
    Names,             \* IAM names
    DefaultName,       \* metadata.name of each CR
    RetainChoices,     \* the reclaim policies users pick (TRUE: Retain)
    MaxClock,          \* bound: creation timestamps
    MaxEdits,          \* bound: edits by users and administrators
    MaxFaults,         \* bound: failed calls, lost IAM objects, crashes
    CacheLag           \* TRUE: the informer cache may lag the API server

ASSUME CRsAssumption == CRs \subseteq Nat \ {0}
ASSUME NamesAssumption == DefaultName \in [CRs -> Names] /\ "none" \notin Names
ASSUME ChoicesAssumption ==
    RetainChoices \subseteq BOOLEAN /\ CacheLag \in BOOLEAN
ASSUME BoundsAssumption == MaxClock \in Nat /\ MaxEdits \in Nat /\ MaxFaults \in Nat

NoName == "none"       \* status.identityName / status.policyName not set
NoUser == 0        \* no IAM object of that name
Phases == {"none", "Pending", "Failed", "Ready", "Terminating"}

(* A CR: creation timestamp, effective IAM name, reclaim policy, deletion  *)
(* timestamp and finalizer, and the status fields the controller reads.    *)
Objects ==
    [exists : BOOLEAN, birth : 0 .. MaxClock, name : Names, retain : BOOLEAN,
     deleting : BOOLEAN, fin : BOOLEAN, status : Names \cup {NoName}, phase : Phases]

Gone(c) ==
    [exists |-> FALSE, birth |-> 0, name |-> DefaultName[c], retain |-> FALSE,
     deleting |-> FALSE, fin |-> FALSE, status |-> NoName, phase |-> "none"]

VARIABLES
    obj,      \* the CRs in the API server
    cached,   \* the informer cache's copies of them
    lag,      \* CRs whose cached copy is not the latest version
    granted,  \* CRs whose cluster reference a ResourceReferenceGrant permits
    cluster,  \* the referenced Seaweed CR exists
    user,     \* per IAM name: NoUser, or the CR whose spec it carries
    clock,    \* the latest creation timestamp
    unseen,   \* history: CRs renamed although provisioned, which the cache did
              \* not show when the pass under way, or the last one, began
    pc, cur, snap, stale,  \* the pass: position, its CR, the copy it read and
                           \* whether a newer version of it exists by now
    edits, faults

apiVars  == <<obj, cached, lag>>
passVars == <<pc, cur, snap, stale>>
envVars  == <<granted, cluster, clock, unseen>>
vars == <<apiVars, passVars, envVars, user, edits, faults>>

Init ==
    /\ obj = [c \in CRs |-> Gone(c)] /\ cached = obj /\ lag = {}
    /\ granted \in SUBSET CRs /\ cluster = TRUE /\ clock = 0 /\ unseen = {}
    /\ user = [n \in Names |-> NoUser]
    /\ pc = "idle" /\ cur \in CRs /\ snap = Gone(cur) /\ stale = FALSE
    /\ edits = 0 /\ faults = 0

Fault == faults < MaxFaults /\ faults' = faults + 1
Edit  == edits < MaxEdits /\ edits' = edits + 1

(* The API server stores a new version of a CR; a write that changes       *)
(* nothing makes no new version.                                           *)
Put(c, o) ==
    IF o = obj[c] THEN UNCHANGED apiVars
    ELSE /\ obj' = [obj EXCEPT ![c] = o]
         /\ cached' = IF CacheLag THEN cached ELSE [cached EXCEPT ![c] = o]
         /\ lag' = IF CacheLag THEN lag \cup {c} ELSE lag

CacheSync ==
    /\ lag # {}
    /\ cached' = obj /\ lag' = {}
    /\ UNCHANGED <<obj, passVars, envVars, user, edits, faults>>

-----------------------------------------------------------------------------
(* Users and administrators.                                               *)

UserPuts(c, o) ==
    /\ Edit /\ Put(c, o)
    /\ stale' = (stale \/ (pc # "idle" /\ cur = c))
    /\ UNCHANGED <<pc, cur, snap, user, granted, cluster, faults>>

UserCreates(c, n, r) ==
    /\ ~obj[c].exists
    /\ clock' \in {clock, clock + 1} /\ clock' <= MaxClock
    /\ UserPuts(c, [Gone(c) EXCEPT !.exists = TRUE, !.birth = clock', !.name = n,
                                   !.retain = r])
    /\ UNCHANGED unseen

(* The validation rule of spec.name compares two set values only: a name   *)
(* can be set, or unset again, but not replaced by another.                *)
UserRenames(c, n) ==
    /\ obj[c].exists /\ n # obj[c].name
    /\ DefaultName[c] \in {n, obj[c].name}
    /\ unseen' = IF obj[c].status = NoName THEN unseen ELSE unseen \cup {c}
    /\ UserPuts(c, [obj[c] EXCEPT !.name = n]) /\ UNCHANGED clock

UserDeletes(c) ==
    /\ obj[c].exists /\ ~obj[c].deleting
    /\ UserPuts(c, IF obj[c].fin THEN [obj[c] EXCEPT !.deleting = TRUE] ELSE Gone(c))
    /\ UNCHANGED <<clock, unseen>>

GrantChanges(c) ==
    /\ Edit
    /\ granted' = IF c \in granted THEN granted \ {c} ELSE granted \cup {c}
    /\ UNCHANGED <<apiVars, passVars, cluster, clock, unseen, user, faults>>

ClusterChanges ==
    /\ Edit /\ cluster' = ~cluster
    /\ UNCHANGED <<apiVars, passVars, granted, clock, unseen, user, faults>>

(* The filer's ephemeral store restarts, or somebody deletes the user.     *)
UserLost(n) ==
    /\ Fault /\ user[n] # NoUser
    /\ user' = [user EXCEPT ![n] = NoUser]
    /\ UNCHANGED <<apiVars, passVars, envVars, edits>>

-----------------------------------------------------------------------------
(* The pass.                                                               *)

EndPass == pc' = "idle" /\ snap' = Gone(cur) /\ stale' = FALSE /\ UNCHANGED cur
GoTo(p) == pc' = p /\ UNCHANGED <<cur, snap, stale>>

Load(c) ==
    /\ pc = "idle" /\ cached[c].exists
    /\ pc' = "check" /\ cur' = c /\ snap' = cached[c] /\ stale' = (c \in lag)
    /\ unseen' = unseen \cap lag
    /\ UNCHANGED <<apiVars, granted, cluster, clock, user, edits, faults>>

(* A write with the resource version of the copy the pass read: rejected   *)
(* when a newer version exists. Either way it is the pass's last step.     *)
WriteAndEnd(o) ==
    /\ IF stale THEN UNCHANGED apiVars ELSE Put(cur, o)
    /\ EndPass

WriteStatus(phase) == WriteAndEnd([snap EXCEPT !.phase = phase])

Renamed(o) == o.status # NoName /\ o.status # o.name

(* identityClaimants / policyClaimants.                                    *)
Claimants(store, c, name) ==
    {p \in CRs \ {c} :
        store[p].exists /\ ~store[p].deleting /\ store[p].name = name}

(* Mutant: no tie-breaker between CRs of the same age.                     *)
MutNoTieBreak(c1, o1, c2, o2) == o1.birth < o2.birth

(* claimPrecedes: older first, namespaced name as the tie-breaker.         *)
ClaimPrecedes(c1, o1, c2, o2) ==
    o1.birth < o2.birth \/ (o1.birth = o2.birth /\ c1 < c2)

(* identityConflict / policyConflict: some claimant outranks c.            *)
Conflict(store, c, o) ==
    \E p \in Claimants(store, c, o.name) : ClaimPrecedes(p, store[p], c, o)

(* Mutant: a conflict is reported as a phase the CRD does not have.        *)
MutConflictPhase ==
    IF Renamed(snap) THEN "Failed"
    ELSE IF ~snap.deleting /\ cur \notin granted THEN "Pending"
    ELSE IF ~snap.deleting /\ Conflict(cached, cur, snap) THEN "Conflict"
    ELSE IF ~cluster THEN "Pending"
    ELSE "none"

(* The refusals, in the code's order. A deletion skips the grant and the   *)
(* conflict check, but neither the rename nor the cluster check.           *)
Refusal ==
    IF Renamed(snap) THEN "Failed"
    ELSE IF ~snap.deleting /\ cur \notin granted THEN "Pending"
    ELSE IF ~snap.deleting /\ Conflict(cached, cur, snap) THEN "Failed"
    ELSE IF ~cluster THEN "Pending"
    ELSE "none"

Refuse ==
    /\ pc = "check" /\ Refusal # "none"
    /\ WriteStatus(Refusal)
    /\ UNCHANGED <<envVars, user, edits, faults>>

Proceed ==
    /\ pc = "check" /\ Refusal = "none"
    /\ GoTo(CASE snap.deleting  -> "handleDeletion"
              [] ~snap.deleting /\ ~snap.fin -> "addFinalizer"
              [] ~snap.deleting /\ snap.fin  -> "upsert")
    /\ UNCHANGED <<apiVars, envVars, user, edits, faults>>

AddFinalizer ==
    /\ pc = "addFinalizer"
    /\ WriteAndEnd([snap EXCEPT !.fin = TRUE])
    /\ UNCHANGED <<envVars, user, edits, faults>>

(* GetUser, then CreateUser or SetUserState; or PutPolicy.                 *)
Upsert ==
    /\ pc = "upsert"
    /\ user' = [user EXCEPT ![snap.name] = cur]
    /\ GoTo("writeReady")
    /\ UNCHANGED <<apiVars, envVars, edits, faults>>

UpsertFails ==
    /\ pc = "upsert" /\ Fault
    /\ WriteStatus("Failed")
    /\ UNCHANGED <<envVars, user, edits>>

WriteReady ==
    /\ pc = "writeReady"
    /\ WriteAndEnd([snap EXCEPT !.status = snap.name, !.phase = "Ready"])
    /\ UNCHANGED <<envVars, user, edits, faults>>

(* Mutant: the deletion does not look for surviving claimants.             *)
MutIgnoresClaimants ==
    /\ pc = "handleDeletion"
    /\ IF ~snap.fin THEN EndPass
       ELSE GoTo(IF snap.retain THEN "removeFinalizer" ELSE "deleteUser")
    /\ UNCHANGED <<apiVars, envVars, user, edits, faults>>

(* handleDeletion: no finalizer, nothing to do; a surviving claimant or    *)
(* Retain keeps the IAM object.                                            *)
HandleDeletion ==
    /\ pc = "handleDeletion"
    /\ IF ~snap.fin THEN EndPass
       ELSE GoTo(IF snap.retain \/ Claimants(cached, cur, snap.name) # {}
                 THEN "removeFinalizer" ELSE "deleteUser")
    /\ UNCHANGED <<apiVars, envVars, user, edits, faults>>

(* DeleteUser / DeletePolicy; an object already gone is no error.          *)
DeleteUser ==
    /\ pc = "deleteUser"
    /\ user' = [user EXCEPT ![snap.name] = NoUser]
    /\ GoTo("removeFinalizer")
    /\ UNCHANGED <<apiVars, envVars, edits, faults>>

DeleteUserFails ==
    /\ pc = "deleteUser" /\ Fault
    /\ WriteStatus("Terminating")
    /\ UNCHANGED <<envVars, user, edits>>

RemoveFinalizer ==
    /\ pc = "removeFinalizer"
    /\ WriteAndEnd(Gone(cur))
    /\ UNCHANGED <<envVars, user, edits, faults>>

(* A read fails, or the operator restarts: the pass is lost where it is.   *)
PassAborts ==
    /\ pc # "idle" /\ Fault
    /\ EndPass
    /\ UNCHANGED <<apiVars, envVars, user, edits>>

-----------------------------------------------------------------------------
PassStep ==
    \/ Refuse \/ Proceed \/ AddFinalizer \/ Upsert \/ WriteReady
    \/ HandleDeletion \/ DeleteUser \/ RemoveFinalizer

Next ==
    \/ PassStep \/ UpsertFails \/ DeleteUserFails \/ PassAborts \/ CacheSync
    \/ \E c \in CRs : Load(c) \/ UserDeletes(c) \/ GrantChanges(c)
    \/ \E c \in CRs, n \in Names :
          UserRenames(c, n) \/ \E r \in RetainChoices : UserCreates(c, n, r)
    \/ \E n \in Names : UserLost(n)
    \/ ClusterChanges

Spec == Init /\ [][Next]_vars

-----------------------------------------------------------------------------
(* Types of all variables.                                                 *)
TypeOK ==
    /\ obj \in [CRs -> Objects] /\ cached \in [CRs -> Objects] /\ lag \in SUBSET CRs
    /\ granted \in SUBSET CRs /\ cluster \in BOOLEAN /\ clock \in 0 .. MaxClock
    /\ unseen \in SUBSET CRs
    /\ user \in [Names -> CRs \cup {NoUser}]
    /\ pc \in {"idle", "check", "addFinalizer", "upsert", "writeReady",
               "handleDeletion", "deleteUser", "removeFinalizer"}
    /\ cur \in CRs /\ snap \in Objects /\ stale \in BOOLEAN
    /\ edits \in 0 .. MaxEdits /\ faults \in 0 .. MaxFaults

(* c is live, provisioned under n and still asks for n.                    *)
Owns(c, n) ==
    /\ obj[c].exists /\ ~obj[c].deleting
    /\ obj[c].name = n /\ obj[c].status = n

(* handleDeletion, "A surviving claimant takes the user over instead of    *)
(* having it deleted out from under it": the deletion of one CR never      *)
(* deletes the IAM object of another, provisioned CR, although the list of *)
(* claimants is read from a cache, and earlier than the DeleteUser call.   *)
(* Only a rename of that other CR which the cache had not shown when the   *)
(* deleting pass began can expose it: its name was set back to n since.    *)
HandoverSafe ==
    [][\A n \in Names :
          user[n] # NoUser /\ user'[n] = NoUser /\ faults' = faults
              => \A c \in CRs : Owns(c, n) => c \in unseen]_vars

-----------------------------------------------------------------------------
(* Fairness: failed passes are requeued and Ready CRs resynced, and the    *)
(* workqueue is first-in first-out, so every CR is loaded again and again  *)
(* (SF, since Load waits for the single worker); a pass that began runs    *)
(* on; the watch delivers. Edits and faults are bounded.                   *)
Fairness ==
    /\ WF_vars(PassStep) /\ WF_vars(CacheSync)
    /\ \A c \in CRs : SF_vars(Load(c))

FairSpec == Spec /\ Fairness

(* README, Name conflicts: "the oldest claim owns it; later claimants are  *)
(* marked Failed". Once edits and faults stop, the oldest live claimant of *)
(* every name is Ready and the IAM object carries its spec, the others are *)
(* Failed, and terminating CRs are gone; a missing grant or cluster, or a  *)
(* refused rename, is reported and nothing else keeps a CR waiting.        *)
OwnershipSettles ==
    <>[](\A c \in CRs : obj[c].exists =>
            IF Renamed(obj[c]) THEN obj[c].phase = "Failed"
            ELSE IF obj[c].deleting THEN ~cluster
            ELSE IF c \notin granted THEN obj[c].phase = "Pending"
            ELSE IF Conflict(obj, c, obj[c]) THEN obj[c].phase = "Failed"
            ELSE IF ~cluster THEN obj[c].phase = "Pending"
            ELSE /\ obj[c].phase = "Ready" /\ obj[c].status = obj[c].name
                 /\ user[obj[c].name] = c)

(***************************************************************************)
(* Formulas that TLC refutes: what a doc, a comment or a reader expects    *)
(* and the code does not keep. README.md, "Observations", has the constants*)
(***************************************************************************)
(* Reconcile tells the user of a refused rename to "restore the original   *)
(* name or recreate the resource": a deletion completes as long as the     *)
(* cluster is there.                                                       *)
DeletionCompletes ==
    \A c \in CRs : obj[c].deleting ~> (~obj[c].deleting \/ ~cluster)
=============================================================================
