------------------------ MODULE BucketReconcileProofs ------------------------
(***************************************************************************)
(* Proofs about BucketReconcile, for any names, users and specs, and any   *)
(* number of edits, faults and passes.                                     *)
(***************************************************************************)
EXTENDS BucketReconcile, TLAPS

(* The copies the model starts from, or leaves behind, are objects.        *)
LEMMA CopyTypes ==
    /\ \A s \in SpecRecords : Fresh(s) \in Objects /\ Gone(s) \in Objects
    /\ NoCopy \in Objects
<1>1. NoStatus \in Statuses
  BY DEF NoStatus, Statuses, Phases
<1>2. \A s \in SpecRecords : Fresh(s) \in Objects
  BY <1>1 DEF Fresh, Objects
<1>3. \A s \in SpecRecords : Gone(s) \in Objects
  BY <1>1 DEF Gone, Fresh, Objects
<1>4. (CHOOSE s \in Specs : TRUE) \in SpecRecords
  BY SpecsAssumption
<1> QED
  BY <1>2, <1>3, <1>4 DEF NoCopy

(* What a write to the API server does.                                    *)
LEMMA PutType ==
    ASSUME TypeOK, NEW o \in Objects, Put(o)
    PROVE  obj' = o /\ cached' \in {cached, o} /\ lag' \in BOOLEAN
<1>1. CASE o = obj
  BY <1>1 DEF Put, apiVars, TypeOK
<1>2. CASE o # obj
  <2>1. obj' = o /\ cached' \in {cached, o}
    BY <1>2 DEF Put
  <2>2. lag' \in BOOLEAN
    BY <1>2 DEF Put
  <2> QED
    BY <2>1, <2>2
<1> QED
  BY <1>1, <1>2

(* Ending a pass leaves its local state well typed.                        *)
LEMMA EndPassType ==
    ASSUME EndPass
    PROVE  pc' = "idle" /\ snap' \in Objects /\ bname' \in Names /\ stale' \in BOOLEAN
BY CopyTypes, NamesAssumption DEF EndPass

(* A last write of the pass, made or rejected, keeps the types.            *)
LEMMA WriteAndEndType ==
    ASSUME TypeOK, NEW o \in Objects, WriteAndEnd(o)
    PROVE  /\ obj' \in Objects /\ cached' \in Objects /\ lag' \in BOOLEAN
           /\ pc' = "idle" /\ snap' \in Objects /\ bname' \in Names /\ stale' \in BOOLEAN
<1>1. CASE stale
  BY <1>1, EndPassType DEF WriteAndEnd, apiVars, TypeOK
<1>2. CASE ~stale
  BY <1>2, EndPassType, PutType DEF WriteAndEnd, TypeOK
<1> QED
  BY <1>1, <1>2

(* What an edit, or a pass on an old version, may put out of reach.        *)
LEMMA UnknownType == \A o, f : Unknown(o, f) \subseteq Aspects
BY DEF Unknown, Aspects

(* What a step of a pass does to its surroundings and the history.         *)
EnvKept == UNCHANGED envVars \/ Tears

LEMMA EnvKeptType ==
    ASSUME TypeOK, EnvKept
    PROVE  /\ UNCHANGED <<granted, cluster, swapped, replaced, lost>>
           /\ granted' \in BOOLEAN /\ cluster' \in BOOLEAN /\ swapped' \in BOOLEAN
           /\ replaced' \subseteq Names /\ lost' \in BOOLEAN /\ torn' \subseteq Aspects
<1>1. CASE UNCHANGED envVars
  BY <1>1 DEF TypeOK, envVars, ghosts
<1>2. CASE Tears
  BY <1>2, UnknownType DEF Tears, TypeOK
<1> QED
  BY <1>1, <1>2 DEF EnvKept

(* Ending with a status update keeps TypeOK.                               *)
LEMMA WriteStatusType ==
    ASSUME TypeOK, NEW st \in Statuses, WriteStatus(st),
           EnvKept, UNCHANGED edits, filer' \in [Names -> Buckets],
           faults' \in 0 .. MaxFaults
    PROVE  TypeOK'
<1>1. [obj EXCEPT !.st = st] \in Objects
  BY DEF TypeOK, Objects
<1> QED
  BY <1>1, EnvKeptType, WriteAndEndType DEF WriteStatus, TypeOK

(* Ending with a failure phase in the status keeps TypeOK.                 *)
LEMMA FailPhaseType ==
    ASSUME TypeOK, NEW phase \in Phases, FailPhase(phase),
           EnvKept, UNCHANGED edits, filer' \in [Names -> Buckets],
           faults' \in 0 .. MaxFaults
    PROVE  TypeOK'
<1>1. [snap.st EXCEPT !.phase = phase] \in Statuses
  BY DEF TypeOK, Objects, Statuses
<1> QED
  BY <1>1, WriteStatusType DEF FailPhase

(* An edit of the CR by a user keeps TypeOK.                               *)
LEMMA UserPutsType ==
    ASSUME TypeOK, NEW o \in Objects, UserPuts(o)
    PROVE  TypeOK'
<1>1. stale' \in BOOLEAN
  BY Zenon DEF UserPuts
<1>2. edits' \in 0 .. MaxEdits
  BY BoundsAssumption DEF UserPuts, Edit, TypeOK
<1>3. torn' \subseteq Aspects
  BY UnknownType DEF UserPuts, TypeOK
<1> QED
  BY <1>1, <1>2, <1>3, PutType DEF UserPuts, TypeOK

(* A filer command leaves a well-formed bucket.                            *)
LEMMA EffectType ==
    ASSUME TypeOK, NEW step \in Aspects, NEW f \in Buckets
    PROVE  Effect(step, f) \in Buckets
<1> USE DEF Effect, Buckets, TypeOK, Objects, SpecRecords
<1>1. CASE step = "lock"
  BY <1>1
<1>2. CASE step = "versioning"
  BY <1>2
<1>3. CASE step = "quota"
  <2>1. \A q \in BOOLEAN : [f EXCEPT !.quota = q] \in Buckets
    OBVIOUS
  <2>2. Effect(step, f) = [f EXCEPT !.quota = (snap.spec.quota = "set")]
    BY <1>3
  <2>3. (snap.spec.quota = "set") \in BOOLEAN
    OBVIOUS
  <2> HIDE DEF Effect, Buckets, TypeOK, Objects, SpecRecords
  <2> QED
    BY <2>1, <2>2, <2>3, Zenon
<1>4. CASE step = "owner"
  BY <1>4
<1>5. CASE step = "access"
  BY <1>5
<1>6. CASE step = "placement"
  BY <1>6
<1> QED
  BY <1>1, <1>2, <1>3, <1>4, <1>5, <1>6 DEF Aspects

(* A bucket made or adopted by the operator is well formed.                *)
LEMMA CreatedType ==
    ASSUME TypeOK, NEW f \in Buckets, NEW made \in {"us", "adopted"}
    PROVE  Created(f, made) \in Buckets
BY DEF Created, Buckets, TypeOK, Objects, SpecRecords

(* A deleted bucket is well formed.                                        *)
LEMMA EmptiedType == \A f \in Buckets : Emptied(f) \in Buckets
BY DEF Emptied, Buckets

(* Access rules written for some grantees only are well formed.            *)
LEMMA PartialAccessType ==
    ASSUME TypeOK, NEW f \in Buckets
    PROVE  PartialAccess(f) \subseteq Buckets
BY DEF PartialAccess, Buckets, TypeOK, Objects, SpecRecords

(* Decoding an answer into the pass's copy leaves a well-formed copy.       *)
LEMMA MergeTypes ==
    /\ \A old, new \in SpecRecords : MergeSpec(old, new) \in SpecRecords
    /\ \A old, new \in Statuses : MergeStatus(old, new) \in Statuses
<1>1. ASSUME NEW old \in SpecRecords, NEW new \in SpecRecords
      PROVE  MergeSpec(old, new) \in SpecRecords
  <2>1. PICK l \in BOOLEAN : l = (new.lock \/ old.lock)
    BY Zenon
  <2>2. PICK p \in BOOLEAN : p = (new.placement \/ old.placement)
    BY Zenon
  <2>3. MergeSpec(old, new) =
          [new EXCEPT !.name = old.name, !.lock = l, !.placement = p,
                      !.quota = IF @ = "none" THEN old.quota ELSE @,
                      !.owner = IF @ = None THEN old.owner ELSE @,
                      !.access = IF @ = {} THEN old.access ELSE @]
    BY <2>1, <2>2, Zenon DEF MergeSpec
  <2> QED
    BY <2>3 DEF SpecRecords
<1>2. ASSUME NEW old \in Statuses, NEW new \in Statuses
      PROVE  MergeStatus(old, new) \in Statuses
  <2>1. (new.quota \/ old.quota) \in BOOLEAN /\ (new.lock \/ old.lock) \in BOOLEAN
    BY Zenon
  <2> QED
    BY <2>1 DEF MergeStatus, Statuses
<1> QED
  BY <1>1, <1>2

(* BucketExists and CreateBucket when the bucket is there already.         *)
LEMMA AdoptOrRefuseType ==
    ASSUME TypeOK, AdoptOrRefuse, EnvKept, UNCHANGED <<edits, faults>>
    PROVE  TypeOK'
<1>1. CASE snap.spec.adopt
  <2>1. Claim("adopted")
    BY <1>1 DEF AdoptOrRefuse
  <2>2. filer' \in [Names -> Buckets]
    BY <2>1 DEF Claim, TypeOK, Buckets
  <2>3. snap' \in Objects
    BY <2>1 DEF Claim, TypeOK, Objects, Statuses
  <2> QED
    BY <2>1, <2>2, <2>3, EnvKeptType DEF Claim, TypeOK, apiVars, Aspects
<1>2. CASE ~snap.spec.adopt
  BY <1>2, FailPhaseType DEF AdoptOrRefuse, Phases, TypeOK
<1> QED
  BY <1>1, <1>2

(* Moving on to the next stage of the pass keeps TypeOK.                   *)
LEMMA GoToType ==
    ASSUME TypeOK, NEW p, GoTo(p), EnvKept, UNCHANGED <<apiVars, edits, faults>>,
           filer' \in [Names -> Buckets],
           p \in Aspects \cup {"idle", "check", "addFinalizer", "exists", "create",
                               "annotate", "status", "handleDeletion", "removeFinalizer"}
    PROVE  TypeOK'
BY EnvKeptType DEF GoTo, TypeOK, apiVars

(* Every variable keeps its type: a pass only ever writes well-formed CRs, *)
(* the merge of an API server's answer included.                           *)
THEOREM BucketTypeCorrect == Spec => []TypeOK
<1>1. Init => TypeOK
  <2> SUFFICES ASSUME Init PROVE TypeOK
    OBVIOUS
  <2>1. obj \in Objects /\ cached \in Objects /\ snap \in Objects
    BY CopyTypes, SpecsAssumption DEF Init
  <2>2. filer \in [Names -> Buckets]
    BY DEF Init, NoBucket, Buckets
  <2>3. edits \in 0 .. MaxEdits /\ faults \in 0 .. MaxFaults
    BY BoundsAssumption DEF Init
  <2>4. /\ lag \in BOOLEAN /\ granted \in BOOLEAN /\ cluster \in BOOLEAN
        /\ stale \in BOOLEAN /\ swapped \in BOOLEAN
        /\ replaced \subseteq Names /\ lost \in BOOLEAN /\ torn \subseteq Aspects
    BY DEF Init
  <2>5. bname \in Names /\ pc = "idle"
    BY NamesAssumption DEF Init
  <2> QED
    BY <2>1, <2>2, <2>3, <2>4, <2>5 DEF TypeOK
<1>2. TypeOK /\ [Next]_vars => TypeOK'
  <2> SUFFICES ASSUME TypeOK, [Next]_vars PROVE TypeOK'
    OBVIOUS
  <2>0. ASSUME Fault PROVE faults' \in 0 .. MaxFaults
    BY <2>0, BoundsAssumption DEF Fault, TypeOK
  <2>1. CASE Load
    <3>1. stale' \in BOOLEAN
      BY <2>1 DEF Load, TypeOK
    <3>2. snap' \in Objects /\ bname' \in Names
      BY <2>1 DEF Load, TypeOK, Objects, SpecRecords
    <3> QED
      BY <2>1, <3>1, <3>2 DEF Load, TypeOK, apiVars
  <2>2. CASE Refuse
    <3>1. Refusal \in Phases
      BY DEF Refusal, Phases
    <3> QED
      BY <2>2, <3>1, FailPhaseType DEF Refuse, TypeOK, EnvKept
  <2>3. CASE Proceed
    <3>1. CASE snap.deleting /\ ~snap.fin
      BY <2>3, <3>1, EndPassType DEF Proceed, TypeOK, apiVars, envVars, ghosts
    <3>2. CASE ~(snap.deleting /\ ~snap.fin)
      <4>1. PICK p \in {"handleDeletion", "addFinalizer", "exists"} : GoTo(p)
        BY <2>3, <3>2 DEF Proceed
      <4> QED
        BY <2>3, <4>1, GoToType DEF Proceed, TypeOK, EnvKept
    <3> QED
      BY <3>1, <3>2
  <2>4. CASE AddFinalizer
    <3>1. [obj EXCEPT !.fin = TRUE] \in Objects
      BY DEF TypeOK, Objects
    <3> QED
      BY <2>4, <3>1, WriteAndEndType DEF AddFinalizer, TypeOK, envVars, ghosts
  <2>5. CASE BucketExists
    <3>1. CASE AdoptOrRefuse
      BY <2>5, <3>1, AdoptOrRefuseType DEF BucketExists, EnvKept
    <3>2. CASE ~AdoptOrRefuse
      <4>1. PICK p \in {"create", "lock"} :
               GoTo(p) /\ UNCHANGED <<apiVars, envVars, filer, edits, faults>>
        BY <2>5, <3>2 DEF BucketExists
      <4> QED
        BY <4>1, GoToType DEF TypeOK, Aspects, EnvKept
    <3> QED
      BY <3>1, <3>2
  <2>6. CASE CreateBucket
    <3>1. CASE filer[bname].made # "none"
      BY <2>6, <3>1, AdoptOrRefuseType DEF CreateBucket, EnvKept
    <3>2. CASE filer[bname].made = "none"
      <4>1. filer' \in [Names -> Buckets]
        BY <2>6, <3>2, CreatedType DEF CreateBucket, TypeOK
      <4>2. snap' \in Objects
        BY <2>6, <3>2 DEF CreateBucket, TypeOK, Objects, Statuses
      <4> QED
        BY <2>6, <3>2, <4>1, <4>2, EnvKeptType
           DEF CreateBucket, EnvKept, TypeOK, apiVars, Aspects
    <3> QED
      BY <3>1, <3>2
  <2>7. ASSUME NEW step \in Aspects, Push(step) PROVE TypeOK'
    <3>1. CASE Needed(step) /\ ~Accepted(step, filer[bname])
      BY <2>7, <3>1, FailPhaseType DEF Push, Phases, TypeOK, EnvKept
    <3>2. CASE ~(Needed(step) /\ ~Accepted(step, filer[bname]))
      <4>1. filer' \in [Names -> Buckets]
        BY <2>7, <3>2, EffectType DEF Push, TypeOK
      <4>2. NextStep(step) \in Aspects \cup {"annotate", "status"}
        BY DEF NextStep, Aspects
      <4> QED
        BY <2>7, <3>2, <4>1, <4>2, GoToType DEF Push, EnvKept
    <3> QED
      BY <3>1, <3>2
  <2>8. CASE Annotate
    <3>0. UNCHANGED <<granted, cluster, replaced, lost, torn, filer, edits, faults>>
      BY <2>8 DEF Annotate
    <3>1. CASE GoTo("placement") /\ UNCHANGED <<apiVars, swapped>>
      BY <3>0, <3>1, GoToType DEF TypeOK, Aspects, EnvKept, envVars, ghosts
    <3>2. CASE EndPass /\ UNCHANGED <<apiVars, swapped>>
      BY <3>0, <3>2, EndPassType DEF TypeOK, apiVars
    <3>3. CASE snap.ann # snap.spec.access /\ obj.exists
      <4>1. [obj EXCEPT !.ann = snap.spec.access] \in Objects
        BY DEF TypeOK, Objects, SpecRecords
      <4>2. /\ MergeSpec(snap.spec, obj.spec) \in SpecRecords
            /\ MergeStatus(snap.st, obj.st) \in Statuses
        BY MergeTypes DEF TypeOK, Objects
      <4>3. snap' \in Objects
        <5>1. snap' = [obj EXCEPT !.ann = snap.spec.access,
                                  !.spec = MergeSpec(snap.spec, obj.spec),
                                  !.st = MergeStatus(snap.st, obj.st)]
          BY <2>8, <3>3 DEF Annotate
        <5>2. snap.spec.access \in SUBSET Users
          BY DEF TypeOK, Objects, SpecRecords
        <5> QED
          BY <5>1, <5>2, <4>2 DEF TypeOK, Objects
      <4>4. Put([obj EXCEPT !.ann = snap.spec.access])
        BY <2>8, <3>3 DEF Annotate
      <4>5. swapped' \in BOOLEAN
        BY <2>8, <3>3, Zenon DEF Annotate
      <4> QED
        BY <2>8, <3>0, <3>3, <4>1, <4>3, <4>4, <4>5, PutType DEF Annotate, TypeOK, Aspects
    <3> QED
      BY <2>8, <3>1, <3>2, <3>3 DEF Annotate
  <2>9. CASE RecordReady
    <3>1. (snap.spec.quota # "none") \in BOOLEAN
      OBVIOUS
    <3>2. \A q \in BOOLEAN :
             [name |-> bname, owner |-> snap.spec.owner, quota |-> q,
              lock |-> snap.spec.lock, phase |-> "Ready"] \in Statuses
      BY DEF TypeOK, Objects, SpecRecords, Statuses, Phases
    <3>3. [name |-> bname, owner |-> snap.spec.owner, quota |-> snap.spec.quota # "none",
           lock |-> snap.spec.lock, phase |-> "Ready"] \in Statuses
      BY <3>1, <3>2, Zenon
    <3> QED
      BY <2>9, <3>3, WriteStatusType DEF RecordReady, TypeOK, EnvKept
  <2>10. CASE DeleteBucket
    <3>1. filer' \in [Names -> Buckets]
      BY <2>10, EmptiedType DEF DeleteBucket, TypeOK
    <3> QED
      BY <2>10, <3>1, GoToType DEF DeleteBucket, EnvKept
  <2>11. CASE RemoveFinalizer
    <3>1. Gone(obj.spec) \in Objects
      BY CopyTypes DEF TypeOK, Objects
    <3>2. filer' \in [Names -> Buckets]
      BY <2>11 DEF RemoveFinalizer, Disowned, TypeOK, Buckets
    <3> QED
      BY <2>11, <3>1, <3>2, WriteAndEndType DEF RemoveFinalizer, TypeOK, envVars, ghosts
  <2>12. CASE CreateFails
    <3>1. filer' \in [Names -> Buckets]
      BY <2>12, CreatedType DEF CreateFails, TypeOK
    <3> QED
      BY <2>0, <2>12, <3>1, FailPhaseType DEF CreateFails, Phases, EnvKept
  <2>13. CASE DeleteFails
    <3>1. filer' \in [Names -> Buckets]
      BY <2>13, EmptiedType DEF DeleteFails, TypeOK
    <3>2. faults' \in 0 .. MaxFaults
      BY <2>13, <2>0 DEF DeleteFails, TypeOK
    <3> QED
      BY <2>13, <3>1, <3>2, FailPhaseType DEF DeleteFails, Phases, EnvKept
  <2>14. CASE PassAborts
    BY <2>0, <2>14, EndPassType DEF PassAborts, TypeOK, apiVars, envVars, ghosts
  <2>15. ASSUME NEW step \in Aspects, PushFails(step) PROVE TypeOK'
    <3>1. filer' \in [Names -> Buckets]
      <4>1. \A f \in PartialAccess(filer[bname]) : f \in Buckets
        BY PartialAccessType DEF TypeOK
      <4> QED
        BY <2>15, <4>1, EffectType DEF PushFails, TypeOK
    <3> QED
      BY <2>0, <2>15, <3>1, FailPhaseType DEF PushFails, Phases, EnvKept
  <2>16. CASE UserDeletes
    <3>1. (IF obj.fin THEN [obj EXCEPT !.deleting = TRUE] ELSE Gone(obj.spec)) \in Objects
      BY CopyTypes DEF TypeOK, Objects
    <3> QED
      BY <2>16, <3>1, UserPutsType DEF UserDeletes
  <2>17. ASSUME NEW s \in Specs, UserEdits(s) \/ UserCreates(s) PROVE TypeOK'
    <3>1. [obj EXCEPT !.spec = s] \in Objects /\ Fresh(s) \in Objects
      BY SpecsAssumption, CopyTypes DEF TypeOK, Objects
    <3> QED
      BY <2>17, <3>1, UserPutsType DEF UserEdits, UserCreates
  <2>18. CASE GrantChanges \/ ClusterChanges
    <3>1. edits' \in 0 .. MaxEdits
      BY <2>18, BoundsAssumption DEF GrantChanges, ClusterChanges, Edit, TypeOK
    <3>2. granted' \in BOOLEAN /\ cluster' \in BOOLEAN
      BY <2>18 DEF GrantChanges, ClusterChanges, TypeOK
    <3> QED
      BY <2>18, <3>1, <3>2
         DEF GrantChanges, ClusterChanges, TypeOK, apiVars, passVars, ghosts
  <2>19. CASE UsageRefresh
    <3>1. edits' \in 0 .. MaxEdits
      BY <2>19, BoundsAssumption DEF UsageRefresh, Edit, TypeOK
    <3>2. lag' \in BOOLEAN
      BY <2>19 DEF UsageRefresh
    <3> QED
      BY <2>19, <3>1, <3>2 DEF UsageRefresh, TypeOK, envVars, ghosts
  <2>20. ASSUME NEW n \in Names, ForeignDeletes(n) PROVE TypeOK'
    <3>1. edits' \in 0 .. MaxEdits
      BY <2>20, BoundsAssumption DEF ForeignDeletes, Edit, TypeOK
    <3>2. filer' \in [Names -> Buckets]
      BY <2>20, EmptiedType DEF ForeignDeletes, TypeOK
    <3>3. lost' \in BOOLEAN
      BY <2>20, Zenon DEF ForeignDeletes
    <3> QED
      BY <2>20, <3>1, <3>2, <3>3 DEF ForeignDeletes, TypeOK, apiVars, passVars
  <2>21. ASSUME NEW n \in Names, NEW u \in Users \cup {None}, ForeignCreates(n, u)
         PROVE  TypeOK'
    <3>1. edits' \in 0 .. MaxEdits
      BY <2>21, BoundsAssumption DEF ForeignCreates, Edit, TypeOK
    <3>2. filer' \in [Names -> Buckets]
      <4>1. [filer EXCEPT ![n].made = "them"] \in [Names -> Buckets]
        BY DEF TypeOK, Buckets
      <4>2. \A g \in [Names -> Buckets] : [g EXCEPT ![n].owner = u] \in [Names -> Buckets]
        BY DEF Buckets
      <4> QED
        BY <2>21, <4>1, <4>2, Zenon DEF ForeignCreates
    <3> QED
      BY <2>21, <3>1, <3>2 DEF ForeignCreates, TypeOK, apiVars, passVars
  <2>22. CASE CacheSync
    BY <2>22 DEF CacheSync, TypeOK, passVars, envVars, ghosts
  <2>23. CASE UNCHANGED vars
    BY <2>23 DEF vars, apiVars, passVars, envVars, ghosts, TypeOK
  <2> QED
    BY <2>1, <2>2, <2>3, <2>4, <2>5, <2>6, <2>7, <2>8, <2>9, <2>10, <2>11, <2>12, <2>13,
       <2>14, <2>15, <2>16, <2>17, <2>18, <2>19, <2>20, <2>21, <2>22, <2>23
       DEF Next, PassStep, Failure, Outside
<1> QED
  BY <1>1, <1>2, PTL DEF Spec

-----------------------------------------------------------------------------
(* The bucket n is not somebody else's, or was put in the place of one of  *)
(* this CR's.                                                              *)
Ours(n) == filer[n].made # "them" \/ n \in replaced

(* The CR in the API server. Deletion marks and claims are only seen       *)
(* together with the finalizer, and a claim in the status is a true one.   *)
ObjectInv ==
    /\ ~lag => cached = obj
    /\ obj.fin => obj.exists
    /\ obj.deleting => obj.fin
    /\ obj.st.name # None => obj.fin /\ Ours(obj.st.name)

(* A copy of the CR, however old. One with the finalizer is about the CR   *)
(* still in the API server, unless it was terminating: then that CR may be *)
(* gone, and another have come, but none that a pass has taken up. What    *)
(* such a CR left behind, a copy of it must not delete: it is only left    *)
(* where the reclaim policy retains it.                                    *)
Follows(c) ==
    /\ c.fin /\ ~c.deleting => obj.fin
    /\ c.deleting => c.fin /\ (obj.fin => obj.deleting)
    /\ c.st.name # None => /\ c.fin
                           /\ obj.fin \/ c.spec.reclaim = "Delete" => Ours(c.st.name)

(* The copies in the cache and in the hand of the pass. Once a pass works  *)
(* for a terminating CR the cache shows no earlier version of it.          *)
Unwritten == {"check", "addFinalizer", "handleDeletion", "removeFinalizer"}
Deleting  == pc \in Unwritten /\ snap.deleting
CopyInv ==
    /\ Follows(cached)
    /\ pc # "idle" =>
        /\ Follows(snap)
        /\ ~stale => obj.exists /\ snap.fin = obj.fin /\ snap.deleting = obj.deleting
        /\ ~stale /\ pc \in Unwritten => cached = obj /\ snap = obj
        /\ Deleting /\ cached.fin => cached.deleting

(* Where the pass is: settings are pushed to a bucket of this CR only, or  *)
(* to one that came into its place; it is gone only if it was taken away   *)
(* under the pass. A deletion leaves nothing on record behind.             *)
RouteInv ==
    /\ pc \in Settling => \/ bname \in replaced
                          \/ ~lost /\ filer[bname].made \in {"us", "adopted"}
                          \/ lost /\ filer[bname].made = "none"
    /\ pc \in {"check", "exists", "create"} => ~lost
    /\ pc \in Settling \cup {"exists", "create"} => snap.fin /\ obj.fin
    /\ pc \in {"exists", "create", "handleDeletion", "removeFinalizer"}
          => snap.fin /\ ~Renamed(snap, bname)
    /\ pc \in {"handleDeletion", "removeFinalizer"} => snap.deleting
    /\ pc = "removeFinalizer" /\ MayDelete => bname \in replaced \/ filer[bname].made = "none"
    /\ pc \in (Settling \ {"placement", "status"}) \cup {"addFinalizer", "exists", "create"}
          => ~snap.deleting

OwnInv == ObjectInv /\ CopyInv /\ RouteInv

(* What a step may do to buckets: no other agent gets one.                 *)
KeepsOurs ==
    /\ replaced \subseteq replaced'
    /\ \A n \in Names : filer[n].made # "them" => filer'[n].made # "them"

(* Whose bucket it is after a creation, a deletion or a setting.           *)
LEMMA MadeBy ==
    ASSUME TypeOK, NEW f \in Buckets
    PROVE  /\ \A made \in {"us", "adopted"} : Created(f, made).made = made
           /\ Emptied(f).made = "none"
           /\ \A step \in Aspects : Effect(step, f).made = f.made
           /\ \A g \in PartialAccess(f) : g.made = f.made
<1>1. \A made \in {"us", "adopted"} : Created(f, made).made = made
  BY DEF Created, Buckets
<1>2. Emptied(f).made = "none"
  BY DEF Emptied, Buckets
<1>3. \A step \in Aspects : Effect(step, f).made = f.made
  BY DEF Effect, Aspects, Buckets
<1>4. \A g \in PartialAccess(f) : g.made = f.made
  BY DEF PartialAccess, Buckets
<1> QED
  BY <1>1, <1>2, <1>3, <1>4

(* A write leaves the cache behind.                                        *)
LEMMA PutFacts ==
    ASSUME ObjectInv, NEW o, Put(o)
    PROVE  obj' = o /\ cached' = cached /\ (~lag' => cached' = obj')
<1>1. CASE o = obj
  BY <1>1 DEF Put, apiVars, ObjectInv
<1>2. CASE o # obj
  BY <1>2 DEF Put
<1> QED
  BY <1>1, <1>2

(* The names on record are bucket names.                                   *)
LEMMA NameTypes ==
    ASSUME TypeOK
    PROVE  /\ \A c \in Objects : c.st.name # None => c.st.name \in Names
           /\ obj.st.name # None => obj.st.name \in Names
           /\ snap.st.name # None => snap.st.name \in Names
           /\ bname \in Names
BY DEF TypeOK, Objects, Statuses

(* A step that leaves the finalizer and the deletion mark, and the buckets *)
(* of the CR, leaves what is known of every copy.                          *)
LEMMA FollowsOn ==
    ASSUME TypeOK, KeepsOurs, obj'.fin = obj.fin, obj.deleting => obj'.deleting
    PROVE  /\ \A n \in Names : Ours(n) => Ours(n)'
           /\ \A c \in Objects : Follows(c) => Follows(c)'
<1>1. \A n \in Names : Ours(n) => Ours(n)'
  BY DEF KeepsOurs, Ours
<1>2. ASSUME NEW c \in Objects, Follows(c) PROVE Follows(c)'
  BY <1>1, <1>2, NameTypes DEF Follows
<1> QED
  BY <1>1, <1>2

(* The object itself is such a copy.                                       *)
LEMMA ObjectFollows == ASSUME ObjectInv PROVE Follows(obj)
BY DEF ObjectInv, Follows

(* The pass ends without a write.                                          *)
LEMMA EndsUnwritten ==
    ASSUME TypeOK, OwnInv, EndPass, UNCHANGED apiVars, KeepsOurs
    PROVE  OwnInv'
<1>1. pc' = "idle" /\ obj' = obj /\ cached' = cached /\ lag' = lag
  BY DEF EndPass, apiVars
<1>2. ObjectInv'
  BY <1>1, FollowsOn, NameTypes DEF OwnInv, ObjectInv
<1>3. Follows(cached)'
  BY <1>1, FollowsOn DEF OwnInv, CopyInv, Follows, TypeOK
<1> QED
  BY <1>1, <1>2, <1>3 DEF OwnInv, CopyInv, RouteInv, Settling, Aspects

(* The pass ends with a status whose claim, if any, is true.               *)
LEMMA EndsWithStatus ==
    ASSUME TypeOK, OwnInv, pc # "idle", KeepsOurs,
           NEW st \in Statuses, WriteStatus(st),
           ~stale /\ st.name # None => snap.fin /\ Ours(st.name)
    PROVE  OwnInv'
<1>1. CASE stale
  BY <1>1, EndsUnwritten DEF WriteStatus, WriteAndEnd
<1>2. CASE ~stale
  <2>1. /\ obj' = [obj EXCEPT !.st = st] /\ cached' = cached
        /\ ~lag' => cached' = obj'
        /\ pc' = "idle"
    BY <1>2, PutFacts DEF WriteStatus, WriteAndEnd, EndPass, OwnInv
  <2>2. /\ obj'.st = st /\ obj'.fin = obj.fin /\ obj'.exists = obj.exists
        /\ obj'.deleting = obj.deleting
    BY <2>1 DEF TypeOK, Objects
  <2>3. st.name # None => st.name \in Names
    BY DEF Statuses
  <2>4. st.name # None => obj.fin
    BY <1>2 DEF OwnInv, CopyInv
  <2>5. st.name # None => Ours(st.name)'
    BY <1>2, <2>2, <2>3, <2>4, FollowsOn
  <2>6. ObjectInv'
    BY <2>1, <2>2, <2>4, <2>5 DEF OwnInv, ObjectInv
  <2>7. Follows(cached)'
    <3>1. Follows(obj)'
      BY <2>6, ObjectFollows, PTL
    <3>2. \A c \in Objects : Follows(c) => Follows(c)'
      BY <2>2, FollowsOn
    <3> QED
      BY <2>1, <3>1, <3>2 DEF OwnInv, CopyInv, Follows, TypeOK
  <2> QED
    BY <2>1, <2>6, <2>7 DEF OwnInv, CopyInv, RouteInv, Settling, Aspects
<1> QED
  BY <1>1, <1>2

(* The pass ends with a failure: the claim in the status stays as it was.  *)
LEMMA EndsWithFailPhase ==
    ASSUME TypeOK, OwnInv, pc # "idle", KeepsOurs,
           NEW phase \in Phases, FailPhase(phase)
    PROVE  OwnInv'
<1>1. /\ [snap.st EXCEPT !.phase = phase] \in Statuses
      /\ [snap.st EXCEPT !.phase = phase].name = snap.st.name
  BY DEF TypeOK, Objects, Statuses
<1>2. ~stale /\ snap.st.name # None => snap.fin /\ Ours(snap.st.name)
  BY DEF OwnInv, CopyInv, Follows
<1> QED
  BY <1>1, <1>2, EndsWithStatus DEF FailPhase

(* The pass goes on, without a write.                                      *)
LEMMA GoesOn ==
    ASSUME TypeOK, OwnInv, UNCHANGED apiVars, KeepsOurs,
           pc # "idle", UNCHANGED <<bname, stale>>,
           snap' = snap \/ (snap' = [snap EXCEPT !.st.name = bname] /\ snap.fin
                               /\ filer'[bname].made # "them" /\ pc' = "lock"),
           pc' \in Unwritten => pc \in Unwritten,
           RouteInv'
    PROVE  OwnInv'
<1>1. obj' = obj /\ cached' = cached /\ lag' = lag /\ stale' = stale
  BY DEF apiVars
<1>2. ObjectInv'
  BY <1>1, FollowsOn, NameTypes DEF OwnInv, ObjectInv
<1>3. Follows(cached)'
  BY <1>1, FollowsOn DEF OwnInv, CopyInv, Follows, TypeOK
<1>4. snap'.fin = snap.fin /\ snap'.deleting = snap.deleting
  BY DEF TypeOK, Objects
<1>5. Follows(snap)'
  <2>1. CASE snap' = snap
    BY <1>1, <2>1, FollowsOn DEF OwnInv, CopyInv, Follows, TypeOK
  <2>2. CASE snap' # snap
    <3>1. snap'.st.name = bname
      BY <2>2 DEF TypeOK, Objects, Statuses
    <3>2. Ours(bname)'
      BY <2>2 DEF Ours
    <3> QED
      BY <1>1, <1>4, <2>2, <3>1, <3>2 DEF OwnInv, CopyInv, Follows
  <2> QED
    BY <2>1, <2>2
<1>6. CopyInv'
  BY <1>1, <1>3, <1>4, <1>5 DEF OwnInv, CopyInv, Deleting, Unwritten
<1> QED
  BY <1>2, <1>6 DEF OwnInv

(* A step that leaves the filer alone keeps every bucket as it was.        *)
LEMMA SameFiler ==
    ASSUME UNCHANGED filer, replaced \subseteq replaced'
    PROVE  KeepsOurs
BY DEF KeepsOurs

(* The user's writes leave the finalizer and the status alone, or find     *)
(* none, and take back no deletion mark.                                   *)
LEMMA UserPutsInv ==
    ASSUME TypeOK, OwnInv, NEW o \in Objects, UserPuts(o),
           o.fin = obj.fin, obj.deleting => o.deleting,
           o.fin => o.exists, o.deleting => o.fin,
           o.st.name # None => o.fin /\ o.st.name = obj.st.name
    PROVE  OwnInv'
<1>1. /\ obj' = o /\ cached' = cached
      /\ ~lag' => cached' = obj'
      /\ UNCHANGED <<pc, snap, bname, filer, replaced, lost>>
  BY PutFacts DEF UserPuts, OwnInv
<1>2. pc # "idle" => stale'
  BY DEF UserPuts
<1>3. KeepsOurs
  BY <1>1, SameFiler
<1>4. /\ \A n \in Names : Ours(n) => Ours(n)'
      /\ \A c \in Objects : Follows(c) => Follows(c)'
  BY <1>1, <1>3, FollowsOn
<1>5. ObjectInv'
  BY <1>1, <1>4, NameTypes DEF OwnInv, ObjectInv
<1>6. Follows(obj)'
  BY <1>5, ObjectFollows, PTL
<1>7. Follows(cached)'
  BY <1>1, <1>4, <1>6 DEF OwnInv, CopyInv, Follows, TypeOK
<1>8. pc # "idle" => Follows(snap)'
  BY <1>1, <1>4 DEF OwnInv, CopyInv, Follows, TypeOK
<1>9. pc # "idle" /\ Deleting /\ cached'.fin => cached'.deleting
  BY <1>1 DEF OwnInv, CopyInv, Follows, Deleting
<1>10. CopyInv'
  BY <1>1, <1>2, <1>7, <1>8, <1>9 DEF CopyInv, Deleting
<1>11. RouteInv'
  BY <1>1 DEF OwnInv, RouteInv, Renamed, MayDelete
<1> QED
  BY <1>5, <1>10, <1>11 DEF OwnInv

(* BucketExists and CreateBucket on a bucket that is there.                *)
LEMMA AdoptOrRefuseInv ==
    ASSUME TypeOK, OwnInv, AdoptOrRefuse, UNCHANGED <<replaced, lost>>,
           pc \in {"exists", "create"}
    PROVE  OwnInv'
<1>1. CASE snap.spec.adopt
  <2>1. Claim("adopted")
    BY <1>1 DEF AdoptOrRefuse
  <2>2. filer'[bname].made = "adopted" /\ \A n \in Names \ {bname} : filer'[n] = filer[n]
    BY <2>1 DEF Claim, TypeOK, Buckets
  <2>3. KeepsOurs
    BY <2>2 DEF KeepsOurs
  <2>4. snap'.fin = snap.fin /\ snap'.deleting = snap.deleting
    BY <2>1 DEF Claim, TypeOK, Objects
  <2>5. snap.fin /\ obj.fin /\ ~snap.deleting /\ ~lost
    BY DEF OwnInv, RouteInv
  <2>6. RouteInv'
    BY <2>1, <2>2, <2>4, <2>5 DEF Claim, RouteInv, Settling, Aspects, apiVars
  <2> QED
    BY <2>1, <2>2, <2>3, <2>5, <2>6, GoesOn DEF Claim, Unwritten
<1>2. CASE ~snap.spec.adopt
  BY <1>2, SameFiler, EndsWithFailPhase DEF AdoptOrRefuse, Phases
<1> QED
  BY <1>1, <1>2

(* A step of the pass that only moves on, no filer command included.       *)
LEMMA OnlyGoesOn ==
    ASSUME TypeOK, OwnInv, pc # "idle", NEW p, GoTo(p), UNCHANGED <<apiVars, filer>>,
           replaced \subseteq replaced',
           p \in Unwritten => pc \in Unwritten,
           RouteInv'
    PROVE  OwnInv'
BY SameFiler, GoesOn DEF GoTo

(* No name leaves the history of replaced buckets.                         *)
LEMMA ReplacedGrows == ASSUME [Next]_vars PROVE replaced \subseteq replaced'
BY DEF Next, PassStep, Failure, Outside, Load, Refuse, Proceed, AddFinalizer,
       BucketExists, CreateBucket, Push, Annotate, RecordReady, DeleteBucket,
       RemoveFinalizer, CreateFails, DeleteFails, PassAborts, PushFails, UserDeletes,
       UserEdits, UserCreates, UserPuts, GrantChanges, ClusterChanges, UsageRefresh,
       ForeignDeletes, ForeignCreates, CacheSync, Tears, vars, envVars, ghosts

(* Every step of the system keeps OwnInv.                                  *)
LEMMA OwnInvStep ==
    ASSUME TypeOK, OwnInv, [Next]_vars
    PROVE  OwnInv'
<1>0. replaced \subseteq replaced'
  BY ReplacedGrows
<1>1. CASE Load
  <2>1. /\ UNCHANGED <<obj, cached, lag, filer, replaced>> /\ snap' = cached
        /\ pc' = "check" /\ stale' = lag /\ cached.exists /\ ~lost'
    BY <1>1 DEF Load, apiVars
  <2>2. ObjectInv'
    BY <2>1 DEF OwnInv, ObjectInv, Ours
  <2>3. CopyInv'
    BY <2>1 DEF OwnInv, ObjectInv, CopyInv, Follows, Ours, Deleting
  <2>4. RouteInv'
    BY <2>1 DEF RouteInv, Settling, Aspects
  <2> QED
    BY <2>2, <2>3, <2>4 DEF OwnInv
<1>2. CASE Refuse
  <2>1. Refusal \in Phases
    BY DEF Refusal, Phases
  <2> QED
    BY <1>2, <2>1, <1>0, SameFiler, EndsWithFailPhase DEF Refuse
<1>3. CASE Proceed
  <2>1. CASE snap.deleting /\ ~snap.fin
    BY <1>3, <2>1, <1>0, SameFiler, EndsUnwritten DEF Proceed
  <2>2. CASE ~(snap.deleting /\ ~snap.fin)
    <3>1. PICK p \in {"handleDeletion", "addFinalizer", "exists"} :
             /\ GoTo(p)
             /\ p = "handleDeletion" <=> snap.deleting
             /\ p # "addFinalizer" => snap.fin
      BY <1>3, <2>2 DEF Proceed, TypeOK, Objects
    <3>2. ~Renamed(snap, bname)
      BY <1>3 DEF Proceed, Refusal
    <3>3. pc = "check" /\ UNCHANGED <<apiVars, filer, replaced, lost>>
      BY <1>3 DEF Proceed, envVars, ghosts
    <3>4. p = "exists" => obj.fin
      BY <3>1, <3>3 DEF OwnInv, CopyInv, Follows
    <3>5. RouteInv'
      BY <3>1, <3>2, <3>3, <3>4
         DEF GoTo, OwnInv, RouteInv, Settling, Aspects, Renamed, apiVars
    <3> QED
      BY <3>1, <3>3, <3>5, <1>0, OnlyGoesOn DEF Unwritten
  <2> QED
    BY <2>1, <2>2
<1>4. CASE AddFinalizer
  <2>1. CASE stale
    BY <1>4, <2>1, <1>0, SameFiler, EndsUnwritten DEF AddFinalizer, WriteAndEnd
  <2>2. CASE ~stale
    <3>1. /\ obj' = [obj EXCEPT !.fin = TRUE] /\ cached' = cached
          /\ ~lag' => cached' = obj'
          /\ pc' = "idle" /\ filer' = filer /\ replaced' = replaced
      BY <1>4, <2>2, PutFacts
         DEF AddFinalizer, WriteAndEnd, EndPass, OwnInv, envVars, ghosts
    <3>2. obj.exists /\ ~obj.deleting /\ cached = obj
      BY <1>4, <2>2 DEF AddFinalizer, OwnInv, CopyInv, RouteInv, Unwritten
    <3>3. /\ obj'.fin /\ obj'.exists /\ obj'.deleting = obj.deleting
          /\ obj'.st = obj.st
      BY <3>1, <3>2 DEF TypeOK, Objects
    <3>4. ObjectInv'
      BY <3>1, <3>3 DEF OwnInv, ObjectInv, Ours
    <3>5. Follows(cached)'
      BY <3>1, <3>2, <3>3 DEF OwnInv, ObjectInv, Follows, Ours
    <3> QED
      BY <3>1, <3>4, <3>5 DEF OwnInv, CopyInv, RouteInv, Settling, Aspects
  <2> QED
    BY <2>1, <2>2
<1>5. CASE BucketExists
  <2>0. UNCHANGED <<replaced, lost>>
    BY <1>5 DEF BucketExists, envVars, ghosts
  <2>1. CASE filer[bname].made = "none"
    <3>1. GoTo("create") /\ UNCHANGED <<apiVars, filer>> /\ pc = "exists"
      BY <1>5, <2>1 DEF BucketExists
    <3>2. RouteInv'
      BY <2>0, <3>1 DEF GoTo, OwnInv, RouteInv, Settling, Aspects, Renamed, apiVars
    <3> QED
      BY <3>1, <3>2, <1>0, OnlyGoesOn DEF Unwritten
  <2>2. CASE filer[bname].made # "none" /\ snap.st.name # None
    <3>1. GoTo("lock") /\ UNCHANGED <<apiVars, filer>> /\ pc = "exists"
      BY <1>5, <2>2 DEF BucketExists
    <3>2. snap.st.name = bname /\ snap.fin /\ obj.fin /\ ~snap.deleting /\ ~lost
      BY <2>2, <3>1 DEF OwnInv, RouteInv, Renamed, MayDelete
    <3>3. Ours(bname)
      BY <2>2, <3>1, <3>2 DEF OwnInv, CopyInv, Follows
    <3>4. RouteInv'
      BY <2>0, <2>2, <3>1, <3>2, <3>3
         DEF GoTo, RouteInv, Settling, Aspects, Ours, apiVars, TypeOK, Buckets
    <3> QED
      BY <3>1, <3>4, <1>0, OnlyGoesOn DEF Unwritten
  <2>3. CASE filer[bname].made # "none" /\ snap.st.name = None
    BY <1>5, <2>0, <2>3, AdoptOrRefuseInv DEF BucketExists
  <2> QED
    BY <2>1, <2>2, <2>3
<1>6. CASE CreateBucket
  <2>0. UNCHANGED <<replaced, lost>>
    BY <1>6 DEF CreateBucket, Tears
  <2>1. CASE filer[bname].made # "none"
    BY <1>6, <2>0, <2>1, AdoptOrRefuseInv DEF CreateBucket
  <2>2. CASE filer[bname].made = "none"
    <3>1. filer'[bname].made = "us" /\ \A n \in Names \ {bname} : filer'[n] = filer[n]
      BY <1>6, <2>2, MadeBy DEF CreateBucket, TypeOK
    <3>2. KeepsOurs
      BY <1>0, <3>1 DEF KeepsOurs
    <3>3. /\ snap' = [snap EXCEPT !.st.name = bname] /\ pc = "create"
          /\ snap.fin /\ obj.fin /\ ~snap.deleting /\ ~lost
          /\ pc' = "lock" /\ UNCHANGED <<bname, stale, apiVars>>
      BY <1>6, <2>2 DEF CreateBucket, OwnInv, RouteInv
    <3>4. snap'.fin = snap.fin /\ snap'.deleting = snap.deleting
      BY <3>3 DEF TypeOK, Objects
    <3>5. RouteInv'
      BY <2>0, <3>1, <3>3, <3>4 DEF RouteInv, Settling, Aspects, apiVars
    <3> QED
      BY <3>1, <3>2, <3>3, <3>5, GoesOn DEF Unwritten
  <2> QED
    BY <2>1, <2>2
<1>7. ASSUME NEW step \in Aspects, Push(step) PROVE OwnInv'
  <2>1. CASE Needed(step) /\ ~Accepted(step, filer[bname])
    BY <1>7, <2>1, <1>0, SameFiler, EndsWithFailPhase DEF Push, Aspects, Phases
  <2>2. CASE ~(Needed(step) /\ ~Accepted(step, filer[bname]))
    <3>1. /\ filer' = IF Needed(step) THEN [filer EXCEPT ![bname] = Effect(step, @)] ELSE filer
          /\ GoTo(NextStep(step)) /\ UNCHANGED apiVars /\ pc = step
      BY <1>7, <2>2 DEF Push
    <3>3. \A n \in Names : filer'[n].made = filer[n].made
      BY <3>1, MadeBy DEF TypeOK
    <3>4. KeepsOurs
      BY <1>0, <3>3 DEF KeepsOurs
    <3>5. /\ NextStep(step) \in Settling
          /\ NextStep(step) \notin {"placement", "status"} => step # "placement"
      BY DEF NextStep, Aspects, Settling
    <3>6. /\ \/ bname \in replaced
             \/ ~lost /\ filer[bname].made \in {"us", "adopted"}
             \/ lost /\ filer[bname].made = "none"
          /\ snap.fin /\ obj.fin /\ bname \in Names
          /\ step # "placement" => ~snap.deleting
      BY <3>1 DEF OwnInv, RouteInv, Settling, TypeOK, Aspects
    <3>7. RouteInv'
      <4>1. UNCHANGED <<replaced, lost>>
        BY <1>7 DEF Push, Tears
      <4> QED
        BY <3>1, <3>3, <3>5, <3>6, <4>1 DEF GoTo, RouteInv, Settling, Aspects, apiVars
    <3>8. pc' \notin Unwritten
      BY <3>1, <3>5 DEF GoTo, Settling, Aspects, Unwritten
    <3> QED
      BY <3>1, <3>4, <3>7, <3>8, GoesOn DEF GoTo, Aspects
  <2> QED
    BY <2>1, <2>2
<1>8. CASE Annotate
  <2>0. pc = "annotate" /\ UNCHANGED <<filer, replaced, lost>>
    BY <1>8 DEF Annotate
  <2>1. CASE GoTo("placement") /\ UNCHANGED <<apiVars, swapped>>
    <3>1. RouteInv'
      BY <2>0, <2>1 DEF GoTo, OwnInv, RouteInv, Settling, Aspects, apiVars
    <3> QED
      BY <2>0, <2>1, <3>1, <1>0, OnlyGoesOn DEF Unwritten
  <2>2. CASE EndPass /\ UNCHANGED <<apiVars, swapped>>
    BY <2>0, <2>2, <1>0, SameFiler, EndsUnwritten
  <2>3. CASE snap.ann # snap.spec.access /\ obj.exists
    <3>1. /\ obj' = [obj EXCEPT !.ann = snap.spec.access] /\ cached' = cached
          /\ ~lag' => cached' = obj'
          /\ snap' = [obj EXCEPT !.ann = snap.spec.access,
                                 !.spec = MergeSpec(snap.spec, obj.spec),
                                 !.st = MergeStatus(snap.st, obj.st)]
          /\ pc' = "placement" /\ bname' = bname
      BY <1>8, <2>3, PutFacts DEF Annotate, OwnInv
    <3>2. /\ obj'.fin = obj.fin /\ obj'.exists = obj.exists
          /\ obj'.deleting = obj.deleting /\ obj'.st = obj.st
      BY <3>1 DEF TypeOK, Objects
    <3>3. /\ snap'.fin = obj.fin /\ snap'.deleting = obj.deleting
          /\ snap'.st = MergeStatus(snap.st, obj.st)
      BY <3>1 DEF TypeOK, Objects
    <3>4. MergeStatus(snap.st, obj.st).name \in {snap.st.name, obj.st.name}
      BY DEF MergeStatus, TypeOK, Objects, Statuses
    <3>5. /\ \A n \in Names : Ours(n) => Ours(n)'
          /\ \A c \in Objects : Follows(c) => Follows(c)'
      BY <2>0, <3>2, <1>0, SameFiler, FollowsOn
    <3>6. ObjectInv'
      BY <3>1, <3>2, <3>5, NameTypes DEF OwnInv, ObjectInv
    <3>7. Follows(obj)'
      BY <3>6, ObjectFollows, PTL
    <3>8. Follows(cached)'
      BY <3>1, <3>5, <3>7 DEF OwnInv, CopyInv, Follows, TypeOK
    <3>9. obj.fin /\ snap.fin
      BY <2>0 DEF OwnInv, RouteInv, Settling
    <3>10. snap'.st.name # None => Ours(snap'.st.name)
      BY <2>0, <3>3, <3>4, <3>9 DEF OwnInv, ObjectInv, CopyInv, Follows
    <3>11. Follows(snap)'
      BY <2>0, <3>2, <3>3, <3>9, <3>10 DEF Follows, Ours
    <3>12. CopyInv'
      BY <2>3, <3>1, <3>2, <3>3, <3>8, <3>11 DEF CopyInv, Deleting, Unwritten
    <3>13. RouteInv'
      BY <2>0, <3>1, <3>2, <3>3, <3>9 DEF OwnInv, RouteInv, Settling, Aspects
    <3> QED
      BY <3>6, <3>12, <3>13 DEF OwnInv
  <2> QED
    BY <1>8, <2>1, <2>2, <2>3 DEF Annotate
<1>9. CASE RecordReady
  <2>1. PICK q \in BOOLEAN : q = (snap.spec.quota # "none")
    BY Zenon
  <2> DEFINE st == [name |-> bname, owner |-> snap.spec.owner, quota |-> q,
                    lock |-> snap.spec.lock, phase |-> "Ready"]
  <2>2. WriteStatus(st) /\ pc = "status" /\ UNCHANGED filer
    BY <1>9, <2>1, Zenon DEF RecordReady
  <2>3. st \in Statuses /\ st.name = bname
    BY DEF TypeOK, Objects, SpecRecords, Statuses, Phases
  <2>4. snap.fin /\ Ours(bname)
    BY <2>2 DEF OwnInv, RouteInv, Settling, Ours
  <2> HIDE DEF st
  <2> QED
    BY <2>2, <2>3, <2>4, <1>0, SameFiler, EndsWithStatus
<1>10. CASE DeleteBucket
  <2>1. /\ pc = "handleDeletion" /\ GoTo("removeFinalizer") /\ UNCHANGED apiVars
        /\ filer' = IF MayDelete THEN [filer EXCEPT ![bname] = Emptied(@)] ELSE filer
    BY <1>10 DEF DeleteBucket
  <2>2. MayDelete => filer'[bname].made = "none"
    BY <2>1, MadeBy DEF TypeOK
  <2>3. KeepsOurs
    BY <1>0, <2>1, MadeBy DEF KeepsOurs, TypeOK
  <2>4. RouteInv'
    BY <2>1, <2>2 DEF GoTo, OwnInv, RouteInv, Settling, Aspects, Renamed, MayDelete
  <2> QED
    BY <2>1, <2>3, <2>4, GoesOn DEF GoTo, Unwritten
<1>11. CASE RemoveFinalizer
  <2>1. CASE stale
    BY <1>11, <2>1, <1>0, SameFiler, EndsUnwritten DEF RemoveFinalizer, WriteAndEnd
  <2>2. CASE ~stale
    <3>1. /\ obj' = Gone(obj.spec) /\ cached' = cached /\ pc' = "idle"
          /\ ~lag' => cached' = obj'
      BY <1>11, <2>2, PutFacts DEF RemoveFinalizer, WriteAndEnd, EndPass, OwnInv
    <3>2. ~obj'.fin /\ ~obj'.deleting /\ obj'.st.name = None
      BY <3>1 DEF Gone, Fresh, NoStatus
    <3>3. ObjectInv'
      BY <3>1, <3>2 DEF ObjectInv
    <3>4. cached = snap /\ snap.deleting /\ snap.fin
      BY <1>11, <2>2 DEF RemoveFinalizer, OwnInv, CopyInv, RouteInv, Unwritten
    <3>5. \A n \in Names : n = snap.st.name /\ snap.spec.reclaim = "Delete" => Ours(n)'
      <4>1. ASSUME snap.st.name # None, snap.spec.reclaim = "Delete"
            PROVE  snap.st.name = bname /\ (bname \in replaced \/ filer[bname].made = "none")
        BY <1>11, <4>1 DEF RemoveFinalizer, OwnInv, RouteInv, Renamed, MayDelete
      <4>2. filer[bname].made = "none" => filer'[bname].made = "none"
        BY <1>11, <2>2 DEF RemoveFinalizer, Disowned, TypeOK
      <4> QED
        BY <1>0, <4>1, <4>2, NamesAssumption DEF Ours
    <3>6. Follows(cached)'
      BY <3>1, <3>2, <3>4, <3>5, NameTypes DEF Follows, Ours
    <3> QED
      BY <3>1, <3>3, <3>6 DEF OwnInv, CopyInv, RouteInv, Settling, Aspects
  <2> QED
    BY <2>1, <2>2
<1>12. CASE CreateFails
  <2>1. \A n \in Names : \/ filer'[n].made = filer[n].made
                         \/ filer[n].made = "none" /\ filer'[n].made = "us"
    BY <1>12, MadeBy DEF CreateFails, TypeOK
  <2>2. KeepsOurs
    BY <1>0, <2>1 DEF KeepsOurs
  <2> QED
    BY <1>12, <2>2, EndsWithFailPhase DEF CreateFails, Phases
<1>13. CASE DeleteFails
  <2>1. pc = "handleDeletion"
    BY <1>13 DEF DeleteFails
  <2>2. filer' = filer \/ filer' = [filer EXCEPT ![bname] = Emptied(@)]
    BY <1>13 DEF DeleteFails
  <2>3. KeepsOurs
    BY <1>0, <2>2, MadeBy DEF KeepsOurs, TypeOK
  <2> QED
    BY <1>13, <2>1, <2>3, EndsWithFailPhase DEF DeleteFails, Phases
<1>14. CASE PassAborts
  BY <1>14, <1>0, SameFiler, EndsUnwritten DEF PassAborts
<1>15. ASSUME NEW step \in Aspects, PushFails(step) PROVE OwnInv'
  <2>2. \A n \in Names : filer'[n].made = filer[n].made
    BY <1>15, MadeBy DEF PushFails, TypeOK
  <2>3. KeepsOurs
    BY <1>0, <2>2 DEF KeepsOurs
  <2> QED
    BY <1>15, <2>3, EndsWithFailPhase DEF PushFails, Aspects, Phases
<1>16. CASE UserDeletes
  <2> DEFINE o == IF obj.fin THEN [obj EXCEPT !.deleting = TRUE] ELSE Gone(obj.spec)
  <2>1. UserPuts(o)
    BY <1>16 DEF UserDeletes
  <2>2. o \in Objects
    BY CopyTypes DEF TypeOK, Objects
  <2>3. /\ obj.fin => o.fin /\ o.deleting /\ o.exists = obj.exists /\ o.st = obj.st
        /\ ~obj.fin => ~o.fin /\ ~o.deleting /\ o.st.name = None
    BY DEF TypeOK, Objects, Gone, Fresh, NoStatus
  <2> HIDE DEF o
  <2>4. (obj.fin => obj.exists) /\ (obj.deleting => obj.fin)
        /\ obj.fin \in BOOLEAN /\ o.fin \in BOOLEAN
    BY <2>2 DEF OwnInv, ObjectInv, TypeOK, Objects
  <2> QED
    BY <2>1, <2>2, <2>3, <2>4, UserPutsInv
<1>17. ASSUME NEW s \in Specs, UserEdits(s) PROVE OwnInv'
  <2> DEFINE o == [obj EXCEPT !.spec = s]
  <2>1. UserPuts(o)
    BY <1>17 DEF UserEdits
  <2>2. o \in Objects
    BY SpecsAssumption DEF TypeOK, Objects
  <2>3. o.fin = obj.fin /\ o.deleting = obj.deleting /\ o.exists = obj.exists /\ o.st = obj.st
    BY DEF TypeOK, Objects
  <2> HIDE DEF o
  <2>4. /\ obj.fin => obj.exists
        /\ obj.deleting => obj.fin
        /\ obj.st.name # None => obj.fin
    BY DEF OwnInv, ObjectInv
  <2> QED
    BY <2>1, <2>2, <2>3, <2>4, UserPutsInv
<1>18. ASSUME NEW s \in Specs, UserCreates(s) PROVE OwnInv'
  <2>1. UserPuts(Fresh(s)) /\ ~obj.exists
    BY <1>18 DEF UserCreates
  <2>2. Fresh(s) \in Objects
    BY SpecsAssumption, CopyTypes
  <2>3. ~Fresh(s).fin /\ ~Fresh(s).deleting /\ Fresh(s).st.name = None
    BY DEF Fresh, NoStatus
  <2>4. ~obj.fin /\ ~obj.deleting /\ obj.fin \in BOOLEAN /\ Fresh(s).fin \in BOOLEAN
    BY <2>1, <2>2 DEF OwnInv, ObjectInv, TypeOK, Objects
  <2> QED
    BY <2>1, <2>2, <2>3, <2>4, UserPutsInv
<1>19. CASE GrantChanges \/ ClusterChanges
  BY <1>19 DEF GrantChanges, ClusterChanges, apiVars, passVars, ghosts, OwnInv, ObjectInv,
               CopyInv, RouteInv, Ours, Follows, Deleting, Renamed, MayDelete
<1>20. CASE UsageRefresh
  <2>1. UNCHANGED <<obj, cached, pc, snap, bname, filer, replaced, lost>> /\ stale' /\ lag'
    BY <1>20 DEF UsageRefresh, envVars, ghosts
  <2>2. ObjectInv'
    BY <2>1 DEF OwnInv, ObjectInv, Ours
  <2>3. CopyInv'
    BY <2>1 DEF OwnInv, CopyInv, Follows, Ours, Deleting
  <2> QED
    BY <2>1, <2>2, <2>3 DEF OwnInv, RouteInv, Renamed, MayDelete
<1>21. ASSUME NEW n \in Names, ForeignDeletes(n) PROVE OwnInv'
  <2>1. /\ UNCHANGED <<obj, cached, lag, pc, snap, bname, stale, replaced>>
        /\ filer' = [filer EXCEPT ![n] = Emptied(@)]
        /\ lost' = (lost \/ (pc \in Settling /\ n = bname))
    BY <1>21 DEF ForeignDeletes, apiVars, passVars
  <2>2. filer'[n].made = "none" /\ \A m \in Names \ {n} : filer'[m] = filer[m]
    BY <2>1, MadeBy DEF TypeOK
  <2>3. KeepsOurs
    BY <1>0, <2>2 DEF KeepsOurs
  <2>4. /\ \A m \in Names : Ours(m) => Ours(m)'
        /\ \A c \in Objects : Follows(c) => Follows(c)'
    BY <2>1, <2>3, FollowsOn
  <2>5. ObjectInv'
    BY <2>1, <2>4, NameTypes DEF OwnInv, ObjectInv
  <2>6. Follows(cached)' /\ (pc # "idle" => Follows(snap)')
    BY <2>1, <2>4 DEF OwnInv, CopyInv, Follows, TypeOK
  <2>7. CopyInv'
    BY <2>1, <2>6 DEF OwnInv, CopyInv, Deleting
  <2>8. lost' <=> lost \/ (pc \in Settling /\ n = bname)
    BY <2>1
  <2>9. pc \in {"check", "exists", "create"} => pc \notin Settling
    BY DEF Settling, Aspects
  <2>10. RouteInv'
    BY <2>1, <2>2, <2>8, <2>9, NameTypes DEF OwnInv, RouteInv, Renamed, MayDelete
  <2> QED
    BY <2>5, <2>7, <2>10 DEF OwnInv
<1>22. ASSUME NEW n \in Names, NEW u \in Users \cup {None}, ForeignCreates(n, u)
       PROVE  OwnInv'
  <2>1. /\ UNCHANGED <<obj, cached, lag, pc, snap, bname, stale, lost>>
        /\ filer[n].made = "none" /\ (n \in Claimed => n \in replaced')
        /\ filer' = [filer EXCEPT ![n].made = "them", ![n].owner = u]
    BY <1>22 DEF ForeignCreates, apiVars, passVars
  <2>2. \A m \in Names \ {n} : filer'[m] = filer[m]
    BY <2>1 DEF TypeOK
  <2>3. \A m \in Names \cap Claimed : Ours(m) => Ours(m)'
    BY <1>0, <2>1, <2>2 DEF Ours
  <2>4. \A c \in {obj, cached, snap} : c.st.name # None => c.st.name \in Names \cap Claimed
    BY NameTypes DEF Claimed, TypeOK
  <2>5. ObjectInv'
    BY <2>1, <2>3, <2>4 DEF OwnInv, ObjectInv
  <2>6. \A c \in {obj, cached, snap} : Follows(c) => Follows(c)'
    BY <2>1, <2>3, <2>4 DEF Follows
  <2>7. Follows(cached)' /\ (pc # "idle" => Follows(snap)')
    BY <2>1, <2>6 DEF OwnInv, CopyInv, Follows
  <2>8. CopyInv'
    BY <2>1, <2>7 DEF OwnInv, CopyInv, Deleting
  <2>9. RouteInv'
    <3>1. /\ pc \in Settling => bname \in Claimed
          /\ pc = "removeFinalizer" /\ MayDelete => bname \in Claimed
      BY DEF Claimed, MayDelete
    <3> QED
      BY <1>0, <2>1, <2>2, <3>1, NameTypes DEF OwnInv, RouteInv, Renamed, MayDelete
  <2> QED
    BY <2>5, <2>8, <2>9 DEF OwnInv
<1>23. CASE CacheSync
  <2>1. UNCHANGED <<obj, pc, snap, bname, stale, filer, replaced, lost>> /\ cached' = obj /\ ~lag'
    BY <1>23 DEF CacheSync, passVars, envVars, ghosts
  <2>2. ObjectInv'
    BY <2>1 DEF OwnInv, ObjectInv, Ours
  <2>3. CopyInv'
    BY <2>1 DEF OwnInv, ObjectInv, CopyInv, Follows, Ours, Deleting
  <2> QED
    BY <2>1, <2>2, <2>3 DEF OwnInv, RouteInv, Renamed, MayDelete
<1>24. CASE UNCHANGED vars
  BY <1>24 DEF vars, apiVars, passVars, envVars, ghosts, OwnInv, ObjectInv, CopyInv,
               RouteInv, Ours, Follows, Deleting, Renamed, MayDelete
<1> QED
  BY <1>1, <1>2, <1>3, <1>4, <1>5, <1>6, <1>7, <1>8, <1>9, <1>10, <1>11, <1>12, <1>13,
     <1>14, <1>15, <1>16, <1>17, <1>18, <1>19, <1>20, <1>21, <1>22, <1>23, <1>24
     DEF Next, PassStep, Failure, Outside

(* What a step does to somebody else's bucket.                             *)
LEMMA ForeignStep ==
    ASSUME TypeOK, OwnInv, [Next]_vars, NEW n \in Names,
           filer[n].made = "them", filer'[n] # filer[n], edits' = edits,
           n \notin replaced
    PROVE  /\ filer'[n] = [filer[n] EXCEPT !.made = "adopted"]
           /\ snap.spec.adopt /\ bname = n
<1>0. ~Ours(n)
  BY DEF Ours
<1>1. ASSUME AdoptOrRefuse
      PROVE  /\ filer'[n] = [filer[n] EXCEPT !.made = "adopted"]
             /\ snap.spec.adopt /\ bname = n
  BY <1>1 DEF AdoptOrRefuse, Claim, TypeOK
<1>2. CASE BucketExists
  BY <1>1, <1>2 DEF BucketExists
<1>3. CASE CreateBucket \/ CreateFails
  <2>1. filer[bname].made # "none" => AdoptOrRefuse \/ filer' = filer
    BY <1>3 DEF CreateBucket, CreateFails
  <2>2. filer[bname].made = "none" => filer'[n] = filer[n]
    BY <1>3 DEF CreateBucket, CreateFails, TypeOK
  <2> QED
    BY <1>1, <2>1, <2>2
<1>4. ASSUME NEW step \in Aspects, Push(step) \/ PushFails(step) PROVE FALSE
  <2>1. Ours(bname)
    BY <1>4 DEF Push, PushFails, OwnInv, RouteInv, Settling, Ours
  <2>2. \A m \in Names \ {bname} : filer'[m] = filer[m]
    BY <1>4 DEF Push, PushFails, TypeOK
  <2> QED
    BY <1>0, <2>1, <2>2
<1>5. CASE DeleteBucket \/ DeleteFails
  <2>1. filer' = filer \/ (MayDelete /\ filer' = [filer EXCEPT ![bname] = Emptied(@)])
    BY <1>5 DEF DeleteBucket, DeleteFails
  <2>2. MayDelete => Ours(bname)
    <3>1. pc = "handleDeletion" /\ bname \in Names
      BY <1>5 DEF DeleteBucket, DeleteFails, TypeOK
    <3> QED
      BY <3>1, NamesAssumption DEF MayDelete, OwnInv, CopyInv, Follows
  <2> QED
    BY <1>0, <2>1, <2>2 DEF TypeOK
<1>6. CASE RemoveFinalizer
  BY <1>6 DEF RemoveFinalizer, Disowned, TypeOK, Buckets
<1>7. CASE \/ Load \/ Refuse \/ Proceed \/ AddFinalizer \/ Annotate \/ RecordReady
           \/ PassAborts \/ CacheSync \/ UNCHANGED vars
  BY <1>7 DEF Load, Refuse, Proceed, AddFinalizer, Annotate, RecordReady, PassAborts,
              CacheSync, vars
<1>8. ASSUME Edit PROVE FALSE
  BY <1>8 DEF Edit, TypeOK
<1> QED
  BY <1>2, <1>3, <1>4, <1>5, <1>6, <1>7, <1>8
     DEF Next, PassStep, Failure, Outside, UserDeletes, GrantChanges, ClusterChanges,
         UsageRefresh, UserEdits, UserCreates, UserPuts, ForeignDeletes, ForeignCreates

(* Somebody else's bucket is only ever adopted, under a spec that asks for *)
(* it, by any number of passes, failures and edits, with a lagging cache   *)
(* and whatever other agents create or delete, unless it was created in    *)
(* the place of a bucket the CR, or a copy of it, has on record.           *)
THEOREM ForeignIsUntouched == Spec => ForeignUntouched
<1>1. Init => OwnInv
  BY DEF Init, Fresh, NoStatus, OwnInv, ObjectInv, CopyInv, Follows, RouteInv, Settling,
         Aspects
<1>2. TypeOK /\ OwnInv /\ [Next]_vars => OwnInv'
  BY OwnInvStep
<1>3. TypeOK /\ OwnInv /\ [Next]_vars =>
        [\A n \in Names :
           filer[n].made = "them" /\ filer'[n] # filer[n] /\ edits' = edits
               => \/ n \in replaced
                  \/ /\ filer'[n] = [filer[n] EXCEPT !.made = "adopted"]
                     /\ snap.spec.adopt /\ bname = n]_vars
  BY ForeignStep
<1>4. Spec => []TypeOK
  BY BucketTypeCorrect
<1> QED
  BY <1>1, <1>2, <1>3, <1>4, PTL DEF Spec, ForeignUntouched

-----------------------------------------------------------------------------
(* The bucket n is locked, or somebody has taken it away or put another in *)
(* its place.                                                              *)
Locked(n) ==
    n # None /\ (filer[n].lock \/ filer[n].made = "none" \/ n \in replaced)

(* The lock is final: a copy that has it, in its status or in its spec, is *)
(* about a spec in the API server that has it too.                         *)
Final(c) ==
    /\ c.st.lock => c.spec.lock /\ c.st.name # None
    /\ c.fin /\ obj.fin /\ c.spec.lock => obj.spec.lock

(* A pass whose copy is the latest version knows the spec's lock, and the  *)
(* name in the API server or a claim it has not written yet.               *)
NameInv ==
    /\ Final(obj) /\ Final(cached)
    /\ pc # "idle" =>
        /\ Final(snap)
        /\ ~stale => /\ obj.spec.lock => snap.spec.lock
                     /\ obj.st.name \in {None, snap.st.name}
    /\ pc = "lock" => snap.st.name = bname

(* A lock on record in a copy is there, and so is the one of the name in   *)
(* the API server now.                                                     *)
Recorded(c) ==
    c.st.lock /\ ~c.deleting
        => Locked(c.st.name) /\ (obj.deleting \/ Locked(obj.st.name))
LockInv == Recorded(obj) /\ Recorded(cached) /\ (pc # "idle" => Recorded(snap))

(* A lock on record was in the spec of every copy since: a pass that makes *)
(* the bucket again makes it with the lock.                                *)
LockSeen ==
    /\ obj.st.lock => cached.spec.lock
    /\ pc # "idle" =>
        /\ obj.st.lock \/ cached.st.lock => snap.spec.lock
        /\ snap.spec.lock /\ snap.fin /\ obj.fin => cached.spec.lock

(* What the stages behind the pass have left on the filer, as long as the  *)
(* bucket is the one the pass has found or made.                           *)
StageInv == ~lost /\ bname \notin replaced =>
    /\ pc \in Settling \ {"lock"} /\ snap.spec.lock => filer[bname].lock
    /\ pc \in Settling \ {"lock", "versioning"} /\ snap.spec.versioning # "Off"
          => filer[bname].versioning = snap.spec.versioning
    /\ pc \in Settling \ {"lock", "versioning", "quota"} /\ snap.spec.quota # "none"
          => snap.spec.quota # "invalid" /\ (filer[bname].quota <=> snap.spec.quota = "set")
    /\ pc \in {"annotate", "placement", "status"}
          => snap.spec.access \subseteq filer[bname].grants
    /\ pc = "status" /\ snap.spec.placement => filer[bname].conf

RecordInv == NameInv /\ (~swapped => LockInv /\ LockSeen /\ StageInv)

(* A locked bucket on record stays, unless a pass deletes it for a         *)
(* terminating CR.                                                         *)
KeepsLocked ==
    \/ pc \in {"handleDeletion", "removeFinalizer"}
    \/ ~obj.st.lock /\ ~cached.st.lock /\ ~snap.st.lock
    \/ \A n \in Names \cap {obj.st.name, cached.st.name, snap.st.name} :
          Locked(n) => Locked(n)'

(* A step that leaves the filer alone keeps every lock.                    *)
LEMMA SameLocks == ASSUME UNCHANGED <<filer, replaced>> PROVE KeepsLocked
BY DEF KeepsLocked, Locked

(* While a pass deletes, no copy that is not terminating records a lock.   *)
LEMMA NoRecordLeft ==
    ASSUME OwnInv, pc \in {"handleDeletion", "removeFinalizer"},
           NEW c \in {obj, cached, snap}, Recorded(c)
    PROVE  ~(c.st.lock /\ ~c.deleting)
<1>1. c.st.lock /\ ~c.deleting => c.st.name # None
  BY DEF Recorded, Locked
<1>2. snap.deleting
  BY DEF OwnInv, RouteInv
<1>3. CASE c = obj
  BY <1>1, <1>2, <1>3 DEF OwnInv, ObjectInv, CopyInv, Follows
<1>4. CASE c = cached
  BY <1>1, <1>2, <1>4 DEF OwnInv, CopyInv, Follows, Deleting, Unwritten
<1>5. CASE c = snap
  BY <1>2, <1>5
<1> QED
  BY <1>3, <1>4, <1>5

(* What is known of the locks on record stays, as long as the name in the  *)
(* API server and its deletion mark do.                                    *)
LEMMA LocksOn ==
    ASSUME TypeOK, OwnInv, KeepsLocked, NEW c \in {obj, cached, snap}, Recorded(c),
           obj'.st.name = obj.st.name, obj.deleting => obj'.deleting
    PROVE  Recorded(c)'
<1>1. CASE pc \in {"handleDeletion", "removeFinalizer"}
  BY <1>1, NoRecordLeft DEF Recorded
<1>2. CASE ~obj.st.lock /\ ~cached.st.lock /\ ~snap.st.lock
  BY <1>2 DEF Recorded
<1>3. CASE \A n \in Names \cap {obj.st.name, cached.st.name, snap.st.name} :
              Locked(n) => Locked(n)'
  <2>1. c \in Objects
    BY DEF TypeOK
  <2>2. c.st.lock /\ ~c.deleting =>
           c.st.name \in Names /\ (obj.deleting \/ obj.st.name \in Names)
    BY <2>1, NameTypes DEF Recorded, Locked
  <2>3. c.st.name \in {obj.st.name, cached.st.name, snap.st.name}
    OBVIOUS
  <2> QED
    BY <1>3, <2>2, <2>3 DEF Recorded, Locked
<1> QED
  BY <1>1, <1>2, <1>3 DEF KeepsLocked

(* The pass ends without a write.                                          *)
LEMMA EndsUnrecorded ==
    ASSUME TypeOK, OwnInv, RecordInv, EndPass, UNCHANGED <<apiVars, swapped>>,
           ~swapped => KeepsLocked
    PROVE  RecordInv'
<1>1. pc' = "idle" /\ obj' = obj /\ cached' = cached
  BY DEF EndPass, apiVars
<1>2. NameInv' /\ StageInv' /\ (~swapped => LockSeen')
  BY <1>1 DEF RecordInv, NameInv, Final, StageInv, LockSeen, Settling, Aspects
<1>3. ~swapped => LockInv'
  <2> SUFFICES ASSUME ~swapped PROVE LockInv'
    OBVIOUS
  <2>1. Recorded(obj) /\ Recorded(cached)
    BY DEF RecordInv, LockInv
  <2>2. \A c \in {obj, cached} : Recorded(c)'
    BY <1>1, <2>1, LocksOn
  <2> QED
    BY <1>1, <2>2 DEF LockInv, Recorded
<1> QED
  BY <1>2, <1>3 DEF RecordInv

(* The pass ends with a status whose lock, if any, is there: the spec has  *)
(* it, and the name of the status may replace the one in the API server.   *)
LEMMA EndsRecorded ==
    ASSUME TypeOK, OwnInv, RecordInv, pc # "idle", ~swapped => KeepsLocked,
           UNCHANGED swapped, NEW st \in Statuses, WriteStatus(st),
           \/ st.name = snap.st.name /\ st.lock = snap.st.lock
           \/ UNCHANGED <<filer, replaced>>,
           ~swapped /\ ~stale /\ st.lock => snap.deleting \/ Locked(st.name),
           ~swapped /\ ~stale /\ cached.st.lock /\ ~cached.deleting
               => obj.deleting \/ Locked(st.name),
           ~stale /\ st.lock
               => obj.spec.lock /\ st.name # None /\ snap.spec.lock /\ snap.fin
    PROVE  RecordInv'
<1>1. CASE stale
  BY <1>1, EndsUnrecorded DEF WriteStatus, WriteAndEnd
<1>2. CASE ~stale
  <2>1. obj' = [obj EXCEPT !.st = st] /\ cached' = cached /\ pc' = "idle"
    BY <1>2, PutFacts DEF WriteStatus, WriteAndEnd, EndPass, OwnInv
  <2>2. /\ obj'.st = st /\ obj'.deleting = obj.deleting /\ obj'.fin = obj.fin
        /\ obj'.spec = obj.spec
    BY <2>1 DEF TypeOK, Objects
  <2>3. Final(obj)'
    BY <1>2, <2>2 DEF Final
  <2>4. Final(cached)'
    BY <2>1, <2>2 DEF RecordInv, NameInv, Final
  <2>5. NameInv' /\ StageInv'
    BY <2>1, <2>3, <2>4 DEF NameInv, StageInv, Settling, Aspects
  <2>7. ~swapped => LockSeen'
    <3>1. ~stale => obj.fin = snap.fin
      BY DEF OwnInv, CopyInv
    <3> QED
      BY <1>2, <2>1, <2>2, <3>1 DEF RecordInv, LockSeen
  <2>6. ASSUME ~swapped PROVE Recorded(obj)' /\ Recorded(cached)'
    <3>1. snap.deleting => obj.deleting
      BY <1>2 DEF OwnInv, CopyInv
    <3>2. st.name # None => st.name \in Names
      BY DEF Statuses
    <3>3. Recorded(cached)
      BY <2>6 DEF RecordInv, LockInv
    <3>4. CASE pc \in {"handleDeletion", "removeFinalizer"}
      <4>1. obj'.deleting
        BY <2>2, <3>1, <3>4 DEF OwnInv, RouteInv
      <4>2. ~(cached.st.lock /\ ~cached.deleting)
        BY <3>3, <3>4, NoRecordLeft
      <4> QED
        BY <2>1, <4>1, <4>2 DEF Recorded
    <3>5. CASE ~obj.st.lock /\ ~cached.st.lock /\ ~snap.st.lock /\ ~st.lock
      BY <2>1, <2>2, <3>5 DEF Recorded
    <3>6. CASE \A n \in Names \cap {st.name, cached.st.name} : Locked(n) => Locked(n)'
      <4>1. st.lock /\ ~obj.deleting => Locked(st.name)'
        BY <1>2, <2>6, <3>1, <3>2, <3>6 DEF Locked
      <4>2. Recorded(obj)'
        BY <2>2, <4>1 DEF Recorded, Locked
      <4>3. cached.st.lock /\ ~cached.deleting =>
               \A n \in Names : n = cached.st.name
                   => Locked(n)' /\ (obj.deleting \/ Locked(st.name)')
        <5>1. cached.st.lock /\ ~cached.deleting =>
                 Locked(cached.st.name) /\ (obj.deleting \/ Locked(st.name))
          BY <1>2, <2>6, <3>3 DEF Recorded
        <5> QED
          BY <3>2, <3>6, <5>1 DEF Locked
      <4>4. cached.st.name # None => cached.st.name \in Names
        BY NameTypes DEF TypeOK
      <4>5. cached.st.lock /\ ~cached.deleting => cached.st.name # None
        BY <3>3 DEF Recorded, Locked
      <4>6. Recorded(cached)'
        BY <2>1, <2>2, <4>3, <4>4, <4>5 DEF Recorded, Locked
      <4> QED
        BY <4>2, <4>6
    <3>7. CASE UNCHANGED <<filer, replaced>>
      BY <3>6, <3>7 DEF Locked
    <3> QED
      BY <2>6, <3>4, <3>5, <3>6, <3>7 DEF KeepsLocked
  <2> QED
    BY <2>1, <2>5, <2>6, <2>7 DEF RecordInv, LockInv
<1> QED
  BY <1>1, <1>2

(* The pass ends with a failure: the record of the lock stays as it was.   *)
LEMMA EndsFailed ==
    ASSUME TypeOK, OwnInv, RecordInv, pc # "idle", ~swapped => KeepsLocked,
           UNCHANGED swapped, NEW phase \in Phases, FailPhase(phase)
    PROVE  RecordInv'
<1>1. /\ [snap.st EXCEPT !.phase = phase] \in Statuses
      /\ [snap.st EXCEPT !.phase = phase].name = snap.st.name
      /\ [snap.st EXCEPT !.phase = phase].lock = snap.st.lock
  BY DEF TypeOK, Objects, Statuses
<1>2. ~swapped /\ ~stale /\ snap.st.lock => snap.deleting \/ Locked(snap.st.name)
  BY DEF RecordInv, LockInv, Recorded
<1>3. ~swapped /\ ~stale /\ cached.st.lock /\ ~cached.deleting
         => obj.deleting \/ Locked(snap.st.name)
  BY DEF RecordInv, NameInv, LockInv, Recorded, Locked
<1>4. ~stale /\ snap.st.lock
         => obj.spec.lock /\ snap.st.name # None /\ snap.spec.lock /\ snap.fin
  BY DEF RecordInv, NameInv, Final, OwnInv, CopyInv, Follows
<1> QED
  BY <1>1, <1>2, <1>3, <1>4, EndsRecorded DEF FailPhase

(* The pass goes on with its copy, without a write.                        *)
LEMMA Continues ==
    ASSUME TypeOK, OwnInv, RecordInv, UNCHANGED <<apiVars, swapped, snap, bname, stale>>,
           ~swapped => KeepsLocked, pc # "idle",
           pc' = "lock" => snap.st.name = bname,
           ~swapped => StageInv'
    PROVE  RecordInv'
<1>1. obj' = obj /\ cached' = cached
  BY DEF apiVars
<1>2. NameInv' /\ (~swapped => LockSeen')
  BY <1>1 DEF RecordInv, NameInv, Final, LockSeen
<1>3. ~swapped => LockInv'
  <2> SUFFICES ASSUME ~swapped PROVE LockInv'
    OBVIOUS
  <2>1. Recorded(obj) /\ Recorded(cached) /\ Recorded(snap)
    BY DEF RecordInv, LockInv
  <2>2. \A c \in {obj, cached, snap} : Recorded(c)'
    BY <1>1, <2>1, LocksOn
  <2> QED
    BY <1>1, <2>2 DEF LockInv, Recorded
<1> QED
  BY <1>2, <1>3 DEF RecordInv

(* A claim on the bucket, adopted or created, not yet written.             *)
LEMMA Claims ==
    ASSUME TypeOK, OwnInv, RecordInv, pc \in {"exists", "create"}, ~swapped => KeepsLocked,
           UNCHANGED <<apiVars, swapped, bname, stale>>, pc' = "lock",
           snap' = [snap EXCEPT !.st.name = bname]
    PROVE  RecordInv'
<1>1. obj' = obj /\ cached' = cached
  BY DEF apiVars
<1>2. /\ snap'.st.name = bname /\ snap'.st.lock = snap.st.lock
      /\ snap'.deleting = snap.deleting /\ snap'.fin = snap.fin /\ snap'.spec = snap.spec
  BY DEF TypeOK, Objects, Statuses
<1>3. snap.st.name \in {None, bname} /\ bname # None
  BY NamesAssumption DEF OwnInv, RouteInv, Renamed, TypeOK
<1>4. NameInv' /\ (~swapped => LockSeen')
  BY <1>1, <1>2, <1>3 DEF RecordInv, NameInv, Final, LockSeen
<1>5. StageInv'
  BY DEF StageInv
<1>6. ~swapped => LockInv'
  <2> SUFFICES ASSUME ~swapped PROVE LockInv'
    OBVIOUS
  <2>1. Recorded(obj) /\ Recorded(cached) /\ Recorded(snap)
    BY DEF RecordInv, LockInv
  <2>2. \A c \in {obj, cached, snap} : Recorded(c)'
    BY <1>1, <2>1, LocksOn
  <2>3. snap.st.lock => snap.st.name = bname
    BY <1>3 DEF RecordInv, NameInv, Final
  <2> QED
    BY <1>1, <1>2, <2>2, <2>3 DEF LockInv, Recorded
<1> QED
  BY <1>4, <1>5, <1>6 DEF RecordInv

(* BucketExists and CreateBucket on a bucket that is there.                *)
LEMMA AdoptOrRefuseRecord ==
    ASSUME TypeOK, OwnInv, RecordInv, AdoptOrRefuse, UNCHANGED <<swapped, replaced>>,
           pc \in {"exists", "create"}, filer[bname].made # "none"
    PROVE  RecordInv'
<1>1. CASE snap.spec.adopt
  <2>1. Claim("adopted")
    BY <1>1 DEF AdoptOrRefuse
  <2>2. KeepsLocked
    BY <2>1 DEF Claim, KeepsLocked, Locked, TypeOK, Buckets
  <2> QED
    BY <2>1, <2>2, Claims DEF Claim
<1>2. CASE ~snap.spec.adopt
  BY <1>2, SameLocks, EndsFailed DEF AdoptOrRefuse, Phases
<1> QED
  BY <1>1, <1>2

(* What the users do to the CR leaves the record alone, or finds none.     *)
LEMMA UserPutsRecord ==
    ASSUME TypeOK, OwnInv, RecordInv, NEW o \in Objects, UserPuts(o),
           \/ /\ o.st = obj.st /\ o.fin = obj.fin
              /\ obj.deleting => o.deleting
              /\ obj.spec.lock => o.spec.lock
           \/ o.st = NoStatus /\ ~obj.fin /\ ~o.fin
    PROVE  RecordInv'
<1>1. /\ obj' = o /\ cached' = cached
      /\ UNCHANGED <<pc, snap, bname, filer, swapped, replaced, lost>>
  BY PutFacts DEF UserPuts, OwnInv
<1>2. pc # "idle" => stale'
  BY DEF UserPuts
<1>3. o.st = NoStatus => ~o.st.lock /\ o.st.name = None
  BY DEF NoStatus
<1>4. NameInv'
  <2>1. o.st = obj.st /\ o.fin = obj.fin /\ (obj.spec.lock => o.spec.lock) => Final(obj)'
    BY <1>1 DEF RecordInv, NameInv, Final
  <2>2. Final(obj)'
    BY <1>1, <1>3, <2>1 DEF Final
  <2>3. Final(cached)' /\ (pc # "idle" => Final(snap)')
    BY <1>1, <2>2 DEF RecordInv, NameInv, Final
  <2> QED
    BY <1>1, <1>2, <2>2, <2>3 DEF RecordInv, NameInv
<1>5. ASSUME ~swapped PROVE LockInv'
  <2>1. Recorded(obj) /\ Recorded(cached) /\ (pc # "idle" => Recorded(snap))
    BY <1>5 DEF RecordInv, LockInv
  <2>2. CASE o.st = obj.st /\ o.fin = obj.fin /\ (obj.deleting => o.deleting)
    <3>1. KeepsLocked
      BY <1>1, SameLocks
    <3>2. \A c \in {obj, cached, snap} : Recorded(c) => Recorded(c)'
      BY <1>1, <2>2, <3>1, LocksOn
    <3>3. Recorded(obj)'
      BY <1>1, <2>1, <2>2, <3>2 DEF Recorded
    <3> QED
      BY <1>1, <2>1, <3>2, <3>3 DEF LockInv, Recorded
  <2>3. CASE o.st = NoStatus /\ ~obj.fin
    <3>1. ~(cached.st.lock /\ ~cached.deleting)
      BY <2>1, <2>3 DEF Recorded, Locked, OwnInv, CopyInv, Follows
    <3>2. pc # "idle" => ~(snap.st.lock /\ ~snap.deleting)
      BY <2>1, <2>3 DEF Recorded, Locked, OwnInv, CopyInv, Follows
    <3> QED
      BY <1>1, <1>3, <2>3, <3>1, <3>2 DEF LockInv, Recorded
  <2> QED
    BY <2>2, <2>3
<1>6. ~swapped => StageInv' /\ LockSeen'
  <2>1. ~swapped => StageInv'
    BY <1>1 DEF RecordInv, StageInv
  <2>2. o.st.lock => obj.st.lock
    BY <1>3
  <2>3. ~swapped => LockSeen'
    BY <1>1, <2>2 DEF RecordInv, LockSeen, OwnInv, CopyInv, Follows
  <2> QED
    BY <2>1, <2>3
<1> QED
  BY <1>1, <1>4, <1>5, <1>6 DEF RecordInv

(* What a command changes on the bucket, and what it leaves alone.         *)
LEMMA EffectFacts ==
    ASSUME TypeOK, NEW step \in Aspects, NEW f \in Buckets, NEW g, g = Effect(step, f)
    PROVE  /\ step = "lock" => g.lock
           /\ step \notin {"lock"} => g.lock = f.lock
           /\ step = "versioning" => g.versioning = snap.spec.versioning
           /\ step \notin {"lock", "versioning"} => g.versioning = f.versioning
           /\ step = "quota" => (g.quota <=> snap.spec.quota = "set")
           /\ step # "quota" => g.quota = f.quota
           /\ step = "access" => snap.spec.access \subseteq g.grants
           /\ step # "access" => g.grants = f.grants
           /\ step = "placement" => g.conf
           /\ step # "placement" => g.conf = f.conf
           /\ g.made = f.made
<1> USE DEF Effect, Buckets, TypeOK, Objects, SpecRecords
<1>1. CASE step = "lock"
  BY <1>1
<1>2. CASE step = "versioning"
  BY <1>2
<1>3. CASE step = "quota"
  BY <1>3
<1>4. CASE step = "owner"
  BY <1>4
<1>5. CASE step = "access"
  BY <1>5
<1>6. CASE step = "placement"
  BY <1>6
<1> QED
  BY <1>1, <1>2, <1>3, <1>4, <1>5, <1>6 DEF Aspects

(* A command, run or skipped as the record allows, moves the pass on.      *)
LEMMA PushRecord ==
    ASSUME TypeOK, OwnInv, RecordInv, NEW step \in Aspects, Push(step)
    PROVE  RecordInv'
<1>0. pc = step /\ pc # "idle" /\ UNCHANGED <<swapped, replaced, lost>>
  BY DEF Push, Aspects, Tears
<1>1. CASE Needed(step) /\ ~Accepted(step, filer[bname])
  BY <1>0, <1>1, SameLocks, EndsFailed DEF Push, Phases
<1>2. CASE ~(Needed(step) /\ ~Accepted(step, filer[bname]))
  <2> DEFINE f == filer[bname]
             g == filer'[bname]
  <2>1. /\ filer' = IF Needed(step) THEN [filer EXCEPT ![bname] = Effect(step, @)] ELSE filer
        /\ GoTo(NextStep(step)) /\ UNCHANGED apiVars
    BY <1>2 DEF Push
  <2>2. f \in Buckets /\ bname \in Names
    BY DEF TypeOK
  <2>3. /\ Needed(step) => g = Effect(step, f) /\ Accepted(step, f)
        /\ ~Needed(step) => g = f
    BY <1>2, <2>1, <2>2 DEF TypeOK
  <2>4. \A n \in Names \ {bname} : filer'[n] = filer[n]
    BY <2>1 DEF TypeOK
  <2>5. pc' = NextStep(step) /\ UNCHANGED <<snap, bname, stale>>
    BY <2>1 DEF GoTo
  <2>6. ~lost /\ bname \notin replaced => f.made \in {"us", "adopted"}
    BY <1>0 DEF OwnInv, RouteInv, Settling
  <2> HIDE DEF f, g
  <2>7. /\ g.made = f.made /\ (f.lock => g.lock)
    BY <2>2, <2>3, EffectFacts
  <2>8. KeepsLocked
    BY <1>0, <2>2, <2>4, <2>7 DEF KeepsLocked, Locked, f, g
  <2>9. ASSUME ~swapped PROVE StageInv'
    <3> SUFFICES ASSUME ~lost, bname \notin replaced PROVE StageInv'
      BY <1>0, <2>5 DEF StageInv
    <3> DEFINE s == snap.spec
    <3>0. StageInv /\ LockInv
      BY <2>9 DEF RecordInv
    <3>1. /\ step = "lock" /\ s.lock => g.lock
          /\ step \in Aspects \ {"lock"} /\ s.lock => g.lock
      <4>1. CASE step = "lock" /\ ~Needed(step) /\ s.lock
        <5>1. snap.st.lock /\ ~snap.deleting /\ snap.st.name = bname
          BY <1>0, <4>1 DEF Needed, RecordInv, NameInv, OwnInv, RouteInv, Settling, Aspects
        <5> QED
          BY <1>0, <2>3, <2>6, <3>0, <4>1, <5>1 DEF LockInv, Recorded, Locked, f
      <4>2. CASE step = "lock" /\ Needed(step)
        BY <2>2, <2>3, <4>2, EffectFacts
      <4>3. CASE step # "lock"
        BY <1>0, <2>7, <3>0, <4>3 DEF StageInv, Settling, f
      <4> QED
        BY <4>1, <4>2, <4>3
    <3>2. step \in Aspects \ {"lock"} /\ s.versioning # "Off" => g.versioning = s.versioning
      <4>1. CASE step = "versioning"
        BY <2>2, <2>3, <4>1, EffectFacts DEF Needed
      <4>2. CASE step \notin {"lock", "versioning"}
        BY <1>0, <2>2, <2>3, <3>0, <4>2, EffectFacts DEF StageInv, Settling, f
      <4> QED
        BY <4>1, <4>2
    <3>3. step \in Aspects \ {"lock", "versioning"} /\ s.quota # "none"
             => s.quota # "invalid" /\ (g.quota <=> s.quota = "set")
      <4>1. CASE step = "quota"
        BY <2>2, <2>3, <4>1, EffectFacts DEF Needed, Accepted
      <4>2. CASE step \notin {"lock", "versioning", "quota"}
        BY <1>0, <2>2, <2>3, <3>0, <4>2, EffectFacts DEF StageInv, Settling, f
      <4> QED
        BY <4>1, <4>2
    <3>4. step \in {"access", "placement"} => s.access \subseteq g.grants
      <4>1. CASE step = "access"
        BY <2>2, <2>3, <4>1, EffectFacts DEF Needed
      <4>2. CASE step = "placement"
        BY <1>0, <2>2, <2>3, <3>0, <4>2, EffectFacts DEF StageInv, f
      <4> QED
        BY <4>1, <4>2
    <3>5. step = "placement" /\ s.placement => g.conf
      BY <2>2, <2>3, EffectFacts DEF Needed
    <3>6. /\ pc' # "lock"
          /\ pc' \in {"quota", "owner", "access", "annotate", "placement", "status"} => step # "lock"
          /\ pc' \in {"owner", "access", "annotate", "placement", "status"}
                => step \notin {"lock", "versioning"}
          /\ pc' \in {"annotate", "placement", "status"} => step \in {"access", "placement"}
          /\ pc' = "status" => step = "placement"
      BY <2>5 DEF NextStep, Aspects
    <3> QED
      BY <2>5, <3>1, <3>2, <3>3, <3>4, <3>5, <3>6 DEF StageInv, Settling, Aspects, g
  <2>10. pc' # "lock"
    BY <2>5 DEF NextStep, Aspects
  <2> QED
    BY <1>0, <2>1, <2>5, <2>8, <2>9, <2>10, Continues DEF GoTo
<1> QED
  BY <1>1, <1>2

(* The patch: the answer's record is the pass's or the API server's, and   *)
(* its spec is the pass's unless it swapped it.                            *)
LEMMA AnnotateRecord ==
    ASSUME TypeOK, OwnInv, RecordInv, Annotate
    PROVE  RecordInv'
<1>0. pc = "annotate" /\ UNCHANGED <<filer, replaced, lost>>
  BY DEF Annotate
<1>1. CASE GoTo("placement") /\ UNCHANGED <<apiVars, swapped>>
  <2>1. ~swapped => StageInv'
    BY <1>0, <1>1 DEF GoTo, RecordInv, StageInv, Settling, Aspects
  <2> QED
    BY <1>0, <1>1, <2>1, SameLocks, Continues DEF GoTo
<1>2. CASE EndPass /\ UNCHANGED <<apiVars, swapped>>
  BY <1>0, <1>2, SameLocks, EndsUnrecorded
<1>3. CASE snap.ann # snap.spec.access /\ obj.exists
  <2>1. /\ obj' = [obj EXCEPT !.ann = snap.spec.access] /\ cached' = cached
        /\ snap' = [obj EXCEPT !.ann = snap.spec.access,
                               !.spec = MergeSpec(snap.spec, obj.spec),
                               !.st = MergeStatus(snap.st, obj.st)]
        /\ swapped' = (swapped \/ snap'.spec # snap.spec)
        /\ pc' = "placement" /\ bname' = bname
    BY <1>3, PutFacts DEF Annotate, OwnInv
  <2>2. /\ obj'.deleting = obj.deleting /\ obj'.st = obj.st /\ obj'.fin = obj.fin
        /\ obj'.spec = obj.spec
    BY <2>1 DEF TypeOK, Objects
  <2>3. /\ snap'.deleting = obj.deleting /\ snap'.fin = obj.fin
        /\ snap'.st = MergeStatus(snap.st, obj.st)
        /\ snap'.spec = MergeSpec(snap.spec, obj.spec)
    BY <2>1 DEF TypeOK, Objects
  <2>4. /\ snap'.st.name = IF obj.st.name = None THEN snap.st.name ELSE obj.st.name
        /\ snap'.st.lock <=> obj.st.lock \/ snap.st.lock
    BY <2>3 DEF MergeStatus, TypeOK, Objects, Statuses
  <2>5. snap'.spec.lock <=> obj.spec.lock \/ snap.spec.lock
    BY <2>3 DEF MergeSpec, TypeOK, Objects, SpecRecords
  <2>6. snap.fin /\ obj.fin /\ ~snap.deleting
    BY <1>0 DEF OwnInv, RouteInv, Settling, Aspects
  <2>7. NameInv'
    <3>1. Final(obj) /\ Final(cached) /\ Final(snap)
      BY <1>0 DEF RecordInv, NameInv
    <3>2. Final(obj)' /\ Final(cached)'
      BY <2>1, <2>2, <3>1 DEF Final
    <3>3. Final(snap)'
      BY <2>2, <2>3, <2>4, <2>5, <2>6, <3>1 DEF Final
    <3>4. (obj'.spec.lock => snap'.spec.lock) /\ obj'.st.name \in {None, snap'.st.name}
      BY <2>2, <2>4, <2>5
    <3> QED
      BY <2>1, <3>2, <3>3, <3>4 DEF NameInv
  <2>8. ASSUME ~swapped' PROVE ~swapped /\ snap'.spec = snap.spec
    BY <2>1, <2>8, Zenon
  <2>9. ASSUME ~swapped' PROVE LockInv'
    <3>1. Recorded(obj) /\ Recorded(cached) /\ Recorded(snap)
      BY <1>0, <2>8, <2>9 DEF RecordInv, LockInv
    <3>2. \A c \in {obj, cached, snap} : Recorded(c)'
      BY <1>0, <2>2, <3>1, SameLocks, LocksOn
    <3>3. Recorded(obj)' /\ Recorded(cached)'
      BY <2>1, <2>2, <3>1, <3>2 DEF Recorded
    <3>4. snap'.st.lock => obj.deleting \/ Locked(obj.st.name)
      BY <2>4, <2>6, <3>1 DEF Recorded
    <3>5. Locked(obj.st.name) => snap'.st.name = obj.st.name
      BY <2>4 DEF Locked
    <3>6. Recorded(snap)'
      BY <1>0, <2>2, <2>3, <3>4, <3>5 DEF Recorded, Locked
    <3> QED
      BY <3>3, <3>6 DEF LockInv
  <2>10. ASSUME ~swapped' PROVE StageInv'
    <3>1. StageInv
      BY <2>8, <2>10 DEF RecordInv
    <3> QED
      BY <1>0, <2>1, <2>8, <2>10, <3>1 DEF StageInv, Settling, Aspects
  <2>11. ASSUME ~swapped' PROVE LockSeen'
    BY <1>0, <2>1, <2>2, <2>3, <2>6, <2>8, <2>11 DEF RecordInv, LockSeen
  <2> QED
    BY <2>7, <2>9, <2>10, <2>11 DEF RecordInv
<1> QED
  BY <1>1, <1>2, <1>3 DEF Annotate

(* A bucket made again has the lock, if one is on record.                  *)
LEMMA MadeWithLock ==
    ASSUME TypeOK, RecordInv, ~swapped, pc \in {"exists", "create"},
           filer[bname].made = "none", filer' = [filer EXCEPT ![bname] = Created(@, "us")],
           UNCHANGED replaced
    PROVE  KeepsLocked
<1>1. obj.st.lock \/ cached.st.lock \/ snap.st.lock => snap.spec.lock
  BY DEF RecordInv, LockSeen, NameInv, Final
<1>2. filer'[bname].lock = snap.spec.lock /\ \A n \in Names \ {bname} : filer'[n] = filer[n]
  BY DEF Created, TypeOK, Buckets
<1> QED
  BY <1>1, <1>2 DEF KeepsLocked, Locked

(* Every step of the system keeps RecordInv.                               *)
LEMMA RecordInvStep ==
    ASSUME TypeOK, OwnInv, RecordInv, [Next]_vars
    PROVE  RecordInv'
<1>1. CASE Load
  <2>1. /\ obj' = obj /\ cached' = cached /\ snap' = cached /\ pc' = "check" /\ stale' = lag
        /\ UNCHANGED <<filer, swapped, replaced>>
    BY <1>1 DEF Load, apiVars
  <2>2. ~lag => cached = obj
    BY DEF OwnInv, ObjectInv
  <2>3. NameInv' /\ StageInv'
    BY <2>1, <2>2 DEF RecordInv, NameInv, Final, StageInv, Settling, Aspects
  <2>4. ~swapped => LockInv' /\ LockSeen'
    BY <2>1 DEF RecordInv, LockInv, Recorded, Locked, LockSeen, NameInv, Final
  <2> QED
    BY <2>1, <2>3, <2>4 DEF RecordInv
<1>2. CASE Refuse
  <2>1. Refusal \in Phases
    BY DEF Refusal, Phases
  <2> QED
    BY <1>2, <2>1, SameLocks, EndsFailed DEF Refuse, envVars, ghosts
<1>3. CASE Proceed
  <2>0. pc = "check" /\ UNCHANGED <<apiVars, filer, swapped, replaced>>
    BY <1>3 DEF Proceed, envVars, ghosts
  <2>1. CASE snap.deleting /\ ~snap.fin
    BY <1>3, <2>0, <2>1, SameLocks, EndsUnrecorded DEF Proceed
  <2>2. CASE ~(snap.deleting /\ ~snap.fin)
    <3>1. PICK p \in {"handleDeletion", "addFinalizer", "exists"} : GoTo(p)
      BY <1>3, <2>2 DEF Proceed, TypeOK, Objects
    <3>2. StageInv'
      BY <3>1 DEF GoTo, StageInv, Settling, Aspects
    <3> QED
      BY <2>0, <3>1, <3>2, SameLocks, Continues DEF GoTo
  <2> QED
    BY <2>1, <2>2
<1>4. CASE AddFinalizer
  <2>0. pc = "addFinalizer" /\ UNCHANGED <<filer, swapped, replaced>>
    BY <1>4 DEF AddFinalizer, envVars, ghosts
  <2>1. CASE stale
    BY <1>4, <2>0, <2>1, SameLocks, EndsUnrecorded DEF AddFinalizer, WriteAndEnd
  <2>2. CASE ~stale
    <3>1. obj' = [obj EXCEPT !.fin = TRUE] /\ cached' = cached /\ pc' = "idle"
      BY <1>4, <2>2, PutFacts DEF AddFinalizer, WriteAndEnd, EndPass, OwnInv
    <3>2. obj'.deleting = obj.deleting /\ obj'.st = obj.st /\ obj'.spec = obj.spec
      BY <3>1 DEF TypeOK, Objects
    <3>3. cached = obj
      BY <2>0, <2>2 DEF OwnInv, CopyInv, Unwritten
    <3>4. NameInv' /\ StageInv'
      BY <3>1, <3>2, <3>3 DEF RecordInv, NameInv, Final, StageInv, Settling, Aspects
    <3>5. ~swapped => LockInv' /\ LockSeen'
      BY <2>0, <3>1, <3>2, <3>3 DEF RecordInv, LockInv, Recorded, Locked, LockSeen
    <3> QED
      BY <2>0, <3>4, <3>5 DEF RecordInv
  <2> QED
    BY <2>1, <2>2
<1>5. CASE BucketExists
  <2>0. pc = "exists" /\ UNCHANGED <<swapped, replaced>>
    BY <1>5 DEF BucketExists, envVars, ghosts
  <2>1. CASE filer[bname].made # "none" /\ snap.st.name = None
    BY <1>5, <2>0, <2>1, AdoptOrRefuseRecord DEF BucketExists
  <2>2. CASE ~(filer[bname].made # "none" /\ snap.st.name = None)
    <3>1. PICK p \in {"create", "lock"} :
             /\ GoTo(p) /\ UNCHANGED <<apiVars, filer>>
             /\ p = "lock" => snap.st.name # None
      BY <1>5, <2>2 DEF BucketExists
    <3>2. p = "lock" => snap.st.name = bname
      BY <2>0, <3>1 DEF OwnInv, RouteInv, Renamed
    <3>3. StageInv'
      BY <3>1 DEF GoTo, StageInv, Settling, Aspects
    <3> QED
      BY <2>0, <3>1, <3>2, <3>3, SameLocks, Continues DEF GoTo
  <2> QED
    BY <2>1, <2>2
<1>6. CASE CreateBucket
  <2>0. pc = "create" /\ UNCHANGED <<swapped, replaced>>
    BY <1>6 DEF CreateBucket, Tears
  <2>1. CASE filer[bname].made # "none"
    BY <1>6, <2>0, <2>1, AdoptOrRefuseRecord DEF CreateBucket
  <2>2. CASE filer[bname].made = "none"
    <3>1. \A n \in Names \ {bname} : filer'[n] = filer[n]
      BY <1>6, <2>2 DEF CreateBucket, TypeOK
    <3>2. ~swapped => KeepsLocked
      BY <1>6, <2>0, <2>2, MadeWithLock DEF CreateBucket
    <3> QED
      BY <1>6, <2>0, <2>2, <3>2, Claims DEF CreateBucket
  <2> QED
    BY <2>1, <2>2
<1>7. ASSUME NEW step \in Aspects, Push(step) PROVE RecordInv'
  BY <1>7, PushRecord
<1>8. CASE Annotate
  BY <1>8, AnnotateRecord
<1>9. CASE RecordReady
  <2>1. PICK q \in BOOLEAN : q = (snap.spec.quota # "none")
    BY Zenon
  <2> DEFINE st == [name |-> bname, owner |-> snap.spec.owner, quota |-> q,
                    lock |-> snap.spec.lock, phase |-> "Ready"]
  <2>2. WriteStatus(st) /\ pc = "status" /\ UNCHANGED <<filer, swapped, replaced>>
    BY <1>9, <2>1, Zenon DEF RecordReady, envVars, ghosts
  <2>3. st \in Statuses /\ st.name = bname /\ st.lock = snap.spec.lock
    BY DEF TypeOK, Objects, SpecRecords, Statuses, Phases
  <2>4. ~swapped /\ snap.spec.lock => Locked(bname)
    BY <2>2, NameTypes, NamesAssumption
       DEF RecordInv, StageInv, OwnInv, RouteInv, Settling, Locked
  <2>5. snap.fin /\ obj.fin /\ Final(snap) /\ Final(cached)
    BY <2>2 DEF RecordInv, NameInv, OwnInv, RouteInv, Settling
  <2>6. snap.spec.lock => obj.spec.lock /\ bname # None
    BY <2>5, NameTypes, NamesAssumption DEF Final
  <2>7. ~stale /\ cached.st.lock => snap.spec.lock
    BY <2>2, <2>5 DEF Final, RecordInv, NameInv, OwnInv, CopyInv, Follows
  <2> HIDE DEF st
  <2> QED
    BY <2>2, <2>3, <2>4, <2>5, <2>6, <2>7, SameLocks, EndsRecorded
<1>10. CASE DeleteBucket
  <2>1. pc = "handleDeletion" /\ GoTo("removeFinalizer") /\ UNCHANGED <<apiVars, swapped>>
    BY <1>10 DEF DeleteBucket, envVars, ghosts
  <2>2. StageInv'
    BY <2>1 DEF GoTo, StageInv, Settling, Aspects
  <2> QED
    BY <2>1, <2>2, Continues DEF GoTo, KeepsLocked
<1>11. CASE RemoveFinalizer
  <2>0. pc = "removeFinalizer" /\ UNCHANGED swapped
    BY <1>11 DEF RemoveFinalizer, envVars, ghosts
  <2>1. CASE stale
    BY <1>11, <2>0, <2>1, EndsUnrecorded DEF RemoveFinalizer, WriteAndEnd, KeepsLocked
  <2>2. CASE ~stale
    <3>1. obj' = Gone(obj.spec) /\ cached' = cached /\ pc' = "idle"
      BY <1>11, <2>2, PutFacts DEF RemoveFinalizer, WriteAndEnd, EndPass, OwnInv
    <3>2. ~obj'.st.lock /\ ~obj'.fin
      BY <3>1 DEF Gone, Fresh, NoStatus
    <3>3. NameInv' /\ StageInv'
      BY <3>1, <3>2 DEF RecordInv, NameInv, Final, StageInv, Settling, Aspects
    <3>4. ASSUME ~swapped PROVE ~(cached.st.lock /\ ~cached.deleting)
      BY <2>0, <3>4, NoRecordLeft DEF RecordInv, LockInv
    <3>5. ~swapped => LockInv' /\ LockSeen'
      BY <3>1, <3>2, <3>4 DEF LockInv, Recorded, LockSeen
    <3> QED
      BY <2>0, <3>3, <3>5 DEF RecordInv
  <2> QED
    BY <2>1, <2>2
<1>12. CASE CreateFails
  <2>1. UNCHANGED <<swapped, replaced>>
    BY <1>12 DEF CreateFails, Tears
  <2>2. ~swapped => KeepsLocked
    BY <1>12, <2>1, MadeWithLock, SameLocks DEF CreateFails
  <2> QED
    BY <1>12, <2>1, <2>2, EndsFailed DEF CreateFails, Phases
<1>13. CASE DeleteFails
  <2>1. pc = "handleDeletion"
    BY <1>13 DEF DeleteFails
  <2> QED
    BY <1>13, <2>1, EndsFailed DEF DeleteFails, Phases, envVars, ghosts, KeepsLocked
<1>14. CASE PassAborts
  BY <1>14, SameLocks, EndsUnrecorded DEF PassAborts, envVars, ghosts
<1>15. ASSUME NEW step \in Aspects, PushFails(step) PROVE RecordInv'
  <2>1. bname \in Names /\ filer[bname] \in Buckets
    BY DEF TypeOK
  <2>2. \A g \in PartialAccess(filer[bname]) :
           g.made = filer[bname].made /\ g.lock = filer[bname].lock
    BY <2>1 DEF PartialAccess, Buckets
  <2>3. \A n \in Names : filer'[n].made = filer[n].made /\ (filer[n].lock => filer'[n].lock)
    <3>1. \A n \in Names \ {bname} : filer'[n] = filer[n]
      BY <1>15 DEF PushFails, TypeOK
    <3>2. \/ filer'[bname] \in PartialAccess(filer[bname])
          \/ filer'[bname] = Effect(step, filer[bname])
          \/ filer'[bname] = filer[bname]
      BY <1>15, <2>1 DEF PushFails, TypeOK
    <3> QED
      BY <2>1, <2>2, <3>1, <3>2, EffectFacts
  <2>4. UNCHANGED <<swapped, replaced>>
    BY <1>15 DEF PushFails, Tears
  <2>5. KeepsLocked
    BY <2>3, <2>4 DEF KeepsLocked, Locked
  <2> QED
    BY <1>15, <2>4, <2>5, EndsFailed DEF PushFails, Aspects, Phases
<1>16. CASE UserDeletes
  <2> DEFINE o == IF obj.fin THEN [obj EXCEPT !.deleting = TRUE] ELSE Gone(obj.spec)
  <2>1. UserPuts(o)
    BY <1>16 DEF UserDeletes
  <2>2. o \in Objects
    BY CopyTypes DEF TypeOK, Objects
  <2>3. \/ o.st = obj.st /\ o.deleting /\ o.fin = obj.fin /\ o.spec = obj.spec
        \/ o.st = NoStatus /\ ~obj.fin /\ ~o.fin
    BY DEF TypeOK, Objects, Gone, Fresh
  <2> HIDE DEF o
  <2> QED
    BY <2>1, <2>2, <2>3, UserPutsRecord
<1>17. ASSUME NEW s \in Specs, UserEdits(s) PROVE RecordInv'
  <2> DEFINE o == [obj EXCEPT !.spec = s]
  <2>1. UserPuts(o)
    BY <1>17 DEF UserEdits
  <2>2. o \in Objects
    BY SpecsAssumption DEF TypeOK, Objects
  <2>3. o.st = obj.st /\ o.deleting = obj.deleting /\ o.fin = obj.fin /\ o.spec = s
    BY DEF TypeOK, Objects
  <2>4. obj.spec.lock => s.lock
    BY <1>17 DEF UserEdits
  <2> HIDE DEF o
  <2> QED
    BY <2>1, <2>2, <2>3, <2>4, UserPutsRecord
<1>18. ASSUME NEW s \in Specs, UserCreates(s) PROVE RecordInv'
  <2>1. UserPuts(Fresh(s)) /\ ~obj.fin
    BY <1>18 DEF UserCreates, OwnInv, ObjectInv
  <2>2. Fresh(s) \in Objects /\ Fresh(s).st = NoStatus /\ ~Fresh(s).fin
    BY SpecsAssumption, CopyTypes DEF Fresh
  <2> QED
    BY <2>1, <2>2, UserPutsRecord
<1>19. CASE UNCHANGED <<obj, cached, pc, snap, bname, stale, filer, swapped, replaced, lost>>
  BY <1>19 DEF RecordInv, NameInv, Final, LockInv, Recorded, LockSeen, StageInv, Locked
<1>20. ASSUME NEW n \in Names,
              ForeignDeletes(n) \/ \E u \in Users \cup {None} : ForeignCreates(n, u)
       PROVE  RecordInv'
  <2>1. /\ UNCHANGED <<obj, cached, pc, snap, bname, stale, swapped>>
        /\ \A m \in Names \ {n} : filer'[m] = filer[m]
    BY <1>20 DEF ForeignDeletes, ForeignCreates, apiVars, passVars, TypeOK
  <2>2. \/ filer'[n].made = "none" /\ replaced' = replaced
        \/ n \in Claimed => n \in replaced'
    BY <1>20, MadeBy DEF ForeignDeletes, ForeignCreates, TypeOK
  <2>3. replaced \subseteq replaced'
    BY <1>20 DEF ForeignDeletes, ForeignCreates
  <2>4. pc \in Settling /\ n = bname => lost' \/ n \in replaced'
    BY <1>20 DEF ForeignDeletes, ForeignCreates, Claimed
  <2>5. lost => lost'
    BY <1>20 DEF ForeignDeletes, ForeignCreates
  <2>6. KeepsLocked
    BY <2>1, <2>2, <2>3 DEF KeepsLocked, Locked, Claimed
  <2>7. NameInv' /\ (~swapped => LockSeen')
    BY <2>1 DEF RecordInv, NameInv, Final, LockSeen
  <2>8. ASSUME ~swapped PROVE LockInv'
    <3>1. \A c \in {obj, cached, snap} : Recorded(c) => Recorded(c)'
      BY <2>1, <2>6, LocksOn
    <3> QED
      BY <2>1, <2>8, <3>1 DEF RecordInv, LockInv, Recorded
  <2>9. ASSUME ~swapped PROVE StageInv'
    <3>1. CASE pc \in Settling /\ n = bname
      BY <2>1, <2>4, <3>1 DEF StageInv
    <3>2. CASE pc \in Settling /\ n # bname
      BY <2>1, <2>3, <2>5, <2>9, <3>2, NameTypes DEF RecordInv, StageInv
    <3>3. CASE pc \notin Settling
      BY <2>1, <3>3 DEF StageInv, Settling, Aspects
    <3> QED
      BY <3>1, <3>2, <3>3
  <2> QED
    BY <2>1, <2>7, <2>8, <2>9 DEF RecordInv
<1>21. CASE UsageRefresh
  <2>1. UNCHANGED <<obj, cached, pc, snap, bname, filer, swapped, replaced, lost>> /\ stale'
    BY <1>21 DEF UsageRefresh, envVars, ghosts
  <2> QED
    BY <2>1 DEF RecordInv, NameInv, Final, LockInv, Recorded, LockSeen, StageInv, Locked
<1>22. CASE CacheSync
  <2>1. /\ UNCHANGED <<obj, pc, snap, bname, stale, filer, swapped, replaced, lost>>
        /\ cached' = obj
    BY <1>22 DEF CacheSync, passVars, envVars, ghosts
  <2> QED
    BY <2>1 DEF RecordInv, NameInv, Final, LockInv, Recorded, LockSeen, StageInv, Locked
<1>23. GrantChanges \/ ClusterChanges \/ UNCHANGED vars
          => UNCHANGED <<obj, cached, pc, snap, bname, stale, filer, swapped, replaced, lost>>
  BY DEF GrantChanges, ClusterChanges, vars, apiVars, passVars, envVars, ghosts
<1> QED
  BY <1>1, <1>2, <1>3, <1>4, <1>5, <1>6, <1>7, <1>8, <1>9, <1>10, <1>11, <1>12, <1>13,
     <1>14, <1>15, <1>16, <1>17, <1>18, <1>19, <1>20, <1>21, <1>22, <1>23
     DEF Next, PassStep, Failure, Outside

(* Ready is reported, and a lock recorded, only over a bucket of the CR's  *)
(* own that has what the spec of the pass asks for, for any names, users,  *)
(* specs, edits and faults, however far the cache lags and whatever other  *)
(* agents do, as long as no patch's answer has swapped the spec and the    *)
(* bucket is the one the pass has found or made.                           *)
THEOREM ReadyMeansApplied == Spec => []ReadyIsTrue
<1>1. Init => OwnInv /\ RecordInv
  BY DEF Init, Fresh, NoStatus, OwnInv, ObjectInv, CopyInv, Follows, RouteInv, Settling,
         Aspects, RecordInv, NameInv, Final, LockInv, Recorded, LockSeen, StageInv
<1>2. TypeOK /\ OwnInv /\ RecordInv /\ [Next]_vars => OwnInv' /\ RecordInv'
  BY OwnInvStep, RecordInvStep
<1>3. OwnInv /\ RecordInv => ReadyIsTrue
  <2> SUFFICES ASSUME OwnInv, RecordInv, ~swapped
               PROVE  /\ pc = "status" /\ ~lost /\ bname \notin replaced =>
                             /\ filer[bname].made \in {"us", "adopted"}
                             /\ Settled(snap.spec, filer[bname])
                      /\ obj.st.lock /\ ~obj.deleting =>
                             /\ obj.st.name # None
                             /\ \/ filer[obj.st.name].lock
                                \/ filer[obj.st.name].made = "none"
                                \/ obj.st.name \in replaced
    BY DEF ReadyIsTrue
  <2>1. LockInv /\ StageInv
    BY DEF RecordInv
  <2>2. pc = "status" /\ ~lost /\ bname \notin replaced => filer[bname].made \in {"us", "adopted"}
    BY DEF OwnInv, RouteInv, Settling
  <2>3. pc = "status" /\ ~lost /\ bname \notin replaced => Settled(snap.spec, filer[bname])
    BY <2>1 DEF StageInv, Settled, Settling, Aspects
  <2>4. obj.st.lock /\ ~obj.deleting => Locked(obj.st.name)
    BY <2>1 DEF LockInv, Recorded
  <2> QED
    BY <2>2, <2>3, <2>4 DEF Locked
<1> QED
  BY <1>1, <1>2, <1>3, BucketTypeCorrect, PTL DEF Spec
=============================================================================
