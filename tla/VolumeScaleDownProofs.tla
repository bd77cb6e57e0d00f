------------------------ MODULE VolumeScaleDownProofs ------------------------
(***************************************************************************)
(* Proofs about VolumeScaleDown, for every number of replicas, volumes,    *)
(* goroutines, edits and faults.                                           *)
(***************************************************************************)
EXTENDS VolumeScaleDown, TLAPS

(* evacuationTracker.forget keeps the tracker a map of entries ...         *)
LEMMA ForgetTracker_Type ==
    ASSUME NEW a \in 0 .. MaxReplicas, NEW t \in [Ordinals -> TrackerStates]
    PROVE  ForgetTracker(a, t) \in [Ordinals -> TrackerStates]
BY DEF ForgetTracker, TrackerStates

(* ... and detaches goroutines without touching what they drain.           *)
LEMMA ForgetWorkers_Type ==
    ASSUME NEW a \in 0 .. MaxReplicas, NEW k \in [Workers -> WorkerStates]
    PROVE  ForgetWorkers(a, k) \in [Workers -> WorkerStates]
<1> SUFFICES ASSUME NEW w \in Workers
             PROVE  [k[w] EXCEPT !.attached = FALSE] \in WorkerStates /\ k[w] \in WorkerStates
  BY DEF ForgetWorkers
<1> QED
  BY DEF WorkerStates

(* Every variable keeps its type through every pass, evacuation, fault and *)
(* edit: in particular the count a pass writes is a real replica count.    *)
THEOREM TypeCorrect == Spec => []TypeOK
<1> USE ReplicasAssumption, BoundsAssumption
<1>1. Init => TypeOK
  BY DEF Init, TypeOK, Replicas, Ordinals, Absent, NoCounts, CountKinds,
         TrackerStates, WorkerStates, IdleWorker, Free, Leaked
<1>2. TypeOK /\ [Next]_vars => TypeOK'
  <2> SUFFICES ASSUME TypeOK, [Next]_vars PROVE TypeOK'
    OBVIOUS
  <2> USE DEF TypeOK
  <2>22. ASSUME EndPass
         PROVE  /\ pc' = "idle" /\ want' \in 0 .. MaxReplicas /\ current' \in 0 .. MaxReplicas
                /\ allowed' \in 0 .. MaxReplicas /\ counts' \in [Ordinals -> CountKinds]
                /\ late' \in SUBSET Ordinals
    BY <2>22 DEF EndPass, NoCounts, CountKinds
  <2>1. CASE BeginPass
    BY <2>1 DEF BeginPass, NoCounts, CountKinds, crVars, stsVars, envVars, evacVars
  <2>2. CASE ReadStatefulSet
    BY <2>2 DEF ReadStatefulSet, Replicas, Absent, crVars, stsVars, envVars, evacVars
  <2>3. CASE ReadCounts
    BY <2>3 DEF ReadCounts, CountOf, CountKinds, crVars, stsVars, envVars, evacVars
  <2>23. CASE ReadStatefulSetFails
    BY <2>22, <2>23 DEF ReadStatefulSetFails, Fault, crVars, stsVars, envVars, evacVars
  <2>4. CASE ReadCountsFails
    BY <2>4 DEF ReadCountsFails, Fault, crVars, stsVars, envVars, evacVars
  <2>5. ASSUME NEW a \in 0 .. MaxReplicas, OnlyForget(a)
        PROVE /\ tracker' \in [Ordinals -> TrackerStates]
              /\ worker' \in [Workers -> WorkerStates]
    BY <2>5, ForgetTracker_Type, ForgetWorkers_Type DEF OnlyForget
  <2>6. ASSUME NEW a \in 0 .. MaxReplicas, NEW w \in Workers,
               LaunchAndForget(a, w), IsAllowed(a), MustEvacuate(a)
        PROVE /\ tracker' \in [Ordinals -> TrackerStates]
              /\ worker' \in [Workers -> WorkerStates]
    <3>1. a - 1 \in Ordinals
      BY <2>6 DEF IsAllowed, MustEvacuate, Ordinals
    <3>2. [tracker EXCEPT ![a - 1] = "running"] \in [Ordinals -> TrackerStates]
      BY <3>1 DEF TrackerStates
    <3>3. [worker EXCEPT ![w] = [phase |-> "lock", node |-> a - 1, attached |-> TRUE,
                                 err |-> FALSE]] \in [Workers -> WorkerStates]
      BY <3>1 DEF WorkerStates
    <3> QED
      BY <2>6, <3>2, <3>3, ForgetTracker_Type, ForgetWorkers_Type DEF LaunchAndForget
  <2>7. CASE Decide
    BY <2>5, <2>6, <2>7 DEF Decide, crVars, stsVars, envVars
  <2>8. CASE DecideWithoutDial
    BY <2>5, <2>8 DEF DecideWithoutDial, Fault, crVars, stsVars, envVars
  <2>9. CASE Apply
    <3> USE <2>9 DEF Apply, Create, Update, UpdateAfterCreate, NoWrite, WriteSts
    <3>1. sts' \in Replicas /\ cache' \in Replicas
      BY DEF Replicas, stsVars
    <3>2. synced' \in BOOLEAN
      BY Zenon DEF stsVars
    <3>3. faults' \in 0 .. MaxFaults
      BY DEF Fault
    <3> QED
      BY <2>22, <3>1, <3>2, <3>3 DEF crVars, envVars, evacVars
  <2>10. CASE OperatorRestarts
    BY <2>10, <2>22 DEF OperatorRestarts, Fault, TrackerStates,
                 IdleWorker, WorkerStates, Ordinals, crVars, stsVars, envVars
  <2>11. ASSUME NEW w \in Workers, NEW err \in BOOLEAN, Report(w, err)
         PROVE /\ tracker' \in [Ordinals -> TrackerStates]
               /\ worker' \in [Workers -> WorkerStates]
    <3>1. IdleWorker \in WorkerStates
      BY DEF IdleWorker, WorkerStates, Ordinals
    <3>2. worker[w].node \in Ordinals
      BY DEF WorkerStates
    <3> QED
      BY <2>11, <3>1, <3>2 DEF Report, TrackerStates
  <2>12. ASSUME NEW w \in Workers, LockFails(w) PROVE TypeOK'
    <3>1. /\ tracker' \in [Ordinals -> TrackerStates]
          /\ worker' \in [Workers -> WorkerStates]
      BY <2>11, <2>12, Zenon DEF LockFails
    <3> QED
      BY <2>12, <3>1 DEF LockFails, Fault, crVars, stsVars, envVars, passVars
  <2>13. ASSUME NEW w \in Workers, Unlock(w) PROVE TypeOK'
    <3>1. worker[w].err \in BOOLEAN
      BY DEF WorkerStates
    <3> QED
      BY <2>11, <2>13, <3>1 DEF Unlock, Fault, Free, Leaked, crVars, stsVars, envVars,
                                passVars
  <2>14. ASSUME NEW w \in Workers, TakeShellLock(w) PROVE TypeOK'
    BY <2>14 DEF TakeShellLock, WorkerStates, crVars, stsVars, envVars, passVars
  <2>15. ASSUME NEW w \in Workers, EvacuateDone(w) PROVE TypeOK'
    BY <2>15 DEF EvacuateDone, WorkerStates, crVars, stsVars, envVars, passVars
  <2>16. ASSUME NEW w \in Workers, EvacuateFails(w) PROVE TypeOK'
    <3>1. worker' \in [Workers -> WorkerStates]
      BY <2>16 DEF EvacuateFails, WorkerStates
    <3>2. faults' \in 0 .. MaxFaults
      BY <2>16 DEF EvacuateFails, Fault
    <3> QED
      BY <2>16, <3>1, <3>2 DEF EvacuateFails, crVars, stsVars, envVars, passVars
  <2>17. ASSUME NEW w \in Workers, NEW v \in Volumes, NEW t \in Ordinals,
                MoveVolume(w, v, t)
         PROVE TypeOK'
    BY <2>17 DEF MoveVolume, Arrives, crVars, stsVars, passVars, evacVars
  <2>18. CASE Cluster
    <3> USE DEF crVars, stsVars, envVars, passVars, evacVars
    <3>1. CASE CacheSync
      BY <3>1 DEF CacheSync
    <3>2. CASE LeaseExpires
      BY <3>2 DEF LeaseExpires, Free
    <3>3. ASSUME NEW o \in Ordinals, PodCreated(o) \/ PodDeleted(o) PROVE TypeOK'
      BY <3>3 DEF PodCreated, PodDeleted
    <3>4. ASSUME NEW o \in Ordinals, ServerRegisters(o) PROVE TypeOK'
      BY <3>4 DEF ServerRegisters
    <3>5. ASSUME NEW o \in Ordinals, ServerUnregisters(o) PROVE TypeOK'
      <4>1. faults' \in 0 .. MaxFaults
        BY <3>5 DEF ServerUnregisters, Fault
      <4> QED
        BY <3>5, <4>1 DEF ServerUnregisters
    <3>6. ASSUME NEW o \in Ordinals, BackoffElapses(o) PROVE TypeOK'
      BY <3>6 DEF BackoffElapses, TrackerStates
    <3>7. ASSUME NEW v \in Volumes, NEW o \in Ordinals, MasterGrowsVolume(v, o)
          PROVE TypeOK'
      BY <3>7 DEF MasterGrowsVolume, Arrives
    <3> QED
      BY <2>18, <3>1, <3>2, <3>3, <3>4, <3>5, <3>6, <3>7 DEF Cluster
  <2>19. ASSUME NEW n \in MinReplicas .. MaxReplicas, UserSetsReplicas(n) PROVE TypeOK'
    BY <2>19 DEF UserSetsReplicas, stsVars, envVars, passVars, evacVars
  <2>20. CASE UserOrphanDeletes
    <3> USE <2>20 DEF UserOrphanDeletes, WriteSts
    <3>1. sts' \in Replicas /\ cache' \in Replicas
      BY DEF Absent, Replicas
    <3>2. synced' \in BOOLEAN
      BY Zenon
    <3>3. faults' \in 0 .. MaxFaults /\ edits' \in 0 .. MaxEdits
      BY DEF Fault
    <3> QED
      BY <3>1, <3>2, <3>3 DEF envVars, passVars, evacVars
  <2>21. CASE UNCHANGED vars
    BY <2>21 DEF vars, crVars, stsVars, envVars, passVars, evacVars
  <2> QED
    BY <2>1, <2>2, <2>3, <2>4, <2>7, <2>8, <2>9, <2>10, <2>12, <2>13, <2>14, <2>15,
       <2>16, <2>17, <2>18, <2>19, <2>20, <2>21, <2>23 DEF Next, Pass, Evacuation
<1>3. QED
  BY <1>1, <1>2, PTL DEF Spec
-----------------------------------------------------------------------------
(* What the counts of the pass show empty is so, but for what came later.  *)
StillEmpty(o) == counts[o] = "empty" => (data[o] # {} => o \in late)

(* ShrinkConfirmed is about one step, and not inductive: what justifies    *)
(* the write of Apply was read two steps earlier. This carries it along.   *)
ShrinkInv ==
    /\ pc \notin {"decide", "apply"} => counts = NoCounts
    /\ pc \in {"decide", "apply"} => \A o \in Ordinals : StillEmpty(o)
    /\ pc = "apply" => \A o \in allowed .. (current - 1) : counts[o] = "empty"

(* A volume that arrives somewhere is noticed.                             *)
LEMMA ArrivalNoticed ==
    ASSUME TypeOK, ShrinkInv, NEW t \in Ordinals, Arrives(t),
           \A o \in Ordinals \ {t} : data'[o] \subseteq data[o]
    PROVE  ShrinkInv'
BY DEF TypeOK, ShrinkInv, StillEmpty, Arrives

(* Every other step leaves the pass and the disks alone, or is of the pass.*)
LEMMA ShrinkFrame ==
    ASSUME ShrinkInv, UNCHANGED <<pc, allowed, current, counts, late, data>>
    PROVE  ShrinkInv'
BY DEF ShrinkInv, StillEmpty

(* Every step keeps ShrinkInv.                                             *)
LEMMA ShrinkInv_Inductive ==
    ASSUME TypeOK, ShrinkInv, [Next]_vars
    PROVE  ShrinkInv'
<1>1. CASE BeginPass
  BY <1>1 DEF BeginPass, ShrinkInv
<1>2. CASE ReadStatefulSet
  BY <1>2, ReplicasAssumption DEF ReadStatefulSet, TypeOK, Replicas, Absent, NoCounts,
                                  ShrinkInv, StillEmpty
<1>3. CASE ReadCounts
  BY <1>3 DEF ReadCounts, CountOf, ShrinkInv, StillEmpty, envVars
<1>4. CASE ReadCountsFails
  BY <1>4 DEF ReadCountsFails, TypeOK, NoCounts, ShrinkInv, StillEmpty
<1>5. CASE Decide \/ DecideWithoutDial
  <2>1. pc' = "apply" /\ IsAllowed(allowed') /\ pc = "decide"
    BY <1>5 DEF Decide, DecideWithoutDial
  <2>2. UNCHANGED <<current, counts, late, data>>
    BY <1>5 DEF Decide, DecideWithoutDial, envVars
  <2> QED
    BY <2>1, <2>2 DEF IsAllowed, ShrinkInv, StillEmpty
<1>6. CASE Apply \/ ReadStatefulSetFails \/ OperatorRestarts
  BY <1>6 DEF Apply, ReadStatefulSetFails, OperatorRestarts, EndPass, ShrinkInv
<1>7. ASSUME NEW v \in Volumes, NEW o \in Ordinals, MasterGrowsVolume(v, o)
      PROVE  ShrinkInv'
  BY <1>7, ArrivalNoticed DEF MasterGrowsVolume, TypeOK
<1>8. ASSUME NEW w \in Workers, NEW v \in Volumes, NEW t \in Ordinals, MoveVolume(w, v, t)
      PROVE  ShrinkInv'
  <2>1. worker[w].node \in Ordinals
    BY DEF TypeOK, WorkerStates
  <2>2. \A o \in Ordinals \ {t} : data'[o] \subseteq data[o]
    BY <1>8, <2>1 DEF MoveVolume, TypeOK
  <2> QED
    BY <1>8, <2>2, ArrivalNoticed DEF MoveVolume
<1>9. ASSUME \/ CacheSync \/ LeaseExpires \/ UserOrphanDeletes \/ UNCHANGED vars
             \/ \E o \in Ordinals : PodCreated(o) \/ PodDeleted(o) \/ ServerRegisters(o)
                                    \/ ServerUnregisters(o) \/ BackoffElapses(o)
             \/ \E n \in MinReplicas .. MaxReplicas : UserSetsReplicas(n)
             \/ \E w \in Workers : \/ TakeShellLock(w) \/ EvacuateDone(w)
                                   \/ EvacuateFails(w) \/ Unlock(w) \/ LockFails(w)
      PROVE  ShrinkInv'
  <2>1. UNCHANGED <<pc, allowed, current, counts, late, data>>
    BY <1>9 DEF CacheSync, LeaseExpires, UserOrphanDeletes, PodCreated, PodDeleted,
         ServerRegisters, ServerUnregisters, BackoffElapses, UserSetsReplicas,
         TakeShellLock, EvacuateDone, EvacuateFails, Unlock, LockFails, vars, envVars,
         passVars
  <2> QED
    BY <2>1, ShrinkFrame
<1> QED
  BY <1>1, <1>2, <1>3, <1>4, <1>5, <1>6, <1>7, <1>8, <1>9
     DEF Next, Pass, Evacuation, Cluster

(* Only the pass's write and the user's orphan delete change the           *)
(* StatefulSet.                                                            *)
LEMMA OnlyApplyWrites ==
    ASSUME [Next]_vars PROVE Apply \/ UserOrphanDeletes \/ sts' = sts
<1>1. ASSUME NEW w \in Workers, Evacuation(w) \/ LockFails(w) PROVE sts' = sts
  BY <1>1 DEF Evacuation, LockFails, TakeShellLock, EvacuateDone, EvacuateFails, Unlock,
              MoveVolume, stsVars
<1>2. ASSUME Cluster PROVE sts' = sts
  BY <1>2 DEF Cluster, CacheSync, LeaseExpires, PodCreated, PodDeleted, ServerRegisters,
              ServerUnregisters, BackoffElapses, MasterGrowsVolume, stsVars
<1>3. ASSUME NEW n \in MinReplicas .. MaxReplicas, UserSetsReplicas(n) PROVE sts' = sts
  BY <1>3 DEF UserSetsReplicas, stsVars
<1> QED
  BY <1>1, <1>2, <1>3 DEF Next, Pass, BeginPass, ReadStatefulSet, ReadStatefulSetFails,
     ReadCounts, ReadCountsFails, Decide, DecideWithoutDial, OperatorRestarts, vars, stsVars

(* allowedVolumeServerReplicas: a pass whose gate was shown the count that *)
(* it lowers drops only servers that the master reported as known and      *)
(* empty in that very pass, and nothing is on their disks that was there   *)
(* at that look, whatever evacuations, faults, edits, client writes and a  *)
(* lagging cache do in between.                                            *)
THEOREM ShrinkIsConfirmed == Spec => ShrinkConfirmed
<1>1. Init => ShrinkInv
  BY DEF Init, ShrinkInv
<1>2. TypeOK /\ ShrinkInv /\ [Next]_vars => ShrinkInv'
  BY ShrinkInv_Inductive
<1>3. TypeOK /\ ShrinkInv /\ [Next]_vars
        => [sts' # Absent /\ sts' < sts /\ current = sts =>
              \A o \in sts' .. (sts - 1) :
                 counts[o] = "empty" /\ (data[o] # {} => o \in late)]_vars
  <2> SUFFICES ASSUME TypeOK, ShrinkInv, Next, sts' < sts, sts' # Absent, current = sts,
                      NEW o \in sts' .. (sts - 1)
               PROVE  counts[o] = "empty" /\ (data[o] # {} => o \in late)
    OBVIOUS
  <2>1. sts \in Int /\ sts # sts'
    BY DEF TypeOK, Replicas
  <2>2. Apply
    BY <2>1, OnlyApplyWrites DEF UserOrphanDeletes, WriteSts
  <2>3. sts' = allowed /\ pc = "apply"
    BY <2>1, <2>2 DEF Apply, Create, Update, UpdateAfterCreate, NoWrite, WriteSts, stsVars
  <2>4. counts[o] = "empty"
    BY <2>3 DEF ShrinkInv
  <2>5. o \in Ordinals
    BY <2>3, ReplicasAssumption DEF TypeOK, Ordinals
  <2> QED
    BY <2>3, <2>4, <2>5 DEF ShrinkInv, StillEmpty
<1> QED
  BY <1>1, <1>2, <1>3, TypeCorrect, PTL DEF Spec, ShrinkConfirmed
-----------------------------------------------------------------------------
(* The tracker. NoStuckTracker alone is not inductive: if two goroutines   *)
(* reported to one entry, the first report would clear running under the   *)
(* second. There never are two, because start refuses a running node.      *)
Reports(w, o) == worker[w].phase # "idle" /\ worker[w].node = o /\ worker[w].attached

TrackerInv ==
    /\ NoStuckTracker
    /\ \A o \in Ordinals : \A w, x \in Workers : Reports(w, o) /\ Reports(x, o) => w = x

(* TrackerInv only depends on the tracker and on who reports to it.        *)
LEMMA TrackerFrame ==
    ASSUME TrackerInv,
           \A o \in Ordinals : (tracker'[o] = "running") = (tracker[o] = "running"),
           \A w \in Workers, o \in Ordinals : Reports(w, o)' = Reports(w, o)
    PROVE  TrackerInv'
BY DEF TrackerInv, NoStuckTracker, Reports

(* forget drops the entries of the servers that may leave, and detaches    *)
(* the goroutines that report to them.                                     *)
LEMMA ForgetKeepsTracker ==
    ASSUME TypeOK, TrackerInv, NEW a \in 0 .. MaxReplicas, OnlyForget(a)
    PROVE  TrackerInv'
<1>1. \A o \in Ordinals : tracker'[o] = IF Forgotten(a, o) THEN "none" ELSE tracker[o]
  BY DEF OnlyForget, ForgetTracker
<1>2. \A w \in Workers :
         /\ worker'[w].phase = worker[w].phase /\ worker'[w].node = worker[w].node
         /\ worker'[w].attached = IF Forgotten(a, worker[w].node) THEN FALSE ELSE worker[w].attached
  BY DEF OnlyForget, ForgetWorkers, TypeOK, WorkerStates
<1>3. \A w \in Workers, o \in Ordinals : Reports(w, o)' <=> Reports(w, o) /\ ~Forgotten(a, o)
  BY <1>2 DEF Reports
<1>4. NoStuckTracker'
  BY <1>1, <1>3 DEF TrackerInv, NoStuckTracker, Reports
<1> QED
  BY <1>3, <1>4 DEF TrackerInv

(* start marks the entry of the node below a, which nobody reports to, and *)
(* the goroutine it launches is the one that does.                         *)
LEMMA LaunchKeepsTracker ==
    ASSUME TypeOK, TrackerInv, NEW a \in 0 .. MaxReplicas, a - 1 \in Ordinals,
           MayStart(a - 1), NEW w \in Workers, worker[w].phase = "idle", LaunchAndForget(a, w)
    PROVE  TrackerInv'
<1> DEFINE b == a - 1
<1>0. ~Forgotten(a, b)
  BY ReplicasAssumption DEF Forgotten, Ordinals, TypeOK
<1>1. \A o \in Ordinals :
         tracker'[o] = IF Forgotten(a, o) THEN "none" ELSE IF o = b THEN "running" ELSE tracker[o]
  BY DEF LaunchAndForget, ForgetTracker, TypeOK
<1>2. \A x \in Workers \ {w} :
         /\ worker'[x].phase = worker[x].phase /\ worker'[x].node = worker[x].node
         /\ worker'[x].attached = IF Forgotten(a, worker[x].node) THEN FALSE ELSE worker[x].attached
  BY DEF LaunchAndForget, ForgetWorkers, TypeOK, WorkerStates
<1>3. worker'[w] = [phase |-> "lock", node |-> b, attached |-> TRUE, err |-> FALSE]
  BY <1>0 DEF LaunchAndForget, ForgetWorkers, TypeOK
<1>4. \A x \in Workers \ {w}, o \in Ordinals : Reports(x, o)' <=> Reports(x, o) /\ ~Forgotten(a, o)
  BY <1>2 DEF Reports
<1>5. \A o \in Ordinals : Reports(w, o)' <=> o = b
  BY <1>3 DEF Reports
<1>6. \A x \in Workers : ~Reports(x, b)
  BY DEF TrackerInv, NoStuckTracker, MayStart, Reports
<1>7. \A o \in Ordinals : ~Reports(w, o)
  BY DEF Reports
<1> HIDE DEF b
<1>8. NoStuckTracker'
  <2> SUFFICES ASSUME NEW o \in Ordinals
               PROVE  tracker'[o] = "running" <=> \E x \in Workers : Reports(x, o)'
    BY DEF NoStuckTracker, Reports
  <2>1. tracker[o] = "running" <=> \E x \in Workers : Reports(x, o)
    BY DEF TrackerInv, NoStuckTracker, Reports
  <2>2. CASE o = b
    BY <2>2, <1>0, <1>1, <1>5
  <2>3. CASE o # b
    BY <2>1, <2>3, <1>1, <1>4, <1>5, <1>7
  <2> QED
    BY <2>2, <2>3
<1> QED
  BY <1>4, <1>5, <1>6, <1>8 DEF TrackerInv

(* A goroutine's report ends it, and clears running if it is attached.     *)
LEMMA ReportKeepsTracker ==
    ASSUME TypeOK, TrackerInv, NEW w \in Workers, worker[w].phase # "idle",
           NEW err \in BOOLEAN, Report(w, err)
    PROVE  TrackerInv'
<1> DEFINE n == worker[w].node
<1>1. n \in Ordinals /\ worker[w].attached \in BOOLEAN
  BY DEF TypeOK, WorkerStates
<1>2. \A o \in Ordinals : ~Reports(w, o)'
  BY DEF Report, IdleWorker, Reports, TypeOK
<1>3. \A x \in Workers \ {w}, o \in Ordinals : Reports(x, o)' <=> Reports(x, o)
  BY DEF Report, Reports, TypeOK
<1>4. \A o \in Ordinals : Reports(w, o) <=> o = n /\ worker[w].attached
  BY DEF Reports
<1>5. ~worker[w].attached => tracker' = tracker
  BY DEF Report
<1>6. worker[w].attached =>
         \A o \in Ordinals : tracker'[o] = IF o = n THEN (IF err THEN "failed" ELSE "ok") ELSE tracker[o]
  BY DEF Report, TypeOK
<1> HIDE DEF n
<1>7. NoStuckTracker'
  <2> SUFFICES ASSUME NEW o \in Ordinals
               PROVE  tracker'[o] = "running" <=> \E x \in Workers : Reports(x, o)'
    BY DEF NoStuckTracker, Reports
  <2>1. tracker[o] = "running" <=> \E x \in Workers : Reports(x, o)
    BY DEF TrackerInv, NoStuckTracker, Reports
  <2>2. CASE Reports(w, o)
    <3>1. tracker'[o] # "running"
      BY <2>2, <1>4, <1>6
    <3>2. \A x \in Workers \ {w} : ~Reports(x, o)
      BY <2>2 DEF TrackerInv
    <3> QED
      BY <3>1, <3>2, <1>2, <1>3
  <2>3. CASE ~Reports(w, o)
    <3>1. tracker'[o] = tracker[o]
      BY <2>3, <1>4, <1>5, <1>6
    <3> QED
      BY <3>1, <2>1, <2>3, <1>2, <1>3
  <2> QED
    BY <2>2, <2>3
<1> QED
  BY <1>2, <1>3, <1>7 DEF TrackerInv

(* Every step keeps TrackerInv, with no assumption on the cache, the       *)
(* writes of clients, where volumes go or what the user deletes.           *)
LEMMA TrackerInv_Inductive ==
    ASSUME TypeOK, TrackerInv, [Next]_vars
    PROVE  TrackerInv'
<1> USE DEF evacVars
<1>1. CASE UNCHANGED evacVars
  BY <1>1, TrackerFrame DEF Reports
<1>2. CASE Decide
  <2>1. PICK a \in 0 .. MaxReplicas :
           /\ IsAllowed(a)
           /\ IF MustEvacuate(a) /\ MayStart(a - 1)
                THEN \E w \in Workers : worker[w].phase = "idle" /\ LaunchAndForget(a, w)
                ELSE OnlyForget(a)
    BY <1>2 DEF Decide
  <2>2. CASE MustEvacuate(a) /\ MayStart(a - 1)
    <3>1. a - 1 \in Ordinals
      BY <2>2, ReplicasAssumption DEF MustEvacuate, Ordinals, TypeOK
    <3> QED
      BY <2>1, <2>2, <3>1, LaunchKeepsTracker
  <2>3. CASE ~(MustEvacuate(a) /\ MayStart(a - 1))
    BY <2>1, <2>3, ForgetKeepsTracker
  <2> QED
    BY <2>2, <2>3
<1>3. CASE DecideWithoutDial
  BY <1>3, ForgetKeepsTracker DEF DecideWithoutDial
<1>4. ASSUME NEW w \in Workers, LockFails(w) PROVE TrackerInv'
  BY <1>4, ReportKeepsTracker DEF LockFails
<1>5. ASSUME NEW w \in Workers, Unlock(w) PROVE TrackerInv'
  BY <1>5, ReportKeepsTracker DEF Unlock, TypeOK, WorkerStates
<1>6. ASSUME NEW w \in Workers, TakeShellLock(w) \/ EvacuateDone(w) \/ EvacuateFails(w)
      PROVE  TrackerInv'
  <2>1. tracker' = tracker
    BY <1>6 DEF TakeShellLock, EvacuateDone, EvacuateFails
  <2>2. \A x \in Workers, o \in Ordinals : Reports(x, o)' = Reports(x, o)
    BY <1>6 DEF TakeShellLock, EvacuateDone, EvacuateFails, Reports, TypeOK, WorkerStates
  <2> QED
    BY <2>1, <2>2, TrackerFrame
<1>7. ASSUME NEW o \in Ordinals, BackoffElapses(o) PROVE TrackerInv'
  <2>1. \A p \in Ordinals : (tracker'[p] = "running") = (tracker[p] = "running")
    BY <1>7 DEF BackoffElapses, TypeOK
  <2> QED
    BY <1>7, <2>1, TrackerFrame DEF BackoffElapses, Reports
<1>8. CASE LeaseExpires
  BY <1>8, TrackerFrame DEF LeaseExpires, Reports
<1>9. CASE OperatorRestarts
  <2>1. \A w \in Workers, o \in Ordinals : ~Reports(w, o)'
    BY <1>9 DEF OperatorRestarts, IdleWorker, Reports
  <2>2. \A o \in Ordinals : tracker'[o] # "running"
    BY <1>9 DEF OperatorRestarts
  <2> QED
    BY <2>1, <2>2 DEF TrackerInv, NoStuckTracker, Reports
<1>10. Next => \/ Decide \/ DecideWithoutDial \/ OperatorRestarts \/ LeaseExpires
               \/ UNCHANGED evacVars
               \/ \E o \in Ordinals : BackoffElapses(o)
               \/ \E w \in Workers : \/ LockFails(w) \/ Unlock(w) \/ TakeShellLock(w)
                                     \/ EvacuateDone(w) \/ EvacuateFails(w)
  <2>1. ASSUME Pass, ~Decide PROVE UNCHANGED evacVars
    BY <2>1 DEF Pass, BeginPass, ReadStatefulSet, ReadCounts, Apply
  <2>2. ReadStatefulSetFails \/ ReadCountsFails \/ UserOrphanDeletes => UNCHANGED evacVars
    BY DEF ReadStatefulSetFails, ReadCountsFails, UserOrphanDeletes
  <2>3. ASSUME NEW n \in MinReplicas .. MaxReplicas, UserSetsReplicas(n)
        PROVE  UNCHANGED evacVars
    BY <2>3 DEF UserSetsReplicas
  <2>4. ASSUME NEW w \in Workers, NEW v \in Volumes, NEW t \in Ordinals, MoveVolume(w, v, t)
        PROVE  UNCHANGED evacVars
    BY <2>4 DEF MoveVolume
  <2>5. ASSUME Cluster, ~LeaseExpires, ~\E o \in Ordinals : BackoffElapses(o)
        PROVE  UNCHANGED evacVars
    BY <2>5 DEF Cluster, CacheSync, PodCreated, PodDeleted, ServerRegisters,
                ServerUnregisters, MasterGrowsVolume
  <2> QED
    BY <2>1, <2>2, <2>3, <2>4, <2>5 DEF Next, Evacuation
<1>11. CASE UNCHANGED vars
  BY <1>1, <1>11 DEF vars
<1> QED
  BY <1>1, <1>2, <1>3, <1>4, <1>5, <1>6, <1>7, <1>8, <1>9, <1>10, <1>11

(* evacuationTracker: whatever the schedule of passes, goroutines, forgets *)
(* and restarts, an entry says running exactly while a goroutine lives     *)
(* that will clear it, so no server is ever left that cannot be drained    *)
(* again; for any number of servers and goroutines and a stale cache.      *)
THEOREM TrackerNeverStuck == Spec => []NoStuckTracker
<1>1. Init => TrackerInv
  BY DEF Init, TrackerInv, NoStuckTracker, Reports, IdleWorker
<1>2. TypeOK /\ TrackerInv /\ [Next]_vars => TrackerInv'
  BY TrackerInv_Inductive
<1>3. TrackerInv => NoStuckTracker
  BY DEF TrackerInv
<1> QED
  BY <1>1, <1>2, <1>3, TypeCorrect, PTL DEF Spec
=============================================================================
