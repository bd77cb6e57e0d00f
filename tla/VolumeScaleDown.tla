--------------------------- MODULE VolumeScaleDown ---------------------------
(***************************************************************************)
(* The graceful scale-down of one volume StatefulSet                       *)
(* (internal/controller/volume_evacuation.go, volume_admin.go and the      *)
(* StatefulSet half of controller_volume.go).                              *)
(*                                                                         *)
(* Three kinds of actors interleave:                                       *)
(*   - the Seaweed reconciler, one pass at a time (controller-runtime runs *)
(*     one worker), whose pass is cut wherever it reads or writes state    *)
(*     another actor can change: the CR, the cached StatefulSet, the       *)
(*     master's topology, the tracker, the StatefulSet object;             *)
(*   - the background evacuations (goroutines of evacuationTracker.start), *)
(*     which take the master's shell lock, move volumes one at a time and  *)
(*     release the lock;                                                   *)
(*   - the outside world: the user editing the CR, the StatefulSet         *)
(*     controller, pods registering with the master, clients making the    *)
(*     master grow volumes, the informer cache, an operator restart.       *)
(*                                                                         *)
(* A server is named by its ordinal: nodeFor is injective, so a node id    *)
(* and its ordinal are interchangeable.                                    *)
(***************************************************************************)
EXTENDS Integers

CONSTANTS
    MaxReplicas,  \* bound: largest replica count the user asks for
    MinReplicas,  \* smallest replica count the user asks for (0 or 1)
    Volumes,      \* logical volumes and EC shards
    Workers,      \* bound: evacuation goroutines alive at the same time
    MaxEdits,     \* bound: edits of the CR and of the StatefulSet by the user
    MaxFaults     \* bound: failed calls, lost heartbeats, operator restarts,
                  \* writes that the informer cache shows late

ASSUME ReplicasAssumption ==
    /\ MaxReplicas \in Nat /\ MinReplicas \in Nat
    /\ 1 <= MaxReplicas /\ MinReplicas <= MaxReplicas
ASSUME BoundsAssumption == MaxEdits \in Nat /\ MaxFaults \in Nat
ASSUME WorkersAssumption == Workers \cap {"free", "leaked"} = {}

Ordinals == 0 .. (MaxReplicas - 1)
Absent   == -1                           \* no StatefulSet object
Replicas == -1 .. MaxReplicas

(* What the reconciler tells apart in the master's volume count of a node: *)
(* missing from the map, 0, or more than 0.                                *)
CountKinds == {"unknown", "empty", "populated"}

(* evacuationState: no entry; running; finished with lastErr inside or     *)
(* past the retry backoff; finished without error.                         *)
TrackerStates == {"none", "running", "failed", "retry", "ok"}

(* A goroutine: phase, the node it drains, whether its evacuationState is  *)
(* still the tracker's entry for that node, and the error it will report.  *)
WorkerStates ==
    [phase : {"idle", "lock", "move", "unlock"}, node : Ordinals,
     attached : BOOLEAN, err : BOOLEAN]

IdleWorker == [phase |-> "idle", node |-> 0, attached |-> FALSE, err |-> FALSE]

Free   == "free"      \* the master's shell lock is not held
Leaked == "leaked"    \* held by a session that will not release it

VARIABLES
    desired,    \* spec.volume.replicas of the Seaweed CR
    sts,        \* spec.replicas of the StatefulSet, or Absent
    cache,      \* the informer cache's copy of it
    synced,     \* the cache holds the latest version
    pods,       \* ordinals whose pod exists
    registered, \* ordinals in the master's topology
    data,       \* volumes on each server's disk
    pc,         \* where the reconcile pass is
    want,       \* the pass's copy of the CR's replica count
    current,    \* the pass's copy of the StatefulSet's replica count
    counts,     \* the pass's copy of the master's volume counts
    allowed,    \* the replica count the pass will write
    late,       \* history: the servers that got a volume since the pass read
                \* the counts
    tracker,    \* evacuationTracker.states
    worker,     \* the evacuation goroutines
    shellLock,  \* the master's shell lock: Free, Leaked or a worker
    edits,      \* user edits so far
    faults      \* faults so far

crVars   == <<desired, edits>>
stsVars  == <<sts, cache, synced>>
envVars  == <<pods, registered, data>>
passVars == <<pc, want, current, counts, allowed, late>>
evacVars == <<tracker, worker, shellLock>>
vars == <<crVars, stsVars, envVars, passVars, evacVars, faults>>

NoCounts == [o \in Ordinals |-> "unknown"]

Init ==
    /\ desired \in MinReplicas .. MaxReplicas /\ desired > 0
    /\ sts = Absent /\ cache = Absent /\ synced = TRUE
    /\ pods = {} /\ registered = {}
    /\ data = [o \in Ordinals |-> {}]
    /\ pc = "idle" /\ want = 0 /\ current = 0 /\ allowed = 0
    /\ counts = NoCounts /\ late = {}
    /\ tracker = [o \in Ordinals |-> "none"]
    /\ worker = [w \in Workers |-> IdleWorker]
    /\ shellLock = Free
    /\ edits = 0 /\ faults = 0

Fault == faults < MaxFaults /\ faults' = faults + 1

(***************************************************************************)
(* Writes of the StatefulSet object. The cache, which has seen a version   *)
(* already, shows the new one at once or later (CacheSync); passes are     *)
(* seconds apart, so that late news are counted as faults.                 *)
(***************************************************************************)
WriteSts(seen, r) ==
    /\ sts' = r
    /\ \/ cache' = r /\ synced' = TRUE /\ UNCHANGED faults
       \/ cache' = seen /\ synced' = FALSE /\ Fault

CacheSync ==
    /\ ~synced
    /\ cache' = sts /\ synced' = TRUE
    /\ UNCHANGED <<crVars, sts, envVars, passVars, evacVars, faults>>

-----------------------------------------------------------------------------
(* The outside world.                                                      *)

UserSetsReplicas(n) ==
    /\ edits < MaxEdits /\ n # desired
    /\ desired' = n /\ edits' = edits + 1
    /\ UNCHANGED <<stsVars, envVars, passVars, evacVars, faults>>

(* kubectl delete statefulset --cascade=orphan, the README's recipe.       *)
UserOrphanDeletes ==
    /\ edits < MaxEdits /\ sts # Absent
    /\ WriteSts(cache, Absent) /\ edits' = edits + 1
    /\ UNCHANGED <<desired, envVars, passVars, evacVars>>

(* The StatefulSet controller (podManagementPolicy: Parallel).             *)
PodCreated(o) ==
    /\ o < sts /\ o \notin pods
    /\ pods' = pods \cup {o}
    /\ UNCHANGED <<crVars, stsVars, registered, data, passVars, evacVars, faults>>

PodDeleted(o) ==
    /\ sts # Absent /\ o >= sts /\ o \in pods
    /\ pods' = pods \ {o}
    /\ UNCHANGED <<crVars, stsVars, registered, data, passVars, evacVars, faults>>

ServerRegisters(o) ==
    /\ o \in pods \ registered
    /\ registered' = registered \cup {o}
    /\ UNCHANGED <<crVars, stsVars, pods, data, passVars, evacVars, faults>>

(* The master drops a server whose pod is gone, or whose heartbeats it     *)
(* lost although the pod runs.                                             *)
ServerUnregisters(o) ==
    /\ o \in registered
    /\ IF o \in pods THEN Fault ELSE UNCHANGED faults
    /\ registered' = registered \ {o}
    /\ UNCHANGED <<crVars, stsVars, pods, data, passVars, evacVars>>

Reachable == pods \cap registered
Stored(v) == \E o \in Ordinals : v \in data[o]

(* A volume arrives on server o.                                           *)
Arrives(o) ==
    /\ late' = IF pc \in {"decide", "apply"} THEN late \cup {o} ELSE late
    /\ UNCHANGED <<pc, want, current, counts, allowed>>

(* The master grows a volume on a live server, at any time.                *)
MasterGrowsVolume(v, o) ==
    /\ ~Stored(v) /\ o \in Reachable
    /\ data' = [data EXCEPT ![o] = @ \cup {v}]
    /\ Arrives(o)
    /\ UNCHANGED <<crVars, stsVars, pods, registered, evacVars, faults>>

-----------------------------------------------------------------------------
(* The reconcile pass.                                                     *)

EndPass ==
    /\ pc' = "idle" /\ want' = 0 /\ current' = 0 /\ allowed' = 0
    /\ counts' = NoCounts /\ late' = {}

(* findSeaweedCustomResourceInstance, and ensureVolumeServers' early       *)
(* return when no volume servers are asked for.                            *)
BeginPass ==
    /\ pc = "idle" /\ desired # 0
    /\ pc' = "getSts" /\ want' = desired
    /\ UNCHANGED <<crVars, stsVars, envVars, current, counts, allowed, late, evacVars, faults>>

(* Mutant: the count is read before the NotFound check.                    *)
MutReadBeforeCheck ==
    /\ pc = "getSts" /\ current' = cache
    /\ IF want >= cache
       THEN pc' = "apply" /\ allowed' = want
       ELSE pc' = "readCounts" /\ UNCHANGED allowed
    /\ UNCHANGED <<crVars, stsVars, envVars, want, counts, late, evacVars, faults>>

(* allowedVolumeServerReplicas up to the master call: creation, scale-up   *)
(* and steady state need none.                                             *)
ReadStatefulSet ==
    /\ pc = "getSts"
    /\ current' = IF cache = Absent THEN 0 ELSE cache
    /\ IF want >= current'
       THEN pc' = "apply" /\ allowed' = want
       ELSE pc' = "readCounts" /\ UNCHANGED allowed
    /\ UNCHANGED <<crVars, stsVars, envVars, want, counts, late, evacVars, faults>>

(* An error other than NotFound ends the pass.                             *)
ReadStatefulSetFails ==
    /\ pc = "getSts" /\ Fault
    /\ EndPass
    /\ UNCHANGED <<crVars, stsVars, envVars, evacVars>>

(* VolumeServerVolumeCounts: the master's VolumeList per data node.        *)
CountOf(o) ==
    IF o \notin registered THEN "unknown"
    ELSE IF data[o] = {} THEN "empty" ELSE "populated"

ReadCounts ==
    /\ pc = "readCounts"
    /\ counts' = [o \in Ordinals |-> CountOf(o)]
    /\ pc' = "decide"
    /\ UNCHANGED <<crVars, stsVars, envVars, want, current, allowed, late, evacVars, faults>>

(* No authoritative drain signal: hold the StatefulSet at its size.        *)
ReadCountsFails ==
    /\ pc = "readCounts" /\ Fault
    /\ allowed' = current /\ pc' = "apply"
    /\ UNCHANGED <<crVars, stsVars, envVars, want, current, counts, late, evacVars>>

(* Mutant: a server missing from the topology counts as drained.           *)
MutUnknownIsEmpty(a) ==
    /\ a \in want .. current
    /\ \A o \in a .. (current - 1) : counts[o] # "populated"
    /\ a > want => counts[a - 1] = "populated"

(* evacuationDecision's first result: everything from a up is known to be  *)
(* empty, and a itself is the lowest such count at or above want.          *)
IsAllowed(a) ==
    /\ a \in want .. current
    /\ \A o \in a .. (current - 1) : counts[o] = "empty"
    /\ a > want => counts[a - 1] # "empty"

(* Its second result: the server just below a, when it still holds data.   *)
MustEvacuate(a) == a > want /\ counts[a - 1] = "populated"

(* Mutant: a finished evacuation is never tried again.                     *)
MutNeverRetries(o) == tracker[o] = "none"

(* evacuationTracker.start: neither running nor inside the backoff.        *)
MayStart(o) == tracker[o] \notin {"running", "failed"}

(* evacuationTracker.forget on every ordinal of a .. current-1: a running  *)
(* goroutine keeps its state object, which is no longer the tracker's.     *)
Forgotten(a, o) == o \in a .. (current - 1)

ForgetTracker(a, t) ==
    [o \in Ordinals |-> IF Forgotten(a, o) THEN "none" ELSE t[o]]

ForgetWorkers(a, k) ==
    [w \in Workers |->
        IF Forgotten(a, k[w].node) THEN [k[w] EXCEPT !.attached = FALSE] ELSE k[w]]

(* The rest of allowedVolumeServerReplicas: decide, launch at most one     *)
(* evacuation, forget the servers that may leave.                          *)
LaunchAndForget(a, w) ==
    /\ tracker' = ForgetTracker(a, [tracker EXCEPT ![a - 1] = "running"])
    /\ worker' = ForgetWorkers(a, [worker EXCEPT ![w] =
          [phase |-> "lock", node |-> a - 1, attached |-> TRUE, err |-> FALSE]])

OnlyForget(a) ==
    /\ tracker' = ForgetTracker(a, tracker)
    /\ worker' = ForgetWorkers(a, worker)

Decide ==
    /\ pc = "decide"
    /\ \E a \in 0 .. MaxReplicas :
          /\ IsAllowed(a)
          /\ allowed' = a
          /\ IF MustEvacuate(a) /\ MayStart(a - 1)
             THEN \E w \in Workers :
                     worker[w].phase = "idle" /\ LaunchAndForget(a, w)
             ELSE OnlyForget(a)
    /\ pc' = "apply"
    /\ UNCHANGED <<crVars, stsVars, envVars, want, current, counts, late, shellLock,
                   faults>>

(* startVolumeServerEvacuation cannot build its dial option: no launch.    *)
DecideWithoutDial ==
    /\ pc = "decide" /\ Fault
    /\ \E a \in 0 .. MaxReplicas :
          IsAllowed(a) /\ MustEvacuate(a) /\ allowed' = a /\ OnlyForget(a)
    /\ pc' = "apply"
    /\ UNCHANGED <<crVars, stsVars, envVars, want, current, counts, late, shellLock>>

(* CreateOrUpdate of the StatefulSet: a second cached read, then a create  *)
(* or, when the merge changes the count, an update the API server rejects  *)
(* when the cached version is not the latest. A create that meets a        *)
(* StatefulSet the cache does not show is followed by a third read.        *)
Create == cache = Absent /\ sts = Absent /\ WriteSts(cache, allowed)
Update == cache # Absent /\ cache # allowed /\ synced /\ WriteSts(cache, allowed)
UpdateAfterCreate ==
    cache = Absent /\ sts \notin {Absent, allowed} /\ WriteSts(sts, allowed)
NoWrite ==
    /\ \/ cache = Absent /\ sts # Absent       \* the third read misses as well
       \/ cache = allowed                      \* nothing to merge
       \/ cache # Absent /\ ~synced            \* conflict (or NotFound)
    /\ UNCHANGED <<stsVars, faults>>

Apply ==
    /\ pc = "apply"
    /\ Create \/ Update \/ UpdateAfterCreate \/ NoWrite
    /\ EndPass
    /\ UNCHANGED <<crVars, envVars, evacVars>>

-----------------------------------------------------------------------------
(* The background evacuation: EvacuateServer under the goroutine of        *)
(* evacuationTracker.start.                                                *)

TakeShellLock(w) ==
    /\ worker[w].phase = "lock" /\ shellLock = Free
    /\ shellLock' = w
    /\ worker' = [worker EXCEPT ![w].phase = "move"]
    /\ UNCHANGED <<crVars, stsVars, envVars, passVars, tracker, faults>>

(* Mutant: an evacuation that fails leaves running set.                    *)
MutErrorKeepsRunning(w, err) ==
    /\ worker' = [worker EXCEPT ![w] = IdleWorker]
    /\ tracker' = IF worker[w].attached /\ ~err
                  THEN [tracker EXCEPT ![worker[w].node] = "ok"] ELSE tracker

(* The goroutine's last step: running = false, lastErr = err, and the      *)
(* backoff on an error. A detached goroutine writes an object nobody reads.*)
Report(w, err) ==
    /\ worker' = [worker EXCEPT ![w] = IdleWorker]
    /\ tracker' = IF worker[w].attached
                  THEN [tracker EXCEPT ![worker[w].node] = IF err THEN "failed" ELSE "ok"]
                  ELSE tracker

(* The admin cannot be built, or `lock` fails: nothing was locked.         *)
LockFails(w) ==
    /\ worker[w].phase = "lock" /\ Fault
    /\ Report(w, TRUE)
    /\ UNCHANGED <<crVars, stsVars, envVars, passVars, shellLock>>

(* Where `volumeServer.evacuate` may put a volume of o: another live       *)
(* server of the topology, the ones that are to leave included.            *)
Targets(o) == Reachable \ {o}

MoveVolume(w, v, t) ==
    /\ worker[w].phase = "move"
    /\ LET o == worker[w].node
       IN /\ o \in Reachable /\ v \in data[o] /\ t \in Targets(o)
          /\ data' = [data EXCEPT ![o] = @ \ {v}, ![t] = @ \cup {v}]
    /\ Arrives(t)
    /\ UNCHANGED <<crVars, stsVars, pods, registered, evacVars, faults>>

EvacuateDone(w) ==
    /\ worker[w].phase = "move" /\ data[worker[w].node] = {}
    /\ worker' = [worker EXCEPT ![w].phase = "unlock"]
    /\ UNCHANGED <<crVars, stsVars, envVars, passVars, tracker, shellLock, faults>>

(* A volume with no destination, a server the master does not know, or a   *)
(* failed RPC, ends the evacuation with an error.                          *)
EvacuateFails(w) ==
    /\ worker[w].phase = "move"
    /\ IF worker[w].node \in Reachable /\ Targets(worker[w].node) # {}
       THEN Fault ELSE UNCHANGED faults
    /\ worker' = [worker EXCEPT ![w].phase = "unlock", ![w].err = TRUE]
    /\ UNCHANGED <<crVars, stsVars, envVars, passVars, tracker, shellLock>>

(* The deferred unlock, whose error is ignored, then the report.           *)
Unlock(w) ==
    /\ worker[w].phase = "unlock"
    /\ \/ shellLock' = Free /\ UNCHANGED faults
       \/ shellLock' = Leaked /\ Fault
    /\ Report(w, worker[w].err)
    /\ UNCHANGED <<crVars, stsVars, envVars, passVars>>

LeaseExpires ==
    /\ shellLock = Leaked /\ shellLock' = Free
    /\ UNCHANGED <<crVars, stsVars, envVars, passVars, tracker, worker, faults>>

BackoffElapses(o) ==
    /\ tracker[o] = "failed"
    /\ tracker' = [tracker EXCEPT ![o] = "retry"]
    /\ UNCHANGED <<crVars, stsVars, envVars, passVars, worker, shellLock, faults>>

(* A restart loses the tracker, the goroutines and the pass; a lock one of *)
(* them held stays until its lease expires.                                *)
OperatorRestarts ==
    /\ Fault /\ EndPass
    /\ tracker' = [o \in Ordinals |-> "none"]
    /\ worker' = [w \in Workers |-> IdleWorker]
    /\ shellLock' = IF shellLock = Free THEN Free ELSE Leaked
    /\ UNCHANGED <<crVars, stsVars, envVars>>

-----------------------------------------------------------------------------
Pass == BeginPass \/ ReadStatefulSet \/ ReadCounts \/ Decide \/ Apply

Evacuation(w) ==
    \/ TakeShellLock(w) \/ EvacuateDone(w) \/ EvacuateFails(w) \/ Unlock(w)
    \/ \E v \in Volumes, t \in Ordinals : MoveVolume(w, v, t)

Cluster ==
    \/ CacheSync \/ LeaseExpires
    \/ \E o \in Ordinals : PodCreated(o) \/ PodDeleted(o) \/ ServerRegisters(o)
                           \/ ServerUnregisters(o) \/ BackoffElapses(o)
    \/ \E v \in Volumes, o \in Ordinals : MasterGrowsVolume(v, o)

Next ==
    \/ Pass \/ ReadStatefulSetFails \/ ReadCountsFails \/ DecideWithoutDial
    \/ OperatorRestarts
    \/ \E w \in Workers : Evacuation(w) \/ LockFails(w)
    \/ Cluster
    \/ \E n \in MinReplicas .. MaxReplicas : UserSetsReplicas(n)
    \/ UserOrphanDeletes

Spec == Init /\ [][Next]_vars

-----------------------------------------------------------------------------
(* Types of all variables; the pass's replica counts are real ones.        *)
TypeOK ==
    /\ desired \in 0 .. MaxReplicas /\ edits \in 0 .. MaxEdits
    /\ sts \in Replicas /\ cache \in Replicas /\ synced \in BOOLEAN
    /\ pods \in SUBSET Ordinals /\ registered \in SUBSET Ordinals
    /\ data \in [Ordinals -> SUBSET Volumes]
    /\ pc \in {"idle", "getSts", "readCounts", "decide", "apply"}
    /\ want \in 0 .. MaxReplicas /\ current \in 0 .. MaxReplicas
    /\ allowed \in 0 .. MaxReplicas
    /\ counts \in [Ordinals -> CountKinds] /\ late \in SUBSET Ordinals
    /\ tracker \in [Ordinals -> TrackerStates]
    /\ worker \in [Workers -> WorkerStates]
    /\ shellLock \in Workers \cup {Free, Leaked}
    /\ faults \in 0 .. MaxFaults

(* Lowering the StatefulSet's count (allowedVolumeServerReplicas, then     *)
(* CreateOrUpdate) only drops servers that the counts read in this very    *)
(* pass report as known and empty: an unreadable topology, a server        *)
(* missing from it, or counts of an earlier pass never justify a removal;  *)
(* and what is on their disks arrived after that look. Excepted is a pass  *)
(* whose gate was shown another count than the one it lowers.              *)
ShrinkConfirmed ==
    [][sts' # Absent /\ sts' < sts /\ current = sts =>
          \A o \in sts' .. (sts - 1) :
             counts[o] = "empty" /\ (data[o] # {} => o \in late)]_vars

(* README, volume: the operator "only deletes the Pod once the master      *)
(* confirms the server holds no volumes", without that exception.          *)
RemovalConfirmed ==
    [][sts' # Absent /\ sts' < sts =>
          \A o \in sts' .. (sts - 1) : counts[o] = "empty"]_vars

(* The tracker's entry for a node says "running" exactly while one of the  *)
(* goroutines reports to it: start and the goroutine's report never leave  *)
(* an entry that blocks every later evacuation of that node.               *)
NoStuckTracker ==
    \A o \in Ordinals :
        tracker[o] = "running" <=>
            \E w \in Workers : /\ worker[w].phase # "idle"
                               /\ worker[w].node = o /\ worker[w].attached

-----------------------------------------------------------------------------
(* Fairness: controller-runtime requeues every pass (5s or 1m), the Go     *)
(* scheduler runs every goroutine, Kubernetes reconciles StatefulSets and  *)
(* restarts pods, servers keep heartbeating, leases and backoffs are       *)
(* timers. Faults are bounded, i.e. they stop eventually.                  *)
Fairness ==
    /\ WF_vars(Pass) /\ WF_vars(CacheSync) /\ WF_vars(LeaseExpires)
    /\ \A w \in Workers : WF_vars(Evacuation(w))
    /\ \A o \in Ordinals :
          /\ WF_vars(PodCreated(o)) /\ WF_vars(PodDeleted(o))
          /\ WF_vars(ServerRegisters(o)) /\ WF_vars(BackoffElapses(o))

FairSpec == Spec /\ Fairness

(* README, volume: "Lowering volume.replicas triggers a graceful           *)
(* scale-down". Once the user stops editing, evacuation, retries and       *)
(* restarts notwithstanding, the StatefulSet settles at the replica count  *)
(* the CR asks for (or was never created, if that is 0), with exactly its  *)
(* pods.                                                                   *)
ScaleCompletes ==
    <>[](/\ sts = desired \/ (desired = 0 /\ sts = Absent)
         /\ pods = 0 .. (desired - 1))
=============================================================================
