------------------------------- MODULE Backups -------------------------------
(***************************************************************************)
(* Backups of one cluster: the scheduler, which creates SeaweedBackup CRs  *)
(* when a cron slot has passed and prunes old ones; the SeaweedBackup and  *)
(* SeaweedRestore controllers, which turn a CR into one Job and reflect    *)
(* its outcome; the Jobs; and the people who edit all of it.               *)
(*                                                                         *)
(* Time is counted in scheduler intervals. A scheduled backup is named by  *)
(* the time of its creation, which is also its identity here. `obj' is the *)
(* API server's copy of the CRs, `seen' the controllers' cached one.       *)
(***************************************************************************)
EXTENDS Integers, FiniteSets, FiniteSetsExt

CONSTANTS
    MaxClock,   \* how many intervals are looked at
    Period,     \* the cron schedule: a slot every Period intervals
    Keep,       \* spec.backup.schedule[].keep
    MaxLag,     \* how many cached copies are out of date at once
    MaxEdits,   \* how much people do
    MaxFaults   \* how many calls to the API server fail, or restarts happen

ASSUME TimeAssumption == MaxClock \in Nat \ {0} /\ Period \in Nat \ {0} /\ Keep \in Nat
ASSUME BoundsAssumption == MaxLag \in Nat /\ MaxEdits \in Nat /\ MaxFaults \in Nat

Slots == 1 .. MaxClock          \* the scheduled backups, by creation time
OnDemand == 0                   \* a backup a user created, without a schedule
Backup == {OnDemand} \cup Slots
Restore == MaxClock + 1         \* one SeaweedRestore
CRs == Backup \cup {Restore}

Phases == {"none", "Pending", "Running", "Completed", "Failed"}
Terminal == {"Completed", "Failed"}
Storages == {"none", "filesystem", "object"}

(* A storage by the kind of place a snapshot is in: the mounted PVC, the   *)
(* reserved directory of the filer, or a path the user gave.               *)
Locations == {"pvc", "reserved", "given"} \X Backup
NoLocation == <<"none", OnDemand>>

VARIABLES
    clock,      \* now
    cluster,    \* the Seaweed CR, as far as backups go
    obj,        \* the SeaweedBackup and SeaweedRestore CRs
    seen,       \* their cached copies
    lag,        \* CRs whose cached copy is out of date
    source,     \* spec.backupName or spec.backupSource of the restore
    job,        \* the Job of each CR
    target,     \* the location its script was written for
    files,      \* snapshots in place
    loaded,     \* what the restore's Job has loaded into the filer
    anchor,     \* BackupScheduler.anchors of the schedule, 0 when unset
    victims,    \* backups a tick has yet to prune
    forgotten,  \* history: scheduled backups lost to the scheduler while they
                \* were the newest: deleted by a user, or missed by a tick
    pass,       \* the reconcile pass of each controller
    edits, faults

crVars == <<obj, seen, lag>>
jobVars == <<job, target, files, loaded>>
schedVars == <<anchor, victims, forgotten>>
vars == <<clock, cluster, crVars, source, jobVars, schedVars, pass, edits, faults>>

Controllers == {"backup", "restore"}
Of(w) == IF w = "backup" THEN Backup ELSE {Restore}

Absent == [made |-> FALSE, exists |-> FALSE, phase |-> "none"]
Idle == [step |-> "idle", cr |-> OnDemand, stale |-> FALSE, phase |-> "none", at |-> NoLocation]

(***************************************************************************)
(* The API server.                                                         *)
(***************************************************************************)

(* A write of one CR, which the caches see now or later.                   *)
Put(c, o) ==
    /\ obj' = [obj EXCEPT ![c] = o]
    /\ \/ seen' = [seen EXCEPT ![c] = o] /\ lag' = lag \ {c}
       \/ /\ o # obj[c] /\ Cardinality(lag \cup {c}) <= MaxLag
          /\ seen' = seen /\ lag' = lag \cup {c}

NoJob(c) ==
    /\ job' = [job EXCEPT ![c] = "none"] /\ target' = [target EXCEPT ![c] = NoLocation]
    /\ UNCHANGED <<files, loaded>>

(* Deleting a CR deletes its Job; a pass that has it in hand can no longer *)
(* write it.                                                               *)
Remove(c) ==
    /\ Put(c, [obj[c] EXCEPT !.exists = FALSE])
    /\ NoJob(c)
    /\ pass' = [w \in Controllers |->
                  [pass[w] EXCEPT !.stale = @ \/ (pass[w].step # "idle" /\ pass[w].cr = c)]]

Fault == faults < MaxFaults /\ faults' = faults + 1
Edit == edits < MaxEdits /\ edits' = edits + 1

(***************************************************************************)
(* The scheduler.                                                          *)
(***************************************************************************)

(* The first cron time after t.                                            *)
NextSlot(t) == ((t \div Period) + 1) * Period

listScheduleBackups == {b \in Slots : seen[b].exists}

(* pruneBackups: terminal backups with Keep newer terminal ones.           *)
MutPrunable(listed) ==
    IF Keep = 0 THEN {}
    ELSE {b \in listed :
            /\ seen[b].phase \in Terminal
            /\ Cardinality({c \in listed : c > b}) >= Keep}

Prunable(listed) ==
    IF Keep = 0 THEN {}
    ELSE {b \in listed :
            /\ seen[b].phase \in Terminal
            /\ Cardinality({c \in listed : c > b /\ seen[c].phase \in Terminal}) >= Keep}

(* mostRecentCreation, or the anchor, set by the first look at a schedule  *)
(* without history.                                                        *)
LastRun ==
    IF listScheduleBackups # {} THEN Max(listScheduleBackups)
    ELSE IF anchor # 0 THEN anchor ELSE clock

Active == cluster.exists /\ cluster.sched = "on"

(* createScheduledBackup: one that is already there is fine.               *)
Create(b) ==
    IF obj[b].made
      THEN UNCHANGED crVars
      ELSE Put(b, [made |-> TRUE, exists |-> TRUE, phase |-> "none"])

(* Scheduled backups that the list does not show yet, although they are not*)
(* of this very interval.                                                  *)
Missed == {b \in Slots : b < clock /\ obj[b].exists /\ ~seen[b].exists}

(* One tick up to the pruning: fire when the next cron time after the last *)
(* run is not in the future.                                               *)
MutTick ==
    /\ victims = {} /\ Active
    /\ IF NextSlot(LastRun) <= clock + 1
         THEN Create(clock) /\ anchor' = 0 /\ forgotten' = forgotten \cup Missed
         ELSE /\ UNCHANGED <<crVars, forgotten>>
              /\ anchor' = IF listScheduleBackups = {} THEN LastRun ELSE 0
    /\ victims' = Prunable(listScheduleBackups)
    /\ UNCHANGED <<clock, cluster, source, jobVars, pass, edits, faults>>

Tick ==
    /\ victims = {} /\ Active
    /\ IF NextSlot(LastRun) <= clock
         THEN Create(clock) /\ anchor' = 0 /\ forgotten' = forgotten \cup Missed
         ELSE /\ UNCHANGED <<crVars, forgotten>>
              /\ anchor' = IF listScheduleBackups = {} THEN LastRun ELSE 0
    /\ victims' = Prunable(listScheduleBackups)
    /\ UNCHANGED <<clock, cluster, source, jobVars, pass, edits, faults>>

(* The creation fails: the tick ends before the pruning.                   *)
TickFails ==
    /\ victims = {} /\ Active /\ NextSlot(LastRun) <= clock /\ Fault
    /\ anchor' = IF listScheduleBackups = {} THEN LastRun ELSE 0
    /\ UNCHANGED <<clock, cluster, crVars, source, jobVars, victims, forgotten, pass, edits>>

(* The victims are deleted newest first; one already gone is fine.         *)
Prune ==
    /\ victims # {}
    /\ LET b == Max(victims)
       IN  /\ victims' = victims \ {b}
           /\ IF obj[b].exists THEN Remove(b) ELSE UNCHANGED <<crVars, jobVars, pass>>
    /\ UNCHANGED <<clock, cluster, source, anchor, forgotten, edits, faults>>

PruneFails ==
    /\ victims # {} /\ Fault /\ victims' = {}
    /\ UNCHANGED <<clock, cluster, crVars, source, jobVars, anchor, forgotten, pass, edits>>

(***************************************************************************)
(* The SeaweedBackup and SeaweedRestore controllers. Both reflect a Job;   *)
(* they differ in what must be resolved first.                             *)
(***************************************************************************)

(* resolveStorage, after the cluster itself.                               *)
StorageFound == cluster.exists /\ cluster.storage # "none"

(* Where snapshotScript writes, and where the restore looks for it.        *)
snapshotScript(b) ==
    <<IF cluster.storage = "filesystem" THEN "pvc" ELSE "reserved", b>>

(* resolveSource: a backup must exist and be Completed; an explicit source *)
(* is taken at its word.                                                   *)
resolveSource ==
    source.by = "path" \/ (seen[source.b].exists /\ seen[source.b].phase = "Completed")

(* The location the restore's script reads: an explicit path is relative   *)
(* to the PVC, or to the root of the filer, where no snapshot Job writes.  *)
restoreScript ==
    IF source.by = "path"
      THEN <<IF cluster.storage = "filesystem" THEN "pvc" ELSE "given", source.b>>
      ELSE snapshotScript(source.b)

Resolved(w) == StorageFound /\ (w = "restore" => resolveSource)

MutReflectionRaw(c) == job[c]

MutReflection(c) == IF job[c] \in {"complete", "failed"} THEN "Completed" ELSE "Running"

(* What a pass does about the Job it finds: create one, wait, or record    *)
(* how it ended (jobFinished).                                             *)
Reflection(c) ==
    CASE job[c] = "complete" -> "Completed"
      [] job[c] = "failed"   -> "Failed"
      [] OTHER               -> "Running"

(* A pass over the CR has something to do.                                 *)
MutQueued(w, c) ==
    /\ seen[c].exists /\ seen[c].phase \notin Terminal \cup {"Pending"}
    /\ ~(Resolved(w) /\ job[c] = "active" /\ seen[c].phase = "Running")

Queued(w, c) ==
    /\ seen[c].exists /\ seen[c].phase \notin Terminal
    /\ ~(Resolved(w) /\ job[c] = "active" /\ seen[c].phase = "Running")

(* The head of Reconcile: terminal CRs are left alone, unresolved ones are *)
(* made Pending; the status of a Running one is only written to change it. *)
Begin(w, c, at) ==
    /\ pass[w].step = "idle" /\ Queued(w, c)
    /\ pass' = [pass EXCEPT ![w] =
                 [step  |-> IF Resolved(w) /\ job[c] = "none" THEN "create" ELSE "status",
                  cr    |-> c,
                  stale |-> c \in lag,
                  phase |-> IF Resolved(w) THEN Reflection(c) ELSE "Pending",
                  at    |-> IF Resolved(w) /\ job[c] = "none" THEN at ELSE NoLocation]]
    /\ UNCHANGED <<clock, cluster, crVars, source, jobVars, schedVars, edits, faults>>

BackupReconcile(b) == Begin("backup", b, snapshotScript(b))
RestoreReconcile == Begin("restore", Restore, restoreScript)

(* The Job is created; one that is already there is fine. The Job of a CR  *)
(* that is gone is collected with it.                                      *)
CreateJob(w) ==
    /\ pass[w].step = "create"
    /\ LET c == pass[w].cr
       IN  IF obj[c].exists /\ job[c] = "none"
             THEN /\ job' = [job EXCEPT ![c] = "active"]
                  /\ target' = [target EXCEPT ![c] = pass[w].at]
             ELSE UNCHANGED <<job, target>>
    /\ pass' = [pass EXCEPT ![w].step = "status", ![w].at = NoLocation]
    /\ UNCHANGED <<clock, cluster, crVars, source, files, loaded, schedVars, edits, faults>>

(* Status().Update: a copy that is not the latest one is rejected.         *)
MutWriteStatus(w) ==
    /\ pass[w].step = "status"
    /\ Put(pass[w].cr, [obj[pass[w].cr] EXCEPT !.phase = pass[w].phase])
    /\ pass' = [pass EXCEPT ![w] = Idle]
    /\ UNCHANGED <<clock, cluster, source, jobVars, schedVars, edits, faults>>

WriteStatus(w) ==
    /\ pass[w].step = "status"
    /\ IF pass[w].stale
         THEN UNCHANGED crVars
         ELSE Put(pass[w].cr, [obj[pass[w].cr] EXCEPT !.phase = pass[w].phase])
    /\ pass' = [pass EXCEPT ![w] = Idle]
    /\ UNCHANGED <<clock, cluster, source, jobVars, schedVars, edits, faults>>

(* Any call of a pass may fail, and then the pass is over.                 *)
PassFails(w) ==
    /\ pass[w].step # "idle" /\ Fault
    /\ pass' = [pass EXCEPT ![w] = Idle]
    /\ UNCHANGED <<clock, cluster, crVars, source, jobVars, schedVars, edits>>

(***************************************************************************)
(* The Jobs, run by Kubernetes. A snapshot Job that succeeds has left a    *)
(* file; a restore Job fails without one (test -s).                        *)
(***************************************************************************)
JobEnds(c) ==
    /\ job[c] = "active"
    /\ \/ /\ job' = [job EXCEPT ![c] = "failed"]
          /\ UNCHANGED <<files, loaded>>
       \/ /\ c \in Backup
          /\ job' = [job EXCEPT ![c] = "complete"]
          /\ files' = files \cup {target[c]} /\ loaded' = loaded
       \/ /\ c = Restore /\ target[c] \in files
          /\ job' = [job EXCEPT ![c] = "complete"]
          /\ loaded' = target[c] /\ files' = files
    /\ UNCHANGED <<clock, cluster, crVars, source, target, schedVars, pass, edits, faults>>

(***************************************************************************)
(* Everything else: time, the cache, restarts, people.                     *)
(***************************************************************************)

Advance ==
    /\ clock < MaxClock /\ clock' = clock + 1
    /\ UNCHANGED <<cluster, crVars, source, jobVars, schedVars, pass, edits, faults>>

CacheSync(c) ==
    /\ c \in lag /\ lag' = lag \ {c} /\ seen' = [seen EXCEPT ![c] = obj[c]]
    /\ UNCHANGED <<clock, cluster, obj, source, jobVars, schedVars, pass, edits, faults>>

(* The operator restarts: passes, tick and anchors are lost.               *)
Restart ==
    /\ Fault /\ anchor' = 0 /\ victims' = {} /\ pass' = [w \in Controllers |-> Idle]
    /\ UNCHANGED <<clock, cluster, crVars, source, jobVars, forgotten, edits>>

(* The cluster is deleted or created, its storage or its schedule edited.  *)
ClusterChanges ==
    /\ Edit
    /\ \/ cluster' = [cluster EXCEPT !.exists = ~@]
       \/ \E s \in Storages \ {cluster.storage} : cluster' = [cluster EXCEPT !.storage = s]
       \/ \E s \in {"suspended", "on"} \ {cluster.sched} : cluster' = [cluster EXCEPT !.sched = s]
    /\ UNCHANGED <<clock, crVars, source, jobVars, schedVars, pass, faults>>

UserBacksUp ==
    /\ Edit /\ ~obj[OnDemand].made
    /\ Put(OnDemand, [made |-> TRUE, exists |-> TRUE, phase |-> "none"])
    /\ UNCHANGED <<clock, cluster, source, jobVars, schedVars, pass, faults>>

UserRestores(b, by) ==
    /\ Edit /\ ~obj[Restore].made /\ obj[b].made
    /\ Put(Restore, [made |-> TRUE, exists |-> TRUE, phase |-> "none"])
    /\ source' = [by |-> by, b |-> b]
    /\ UNCHANGED <<clock, cluster, jobVars, schedVars, pass, faults>>

(* Any CR may go; the newest backup of a schedule takes the memory of its  *)
(* slot with it.                                                           *)
UserDeletes(c) ==
    /\ Edit /\ obj[c].exists /\ Remove(c)
    /\ forgotten' = forgotten \cup {b \in Slots \cap {c} : \A d \in Slots : d > c => ~obj[d].made}
    /\ UNCHANGED <<clock, cluster, source, anchor, victims, faults>>

(* A Job disappears (kubectl delete job, the cleaning of a namespace) that *)
(* a controller still looks at.                                            *)
JobVanishes(c) ==
    /\ Edit /\ job[c] # "none" /\ seen[c].phase \notin Terminal /\ NoJob(c)
    /\ UNCHANGED <<clock, cluster, crVars, source, schedVars, pass, faults>>

(* A schedule without history, or one with a backup that has ended before. *)
History(old) ==
    /\ obj = [c \in CRs |->
                IF c \in old THEN [made |-> TRUE, exists |-> TRUE, phase |-> "Completed"] ELSE Absent]
    /\ job = [c \in CRs |-> IF c \in old THEN "complete" ELSE "none"]
    /\ target = [c \in CRs |-> IF c \in old THEN <<"pvc", c>> ELSE NoLocation]
    /\ files = {"pvc"} \X old

Init ==
    /\ clock = 1
    /\ cluster = [exists |-> TRUE, storage |-> "filesystem", sched |-> "on"]
    /\ History({}) \/ History({1})
    /\ seen = obj /\ lag = {}
    /\ source = [by |-> "path", b |-> OnDemand] /\ loaded = NoLocation
    /\ anchor = 0 /\ victims = {} /\ forgotten = {} /\ pass = [w \in Controllers |-> Idle]
    /\ edits = 0 /\ faults = 0

Scheduler == Tick \/ TickFails \/ Prune \/ PruneFails
Reconciler ==
    \/ \E b \in Backup : BackupReconcile(b)
    \/ RestoreReconcile
    \/ \E w \in Controllers : CreateJob(w) \/ WriteStatus(w) \/ PassFails(w)
Surroundings ==
    \/ Advance \/ Restart \/ \E c \in CRs : JobEnds(c) \/ CacheSync(c)
People ==
    \/ ClusterChanges \/ UserBacksUp
    \/ \E b \in Backup, by \in {"backup", "path"} : UserRestores(b, by)
    \/ \E c \in CRs : UserDeletes(c) \/ JobVanishes(c)

Next == Scheduler \/ Reconciler \/ Surroundings \/ People

Spec == Init /\ [][Next]_vars

(* Ticks and time go on; the workers go on, and the one of the backups     *)
(* comes to each that stays in its queue; Jobs end; the cache catches up.  *)
Fairness ==
    /\ WF_vars(Advance) /\ WF_vars(Tick \/ Prune)
    /\ WF_vars(RestoreReconcile \/ CreateJob("restore") \/ WriteStatus("restore"))
    /\ WF_vars((\E b \in Backup : BackupReconcile(b)) \/ CreateJob("backup") \/ WriteStatus("backup"))
    /\ \A b \in Backup :
         []<>(Queued("backup", b) => pass["backup"].step # "idle" /\ pass["backup"].cr = b)
    /\ WF_vars(\E c \in CRs : JobEnds(c)) /\ WF_vars(\E c \in CRs : CacheSync(c))

FairSpec == Spec /\ Fairness

(***************************************************************************)
(* Properties.                                                             *)
(***************************************************************************)

CrType == [made : BOOLEAN, exists : BOOLEAN, phase : Phases]
PassType ==
    [step : {"idle", "create", "status"}, cr : CRs, stale : BOOLEAN, phase : Phases,
     at : Locations \cup {NoLocation}]

(* The variables have their types.                                         *)
TypeOK ==
    /\ clock \in Slots
    /\ cluster \in [exists : BOOLEAN, storage : Storages, sched : {"suspended", "on"}]
    /\ obj \in [CRs -> CrType] /\ seen \in [CRs -> CrType]
    /\ lag \subseteq CRs
    /\ source \in [by : {"backup", "path"}, b : Backup]
    /\ job \in [CRs -> {"none", "active", "complete", "failed"}]
    /\ target \in [CRs -> Locations \cup {NoLocation}]
    /\ files \subseteq Locations /\ loaded \in Locations \cup {NoLocation}
    /\ anchor \in 0 .. MaxClock /\ victims \subseteq Slots /\ forgotten \subseteq Slots
    /\ pass \in [Controllers -> PassType]
    /\ edits \in 0 .. MaxEdits /\ faults \in 0 .. MaxFaults

(* A cron slot is backed up once: between two scheduled backups, deleted   *)
(* ones included, lies a cron time (reconcileSchedule and the history it   *)
(* decides by, whatever pruning, suspension, restarts, failures and a late *)
(* cache do to that history). The slot is backed up again only when a user *)
(* deleted its backup while it was the newest, or when the tick that fired *)
(* listed a cache a whole interval behind, without that backup.            *)
OncePerSlot ==
    \A b, c \in Slots :
        obj[b].made /\ obj[c].made /\ b < c /\ b \notin forgotten => NextSlot(b) <= c

Ended == {b \in Slots : obj[b].phase \in Terminal}

(* Retention as pruneBackups keeps it: the scheduler deletes a backup only *)
(* after it has ended, and after Keep newer ones have, Failed ones counted *)
(* (a stale list, with ticks, backups and deletions in between). The       *)
(* promise of the API counts completed ones: KeepsCompleted below.         *)
RetentionKept ==
    [][\A b \in Slots :
         obj[b].exists /\ ~obj'[b].exists /\ edits' = edits =>
             b \in Ended /\ Cardinality({c \in Ended : c > b}) >= Keep]_vars

(* What is Completed has happened: a Completed backup left a snapshot, a   *)
(* Completed restore loaded one of the backup its spec names (Jobs that    *)
(* are deleted, recreated or collected, storages that change under them).  *)
CompletedIsTrue ==
    /\ \A b \in Backup :
         obj[b].phase = "Completed" => \E l \in files : l[2] = b
    /\ obj[Restore].phase = "Completed" => loaded \in files /\ loaded[2] = source.b

(* What people are promised: the outcome of a CR is its phase once it is   *)
(* terminal, and work is done when its effect is there.                    *)
Contract ==
    INSTANCE BackupContract WITH
        outcome <- [c \in CRs |-> IF obj[c].phase \in Terminal THEN obj[c].phase ELSE "open"],
        done    <- {l[2] : l \in files} \cup (IF loaded = NoLocation THEN {} ELSE {Restore}),
        from    <- IF obj[Restore].made THEN source.b ELSE Restore

(* The two controllers implement the contract: an outcome is final (no pass*)
(* working from an old copy, whose Job has vanished since, takes it back), *)
(* and it is Completed only when the work was done, a restore's from the   *)
(* snapshot it names.                                                      *)
KeepsContract == Contract!Spec

(* A CR that waits for a dependency: the cluster, its storage, the source. *)
Waiting(c) ==
    ~StorageFound \/ (c = Restore /\ source.by = "backup"
                        /\ ~(obj[source.b].exists /\ obj[source.b].phase = "Completed"))

(* Every backup and restore comes to an end, or waits for something that   *)
(* is missing for good; and a schedule does not stay due without firing    *)
(* (in this interval or a later one).                                      *)
AllSettles ==
    /\ <>[](\A c \in CRs : obj[c].exists => obj[c].phase \in Terminal \/ Waiting(c))
    /\ []<>(Active => NextSlot(LastRun) > clock \/ obj[clock].made)

(* Retention as the API documents it (backup_types.go, Keep): the Keep most*)
(* recent completed backups of a schedule are retained. pruneBackups counts*)
(* Failed backups too; the run backups_keep refutes this.                  *)
KeepsCompleted ==
    [][\A b \in Slots :
         obj[b].exists /\ ~obj'[b].exists /\ edits' = edits /\ obj[b].phase = "Completed" =>
             Cardinality({c \in Slots : c > b /\ obj[c].phase = "Completed"}) >= Keep]_vars
=============================================================================
