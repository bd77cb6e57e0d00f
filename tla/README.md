# A TLA+ model of the SeaweedFS operator

The operator turns `Seaweed` resources into master, volume, filer, admin,
worker, S3 and SFTP workloads, and turns `Bucket`, `S3Identity`, `S3Policy`
and related resources into state *inside* a running SeaweedFS cluster. It has
no state of its own to speak of: what it knows is in the custom resources
(CRs), in an informer cache that lags behind them, in a few in-memory maps,
and in systems it can only reach with commands that may fail half way. This
directory models the parts where that is hard to get right.

## 1. Inventory

### Components

| Component | State | Operations | Talks to |
|---|---|---|---|
| Seaweed reconciler (`seaweed_controller.go`, `controller_*.go`) | owned objects, CR status | one pass: TLS, security config, master, volume, filer, admin, worker, S3, SFTP, mirrors, ingresses, status; each step may end the pass | API server (through a cache), everything below |
| Volume scale-down (`volume_evacuation.go`, `volume_admin.go`, `swadmin/seaweed_admin.go`) | replica count, evacuation tracker (in memory), goroutines, the master's shell lock | gate a smaller replica count on the master's volume counts, launch, retry and forget evacuations | master, StatefulSet controller |
| IAM name ownership (`iam_name_claim.go`) | none; a function of the CRs listed | who owns an IAM name, who conflicts | cache |
| S3Identity, S3Policy controllers | status (the provisioned name), finalizer, IAM objects | refuse, upsert, delete or hand over | filer's IAM service |
| Bucket controller (`bucket_controller.go`, `bucket_admin.go`) | status (name, owner, quota, lock), applied-access annotation, finalizer; the filer's bucket | check, create or adopt, one command per setting, record, delete | filer, IAM service |
| Bucket usage refresher (`bucket_usage.go`) | `status.usage` | periodic patch | master |
| BucketLifecyclePolicy | status, the bucket's lifecycle document | oldest policy owns the bucket; apply, clear | filer |
| S3Credentials, S3PolicyBinding, S3OIDCProvider | status, Secret, keys and attachments in IAM | create, rotate, attach, detach | IAM service, Secrets |
| Backup scheduler, SeaweedBackup, SeaweedRestore, AdminScript | anchors (in memory), Jobs, CronJobs, phases | fire, prune, run, reflect | Jobs |
| CSI driver controller | cluster-wide CSIDriver objects | own a driver name, create, tear down | API server |
| Reference grants (`referencegrant.go`) | none | may this namespace refer to that object | cache |
| Webhook and API types | none | reject bad specs and transitions | API server |

### What is hard here

- **Stale reads.** Every `Get` and `List` is answered by a cache. A decision
  taken on it is applied to a newer object, or to an external system that knows
  nothing of versions.
- **Optimistic concurrency.** A status write carries the version the pass read.
  One edit in mid-pass and the record of what the pass did is rejected, while
  what it did stays done.
- **Records and reality.** Controllers decide what to do from their records
  (status, annotations), written after the commands they describe. Crashes,
  lost replies and partial failures fall in between.
- **Background work.** Evacuations outlive the pass that launched them and
  share a lock with each other and with people.
- **Shared names.** IAM names, bucket names and driver names are global to a
  cluster; several CRs, and agents outside the operator, claim them.
- **Liveness.** Everything is supposed to converge once people stop editing
  and faults stop.

`PROJECT.json` lists the hazards one by one, at the line where they bite.

### What makes each component correct

- Scale-down: a pod is removed only when its server is known to be empty; the
  scale-down finishes; evacuations do not pile up or block each other for good.
- IAM names: one owner per name, always the same one; deleting one CR does not
  delete another one's IAM object; nothing is left behind; deletion completes.
- Bucket: somebody else's bucket is never touched unless adoption was asked
  for; our own is never mistaken for somebody else's; the filer ends up with
  what the spec says, and the status with what the filer has.
- Credentials and bindings: concurrent writers of an IAM identity lose none of
  each other's changes; the pair in the Secret is never overwritten and, in the
  end, opens the door; the user of a credential does not change; what the
  binding lists is attached.
- Lifecycle policies: the bucket has the rules of its oldest policy, and a
  policy takes its rules with it.
- Backups: a cron slot is backed up once, an outcome is final and true,
  retention keeps what it must, and everything ends.
- CSI drivers: one registration per driver name, nothing cluster-scoped left
  behind, the oldest CR served.
- AdminScripts: the CronJob and the status are those of the last edit, and a
  CronJob is not taken from another owner.
- Seaweed reconciler: no kind of volume workload is made beside the other,
  claims and other people's objects are kept, templates mount what exists,
  signing keys survive, and the pass reaches the last edit.

## 2. Modules

| Module | Models | Checked by | Proved in |
|---|---|---|---|
| `VolumeScaleDown` | scale-down of one volume StatefulSet | `scaledown`, `scaledown_unconfirmed` | `VolumeScaleDownProofs` |
| `IamNameClaims` | S3Identity / S3Policy name ownership | `MCIamNameClaims`, `iam_claims` | `IamNameClaimsProofs` |
| `BucketReconcile` | one Bucket CR, the filer and other agents | `MCBucketReconcile`, `bucket` | `BucketReconcileProofs` |
| `ClusterWorkloads` | the Seaweed reconciler: the whole pass, over all objects of a cluster | `cluster`, `cluster_jwt` | `ClusterWorkloadsProofs` |
| `IamAccess` | four IAM controllers on the same identities: S3Identity, S3Credentials, S3PolicyBinding, S3OIDCProvider | `iam_access` | `IamAccessProofs` |
| `LifecyclePolicies` | BucketLifecyclePolicies of one bucket, composed with the Bucket controller's writes | `lifecycle` | `LifecyclePoliciesProofs` |
| `Backups` | scheduler, SeaweedBackup and SeaweedRestore, their Jobs | `backups`, `backups_keep` | `BackupsProofs` |
| `BackupContract` | what a backup or restore promises; `Backups` implements it | `backups` (`KeepsContract`) | `BackupsProofs` |
| `CsiDrivers` | SeaweedCSIDrivers and their cluster-scoped objects | `csi` | `CsiDriversProofs` |
| `AdminScripts` | AdminScript, its CronJob and the cert-manager memory | `scripts` | `BackupsProofs` |

Conventions shared by the modules:

- A reconcile pass is a program counter `pc` and the pass's own copies of what
  it read. It is cut exactly where it reads or writes something another actor
  can change; between two cuts the code runs as one step.
- `cached` (or `cache`, `seen`) is the informer's copy of an object. It shows a
  write at once or later, in `CacheSync`; between the two everything else may
  happen. Where passes are seconds apart and each reads its objects once
  (`VolumeScaleDown`, `ClusterWorkloads`), late news are counted as faults, so
  that they stop some day.
- What the operator cannot know, but a property has to tell apart, is a history
  variable or field; no guard of the code's actions reads it. Properties with an
  exception name the history that excuses them, and section 3 says what happens
  in the excepted case.
- A write of a CR is rejected when its version is not the latest (`stale`).
  A write that changes nothing makes no new version.
- `MaxEdits` and `MaxFaults` bound what people and failures do. All other
  behaviour is unbounded: a pass is always followed by another one.
- Operators whose names begin with `Mut` are deliberately wrong variants of the
  definition that follows them. No specification uses them; a property has been
  seen to fail when the variant takes the definition's place.

### VolumeScaleDown

`desired` is `spec.volume.replicas`; `sts`, `cache`, `synced` the StatefulSet's
count, its cached copy and whether that is current; `pods`, `registered`,
`data` what really runs, what the master knows and where the volumes are. The
pass is `BeginPass`, `ReadStatefulSet`, `ReadCounts`, `Decide`, `Apply`
(`ensureVolumeServers`, `allowedVolumeServerReplicas`, `evacuationDecision`,
`CreateOrUpdate`). `IsAllowed` states what the loop of `evacuationDecision`
computes: the lowest count from which everything upward is known to be empty.
`tracker` is `evacuationTracker.states`; a goroutine (`worker`) that was
forgotten goes on with `attached = FALSE`, because its report reaches an object
the tracker no longer holds. `EvacuateServer` is `TakeShellLock`, then
`MoveVolume` volume by volume, then `EvacuateDone` or `EvacuateFails`, then
`Unlock`, which may leak the lock until its lease expires.

Ordinals stand for node ids (`volumeServerNodeAddress` is injective in them). A
volume stands for a logical volume or EC shard; the counts are abstracted to
unknown / 0 / positive, which is all the code looks at. `Workers` bounds the
goroutines alive at a time: when none is idle, `Decide` waits. Not modelled
here: topology groups (the same code, one StatefulSet each), DaemonSet mode,
Services, pod templates.

Nothing about the environment is assumed away: an evacuation moves a volume to
any live server, the ones about to leave included; clients make volumes grow
anywhere at any time; people delete the StatefulSet with `--cascade=orphan` (a
recipe of the operator's own README); the cache may show a write late.
`CreateOrUpdate` is `Create`, `Update`, `UpdateAfterCreate` (a create that meets
an existing object reads it again and merges) and `NoWrite` (nothing to change,
or a conflict, which a later pass retries). An error of the gate's own read ends
the pass (`ReadStatefulSetFails`); an unreadable topology only keeps the count.
`late` is history: the servers that got a volume after the pass had read the
counts.

### IamNameClaims

One kind (identities or policies: the protocol is the same), one cluster.
`obj[c]` is a CR with creation time, effective name, reclaim policy, deletion
mark, finalizer, recorded name and phase; `user[n]` says whose spec the IAM
object `n` carries. `Refusal` is the code's cascade: renamed, not granted,
conflict, no cluster; a deletion skips the second and third. `Upsert`,
`DeleteUser` and the writes are separate steps, so anything can happen between
them; `PassAborts` loses the pass at any of them. `UserRenames` follows the
validation rule, under which `spec.name` may be set or unset but not replaced.
`unseen` is history that only the property reads: the CRs renamed although
provisioned, as far as the cache did not show it when the last pass began.

### BucketReconcile

One CR, with `filer[n]` for what the cluster holds under the bucket name `n`.
The ghost field `made` says whose bucket it is: created or adopted by this CR,
or somebody else's. `Push(step)` runs one command of `reconcileBucket`
(`Needed`: does the code issue it; `Accepted`: does the filer take it;
`Effect`: what it does), `PushFails` lets it fail with no effect, with its full
effect (the reply is lost) or, for access, with some of the `SetAccess` calls
done. `Annotate` models that `Patch` decodes the API server's answer into the
object the pass goes on working with. `RecordReady` writes the final status. Other
agents create and delete buckets at any time, the terminating CR's included, and
the CR may be deleted and applied again. When the finalizer goes, whatever the CR
leaves on the filer counts as somebody else's, which is how the code treats it
when the CR is applied again.

Four variables are history: `swapped` (an answer of the API server has changed
the spec a pass was working on), `replaced` (names under which somebody has
created a bucket while the CR, or a copy of it, had the name on record as its
own), `lost` (somebody has deleted the bucket under the pass) and `torn` (the
settings about which an edit has made the records wrong: it came while what the
filer has was not yet on record).

Actions granted to a user are abstracted to "has a grant"; a quota to
none / zero / a size / one that does not fit; placement to set or not. The
resync interval is assumed positive (the default): with 0, out-of-band drift is
not looked for.

### ClusterWorkloads

A Seaweed CR is the set of its features that the properties tell apart
(`jwt`, `tls`, `daemonset`, `persistence`, ...); `Valid` is what the webhook
lets through, where one is installed (`Webhook`). An object is named by component
and kind and is what it was rendered from: the features its builder reads, whether
it has claim templates, whether its pod template has annotations, the signing key
it holds, and whether the CR owns it. `Plan(f)` is the sequence of calls that
`Reconcile` makes for the features `f`, put together from one operator per
`ensure` function; a pass executes it call by call: `CreateOrUpdate` (a create
that meets an object the cache does not show reads it again and merges),
`applyUnstructured`, `deleteIfExists`, `pruneOwned` (only what the CR controls,
and by the UID it has seen), `deleteAndWait`, `deleteFirst` for the worker's
objects of older versions, the key handling of `ensureSecuritySecret`, the wait
for the masters, the refusal of a DaemonSet without host paths, the credentials of
a mirror or the skipping of one without storage, the status. The plan is made from
the copy of the CR the pass began with, as in the code, so edits fall between any
two calls. `MergePanics` is the write into a nil map in `CreateOrUpdateDeployment`.

`issued` is the Secret of the server certificate: cert-manager makes it some time
after the operator has applied the Certificate, and nothing in a pass waits for it;
pods that mount it start when it is there (`Mountable`, `PodsCatchUp`). `Occupy` is somebody who
puts a ConfigMap of their own in the place of a generated one. A workload of no
pods (zero volume servers, a DaemonSet that matches no node) counts as ready, as in
`IsReady`. `pass.stale` is history: the objects of which this pass was shown an
out-of-date copy. `LagOn` says on which components' objects the cache may lag.

All Services of a component are one object, as are the issuers and the CA
certificate; a topology has one group; the master is one replica, so its quorum
is itself. The volume replica count is `VolumeScaleDown`'s. The API's schema
admits zero replicas of volume servers only (`Minimum=1` elsewhere). Left out:
ServiceMonitors and the worker's metrics Service, which have no reader in the
operator, and the Ingresses of master, volume, admin and gRPC, for which the
filer's stands.

### IamAccess

The IAM service holds a record per user without a version. The identity
controller, the credential controller and the binding controller each have a
pass that takes the user's lock, reads the record, and writes it back whole
(`IdentRead`/`IdentWrite`, `KeyRead`/`KeyWrite`, `BindRead`/`BindWrite`);
`CreateUser` and `DeleteUser` take no lock in the code, nor here. `inc` counts
the incarnations of a user, so that a property can except a write that straddles
a deletion. A key pair is an access key and one of two secret keys; a generated
access key is fresh, and `MaxKey` bounds how many there are: `KeyBegin` waits
when all are in use, which no behaviour of the run reaches (`AccessSettles` would
fail). `lit` is the name the CRs refer to; it resolves to the user
`man` while an S3Identity of that name exists, and to an IAM user of that
literal name otherwise. A credential provisioned before users were pinned has a
key in its status and no user; it stays with the literal name (`CredUser`). The
Secret may be in another namespace than the credential (`cross`): it must then exist,
has no owner reference, and is left alone when the credential is deleted. `PutOIDCProvider`
always fails: its transport is not wired in this version.

### LifecyclePolicies

The lifecycle rules are one attribute of the bucket's filer entry; another is
one of the Bucket controller's (`attr`: the quota, or the owner, for which the lock
stands too). Both controllers read the entry (`LookupEntry`), change their part and
write all of it (`UpdateEntry`), in steps of their own. Whether the Bucket
controller pushes its attribute is decided as in `bucket_controller.go`: a quota
whenever the entry differs from one that is set, the removal of a quota and the
owner only by the record in the status (`recorded`). `policy[p].mark` is the
record of an apply in the policy's status. A cleanup that fails leaves the policy
in phase Terminating (`cleanupFailed`). Three fields are history that only the
properties read: `entry.back` (these rules had been replaced and an old copy
brought them back), `entry.lost` (the attribute is not what the Bucket controller
last wrote, or wrote without recording it) and `pass.gone` (the deletion under way
found no cluster to clean).

### Backups and BackupContract

Time is counted in scheduler intervals, a cron slot comes every `Period` of
them. A scheduled backup is named by the interval of its creation. `job`,
`target`, `files` and `loaded` are the Jobs, the place each writes to or reads
from, the snapshots in place and what was loaded; `Locations` keeps apart the
claim, the reserved directory of the filer and a path of the user's. A pass of
either controller is `Begin`, `CreateJob`, `WriteStatus`. The clock goes on while
the cache lags (on up to `MaxLag` CRs at a time), and people may delete any CR, the newest
scheduled backup included: `forgotten` is the history of scheduled backups that the
scheduler lost in that way while they were the newest. `BackupContract` is
the abstract specification: an outcome is given once, Completed only after the
work, a restore's from the snapshot it names. The refinement maps the phase to
the outcome and the files to the work done.

### CsiDrivers

Any number of CRs. `older` orders them (`othersTurn`: creation time, then UID).
`recent` holds those created within the present second: a new CR comes after
every one that is there, but may come before a recent one, by its UID. `tied`
holds the pairs to which this has happened. Cluster-scoped objects are
functions of their name: RBAC by the CR's name, the CSIDriver object by driver
name, StorageClasses by class name (provisioner and the other immutable fields,
`params`); the workloads are per CR, remember the filer they were rendered with,
and stay, ownerless, after the CR until they are collected. A node DaemonSet that
no node is to run is ready (`refreshStatus`). A pass goes through RBAC, CSIDriver
object, controller, node and mount workloads, StorageClass and status; a deletion
through RBAC, object, class and finalizer.

### AdminScripts

No resync: passes follow events, errors, or a missing cluster, and `queued` is
the work queue. `probed` is the memory of the cert-manager probe, which only
passes over the Seaweed fill and a restart empties. The CronJob's spec is the
set of features it was rendered from. The names of this module are its own
(`scriptPass`, `ScriptSpec`, `MaxScriptEdits`, ...) because `BackupsProofs` extends
it together with `Backups`.

## 3. Runs

| Run | Properties | Instance |
|---|---|---|
| `scaledown` | `TypeOK`, `NoStuckTracker`, `ShrinkConfirmed`, `ScaleCompletes` | up to 3 servers, 1 volume, 2 goroutines, 1 edit, 1 fault |
| `scaledown_unconfirmed` (violation) | `RemovalConfirmed` | the same with 2 servers |
| `iam_claims` | `TypeOK`, `HandoverSafe`, `OwnershipSettles` | 2 CRs of the same or different age, 2 names, renames, cache lag, 3 edits, 1 fault |
| `bucket` | `TypeOK`, `ReadyIsTrue`, `ForeignUntouched`, `SpecApplied` | 2 bucket names, 1 user, 4 specs, cache lag, 3 edits (other agents' and deletions included), 1 fault |
| `cluster` | `TypeOK`, `KindsApart`, `ClaimsKept`, `MountsBacked`, `KeysKept`, `ForeignKept`, `Converges` | five clusters, leftovers of an old operator version, no webhook, seven toggles, a cache that may lag on volume, security and S3 objects, 1 edit, 1 fault |
| `cluster_jwt` (violation) | `GatewaysFollow` | a filer and an S3 gateway, JWT signing turned on |
| `iam_access` | `TypeOK`, `NoClobber`, `PairKept`, `PinHolds`, `AccessSettles` | 2 users, 1 credential (new, or from before the pinning), Secrets of both namespaces, 1 binding, cache lag, 1 edit, 1 fault |
| `lifecycle` | `TypeOK`, `RecordedCleaned`, `LifecycleSettles` | 2 policies of the same or different age, a quota or an owner, 2 edits, 1 fault |
| `backups` | `TypeOK`, `OncePerSlot`, `CompletedIsTrue`, `RetentionKept`, `KeepsContract`, `AllSettles` | 3 intervals, a slot every 2, keep 1, a user's backup, a restore, cache lag on one CR at a time, 1 edit, 1 fault |
| `backups_keep` (violation) | `KeepsCompleted` | 4 intervals, a slot in each, keep 1, no edits or faults |
| `csi` | `TypeOK`, `OneRegistrar`, `NoLeftovers`, `CsiSettles` | 2 CRs of one driver name, an administrator's StorageClass, 2 edits, 1 fault |
| `scripts` | `ScriptTypeOK`, `KeepsOwner`, `CronJobFollows`, `StatusFollows` | 2 scripts one after the other, 2 edits, 1 fault |

The largest passing runs have 0.5 to 2.5 million distinct states; each takes up to
two and a half minutes on two workers.

**Findings.** Three runs show a disagreement between the code and what the
repository says of it.

- `cluster_jwt`: for a Deployment whose pods have no annotations, turning JWT
  signing or TLS on makes `CreateOrUpdateDeployment` write into a nil map, in every
  pass (`controller_util.go:174`). `cluster` therefore gives its CRs pod annotations.
- `backups_keep`: retention counts Failed backups, so a failure pushes out the only
  completed backup (`backup_scheduler.go:224`). `backup_types.go:219`: "Keep retains
  at most this many most-recent completed SeaweedBackups for this schedule". The
  `RetentionKept` of the passing run is what the code does keep.
- `scaledown_unconfirmed`: the gate reads the StatefulSet from the cache, misses it
  or sees another count, and lets the pass through without asking the master;
  `CreateOrUpdate` reads it again, sees more, and lowers the count over servers
  nobody looked at (`volume_evacuation.go:173`). The operator's README, line 201: it
  "only deletes the Pod once the master confirms the server holds no volumes".
  `ShrinkConfirmed` excepts such a pass.

**Bounds.** Three servers are the smallest number with a drained, a draining
and a kept one; a volume that clients or other evacuations may put back makes a
drain take any number of steps; two goroutines are what a forget and a relaunch
need. Two CRs and two names give a conflict, a takeover, a rename into and out of
it; three edits suffice for create, create, delete. For a bucket, the four specs of
`MCBucketReconcile` differ in name, adoption, reclaim policy, versioning, lock,
quota, owner, grants and placement, so that an edit sets, removes or changes every
setting whose command the records decide; three edits are a spec, another and the
first again, or a bucket created, deleted and put in the place of ours. In `backups`
two slots and `Keep = 1` make the second backup push out the first while a
restore of it, or a user's backup, is under way. In `cluster` every edit meets a
pass at every one of its calls, with a fault before or after it. In `iam_access` one
edit is enough for any two of the four controllers to be active at the same time on
one user, because the CRs exist at the start. In `csi` two edits create the
second CR and delete or change one. No run uses symmetry.

**Deadlock** is checked in `scaledown`. The others turn it off: when
the CRs are gone, or as asked for, and all edits are used up, there is rightly
nothing left to do.

**Fairness.** Weak fairness on the steps of a pass (controller-runtime requeues
every pass: 3 s, 5 s or 1 min for a cluster, 10 s or 30 s after a failure, the
resync interval otherwise), on the cache (watches deliver), on each goroutine,
the workload controllers, the garbage collector, heartbeats, leases and backoff
timers. Where several CRs share one worker, taking up each CR is strongly fair:
the work queue is first-in first-out. So is a pass that waits for a user's lock
in `IamAccess`: Go's mutexes hand over to a waiter that starves. In
`AdminScripts`, which has no resync, a pass needs an event; the schedule coming
round is fair, and each run is an event. In `ClusterWorkloads` people who ask
for a mirror create its Secret in the end, and cert-manager issues what it is
asked for. Faults and edits are bounded, i.e. they stop eventually; none is
assumed to happen. In `VolumeScaleDown` and `ClusterWorkloads` this includes late
news of the cache: a cache that lagged in every pass could hold a scale-down up
for ever (below).

### Observations

What the code does not keep. Each was seen with TLC in these models: the
constants are those of the run named, but for what is given; formulas that no
run checks stand at the end of their module.

Scale-down
- Volumes come onto a server after the master's answer and before its pod is
  gone: clients make them grow there, and an evacuation may pick the drained server
  as its target, since the pass that lets it go launches the evacuation of the next
  one (`volume_evacuation.go:194`). They leave with the pod. `ShrinkConfirmed` says
  that nothing else does; without its `o \in late` it is violated without edits of
  the StatefulSet, faults or lag. The operator's README (line 201) promises more.
- A StatefulSet deleted with `--cascade=orphan` is re-created at a lower count
  without a drain, because NotFound reads as "nothing to drain"
  (`volume_evacuation.go:173`). The count does not drop in that step, it is new, so
  neither property speaks of it.
- A pass that holds the count of a stale copy may raise it again; if the cache
  lagged in every pass, `ScaleCompletes` would fail along an unlucky schedule.
- `volume.replicas: 0` is never acted on (`controller_volume.go:29`):
  `MinReplicas = 0` stops for good with all pods running. In `ClusterWorkloads`
  the same is `BaseStops`, with `Start = {{}}`, `Toggles = {"noBase"}` and one
  edit.
- `forget` of a server whose goroutine has not finished lets a later pass launch
  a second evacuation of it (`volume_evacuation.go:121`).

IAM names and buckets
- A CR whose rename was refused can no longer be deleted, although the message
  tells the user to recreate it (`s3identity_controller.go:68`):
  `DeletionCompletes`, with `CRs = {1}`, `MaxClock = 0`, no faults, no lag.
- A rename between the creation of an IAM object and the status write that pins
  its name leaves an object no CR accounts for (`s3identity_controller.go:68`).
- The claimants of a name are looked up in the cache. A provisioned CR renamed
  away and, before the cache shows it, back again is not among them in between:
  a pass that deletes another CR of that name deletes the IAM object with it. It
  takes five edits and a lagging cache, so `iam_claims` does not reach it; the
  proof of `HandoverSafe` did (`unseen`).
- The records of a Bucket CR are names, and a bucket that somebody puts in the
  place of one on record is taken for the CR's own. After a bucket is deleted but
  the finalizer stays, the retry deletes the one created under the name since
  (`bucket_controller.go:413`); a bucket deleted out of band and created by somebody
  else is configured, and deleted with the CR; with a lagging cache the finalizer
  may even be gone: the cache still shows the terminating CR, a second pass deletes
  once more, and its last write is rejected too late. `ForeignUntouched` excepts
  these buckets (`replaced`); without the exception `bucket` violates it.
- A write of a Bucket CR during the creating pass makes the status write
  conflict; the claim, held in memory, is lost, and the next pass refuses the
  operator's own bucket (`bucket_controller.go:387`).
- The list of granted users is recorded after the grants: after a failure in
  between, a user who leaves the spec keeps access (`bucket_controller.go:349`);
  grants also outlive the CR (`:433`).
- The answer of the annotation patch replaces the pass's spec, so an edit of
  that moment is recorded as applied (`bucket_controller.go:678`): without
  `~swapped`, `ReadyIsTrue` fails.
- An edit in the middle of a pass makes its last write conflict. What the pass has
  done is then not on record, and if the spec is edited back, the owner, the
  absence of a quota and the absence of a grant are taken from the old record as
  applied, while the filer has the others (`bucket_controller.go:305`, `:318-321`;
  "drift ... gets re-detected and healed" does not hold of these three).
  `SpecApplied` excepts them when such an edit has happened (`torn`), and
  `ReadyIsTrue` leaves them out.
- A bucket deleted out of band, re-created under a spec that then fails (an
  unusable quota) keeps the old owner in its status, and a spec that asks for
  that owner again is taken to be applied (`bucket_controller.go:307`).
- Read in the code, not modelled: `bytes + mib - 1` overflows for a quota within
  1 MiB of the largest integer (`bucket_controller.go:552`).

Credentials, bindings, lifecycle policies
- When attaching fails half way, only the subjects attached so far are recorded,
  and those of earlier passes that follow them in the list are never detached
  (`s3policybinding_controller.go:162`); a literal name that becomes an
  S3Identity, or ceases to be one, has the same effect: `AttachedExactly`, with
  `SPECIFICATION Spec`, no lag, two edits, no faults.
- A key whose Secret could not be written stays in IAM, known to nobody
  (`s3credentials_controller.go:207`). `PairKept` and `AccessSettles` hold all
  the same: the next pass makes another one.
- A Secret that the cache does not show yet when its S3Credentials is deleted is
  not cut from its owner, and is collected although it was to be retained
  (`s3credentials_controller.go:341`; `Collect` after `KeyOrphan`).
- A policy whose status write failed after its rules were applied is deleted
  without clearing them, the status being the only record: `CleanedUp`, with
  `Policies = {1}`, one edit and one fault. A comment in the code says "Add the
  finalizer before doing any work, so a policy that later applies successfully
  is always cleaned up on deletion".
- A deletion that finds the cluster gone drops the finalizer without clearing
  (`bucketlifecyclepolicy_controller.go:223`); if the cluster is back by then its
  rules stay. It takes three edits, so `lifecycle` does not reach it; the proof
  of `RecordedCleaned` did, which is why that property speaks of what the
  deletion found and not of the cluster as it is in the end.
- A terminating policy may clear its successor's rules; the successor's resync
  puts them back (`LifecycleSettles` holds).
- A lifecycle write from a copy of the entry read before the Bucket controller's
  write undoes the latter. A quota that is set is pushed again; an owner, a lock and
  the removal of a quota are not, because the status says that they were pushed
  (`bucket_controller.go:262`, `:297`, `:307`): `LifecycleSettles` without its
  `entry.lost` fails.
- Credentials and bindings whose cluster is gone wait for it for ever when they
  are deleted.

Backups
- Failed backups count for retention: the finding of `backups_keep`.
- A restore whose backup is pruned while its Job runs goes back to Pending and
  stays there (`AllSettles` counts it as waiting for its source).
- The anchor of a schedule that is suspended or removed and added again is old,
  and fires at once (`backup_scheduler.go:43`).
- Deleting the newest scheduled backup makes its slot due again, and so does a
  tick whose list is a whole interval old and does not show it
  (`backup_scheduler.go:152`). `OncePerSlot` excepts both (`forgotten`).
- The destination is lost from the status when the write after the creation of
  the Job fails.

CSI drivers
- `driverNameConflict` skips CRs with a deletion mark (`seaweedcsidriver_controller.go:218`)
  although their node DaemonSet still runs, and runs on until it is collected: the
  successor deploys beside it, and for that time the kubelets have two plugins of
  one driver name. The comment at `:96-98` is about preventing this. `OneRegistrar`
  excepts the handover and says that it is one; `CsiSettles` says that it ends.
- Two CRs of one driver name created within one second may both deploy, when
  the later-reconciled one comes first by UID, and both stay (`markConflict` removes
  nothing): the pairs in `tied`. The CR that so loses its turn leaves its CSIDriver
  object to the winner when it is deleted, and if the winner goes before its first
  pass nobody removes it; hence the exception for ties in `NoLeftovers` (three edits).
- A StorageClass whose immutable fields differ from the spec's (an administrator's,
  or its own after an edit) is refused by the API, and the CR stays Failed
  (`ClassRefused`).
- Deleting a CR removes the CSIDriver object while another CR relies on it
  (`SharedObjectKept`), and turning the StorageClass off removes an
  administrator's class of that name (`AdminClassKept`): both with two edits, no
  faults. CRs of the same name in two namespaces share their RBAC objects
  (`RbacNotShared`: `SameName = TRUE`, `SameDriver = FALSE`, one edit).

AdminScripts
- After a restart a CronJob may be rendered, and run, without its certificates
  while both CRs report that all is well: `RunsAuthenticate`, with
  `MaxScripts = 1`, no edits, one fault. `controller_tls.go:614`: "ensureTLS is
  guaranteed to have run probeOnce before any builder is called in the same
  reconcile".
- Pending does not mean "so no CronJob has been created"
  (`adminscript_types.go:180`): `PendingHasNone`, with `MaxScripts = 1`, one edit,
  no faults.
- A CronJob of the same name that nobody owns is adopted and overwritten.

Seaweed reconciler
- The Ingress of the SFTP gateway is created and pruned in every pass, and an
  embedded S3's deleted and created: `SftpIngressStays`, with
  `Start = {{"filer", "sftp", "sftpIngress"}}`, no edits.
- A pass that is shown an out-of-date copy of the security Secret (it misses it)
  mints a key, meets the Secret in the create, reads it again and overwrites its
  data: the signing keys rotate, against `controller_tls.go:373-374`. `KeysKept`
  excepts that pass (`pass.stale`); without the exception `cluster` violates it.
- A pass that is shown an out-of-date cache of the one kind of volume workload
  makes the other beside it, against `controller_volume.go:70-71`: the exception in
  `KindsApart`. And even in turn, what is waited for is the end of the workload
  object, not of its pods, which may still be on the disks: `PodsApart`.
- With two edits, JWT off and on again, and a cache that lags on the Secret, a pass
  takes the deleted Secret for present and hands out templates that mount it: the
  exception in `MountsBacked`. The Secret of the server certificate is not waited
  for at all, so `MountsBacked` asks only for the Certificate that leads to it; pods
  hang until cert-manager has issued it.
- Ready stays False for a gateway without a filer and for a topology with a base
  whose `replicas` are positive (`NeverReady`). Objects of a removed filer, admin
  or worker section stay. A missing credentials Secret of a mirror ends every
  pass before the Ingresses and the status. A DaemonSet of volume servers without
  host paths, which the webhook would refuse, ends every pass (`Refused`).

## 4. Proofs

All theorems hold for every value of the constants (any number of servers,
volumes, CRs, names, edits, faults), under the named assumptions of the modules
and those stated in the theorem.

`VolumeScaleDownProofs`
- `TypeCorrect`: `Spec => []TypeOK`.
- `ShrinkIsConfirmed`: `Spec => ShrinkConfirmed`, with a lagging cache, orphan
  deletions, client writes and evacuations to any server. The inductive invariant
  `ShrinkInv` carries the evidence from `ReadCounts` to `Apply`: between `decide`
  and `apply` every server from `allowed` up to the count that the gate saw is
  marked empty in `counts`, and what is on a server so marked came after that look
  (`StillEmpty`).
- `TrackerNeverStuck`: `Spec => []NoStuckTracker`, with a lagging cache and an
  orphan-deleted StatefulSet. Not inductive alone: two goroutines reporting to
  one entry would let the first clear it under the second. `TrackerInv` adds
  that at most one reports to an entry, because `start` refuses a running one
  and `forget` detaches.

`IamNameClaimsProofs`
- `IamTypeCorrect`: `Spec => []TypeOK`.
- `HandoverIsSafe`: `Spec => HandoverSafe`, cache lag and renames at any time
  included. The claimants are read from a
  cache and before `DeleteUser`; the proof shows why that is safe for
  *provisioned* CRs: a CR is provisioned by the same single worker that runs
  the deletion, so it was provisioned before the deleting pass began, and (the
  invariant's `CacheCorrect` and `Visible`) its live copy is then in the
  cache already, or the CR could not have been loaded and provisioned at all.
  The name in that copy is right too, unless a later rename is not in the cache
  yet: such a CR is in `unseen`, and the property excepts it. From the look at the
  claimants to `DeleteUser` no other CR comes to own the name (`Unclaimed`).

`BucketReconcileProofs`
- `BucketTypeCorrect`: `Spec => []TypeOK`.
- `ForeignIsUntouched`: `Spec => ForeignUntouched`, whatever other agents create or
  delete at any time and however far the cache lags. The operator decides by
  the name in the CR's status, which says nothing of the bucket as it is now.
  The inductive invariant `OwnInv` is what makes the name good evidence: in the API
  server, a name on record is of a bucket that is not somebody else's, unless it was
  put there since (`Ours`), and the finalizer is there whenever a name or a deletion
  mark is (`ObjectInv`). The same holds of a copy, in the cache or in the hand of a
  pass, of whatever age, as long as the CR it is about is still there, and one that
  is not terminating is (`Follows`, `CopyInv`). The stages that push settings are only
  reached with such a bucket (`RouteInv`). That every action preserves ownership is
  shown once per action.
- `ReadyMeansApplied`: `Spec => []ReadyIsTrue`, for the same environment. A pass
  issues a command only when the record, or what the filer shows, calls for it, so
  the claim is about records as well. On top of `OwnInv`, `RecordInv` says that a
  pass with the latest version knows the name on record, or has a claim not written
  yet (`NameInv`); that a lock on record, in the API server, the cache or the pass's
  copy, is a lock on the filer unless the bucket is gone or another one (`LockInv`);
  that a lock on record was in the spec of every copy since, so that a pass which
  makes the bucket again makes it with the lock (`LockSeen`); and what each stage
  behind the pass has left on the filer, as long as the bucket is the one the pass
  has found or made (`StageInv`). The last three hold up to the answer that replaces
  the spec in mid-pass (`swapped`).

`BackupsProofs` (any number of intervals, any period and retention, cache lag)
- `BackupsTypeCorrect`: `Spec => []TypeOK`.
- `CompletedMeansDone`: `Spec => []CompletedIsTrue`. A phase is decided from a
  cached Job and written later. `WorkInv` ties the pieces together: the target
  of a Job, and the one a pass is about to create, is of the CR's own backup
  (`JobInv`, `PassInv`); a complete Job, and Completed in the hand of a pass, mean
  the files are there; an outcome in the cache is the outcome stored (`CopyInv`).
- `SlotsBackedUpOnce`: `Spec => []OncePerSlot`. The scheduler reads the last run
  off a history that pruning and people shorten and the cache delays. `HistoryInv`:
  for every backup ever made that is not `forgotten` one as recent still exists or a
  later one was made, and what is about to be pruned is not the newest.
- `RetentionHolds`: `Spec => RetentionKept`, from `VictimInv`: what a tick found
  superfluous stays so, outcomes being final.
- `ContractImplemented`: `Spec => KeepsContract`, the refinement. Each action maps
  to a request, the work, an outcome, or a stutter; `WorkInv` is what makes a
  status write an outcome that the contract allows.

`BackupsProofs`, of `AdminScripts` (any number of scripts, edits and faults)
- `ScriptTypeCorrect`: `ScriptSpec => []ScriptTypeOK`, which includes that a status is
  never of a generation to come and that a CronJob, cached or not, is nobody's of
  this controller or was rendered from features that exist, with a schedule that
  parses. `ScriptInv` adds what a pass holds at each stage.
- `OwnerStays`: `ScriptSpec => KeepsOwner`. The owner is looked up in a cached copy,
  but a write from it is accepted only if the copy is the CronJob.

`IamAccessProofs` (any number of bindings, edits and faults, cache lag)
- `AccessTypeCorrect`: `Spec => []TypeOK`. Half of `TypeOK` says that a deletion
  waits for a finalizer, in the cache and a pass's copy as well, so the proof
  needs `KeyInv`: the cache shows what is stored unless it lags (`SeenInv`), a
  pass's copy is what is stored unless it is stale (`CopyInv`).
- `PinStays`: `Spec => PinHolds` (the credential from before the pinning included), and `PairStays`: `Spec => PairKept`. Both follow
  from `CopyInv`: a pass that would change the user, or replace the pair, works
  from a stale copy, and its write is rejected.
- `NoUpdateLost`: `Spec => NoClobber`. `LockInv`: whoever stands between its read
  and its write holds the user's lock alone, and its copy differs from the record
  in the one thing it changes (`IdentNear`, `KeyNear`, `BindNear`), unless the user
  was deleted and created since. That no other step disturbs this is shown by
  sorting the steps into those that take no lock (`NoLockTaken`) and the three
  reads.

`LifecyclePoliciesProofs` (any set of policies, edits and faults)
- `LifecycleTypeCorrect`: `Spec => []TypeOK`.
- `RulesAreCleaned`: `Spec => RecordedCleaned`. Between the clearing and the removal
  of the finalizer others write the entry. `IInv`: who is on record has the
  finalizer, a deleting pass works for a policy that waits for it (`RecordInv`); what
  either writer has in hand is a copy of an entry (`BuffersInv`); rules an old copy
  brought back are known as such to whoever read them since (`EntryInv`); and from the
  clearing on the policy's rules are absent or brought back (`CleanInv`).

`CsiDriversProofs` (any number of CRs, own or shared names)
- `CsiTypeCorrect`: `Spec => []TypeOK`.
- `OneRegistrarHolds`: `Spec => []OneRegistrar`, and `NothingLeftOver`:
  `Spec => []NoLeftovers`. The turn is looked up once, at the start of a pass, and
  the node DaemonSet outlives its CR. `FinInv`: a pass touches nothing before the
  finalizer is in place, and workloads that are not ownerless have a CR. `PairInv`:
  no CR with workloads, nor the CR of a deploying pass, has an older untied rival of
  the name, since whoever comes later is younger or tied. `TurnInv` says the same,
  without ties, of one that answers for the CSIDriver object. `RbacInv`: RBAC
  objects, ties or not, have a CR whose finalizer will remove them and has not passed
  that point.

`ClusterWorkloadsProofs` (any set of starts, edits and faults, any lag)
- `ClusterTypeCorrect`: `Spec => []TypeOK`, which includes that objects are
  rendered from features their builder knows and that a pass has its status
  update ahead. The rest is proved on `Move`, a sorting of all steps by what they
  do to objects, cache and plan, and from `PlanInv` (the calls left in a pass are
  the rest of a plan, in its order) and `CacheInv`.
- `ClaimsStay`: `Spec => ClaimsKept`: a copy never shows a StatefulSet with claims
  as one without.
- `ForeignIsKept`: `Spec => ForeignKept`: only `pruneOwned` deletes ConfigMaps (`Sane`,
  of every call of a plan), and only the object it has seen, by UID.
- `KindsNeverMeet`: `Spec => KindsApart`. `KindInv`: when the call that makes one kind
  is next, the other is gone, or the pass was shown an old copy of it, because the plan
  has `deleteAndWait` right before it (`InTurn`).
- `MountsAreBacked`: `Spec => MountsBacked`. `MountInv`: a Secret that a spec of the
  pass needs exists, or the call that makes it (for the server's, that applies the
  Certificate) is ahead, before any workload (`SecretsFirst`), or the pass was shown an
  old copy.
- `KeyNeverChanges`: `Spec => KeysKept`. `KeyInv`: the key a pass is about to write is
  the one in use, if the Secret it read was the one stored.

None of these has a hypothesis on the cache: whatever it lags on, only a pass that
was in fact shown an out-of-date copy of the very object is excepted.

**What the proofs changed.** `LockInv` and the `IInv` of the lifecycle
policies were checked with TLC on instances larger than the runs' (two bindings;
four edits) before they were proved; so were `OwnInv` and `RecordInv` (five edits,
specs that vary the name, the lock and the access). Seven attempts failed for a good
reason.
`NoLeftovers` was false for tied CRs beyond two edits. `RecordedCleaned` spoke of
the cluster at the end of a deletion instead of at its look. The incarnation of an
IAM user was counted modulo 3, and a wrap could have passed an old copy for a
current one; it is now a natural number. An edit of one binding cleared the
staleness of a pass over another. `HandoverSafe` was false beyond the edits of its
run, for a CR renamed away and back; it is now stated, and proved without a
hypothesis, for what the cache had shown. A first form of `ReadyIsTrue` had the
owner and the removed quota in it, which a conflict of the last write refutes.
`ForeignUntouched` was false with a lagging cache, for the second deletion of a CR
that is gone, and with agents who put a bucket in the place of ours; both are now
part of the run and the theorem, with `replaced` for what the code cannot tell apart.

**What is only model-checked.** All liveness (`ScaleCompletes`, `OwnershipSettles`,
`SpecApplied`, `AllSettles`, `AccessSettles`, `LifecycleSettles`, `CsiSettles`,
`Converges`, `CronJobFollows`, `StatusFollows`, and the violation of
`GatewaysFollow`), which the prover cannot handle, and the two other violations. Every safety property of a
passing run is a theorem.

## 5. Plan

Modelled, checked and proved: the components of section 1, but for what follows.
Left open:

- `BucketReconcile`: a sharper account of the owner, a removed quota and revoked
  grants, which `SpecApplied` excepts once an edit has met an unrecorded pass (`torn`).
- `VolumeScaleDown`: what becomes of a volume that leaves with a pod (its claim stays,
  and a later scale-up brings it back).

### Not modelled

- Pod templates, start-up scripts, probes, labels, XML and TOML texts: pure
  renderings of a spec. What of the spec they depend on is kept where a property
  needs it.
- ServiceMonitors and the worker's metrics Service: written, never read.
- Matching of reference grants: a pure function; the verdict may change at any
  time (`IamNameClaims`, `BucketReconcile`, `CsiDrivers`).
- Webhook checks of single values (name syntax, cron expressions, sizes).
- `seaweed_maintenance.go`: its only caller is behind `if false`.
- `cmd/main.go` (flags and wiring), the generated deep-copy code, log and event
  texts.
