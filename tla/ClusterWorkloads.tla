-------------------------- MODULE ClusterWorkloads --------------------------
(***************************************************************************)
(* The Seaweed reconciler: one pass over a Seaweed CR is a fixed sequence  *)
(* of calls, each of which upserts or deletes one object; any call that    *)
(* fails, and a few that must wait, end the pass, and the next one starts  *)
(* from the beginning. People edit the CR, pods come up and go, and the    *)
(* operator restarts between any two calls.                                *)
(*                                                                         *)
(* The CR is the set of its features that the properties tell apart, and   *)
(* an object is what it was rendered from. An object's name is a component *)
(* and a kind.                                                             *)
(***************************************************************************)
EXTENDS Integers, FiniteSets, Sequences, SequencesExt

CONSTANTS
    Start,        \* the sets of features a Seaweed may be created with
    Toggles,      \* the features people turn on and off
    Upgraded,     \* are there objects of an earlier operator version
    Webhook,      \* is the validating webhook installed
    CertManager,  \* are the cert-manager CRDs installed
    LagOn,        \* the components on whose objects the informer cache may lag
    MaxEdits,     \* bound: edits of the CR
    MaxFaults     \* bound: failed calls, late cache news, evicted pods and restarts

(* What of each section of the CR the properties tell apart.              *)
SpecFeatures == {"image", "hostSuffix"}
BackupFeatures == {"mirror", "mirror2", "noStorage"}
MasterFeatures == {"concurrentStart", "masterConfig"}
ComponentFeatures == {"annotations"}
TLSFeatures == {"tls", "issuerRef"}
JWTFeatures == {"jwt"}
VolumeFeatures == {"hostPath", "daemonset", "topology", "noBase"}
FilerFeatures == {"filer", "persistence", "config", "filerIngress", "filerS3"}
AdminFeatures == {"admin"}
WorkerFeatures == {"worker"}
S3Features == {"s3", "s3Ingress"}
SFTPFeatures == {"sftp", "sftpIngress"}
Features ==
    UNION {SpecFeatures, BackupFeatures, MasterFeatures, ComponentFeatures, TLSFeatures, JWTFeatures,
           VolumeFeatures, FilerFeatures, AdminFeatures, WorkerFeatures, S3Features, SFTPFeatures}

(* The validating webhook: of the features of a CR, those that exclude or  *)
(* require each other.                                                     *)
Valid(f) ==
    /\ "daemonset" \in f => "hostPath" \in f /\ "topology" \notin f
    /\ "worker" \in f => "admin" \in f
    /\ ~({"s3", "filer", "filerS3"} \subseteq f)
    /\ "sftp" \in f => "filer" \in f

ASSUME ClusterAssumption ==
    /\ Start \subseteq SUBSET Features /\ Toggles \subseteq Features
    /\ {Upgraded, Webhook, CertManager} \subseteq BOOLEAN
    /\ MaxEdits \in Nat /\ MaxFaults \in Nat

Master == <<"master", "sts">>
Volume == <<"volume", "sts">>
VolumeDs == <<"volume", "ds">>
Group == <<"group", "sts">>           \* the volume servers of a topology group
Filer == <<"filer", "sts">>
Admin == <<"admin", "sts">>
Worker == <<"worker", "dep">>
OldWorker == <<"worker", "sts">>      \* of operator versions before the Deployment
OldWorkerPeer == <<"worker", "svc">>  \* and its headless Service
S3 == <<"s3", "dep">>
Sftp == <<"sftp", "dep">>
Mirror == <<"mirror", "dep">>
Mirror2 == <<"mirror2", "dep">>
Security == <<"security", "secret">>  \* security.toml
OldSecurity == <<"security", "cm">>   \* where it was before
CA == <<"ca", "cert">>                \* the self-signed authority
Server == <<"server", "cert">>        \* the Certificate; the Secret it leads to is "issued"
MasterConfig == <<"master", "cm">>
FilerConfig == <<"filer", "cm">>
MirrorConfig == <<"mirror", "secret">>
MirrorConfig2 == <<"mirror2", "secret">>
HostIngress == <<"all", "ing">>
FilerIngress == <<"filer", "ing">>
S3Ingress == <<"s3", "ing">>
SFTPIngress == <<"sftp", "ing">>

(* A component's Services, the headless one and those of its pods.        *)
MasterServices == <<"master", "svc">>
VolumeServices == <<"volume", "svc">>
GroupServices == <<"group", "svc">>
FilerServices == <<"filer", "svc">>
AdminServices == <<"admin", "svc">>
S3Services == <<"s3", "svc">>
SFTPServices == <<"sftp", "svc">>

WithPods == {Master, Volume, VolumeDs, Group, Filer, Admin, Worker, OldWorker, S3, Sftp, Mirror, Mirror2}
Ingresses == {FilerIngress, S3Ingress, SFTPIngress}   \* componentIngressManagedByLabel
Names ==
    WithPods \cup Ingresses
        \cup {Security, OldSecurity, CA, Server, MasterConfig, FilerConfig, MirrorConfig, MirrorConfig2, HostIngress}
        \cup {MasterServices, VolumeServices, GroupServices, FilerServices, AdminServices,
              S3Services, SFTPServices, OldWorkerPeer}
ConfigMaps == {MasterConfig, FilerConfig}

NoFeatures == {}
NoObjects == [n \in {} |-> NoFeatures]
IdlePass ==
    [f |-> NoFeatures, gen |-> 0, todo |-> <<>>, key |-> 0, legacy |-> FALSE,
     existed |-> FALSE, again |-> FALSE, stale |-> {}]

VARIABLES
    cr,       \* the Seaweed CR: stage of its life, features, generation
    objs,     \* the objects that exist
    cache,    \* what the operator's reads see
    pods,     \* for each workload with running, ready pods: the template they run
    creds,    \* the credentials Secret of the backup storage exists
    status,   \* the CR's status: observed generation, Ready
    issued,   \* the Secret of the Server certificate exists
    pass,     \* the pass: the CR it read, the calls it has yet to make, what it
              \* found so far and (stale) which objects it read out of date
    edits, faults

vars == <<cr, objs, cache, pods, creds, status, issued, pass, edits, faults>>

Exists(n) == n \in DOMAIN objs
Seen(n) == n \in DOMAIN cache

(***************************************************************************)
(* What the builders render. Every pod template depends on the image, the  *)
(* pod annotations and the security configuration; only Deployments merge  *)
(* pod annotations into the existing ones.                                 *)
(***************************************************************************)
securityConfigNeeded(f) == "tls" \in f \/ "jwt" \in f

tlsEffective(f) == "tls" \in f /\ CertManager

(* The Secrets that a template mounts: security.toml and the one that      *)
(* cert-manager issues for the Server certificate.                         *)
tlsVolumesAndMounts(f) ==
    {secret \in {Security, Server} :
        CASE secret = Security -> securityConfigNeeded(f) [] secret = Server -> tlsEffective(f)}

withJWTSigningAnnotation(f) == "annotations" \in f \/ securityConfigNeeded(f)

(* An object without any of that, controlled by the CR, and a workload of  *)
(* one of the components.                                                  *)
Plain == [in |-> NoFeatures, claims |-> FALSE, notes |-> FALSE, key |-> 0, owned |-> TRUE]
Workload(f, more) ==
    [Plain EXCEPT !.in = f \cap ({"image", "annotations", "tls", "jwt"} \cup more),
                  !.notes = withJWTSigningAnnotation(f)]

createMasterStatefulSet(f) == Workload(f, {"masterConfig"})

(* Disks that are claims and not host paths.                               *)
pvcVolumeDisks(f) == "hostPath" \notin f
buildFlatVolumePodSpec(f) == Workload(f, {})
createVolumeServerDaemonSet(f) == buildFlatVolumePodSpec(f)
createVolumeServerStatefulSet(f) == [buildFlatVolumePodSpec(f) EXCEPT !.claims = pvcVolumeDisks(f)]

buildTopologyPodSpec(f) == Workload(f, {})
createVolumeServerTopologyStatefulSet(f) == [buildTopologyPodSpec(f) EXCEPT !.claims = pvcVolumeDisks(f)]

createFilerStatefulSet(f) ==
    [Workload(f, {"filerS3", "config"}) EXCEPT !.claims = "persistence" \in f]
createAdminStatefulSet(f) == Workload(f, {})
createWorkerDeployment(f) == Workload(f, {})
buildS3Deployment(f) == Workload(f, {})
buildSFTPDeployment(f) == Workload(f, {})
buildMirrorDeployment(f) == [Plain EXCEPT !.in = f \cap {"image", "tls", "jwt"}]

renderSecurityTOML(f) == [Plain EXCEPT !.in = f \cap {"tls", "jwt"}]
ensureServerCertificate(f) == [Plain EXCEPT !.in = f \cap {"issuerRef"}]

(* The Ingress of S3 leads to the gateway, or to the filer.                *)
s3IngressBackend(f) == [Plain EXCEPT !.in = f \cap {"s3"}]

Render(n, f) ==
    CASE n = Master -> createMasterStatefulSet(f)
      [] n = Volume -> createVolumeServerStatefulSet(f)
      [] n = VolumeDs -> createVolumeServerDaemonSet(f)
      [] n = Group -> createVolumeServerTopologyStatefulSet(f)
      [] n = Filer -> createFilerStatefulSet(f)
      [] n = Admin -> createAdminStatefulSet(f)
      [] n = Worker -> createWorkerDeployment(f)
      [] n = S3 -> buildS3Deployment(f)
      [] n = Sftp -> buildSFTPDeployment(f)
      [] n \in {Mirror, Mirror2} -> buildMirrorDeployment(f)
      [] n = Security -> renderSecurityTOML(f)
      [] n = Server -> ensureServerCertificate(f)
      [] n = S3Ingress -> s3IngressBackend(f)
      [] OTHER -> Plain

(***************************************************************************)
(* The plan of a pass: the calls of every ensure function, in order.       *)
(***************************************************************************)
Call(op, n) == <<[op |-> op, n |-> n]>>
Put(n) == Call("put", n)                 \* CreateOrUpdate
Apply(n) == Call("apply", n)             \* applyUnstructured
Del(n) == Call("delete", n)              \* deleteIfExists, or the prune of a list
Prune(n) == Call("prune", n)             \* pruneOwned
DelAndWait(n) == Call("replace", n)      \* deleteIfExists; ends the pass if it did
Check(op) == Call(op, Master)            \* a call that writes no object
When(condition, calls) == IF condition THEN calls ELSE <<>>

ensureTLS(f) ==
    When(tlsEffective(f), When("issuerRef" \notin f, Apply(CA)) \o Apply(Server))

(* The keys are read, then the Secret is put, then the ConfigMap goes.     *)
ensureSecuritySecret(f) == Call("keys", Security) \o Put(Security) \o Call("legacy", OldSecurity)

MutEnsureSecurityConfig(f) ==
    IF "jwt" \in f THEN ensureSecuritySecret(f) ELSE Prune(Security) \o Prune(OldSecurity)

ensureSecurityConfig(f) ==
    IF securityConfigNeeded(f)
      THEN ensureSecuritySecret(f)
      ELSE Prune(Security) \o Prune(OldSecurity)

ensureMaster(f) ==
    Put(MasterServices)
    \o (IF "masterConfig" \in f THEN Put(MasterConfig) ELSE Prune(MasterConfig))
    \o Put(Master) \o When("concurrentStart" \notin f, Check("quorum"))

ensureVolumeServersWithTopology(f) == Put(GroupServices) \o Put(Group)
ensureVolumeServerDaemonSet(f) == DelAndWait(Volume) \o Put(VolumeDs)
MutVolumeServerStatefulSet(f) == Put(Volume) \o Del(VolumeDs)
ensureVolumeServerStatefulSet(f) == DelAndWait(VolumeDs) \o Put(Volume)

ensureVolumeServers(f) ==
    CASE "topology" \in f -> ensureVolumeServersWithTopology(f)
      [] "topology" \notin f /\ "daemonset" \in f ->
           Put(VolumeServices) \o When("hostPath" \notin f, Check("refuse"))
           \o ensureVolumeServerDaemonSet(f)
      [] {"topology", "daemonset"} \cap f = {} /\ "noBase" \in f -> <<>>
      [] OTHER -> Put(VolumeServices) \o ensureVolumeServerStatefulSet(f)

ensureFilerServers(f) ==
    When("filer" \in f,
        Put(FilerServices)
        \o (IF "config" \in f THEN Put(FilerConfig) ELSE Prune(FilerConfig))
        \o Put(Filer))

ensureAdminServers(f) == When("admin" \in f, Put(AdminServices) \o Put(Admin))

cleanupLegacyWorkerStatefulSet(f) == Call("clear", OldWorker) \o DelAndWait(OldWorkerPeer)

ensureWorkers(f) ==
    When({"worker", "admin"} \subseteq f, cleanupLegacyWorkerStatefulSet(f) \o Put(Worker))

deleteS3Gateway(f) == Del(S3) \o Del(S3Services) \o Del(S3Ingress)

ensureS3Gateway(f) ==
    IF {"s3", "filer"} \subseteq f
      THEN Put(S3Services) \o Put(S3)
           \o (IF "s3Ingress" \in f THEN Put(S3Ingress) ELSE Del(S3Ingress))
      ELSE deleteS3Gateway(f)

deleteSFTPGateway(f) == Del(Sftp) \o Del(SFTPServices) \o Del(SFTPIngress)

ensureSFTPGateway(f) ==
    IF {"sftp", "filer"} \subseteq f
      THEN Put(SFTPServices) \o Put(Sftp)
           \o (IF "sftpIngress" \in f THEN Put(SFTPIngress) ELSE Del(SFTPIngress))
      ELSE deleteSFTPGateway(f)

(* The mirrors whose storage is declared; the others are passed over, and  *)
(* pruned.                                                                 *)
Mirrored(f) == {m \in {"mirror", "mirror2"} \cap f : m = "mirror2" => "noStorage" \notin f}

pruneBackupMirrors(f) ==
    When("mirror" \notin Mirrored(f), Del(Mirror)) \o When("mirror2" \notin Mirrored(f), Del(Mirror2))
    \o When("mirror" \notin Mirrored(f), Del(MirrorConfig))
    \o When("mirror2" \notin Mirrored(f), Del(MirrorConfig2))

ensureBackupMirrors(f) ==
    When("mirror" \in Mirrored(f), Check("credentials") \o Put(MirrorConfig) \o Put(Mirror))
    \o When("mirror2" \in Mirrored(f), Check("credentials") \o Put(MirrorConfig2) \o Put(Mirror2))
    \o pruneBackupMirrors(f)

ensureSeaweedIngress(f) == When("hostSuffix" \in f, Put(HostIngress))

(* The Ingresses that ensureComponentIngresses wants; it deletes the others*)
(* that carry its label. The filer's stands for those of the master, the   *)
(* volume servers, the admin and gRPC as well; filerS3 is the filer's own  *)
(* S3 with an Ingress.                                                     *)
Wanted(f) ==
    {n \in Ingresses :
        \/ n = FilerIngress /\ {"filer", "filerIngress"} \subseteq f
        \/ n = S3Ingress /\ ({"filer", "filerS3"} \subseteq f \/ {"s3", "s3Ingress"} \subseteq f)}

ensureComponentIngresses(f) ==
    LET ensure(n) == When(n \in Wanted(f), Put(n))
        prune(n) == When(n \notin Wanted(f), Prune(n))
    IN  ensure(FilerIngress) \o ensure(S3Ingress) \o ensure(SFTPIngress)
        \o prune(FilerIngress) \o prune(S3Ingress) \o prune(SFTPIngress)

MutPlan(f) ==
    ensureTLS(f) \o ensureSecurityConfig(f) \o ensureMaster(f) \o ensureVolumeServers(f)

Plan(f) ==
    ensureTLS(f) \o ensureSecurityConfig(f) \o ensureMaster(f) \o ensureVolumeServers(f)
    \o ensureFilerServers(f) \o ensureAdminServers(f) \o ensureWorkers(f)
    \o ensureS3Gateway(f) \o ensureSFTPGateway(f) \o ensureBackupMirrors(f)
    \o ensureSeaweedIngress(f)
    \o ensureComponentIngresses(f) \o Check("status")

(***************************************************************************)
(* A pass.                                                                 *)
(***************************************************************************)
Fault == faults < MaxFaults /\ faults' = faults + 1
Edit == edits < MaxEdits /\ edits' = edits + 1

Busy == pass.todo # <<>>
At(op) == Busy /\ Head(pass.todo).op = op
Target == Head(pass.todo).n
Ends == pass' = IdlePass

(* The object is not what the cache shows of it.                           *)
Outdated(n) == ~(Exists(n) <=> Seen(n)) \/ (Exists(n) /\ Seen(n) /\ objs[n] # cache[n])
Looked == [pass EXCEPT !.stale = @ \cup {n \in {Target} : Outdated(n)}]
GoesOn == pass' = [Looked EXCEPT !.todo = Tail(@), !.again = FALSE]

Without(objects, n) == [m \in DOMAIN objects \ {n} |-> objects[m]]
With(objects, n, v) == [m \in DOMAIN objects \cup {n} |-> IF m = n THEN v ELSE objects[m]]

(* The cache follows a write of n at once or, if it may lag on n, later:   *)
(* late news are faults, and like them stop.                               *)
Late(n) == n[1] \in LagOn /\ Fault /\ cache' = cache
Writes(n, v) ==
    /\ objs' = With(objs, n, v)
    /\ (cache' = With(cache, n, v) /\ UNCHANGED faults) \/ Late(n)
Deletes(n) ==
    /\ objs' = Without(objs, n)
    /\ (cache' = Without(cache, n) /\ UNCHANGED faults) \/ Late(n)
WritesNothing == UNCHANGED <<objs, cache, faults>>

Begin ==
    /\ ~Busy /\ cr.life = "exists"
    /\ pass' = [IdlePass EXCEPT !.f = cr.f, !.gen = cr.gen, !.todo = Plan(cr.f)]
    /\ UNCHANGED <<cr, objs, cache, pods, creds, status, issued, edits, faults>>

Merge(n, old, new) ==
    [new EXCEPT !.claims = old.claims, !.notes = old.notes \/ new.notes, !.owned = old.owned]

(* A merge that the code does not survive: CreateOrUpdateDeployment stores *)
(* the new pod annotations in the existing map, which is nil if it had     *)
(* none.                                                                   *)
MergePanics(n, old, new) == n[2] = "dep" /\ new.notes /\ ~old.notes

vctSemanticallyEqual(old, new) == old.claims = new.claims

MutMustReplace(old, new) == ~vctSemanticallyEqual(old, new)

(* reconcileVolumeClaimTemplates: a StatefulSet that is to have its first  *)
(* claim templates is deleted and made anew; other differences stay.       *)
MustReplace(old, new) == ~vctSemanticallyEqual(old, new) /\ ~old.claims

(* The object the cache shows is merged with the desired one, and written  *)
(* if that changes it and it is what is stored.                            *)
Update(n, new) ==
    LET old == cache[n]
        merged == Merge(n, old, new)
    IN  \/ MustReplace(old, new) /\ Deletes(n) /\ Ends
        \/ MergePanics(n, old, new) /\ WritesNothing /\ Ends
        \/ /\ ~MustReplace(old, new) /\ ~MergePanics(n, old, new)
           /\ IF merged = old
                THEN WritesNothing /\ GoesOn
                ELSE IF Exists(n) /\ objs[n] = old
                       THEN Writes(n, merged) /\ GoesOn
                       ELSE WritesNothing /\ Ends

Desired(n) == [Render(n, pass.f) EXCEPT !.key = IF n = Security THEN pass.key ELSE 0]

(* When the cache does not show an object that exists, Create fails and the*)
(* object is read again: by then the cache shows it, and the two are       *)
(* merged, or it does not, and the pass ends.                              *)
CreateOrUpdate ==
    /\ At("put")
    /\ CASE Seen(Target) -> Update(Target, Desired(Target))
         [] ~Seen(Target) /\ pass.again -> WritesNothing /\ Ends
         [] ~Seen(Target) /\ ~pass.again /\ Exists(Target) ->
              WritesNothing /\ pass' = [Looked EXCEPT !.again = TRUE]
         [] OTHER -> Writes(Target, Desired(Target)) /\ GoesOn
    /\ UNCHANGED <<cr, pods, creds, status, issued, edits>>

(* Certificates and Issuers are created, or updated unconditionally.       *)
applyUnstructured ==
    /\ At("apply")
    /\ CASE ~Seen(Target) /\ ~Exists(Target) -> Writes(Target, Desired(Target)) /\ GoesOn
         [] Seen(Target) /\ ~Outdated(Target) ->
              Writes(Target, Merge(Target, cache[Target], Desired(Target))) /\ GoesOn
         [] OTHER -> WritesNothing /\ Ends
    /\ UNCHANGED <<cr, pods, creds, status, issued, edits>>

deleteIfExists ==
    /\ At("delete")
    /\ IF Seen(Target) THEN Deletes(Target) ELSE WritesNothing
    /\ GoesOn
    /\ UNCHANGED <<cr, pods, creds, status, issued, edits>>

MutPruneOwned ==
    /\ At("prune")
    /\ IF Seen(Target) /\ cache[Target].owned THEN Deletes(Target) ELSE WritesNothing
    /\ GoesOn
    /\ UNCHANGED <<cr, pods, creds, status, issued, edits>>

(* Only an object that the CR controls is deleted, and only if it is still *)
(* the one that was read: the UID is a precondition.                       *)
pruneOwned ==
    /\ At("prune")
    /\ IF Seen(Target) /\ cache[Target].owned /\ (Exists(Target) => objs[Target].owned)
         THEN Deletes(Target)
         ELSE WritesNothing
    /\ GoesOn
    /\ UNCHANGED <<cr, pods, creds, status, issued, edits>>

(* The first of two deletions that are waited for together.                *)
deleteFirst ==
    /\ At("clear")
    /\ IF Seen(Target) THEN Deletes(Target) ELSE WritesNothing
    /\ pass' = [Looked EXCEPT !.todo = Tail(@), !.existed = Seen(Target)]
    /\ UNCHANGED <<cr, pods, creds, status, issued, edits>>

(* The other kind of volume workload, or the workers' StatefulSet and its  *)
(* Service, must be gone before the new workload is made.                  *)
deleteAndWait ==
    /\ At("replace")
    /\ IF Seen(Target) THEN Deletes(Target) ELSE WritesNothing
    /\ IF Seen(Target) \/ pass.existed THEN Ends ELSE GoesOn
    /\ UNCHANGED <<cr, pods, creds, status, issued, edits>>

refuseWithoutHostPath ==
    /\ At("refuse") /\ Ends
    /\ UNCHANGED <<cr, objs, cache, pods, creds, status, issued, edits, faults>>

MutExistingKey ==
    IF Seen(Security) THEN cache[Security].key ELSE 0

(* The key of the JWT section, 0 if there is none: from the Secret, else   *)
(* from the ConfigMap of an earlier operator version.                      *)
existingJWTSigningKeys ==
    CASE Seen(Security) -> cache[Security].key
      [] ~Seen(Security) /\ Seen(OldSecurity) -> cache[OldSecurity].key
      [] OTHER -> 0

(* A key that is nowhere yet.                                              *)
KeyIn(known, n) == IF n \in DOMAIN known THEN known[n].key ELSE 0
randKey ==
    CHOOSE k \in 1 .. 5 : k \notin {KeyIn(objs, Security), KeyIn(objs, OldSecurity),
                                   KeyIn(cache, Security), KeyIn(cache, OldSecurity)}

readKeys ==
    /\ At("keys")
    /\ pass' = [Looked EXCEPT !.todo = Tail(@),
                    !.key = CASE "jwt" \notin pass.f -> 0
                              [] "jwt" \in pass.f /\ existingJWTSigningKeys # 0 -> existingJWTSigningKeys
                              [] OTHER -> randKey,
                    !.legacy = ~Seen(Security) /\ Seen(OldSecurity)]
    /\ UNCHANGED <<cr, objs, cache, pods, creds, status, issued, edits, faults>>

deleteLegacySecurityConfigMap ==
    /\ At("legacy")
    /\ IF pass.legacy THEN Deletes(OldSecurity) ELSE WritesNothing
    /\ GoesOn
    /\ UNCHANGED <<cr, pods, creds, status, issued, edits>>

MutWaitForMaster ==
    /\ At("quorum")
    /\ IF Cardinality({Master} \cap DOMAIN pods) > 1 THEN GoesOn ELSE Ends
    /\ UNCHANGED <<cr, objs, cache, pods, creds, status, issued, edits, faults>>

(* With one master, a quorum is the master.                                *)
waitForMasterStatefulSet ==
    /\ At("quorum")
    /\ IF Master \in DOMAIN pods THEN GoesOn ELSE Ends
    /\ UNCHANGED <<cr, objs, cache, pods, creds, status, issued, edits, faults>>

resolveBackupCredentials ==
    /\ At("credentials")
    /\ IF creds THEN GoesOn ELSE Ends
    /\ UNCHANGED <<cr, objs, cache, pods, creds, status, issued, edits, faults>>

(***************************************************************************)
(* The status: a workload is ready if its StatefulSet, DaemonSet or        *)
(* Deployment is there and reports all its pods ready. The volume servers  *)
(* of the base and of the topology are added up.                           *)
(***************************************************************************)
Up(n) == Seen(n) /\ n \in DOMAIN pods
Count(condition) == IF condition THEN 1 ELSE 0

(* A DaemonSet whose controller has not yet scheduled it, or that no node  *)
(* matches, says that it wants no pods: it counts as ready. A missing one  *)
(* counts as wanted.                                                       *)
Scheduled == IF Seen(VolumeDs) /\ VolumeDs \notin DOMAIN pods THEN {0, 1} ELSE {1}

VolumeDesired(f, scheduled) ==
    (CASE "daemonset" \in f -> scheduled
       [] "daemonset" \notin f -> Count("noBase" \notin f)) + Count("topology" \in f)
VolumeReady(f) ==
    Count(IF "daemonset" \in f THEN Up(VolumeDs) ELSE Up(Volume))
    + Count("topology" \in f /\ Up(Group))

(* The sections other than the volume servers ask for one replica or more. *)
IsReady(f, scheduled) ==
    /\ Up(Master)
    /\ VolumeDesired(f, scheduled) = 0 \/ VolumeReady(f) = VolumeDesired(f, scheduled)
    /\ "filer" \in f => Up(Filer)
    /\ "admin" \in f => Up(Admin)
    /\ {"worker", "admin"} \subseteq f => Up(Worker)
    /\ "s3" \in f => Up(S3)
    /\ "sftp" \in f => Up(Sftp)

(* The write conflicts with an edit made since the pass read the CR.       *)
updateStatus ==
    /\ At("status")
    /\ IF pass.gen = cr.gen /\ cr.life = "exists"
         THEN \E scheduled \in Scheduled :
                status' = [gen |-> pass.gen, ready |-> IsReady(pass.f, scheduled)]
         ELSE UNCHANGED status
    /\ Ends
    /\ UNCHANGED <<cr, objs, cache, pods, creds, issued, edits, faults>>

PassStep ==
    \/ CreateOrUpdate \/ applyUnstructured \/ deleteIfExists \/ pruneOwned
    \/ deleteFirst \/ deleteAndWait \/ refuseWithoutHostPath
    \/ readKeys \/ deleteLegacySecurityConfigMap
    \/ waitForMasterStatefulSet \/ resolveBackupCredentials \/ updateStatus

(* A call fails, or the operator stops, and the pass is over.              *)
CallFails ==
    /\ Busy /\ Fault /\ Ends
    /\ UNCHANGED <<cr, objs, cache, pods, creds, status, issued, edits>>
OperatorRestarts ==
    /\ Busy \/ cache # objs
    /\ Fault /\ Ends /\ cache' = objs
    /\ UNCHANGED <<cr, objs, pods, creds, status, issued, edits>>

(***************************************************************************)
(* Kubernetes, cert-manager and people.                                    *)
(***************************************************************************)
CacheSync(n) ==
    /\ Outdated(n)
    /\ cache' = IF Exists(n) THEN With(cache, n, objs[n]) ELSE Without(cache, n)
    /\ UNCHANGED <<cr, objs, pods, creds, status, issued, pass, edits, faults>>

(* The Secret of the certificate, once its issuer is there. Nothing waits  *)
(* for it.                                                                 *)
CertificateIssued ==
    /\ Exists(Server) /\ ~issued
    /\ objs[Server].in = {} => Exists(CA)
    /\ issued' = TRUE
    /\ UNCHANGED <<cr, objs, cache, pods, creds, status, pass, edits, faults>>

(* A pod starts if the Secrets its template mounts exist.                  *)
Mountable(in) ==
    \A secret \in tlsVolumesAndMounts(in) :
        CASE secret = Security -> Exists(Security) [] secret = Server -> issued

(* The pods catch up with the workloads; those that cannot start are not   *)
(* ready, except that a rollout keeps the old ones. Those of a workload    *)
(* that is gone are stopped some time after it.                            *)
Startable == {w \in WithPods \cap DOMAIN objs : Mountable(objs[w].in)}
PodsCatchUp ==
    /\ pods' = [w \in Startable \cup DOMAIN pods |-> IF w \in Startable THEN objs[w].in ELSE pods[w]]
    /\ pods' # pods
    /\ UNCHANGED <<cr, objs, cache, creds, status, pass, issued, edits, faults>>

PodsStop ==
    /\ pods' = [w \in DOMAIN pods \cap DOMAIN objs |-> pods[w]]
    /\ pods' # pods
    /\ UNCHANGED <<cr, objs, cache, creds, status, pass, issued, edits, faults>>

Evict(w) ==
    /\ w \in DOMAIN pods /\ Fault
    /\ pods' = [v \in DOMAIN pods \ {w} |-> pods[v]]
    /\ UNCHANGED <<cr, objs, cache, creds, status, pass, issued, edits>>

Create ==
    /\ cr.life = "none"
    /\ \E f \in Start : (Webhook => Valid(f)) /\ cr' = [life |-> "exists", f |-> f, gen |-> 1]
    /\ UNCHANGED <<objs, cache, pods, creds, status, pass, issued, edits, faults>>

Toggle(x) ==
    /\ cr.life = "exists" /\ Edit
    /\ LET f == IF x \in cr.f THEN cr.f \ {x} ELSE cr.f \cup {x}
       IN  (Webhook => Valid(f)) /\ cr' = [cr EXCEPT !.f = f, !.gen = @ + 1]
    /\ UNCHANGED <<objs, cache, pods, creds, status, pass, issued, faults>>

(* Somebody puts a ConfigMap of their own in the place of the operator's.  *)
Occupy(n) ==
    /\ Exists(n) /\ objs[n].owned /\ Edit
    /\ objs' = With(objs, n, [Plain EXCEPT !.owned = FALSE])
    /\ UNCHANGED <<cr, cache, pods, creds, status, pass, issued, faults>>

Delete ==
    /\ cr.life = "exists" /\ Edit
    /\ cr' = [cr EXCEPT !.life = "deleted"]
    /\ UNCHANGED <<objs, cache, pods, creds, status, pass, issued, faults>>

(* Garbage collection: of every object that has the CR as its controller.  *)
Owned == {n \in DOMAIN objs : objs[n].owned}
Collect ==
    /\ cr.life = "deleted" /\ Owned # {}
    /\ objs' = [n \in DOMAIN objs \ Owned |-> objs[n]] /\ cache' = objs'
    /\ UNCHANGED <<cr, pods, creds, status, pass, issued, edits, faults>>

(* People who ask for a mirror create the Secret it names, sooner or later.*)
CredentialsAppear ==
    /\ "mirror" \in cr.f /\ ~creds /\ creds' = TRUE
    /\ UNCHANGED <<cr, objs, cache, pods, status, pass, issued, edits, faults>>

(* What an earlier operator version left, for the CR that is about to be   *)
(* seen by this one.                                                       *)
Leftovers ==
    IF Upgraded
      THEN [n \in {OldWorker, OldWorkerPeer, OldSecurity, MasterConfig} |->
              [Plain EXCEPT !.notes = TRUE, !.key = Count(n = OldSecurity)]]
      ELSE NoObjects

Init ==
    /\ cr = [life |-> "none", f |-> {}, gen |-> 0]
    /\ objs = Leftovers /\ cache = objs
    /\ pods = [w \in WithPods \cap DOMAIN objs |-> {}]
    /\ creds = FALSE
    /\ status = [gen |-> 0, ready |-> FALSE]
    /\ pass = IdlePass
    /\ issued = FALSE
    /\ edits = 0 /\ faults = 0

Next ==
    \/ Begin \/ PassStep \/ CallFails \/ OperatorRestarts
    \/ PodsCatchUp \/ PodsStop \/ Create \/ Delete \/ Collect \/ CredentialsAppear \/ CertificateIssued
    \/ (\E n \in Names : CacheSync(n))
    \/ (\E n \in ConfigMaps : Occupy(n))
    \/ (\E w \in WithPods : Evict(w))
    \/ (\E x \in Toggles : Toggle(x))

Spec == Init /\ [][Next]_vars

(* A pass follows the last after 3 s, 5 s or a minute (Reconcile requeues  *)
(* itself), or with backoff after an error, and never blocks; Kubernetes   *)
(* starts and stops pods and collects garbage, cert-manager issues what it *)
(* is asked for, and the credentials are there in the end.                 *)
Fairness ==
    /\ WF_vars(Begin) /\ WF_vars(PassStep)
    /\ WF_vars(PodsCatchUp) /\ WF_vars(PodsStop) /\ WF_vars(Collect)
    /\ WF_vars(CredentialsAppear) /\ WF_vars(CertificateIssued)
    /\ WF_vars(\E n \in Names : CacheSync(n))

FairSpec == Spec /\ Fairness

(***************************************************************************)
(* Properties.                                                             *)
(***************************************************************************)
CrType == [life : {"none", "exists", "deleted"}, f : SUBSET Features, gen : Nat]
ObjType == [in : SUBSET Features, claims : BOOLEAN, notes : BOOLEAN, key : Nat, owned : BOOLEAN]
Ops ==
    {"put", "apply", "delete", "prune", "clear", "replace", "refuse", "keys", "legacy", "quorum",
     "credentials", "status"}
CallType == [op : Ops, n : Names]
PassType ==
    [f : SUBSET Features, gen : Nat, todo : Seq(CallType), key : Nat, legacy : BOOLEAN,
     existed : BOOLEAN, again : BOOLEAN, stale : SUBSET Names]

(* Objects by name, each made of features that its component knows.        *)
IsStore(known) ==
    /\ DOMAIN known \subseteq Names /\ known \in [DOMAIN known -> ObjType]
    /\ \A n \in DOMAIN known : known[n].in \subseteq Render(n, Features).in

(* The variables have their types; a pass has its status update ahead.     *)
TypeOK ==
    /\ cr \in CrType /\ (Webhook => Valid(cr.f))
    /\ IsStore(objs) /\ IsStore(cache)
    /\ DOMAIN pods \subseteq WithPods /\ pods \in [DOMAIN pods -> SUBSET Features]
    /\ status \in [gen : Nat, ready : BOOLEAN] /\ status.gen <= cr.gen
    /\ pass \in PassType
    /\ Busy => pass.gen \in 1 .. cr.gen /\ (Webhook => Valid(pass.f)) /\ Last(pass.todo).op = "status"
    /\ {creds, issued} \subseteq BOOLEAN
    /\ edits \in 0 .. MaxEdits /\ faults \in 0 .. MaxFaults

(* The StatefulSet of volume servers is not made while their DaemonSet     *)
(* exists, nor the other way round, however spec.volume.kind is flipped in *)
(* the middle of passes: except by a pass that looked for the other one and*)
(* was shown an out-of-date copy (the cache has not yet seen its creation).*)
Rival(n) == IF n = Volume THEN VolumeDs ELSE Volume
KindsApart ==
    [][\A n \in {Volume, VolumeDs} :
         ~Exists(n) /\ Exists(Rival(n)) /\ n \in DOMAIN objs' => Rival(n) \in pass.stale]_vars

(* A ConfigMap that somebody else made is not deleted, not even by a pass  *)
(* that still sees the operator's own in its place.                        *)
ForeignKept ==
    [][\A n \in ConfigMaps :
         Exists(n) /\ ~objs[n].owned => n \in DOMAIN objs' /\ ~objs'[n].owned]_vars

(* A StatefulSet that has volumeClaimTemplates is not deleted, except for a*)
(* DaemonSet: whatever becomes of the disks and the persistence in the     *)
(* spec, its pods and claims stay until somebody decides about them.       *)
ClaimsKept ==
    [][\A n \in {Volume, Group, Filer} :
         Exists(n) /\ objs[n].claims /\ cr.life = "exists" =>
           \/ n \in DOMAIN objs' /\ objs'[n].claims
           \/ n = Volume /\ "daemonset" \in pass.f]_vars

(* A Secret that a template mounts is there, or, the server's, the          *)
(* Certificate is that leads to it.                                        *)
Backed(in) ==
    \A secret \in tlsVolumesAndMounts(in) :
        CASE secret = Security -> Exists(Security) [] secret = Server -> issued \/ Exists(Server)

(* A workload is not given a template whose Secrets do not exist and are   *)
(* not about to: its pods would hang in ContainerCreating for good, and the*)
(* masters would hold up every pass. Except by a pass that was shown an    *)
(* out-of-date copy of the security Secret (one that is deleted already).  *)
MountsBacked ==
    [][\A w \in WithPods \cap DOMAIN objs' :
         cr.life = "exists" /\ (Exists(w) => objs[w].in # objs'[w].in) =>
           Backed(objs'[w].in) \/ Security \in pass.stale]_vars

(* The key that components sign with: the Secret's, before an upgraded     *)
(* operator has made the Secret the old ConfigMap's.                       *)
LiveKey == CASE Exists(Security) -> objs[Security].key
             [] ~Exists(Security) /\ Exists(OldSecurity) -> objs[OldSecurity].key
             [] OTHER -> 0

(* While the JWT section is asked for, its key does not change: not with   *)
(* restarts, nor when an upgrade moves it from the ConfigMap to the Secret *)
(* and fails half way, nor when TLS or other features change. Except by a  *)
(* pass that was shown an out-of-date copy of the Secret: it generates a   *)
(* key, finds the Secret by the time it writes, and overwrites the key.    *)
KeysKept ==
    [][Busy /\ "jwt" \in pass.f /\ LiveKey # 0 /\ LiveKey' # 0 =>
         LiveKey' = LiveKey \/ Security \in pass.stale]_vars

(* What the CR asks for. The removal of the filer, admin or worker section *)
(* removes nothing.                                                        *)
Workloads(f) ==
    {Master}
    \cup (CASE "topology" \in f -> {Group}
            [] "topology" \notin f /\ "daemonset" \in f -> {VolumeDs}
            [] {"topology", "daemonset"} \cap f = {} /\ "noBase" \in f -> {}
            [] OTHER -> {Volume})
    \cup {w \in {Filer, Admin, Worker, S3, Sftp} :
            w[1] \in f /\ (w \in {S3, Sftp} => "filer" \in f) /\ (w = Worker => "admin" \in f)}
    \cup {<<m, "dep">> : m \in Mirrored(f)}

(* What the operator is to remove when the CR does not ask for it.         *)
Unwanted(f) ==
    ({S3, Sftp, Mirror, Mirror2} \ Workloads(f))
    \cup {<<w[1], "svc">> : w \in {S3, Sftp} \ Workloads(f)}
    \cup (CASE Volume \in Workloads(f) -> {VolumeDs} [] VolumeDs \in Workloads(f) -> {Volume} [] OTHER -> {})
    \cup (IF Worker \in Workloads(f) THEN {OldWorker, OldWorkerPeer} ELSE {})
    \cup (IF securityConfigNeeded(f) THEN {} ELSE {Security, OldSecurity})
    \cup (IF {"filer", "config"} \cap f = {"filer"} THEN {FilerConfig} ELSE {})
    \cup (IF "masterConfig" \in f THEN {} ELSE {MasterConfig})

(* The cluster is what the CR asks for, its pods run the templates, and the*)
(* status says so.                                                         *)
Settled ==
    /\ \A w \in Workloads(cr.f) :
         /\ Exists(w) /\ objs[w].in = Render(w, cr.f).in /\ (Render(w, cr.f).claims => objs[w].claims)
         /\ w \in DOMAIN pods /\ pods[w] = objs[w].in
    /\ \A n \in Unwanted(cr.f) : (Exists(n) => n \in ConfigMaps /\ ~objs[n].owned) /\ n \notin DOMAIN pods
    /\ FilerIngress \in Wanted(cr.f) <=> Exists(FilerIngress)
    /\ {"s3", "filer", "s3Ingress"} \subseteq cr.f =>
         Exists(S3Ingress) /\ objs[S3Ingress].in = {"s3"}
    /\ status.gen = cr.gen

(* The cases in which Ready stays False although everything runs: the pods *)
(* of a base that topology groups have replaced are counted, and so are    *)
(* those it would have; a gateway without a filer is waited for.           *)
NeverReady ==
    \/ {"s3", "sftp"} \cap cr.f # {} /\ "filer" \notin cr.f
    \/ "topology" \in cr.f /\ IF "daemonset" \in cr.f THEN ~Exists(VolumeDs)
                              ELSE "noBase" \in cr.f <=> Exists(Volume)

(* A DaemonSet of volume servers without host paths ends every pass; the   *)
(* webhook refuses such a CR, if there is one.                             *)
Refused == "daemonset" \in cr.f /\ {"hostPath", "topology"} \cap cr.f = {}

(* In the end the objects are those of the last edit, and those of a       *)
(* deleted CR are gone.                                                    *)
Converges ==
    /\ <>[](cr.life = "exists" => Refused \/ (Settled /\ (status.ready \/ NeverReady)))
    /\ <>[](cr.life = "deleted" => Owned = {})

(***************************************************************************)
(* Formulas that TLC refutes: what a doc, a comment or a reader expects    *)
(* and the code does not keep. README.md, "Observations", has the constants*)
(***************************************************************************)
(* A requested SFTP Ingress is there to stay.                              *)
SftpIngressStays ==
    <>[](cr.life = "exists" /\ {"sftp", "filer", "sftpIngress"} \subseteq cr.f => Exists(SFTPIngress))

(* A feature that changes the pods reaches the gateways.                   *)
GatewaysFollow ==
    <>[](cr.life = "exists" /\ {"s3", "filer"} \subseteq cr.f => S3 \in DOMAIN pods /\ pods[S3] = buildS3Deployment(cr.f).in)

(* The pods of the one kind of volume servers are gone before those of the *)
(* other start, on the same host paths.                                    *)
PodsApart == ~({Volume, VolumeDs} \subseteq DOMAIN pods)

(* Volume servers that are scaled to zero are stopped.                     *)
BaseStops == <>[](cr.life = "exists" /\ "noBase" \in cr.f => Volume \notin DOMAIN pods)
=============================================================================
