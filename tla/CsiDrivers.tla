----------------------------- MODULE CsiDrivers -----------------------------
(***************************************************************************)
(* The SeaweedCSIDriver controller: the CSI driver's workloads in the      *)
(* namespace of the CR, which Kubernetes removes with the CR, and four     *)
(* kinds of cluster-scoped objects, which have no owner and are removed by *)
(* the finalizer. One worker reconciles the CRs one after the other;       *)
(* people edit them, and Kubernetes collects garbage, at any moment.       *)
(***************************************************************************)
EXTENDS Integers, FiniteSets

CONSTANTS
    MaxDrivers,   \* how many CRs there may be
    SameDriver,   \* do they ask for the same driverName
    SameName,     \* do they have the same name, each in its namespace
    MaxEdits,     \* bound: what people change
    MaxFaults     \* bound: failed calls and restarts

ASSUME BoundsAssumption ==
    /\ MaxDrivers \in Nat \ {0} /\ {SameDriver, SameName} \subseteq BOOLEAN
    /\ MaxEdits \in Nat /\ MaxFaults \in Nat

Drivers == 1 .. MaxDrivers
None == 0
Admin == MaxDrivers + 1      \* who is not the operator

(* The name of a CR is the instance label of its objects (csiInstanceLabels*)
(* and gives the names of its RBAC objects; the namespace is in neither.   *)
NameOf(d) == IF SameName THEN 1 ELSE d
DriverNameOf(d) == IF SameDriver THEN 1 ELSE d
GivenName == MaxDrivers + 1  \* the name of a StorageClass that the spec gives
ClassNames == Drivers \cup {GivenName}

(* The CR: a reference to a Seaweed or an external filer, the StorageClass *)
(* it asks for (its default name is the driver name) and what the class is *)
(* to say (parameters, reclaim policy, binding mode), the attacher, the    *)
(* mount service.                                                          *)
NoCr == [exists |-> FALSE, deleting |-> FALSE, fin |-> FALSE, ref |-> TRUE,
         class |-> "none", params |-> FALSE, attach |-> TRUE, mount |-> TRUE, phase |-> "none"]
NewCr == [NoCr EXCEPT !.exists = TRUE, !.class = "dflt"]

NoObject == [inst |-> None, attach |-> FALSE]
NoClass == [inst |-> None, prov |-> None, params |-> FALSE]
NoWork == [owner |-> "none", controller |-> "none", node |-> "none", mount |-> FALSE, up |-> {}]
IdlePass == [pc |-> "idle", d |-> None, o |-> NoCr, stale |-> FALSE]

VARIABLES
    cr,       \* the SeaweedCSIDriver CRs
    older,    \* the pairs of CRs whose first has the earlier creation time, or
              \* the same one and the smaller UID
    recent,   \* the CRs created within this second
    tied,     \* the pairs of CRs whose first has come before the second, which was
              \* there, by its UID
    reach,    \* the Seaweed they refer to exists, and the grant if it takes one
    rbac,     \* ClusterRoles and bindings by name: the CR whose account they name
    object,   \* CSIDriver objects by driver name
    class,    \* StorageClasses by name
    work,     \* the namespaced objects of a CR: whose, the filer the workloads
              \* are rendered with, whether nodes are to run the plugin, and what
              \* is ready
    pass,     \* the controller's pass
    edits, faults

crVars == <<cr, older, recent, tied>>
clusterVars == <<rbac, object, class>>
vars == <<crVars, reach, clusterVars, work, pass, edits, faults>>

Fault == faults < MaxFaults /\ faults' = faults + 1
Edit == edits < MaxEdits /\ edits' = edits + 1

(***************************************************************************)
(* Who owns a driver name.                                                 *)
(***************************************************************************)
MutOthersTurn(other, d) == <<d, other>> \in older

othersTurn(other, d) == <<other, d>> \in older

driverNameConflict(d) ==
    \E other \in Drivers \ {d} :
        /\ cr[other].exists /\ ~cr[other].deleting
        /\ DriverNameOf(other) = DriverNameOf(d)
        /\ othersTurn(other, d)

(* resolveFiler: the address of the Seaweed referred to, or the given one. *)
filerAddress(o) == IF o.ref THEN "seaweed" ELSE "given"

storageClassName(d, o) == IF o.class = "named" THEN GivenName ELSE DriverNameOf(d)

(* What the properties tell apart of the rendered objects.                 *)
buildControllerDeployment(o) == filerAddress(o)
buildNodeDaemonSet(o) == filerAddress(o)
buildMountDaemonSet(o) == o.mount
buildCSIDriverObject(d, o) == [inst |-> NameOf(d), attach |-> o.attach]
buildStorageClass(d, o) == [inst |-> NameOf(d), prov |-> DriverNameOf(d), params |-> o.params]

(***************************************************************************)
(* A pass. A write of the CR fails when the CR was edited in the meantime. *)
(***************************************************************************)
Ends == pass' = IdlePass
GoesTo(pc) == pass' = [pass EXCEPT !.pc = pc]

EndsWith(phase) ==
    /\ Ends
    /\ cr' = IF pass.stale THEN cr ELSE [cr EXCEPT ![pass.d].phase = phase]

(* The head of Reconcile, up to the first object it touches: deletion, the *)
(* finalizer, the driver name, the filer.                                  *)
MutBegin(d) ==
    /\ pass.pc = "idle" /\ cr[d].exists
    /\ LET o == cr[d]
           p == [pc |-> "rbac", d |-> d, o |-> o, stale |-> FALSE]
       IN  CASE o.deleting -> cr' = cr /\ pass' = [p EXCEPT !.pc = "unbind"]
             [] ~o.deleting /\ driverNameConflict(d) ->
                  cr' = [cr EXCEPT ![d].phase = "Failed"] /\ Ends
             [] ~o.deleting /\ ~driverNameConflict(d) /\ o.ref /\ ~reach ->
                  cr' = [cr EXCEPT ![d].phase = "Pending"] /\ Ends
             [] OTHER -> cr' = cr /\ pass' = p
    /\ UNCHANGED <<older, recent, tied, reach, clusterVars, work, edits, faults>>

Begin(d) ==
    /\ pass.pc = "idle" /\ cr[d].exists
    /\ LET o == cr[d]
           p == [pc |-> "rbac", d |-> d, o |-> o, stale |-> FALSE]
       IN  CASE o.deleting -> cr' = cr /\ pass' = [p EXCEPT !.pc = "unbind"]
             [] ~o.deleting /\ ~o.fin -> cr' = [cr EXCEPT ![d].fin = TRUE] /\ Ends
             [] ~o.deleting /\ o.fin /\ driverNameConflict(d) ->
                  cr' = [cr EXCEPT ![d].phase = "Failed"] /\ Ends
             [] ~o.deleting /\ o.fin /\ ~driverNameConflict(d) /\ o.ref /\ ~reach ->
                  cr' = [cr EXCEPT ![d].phase = "Pending"] /\ Ends
             [] OTHER -> cr' = cr /\ pass' = p
    /\ UNCHANGED <<older, recent, tied, reach, clusterVars, work, edits, faults>>

(* ensureServiceAccounts and ensureRBAC: two ClusterRoles and bindings. The*)
(* namespaced accounts and roles must not be those of an earlier CR that   *)
(* are yet to be collected (SetControllerReference).                       *)
ensureRBAC ==
    /\ pass.pc = "rbac"
    /\ IF work[pass.d].owner = "gone"
         THEN EndsWith("Failed") /\ UNCHANGED <<rbac, work>>
         ELSE /\ rbac' = [rbac EXCEPT ![NameOf(pass.d)] = pass.d]
              /\ work' = [work EXCEPT ![pass.d].owner = IF @ = "none" THEN "cr" ELSE @]
              /\ GoesTo("object") /\ cr' = cr
    /\ UNCHANGED <<older, recent, tied, reach, object, class, edits, faults>>

(* attachRequired is immutable: an object with the other value is deleted, *)
(* and created by the next pass.                                           *)
MutEnsureObject ==
    /\ pass.pc = "object"
    /\ LET n == DriverNameOf(pass.d)
       IN  IF object[n].inst # None /\ object[n].attach # pass.o.attach
             THEN EndsWith("Failed") /\ object' = object
             ELSE /\ object' = [object EXCEPT ![n] = buildCSIDriverObject(pass.d, pass.o)]
                  /\ GoesTo("controller") /\ cr' = cr
    /\ UNCHANGED <<older, recent, tied, reach, rbac, class, work, edits, faults>>

ensureCSIDriverObject ==
    /\ pass.pc = "object"
    /\ LET n == DriverNameOf(pass.d)
       IN  object' = [object EXCEPT ![n] =
                        IF @.inst # None /\ @.attach # pass.o.attach THEN NoObject
                        ELSE buildCSIDriverObject(pass.d, pass.o)]
    /\ GoesTo("controller")
    /\ UNCHANGED <<crVars, reach, rbac, class, work, edits, faults>>

(* The workloads; without the mount service its DaemonSet is deleted.      *)
ensureControllerDeployment ==
    /\ pass.pc = "controller"
    /\ work' = [work EXCEPT ![pass.d].controller = buildControllerDeployment(pass.o)]
    /\ GoesTo("node")
    /\ UNCHANGED <<crVars, reach, clusterVars, edits, faults>>

ensureNodeDaemonSet ==
    /\ pass.pc = "node"
    /\ work' = [work EXCEPT ![pass.d].node = buildNodeDaemonSet(pass.o)]
    /\ GoesTo("mount")
    /\ UNCHANGED <<crVars, reach, clusterVars, edits, faults>>

ensureMountDaemonSet ==
    /\ pass.pc = "mount"
    /\ work' = [work EXCEPT ![pass.d].mount = buildMountDaemonSet(pass.o)]
    /\ GoesTo("class")
    /\ UNCHANGED <<crVars, reach, clusterVars, edits, faults>>

(* The StorageClass: deleted when the spec has none. The API refuses an    *)
(* update of the provisioner, parameters, reclaim policy or binding mode.  *)
Differs(old, new) == old # NoClass /\ <<old.prov, old.params>> # <<new.prov, new.params>>

ensureStorageClass ==
    /\ pass.pc = "class"
    /\ LET n == storageClassName(pass.d, pass.o)
           new == buildStorageClass(pass.d, pass.o)
       IN  IF pass.o.class # "none" /\ Differs(class[n], new)
             THEN EndsWith("Failed") /\ class' = class
             ELSE /\ class' = [class EXCEPT ![n] = IF pass.o.class = "none" THEN NoClass ELSE new]
                  /\ GoesTo("status") /\ cr' = cr
    /\ UNCHANGED <<older, recent, tied, reach, rbac, object, work, edits, faults>>

(* refreshStatus: what is ready, without a look at the cluster objects. A  *)
(* DaemonSet that no node is to run is ready. (A workload that is not in   *)
(* the cache leaves the phase as it was: the first disjunct of Fails.)     *)
nodeReady(up) == "scheduled" \in up => "node" \in up

refreshStatus ==
    /\ pass.pc = "status"
    /\ LET up == work[pass.d].up
       IN  EndsWith(IF "controller" \in up /\ nodeReady(up) THEN "Ready"
                    ELSE IF up \cap {"controller", "node"} # {} THEN "Degraded" ELSE "Pending")
    /\ UNCHANGED <<older, recent, tied, reach, clusterVars, work, edits, faults>>

(* handleDeletion: the RBAC objects with the label; the CSIDriver object,  *)
(* unless an older CR claims the name; the StorageClass with the label; and*)
(* last the finalizer, with which the CR goes.                             *)
MutDeleteRBAC ==
    /\ pass.pc = "unbind"
    /\ IF pass.o.phase \in {"Ready", "Degraded"}
         THEN rbac' = [rbac EXCEPT ![NameOf(pass.d)] = None] /\ GoesTo("unregister")
         ELSE rbac' = rbac /\ GoesTo("finalize")
    /\ UNCHANGED <<crVars, reach, object, class, work, edits, faults>>

DeleteRBAC ==
    /\ pass.pc = "unbind"
    /\ rbac' = [rbac EXCEPT ![NameOf(pass.d)] = None]
    /\ GoesTo("unregister")
    /\ UNCHANGED <<crVars, reach, object, class, work, edits, faults>>

DeleteObject ==
    /\ pass.pc = "unregister"
    /\ object' = IF driverNameConflict(pass.d) THEN object
                 ELSE [object EXCEPT ![DriverNameOf(pass.d)] = NoObject]
    /\ GoesTo("unclass")
    /\ UNCHANGED <<crVars, reach, rbac, class, work, edits, faults>>

DeleteClass ==
    /\ pass.pc = "unclass"
    /\ LET n == storageClassName(pass.d, pass.o)
       IN  class' = IF pass.o.class # "none" /\ class[n].inst = NameOf(pass.d)
                      THEN [class EXCEPT ![n] = NoClass] ELSE class
    /\ GoesTo("finalize")
    /\ UNCHANGED <<crVars, reach, rbac, object, work, edits, faults>>

(* The CR goes; its namespaced objects are left to the garbage collector.  *)
Gone(d) ==
    /\ cr' = [cr EXCEPT ![d] = NoCr]
    /\ older' = {p \in older : d \notin {p[1], p[2]}}
    /\ work' = [work EXCEPT ![d].owner = IF @ = "none" THEN @ ELSE "gone"]

Finalize ==
    /\ pass.pc = "finalize" /\ Ends
    /\ IF pass.stale THEN UNCHANGED <<cr, older, work>> ELSE Gone(pass.d)
    /\ UNCHANGED <<recent, tied, reach, clusterVars, edits, faults>>

(* A call fails and the pass ends, in Failed while objects are ensured; or *)
(* the operator restarts.                                                  *)
Fails ==
    /\ pass.pc # "idle" /\ Fault
    /\ \/ Ends /\ cr' = cr
       \/ pass.pc \in {"rbac", "object", "controller", "node", "mount", "class"} /\ EndsWith("Failed")
    /\ UNCHANGED <<older, recent, tied, reach, clusterVars, work, edits>>

(***************************************************************************)
(* Kubernetes and people.                                                  *)
(***************************************************************************)
(* There are nodes for the DaemonSet, or none.                             *)
Schedule(d) ==
    /\ work[d].node # "none" /\ "scheduled" \notin work[d].up
    /\ work' = [work EXCEPT ![d].up = @ \cup {"scheduled"}]
    /\ UNCHANGED <<crVars, reach, clusterVars, pass, edits, faults>>

PodsReady(d) ==
    /\ work[d].owner = "cr"
    /\ \E c \in {"controller", "node"} \ work[d].up :
         /\ work[d][c] # "none" /\ (c = "node" => "scheduled" \in work[d].up)
         /\ work' = [work EXCEPT ![d].up = @ \cup {c}]
    /\ UNCHANGED <<crVars, reach, clusterVars, pass, edits, faults>>

Collect(d) ==
    /\ work[d].owner = "gone" /\ work' = [work EXCEPT ![d] = NoWork]
    /\ UNCHANGED <<crVars, reach, clusterVars, pass, edits, faults>>

NodeFails(d) ==
    /\ Fault /\ \E c \in work[d].up \ {"scheduled"} : work' = [work EXCEPT ![d].up = @ \ {c}]
    /\ UNCHANGED <<crVars, reach, clusterVars, pass, edits>>

Touched(d) == pass' = [pass EXCEPT !.stale = @ \/ pass.d = d]

(* A new CR comes after all others, except some of the same second, by its *)
(* UID.                                                                    *)
Create(d) ==
    /\ Edit /\ ~cr[d].exists
    /\ cr' = [cr EXCEPT ![d] = NewCr]
    /\ \E S \in SUBSET recent :
         /\ \A e \in S, f \in Drivers : <<e, f>> \in older => f \in S
         /\ older' = older \cup ({e \in Drivers : cr[e].exists} \ S) \X {d} \cup {d} \X S
         /\ tied' = tied \cup {d} \X S
    /\ recent' = recent \cup {d}
    /\ UNCHANGED <<reach, clusterVars, work, pass, faults>>

(* Other edits come later than that.                                       *)
Later == recent' = {} /\ tied' = tied

SecondPasses ==
    /\ recent # {} /\ Later
    /\ UNCHANGED <<cr, older, reach, clusterVars, work, pass, edits, faults>>

(* driverName is immutable; the rest of the spec may change.               *)
Change(d) ==
    /\ Edit /\ cr[d].exists /\ Touched(d)
    /\ \E o \in {[cr[d] EXCEPT !.class = "none"], [cr[d] EXCEPT !.class = "named"],
                 [cr[d] EXCEPT !.params = ~@], [cr[d] EXCEPT !.attach = ~@],
                 [cr[d] EXCEPT !.mount = ~@], [cr[d] EXCEPT !.ref = ~@]} :
         o # cr[d] /\ cr' = [cr EXCEPT ![d] = o]
    /\ Later
    /\ UNCHANGED <<older, reach, clusterVars, work, faults>>

Delete(d) ==
    /\ Edit /\ cr[d].exists /\ ~cr[d].deleting /\ Touched(d)
    /\ IF cr[d].fin THEN cr' = [cr EXCEPT ![d].deleting = TRUE] /\ UNCHANGED <<older, work>>
       ELSE Gone(d)
    /\ Later
    /\ UNCHANGED <<reach, clusterVars, faults>>

(* The Seaweed, or the grant to use it, comes or goes.                     *)
ClusterEdit ==
    /\ Edit /\ reach' = ~reach
    /\ Later
    /\ UNCHANGED <<cr, older, clusterVars, work, pass, faults>>

(* One CR, and perhaps a StorageClass of the administrator's by the name   *)
(* of the driver.                                                          *)
Init ==
    /\ cr = [d \in Drivers |-> IF d = 1 THEN NewCr ELSE NoCr]
    /\ older = {} /\ recent = {1} /\ tied = {} /\ reach = TRUE
    /\ rbac = [d \in Drivers |-> None] /\ object = [d \in Drivers |-> NoObject]
    /\ \E c \in {NoClass} \cup [inst : {Admin}, prov : {DriverNameOf(1)}, params : BOOLEAN] :
         class = [n \in ClassNames |-> IF n = DriverNameOf(1) THEN c ELSE NoClass]
    /\ work = [d \in Drivers |-> NoWork] /\ pass = IdlePass
    /\ edits = 0 /\ faults = 0

PassStep ==
    \/ ensureRBAC \/ ensureCSIDriverObject \/ ensureControllerDeployment \/ ensureNodeDaemonSet
    \/ ensureMountDaemonSet \/ ensureStorageClass
    \/ refreshStatus \/ DeleteRBAC \/ DeleteObject \/ DeleteClass \/ Finalize

Next ==
    \/ PassStep \/ Fails \/ SecondPasses \/ ClusterEdit
    \/ \E d \in Drivers :
         \/ Begin(d) \/ Schedule(d) \/ PodsReady(d) \/ Collect(d) \/ NodeFails(d)
         \/ Create(d) \/ Change(d) \/ Delete(d)

Spec == Init /\ [][Next]_vars

(* Every CR comes up again, after 5 s or a minute (csiResyncInterval), even*)
(* if the worker was busy with another; Kubernetes starts pods and collects*)
(* garbage.                                                                *)
Fairness ==
    /\ WF_vars(PassStep)
    /\ \A d \in Drivers : SF_vars(Begin(d)) /\ WF_vars(PodsReady(d)) /\ WF_vars(Collect(d))

FairSpec == Spec /\ Fairness

(***************************************************************************)
(* Properties.                                                             *)
(***************************************************************************)

CrType ==
    [exists : BOOLEAN, deleting : BOOLEAN, fin : BOOLEAN, ref : BOOLEAN,
     class : {"none", "dflt", "named"}, params : BOOLEAN, attach : BOOLEAN, mount : BOOLEAN,
     phase : {"none", "Pending", "Ready", "Degraded", "Failed"}]
WorkType ==
    [owner : {"none", "cr", "gone"}, controller : {"none", "seaweed", "given"},
     node : {"none", "seaweed", "given"}, mount : BOOLEAN, up : SUBSET {"controller", "scheduled", "node"}]
PassType ==
    [pc : {"idle", "rbac", "object", "controller", "node", "mount", "class", "status",
           "unbind", "unregister", "unclass", "finalize"},
     d : Drivers \cup {None}, o : CrType, stale : BOOLEAN]

WorkDone(w) ==
    /\ "controller" \in w.up => w.controller # "none"
    /\ "node" \in w.up => "scheduled" \in w.up
    /\ "scheduled" \in w.up => w.node # "none"
    /\ w.owner = "none" => w.node = "none"

(* The variables have their types; of any two CRs one is the older; a CR   *)
(* that is being deleted has the finalizer, a pass works on a CR that is   *)
(* there, what is ready was deployed, and workloads have an owner.         *)
TypeOK ==
    /\ cr \in [Drivers -> CrType]
    /\ \A d \in Drivers : cr[d].deleting => cr[d].fin
    /\ older \subseteq Drivers \X Drivers
    /\ \A p \in older : cr[p[1]].exists /\ cr[p[2]].exists /\ <<p[2], p[1]>> \notin older
    /\ \A d, e \in Drivers :
         cr[d].exists /\ cr[e].exists /\ d # e => <<d, e>> \in older \/ <<e, d>> \in older
    /\ recent \subseteq {d \in Drivers : cr[d].exists /\ ~cr[d].deleting}
    /\ tied \subseteq Drivers \X Drivers /\ reach \in BOOLEAN
    /\ rbac \in [Drivers -> Drivers \cup {None}]
    /\ object \in [Drivers -> [inst : Drivers \cup {None}, attach : BOOLEAN]]
    /\ class \in [ClassNames -> [inst : 0 .. Admin, prov : 0 .. Admin, params : BOOLEAN]]
    /\ work \in [Drivers -> WorkType]
    /\ \A d \in Drivers : WorkDone(work[d])
    /\ pass \in PassType
    /\ pass.pc # "idle" => pass.d \in Drivers /\ cr[pass.d].exists
    /\ edits \in 0 .. MaxEdits /\ faults \in 0 .. MaxFaults

(* The node plugin of a CR runs until Kubernetes collects it, which is on  *)
(* its way once the CR is deleted.                                         *)
NodePlugin(d) == work[d].node # "none"
Leaving(d) == work[d].owner = "gone" \/ cr[d].deleting

(* Two node plugins of one driver name (the kubelet of a node has two      *)
(* registrations of the driver) are a handover, and no more: one of them   *)
(* belongs to a CR that is deleted or gone, which driverNameConflict skips *)
(* although its DaemonSet still runs; or the two CRs are of the same second*)
(* and the later one came first by its UID, after the other had deployed.  *)
OneRegistrar ==
    \A d, e \in Drivers :
        d # e /\ DriverNameOf(d) = DriverNameOf(e) /\ NodePlugin(d) /\ NodePlugin(e) =>
            Leaving(d) \/ Leaving(e) \/ <<d, e>> \in tied \/ <<e, d>> \in tied

(* The finalizer leaves nothing behind: when a CR is gone, however its last*)
(* passes were cut short, so are its RBAC objects and, unless another CR   *)
(* claims the driver name, the CSIDriver object (that again without ties). *)
NoLeftovers ==
    \A d \in Drivers :
        ~cr[d].exists =>
          /\ (\A e \in Drivers : cr[e].exists => NameOf(e) # NameOf(d)) => rbac[NameOf(d)] = None
          /\ tied = {} /\ (\A e \in Drivers : cr[e].exists => DriverNameOf(e) # DriverNameOf(d)) =>
                object[DriverNameOf(d)] = NoObject

Owner(d) == cr[d].exists /\ ~cr[d].deleting /\ ~driverNameConflict(d)

(* What a CR is promised once it owns the driver name.                     *)
IsServed(d) ==
    /\ cr[d].phase = "Ready" /\ work[d].mount = cr[d].mount
    /\ work[d].controller = filerAddress(cr[d]) /\ work[d].node = filerAddress(cr[d])
    /\ rbac[NameOf(d)] = d
    /\ object[DriverNameOf(d)] = [inst |-> NameOf(d), attach |-> cr[d].attach]
    /\ cr[d].class # "none" => class[storageClassName(d, cr[d])] = buildStorageClass(d, cr[d])

(* A StorageClass of the name is there and says something else.            *)
ClassRefused(d) ==
    cr[d].class # "none" /\ Differs(class[storageClassName(d, cr[d])], buildStorageClass(d, cr[d]))

(* In the end every driver name has its oldest CR served, with the objects *)
(* its spec asks for, or, where the API refuses the StorageClass, in       *)
(* Failed; the others report the conflict, and the deleted ones are gone;  *)
(* and so are their node plugins, for two of one name remain only to CRs   *)
(* with a tie (markConflict removes nothing).                              *)
CsiSettles ==
    /\ \A d \in Drivers :
        /\ <>[](Owner(d) /\ (reach \/ ~cr[d].ref) =>
                  IF ClassRefused(d) THEN cr[d].phase = "Failed" ELSE IsServed(d))
        /\ <>[](cr[d].exists => ~cr[d].deleting)
        /\ <>[](cr[d].exists /\ driverNameConflict(d) => cr[d].phase = "Failed")
    /\ \A d, e \in Drivers :
        d # e /\ DriverNameOf(d) = DriverNameOf(e) =>
            <>[](NodePlugin(d) /\ NodePlugin(e) => <<d, e>> \in tied \/ <<e, d>> \in tied)

(***************************************************************************)
(* Formulas that TLC refutes: what a doc, a comment or a reader expects    *)
(* and the code does not keep. README.md, "Observations", has the constants*)
(***************************************************************************)
(* The CSIDriver object stays while another CR claims its driver name.     *)
SharedObjectKept ==
    [][\A d \in Drivers :
         pass.pc = "unregister" /\ pass.d = d /\ object[DriverNameOf(d)] # NoObject
         /\ (\E e \in Drivers \ {d} : NodePlugin(e) /\ ~Leaving(e) /\ DriverNameOf(e) = DriverNameOf(d))
         => object'[DriverNameOf(d)] # NoObject]_vars

(* A StorageClass of the administrator's stays.                            *)
AdminClassKept ==
    [][\A n \in ClassNames : class[n].inst = Admin => class'[n] # NoClass]_vars

(* CRs of different namespaces have RBAC objects of their own.             *)
RbacNotShared ==
    [][\A d \in Drivers :
         rbac[NameOf(d)] = d /\ cr[d].exists /\ rbac'[NameOf(d)] # rbac[NameOf(d)] => pass.d = d]_vars
=============================================================================
