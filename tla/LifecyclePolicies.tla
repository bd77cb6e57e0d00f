-------------------------- MODULE LifecyclePolicies --------------------------
(***************************************************************************)
(* BucketLifecyclePolicy CRs of one Bucket. The lifecycle configuration is *)
(* one attribute of the bucket's filer entry, so one policy owns it: the   *)
(* oldest. The entry holds other things as well (the Bucket controller's   *)
(* quota, owner and lock), and everyone who changes it reads it and writes *)
(* it back whole, without a lock or a version.                             *)
(***************************************************************************)
EXTENDS Integers

CONSTANTS
    Policies,   \* policies, as numbers in the order of their names
    MaxEdits,   \* bound: what people change
    MaxFaults   \* bound: failed calls and restarts

ASSUME PoliciesAssumption == Policies \subseteq Nat \ {0}
ASSUME BoundsAssumption == MaxEdits \in Nat /\ MaxFaults \in Nat

(* The rules a policy may declare; each says whose they are.               *)
RulesOf(p) == {p} \X (1 .. 2)
NoRules == <<0, 0>>
AllRules == (UNION {RulesOf(p) : p \in Policies}) \cup {NoRules}

Births == 1 .. 2   \* creation times, in seconds: policies may share one
Phases == {"none", "Pending", "Ready", "Failed", "Terminating"}

(* The Bucket controller's part of the entry that an instance is about: a  *)
(* quota or an owner (the object lock is gated as an owner is).            *)
Attributes == {"quota", "owner"}

NoPolicy(p) ==
    [exists |-> FALSE, birth |-> 1, rules |-> <<p, 1>>, retain |-> FALSE, deleting |-> FALSE,
     fin |-> FALSE, mark |-> FALSE, phase |-> "none"]

VARIABLES
    policy,    \* the CRs; mark stands for status.bucketName and cluster
    bucket,    \* the Bucket CR: none, new (not provisioned), ready
    cluster,   \* the Seaweed CR is there
    entry,     \* the bucket's filer entry
    ttl,       \* filer.conf has day-TTLs for the bucket from older versions
    attr,      \* which attribute it is (never changes)
    spec,      \* 1: the Bucket CR sets it, 0: it does not
    recorded,  \* the same in the Bucket CR's status
    pass,      \* the lifecycle controller's pass
    peer,      \* the Bucket controller's open write of the entry
    edits, faults

bucketVars == <<bucket, attr, spec, recorded>>
crVars == <<policy, cluster, bucketVars>>
filerVars == <<entry, ttl>>
vars == <<crVars, filerVars, pass, peer, edits, faults>>

(* Not in the code, and for the properties only. back: these rules had been*)
(* replaced and an old copy brought them back. lost: the attribute is not  *)
(* as the Bucket controller last put it on record, for an old copy undid   *)
(* that, or a pass changed it and could not record it.                     *)
Entries ==
    [up : BOOLEAN, rules : AllRules, value : 0 .. 1, back : BOOLEAN, lost : BOOLEAN]
NoEntry == [up |-> FALSE, rules |-> NoRules, value |-> 0, back |-> FALSE, lost |-> FALSE]
(* A pass; gone: its deletion found no cluster to clean up (for the        *)
(* properties, as is back).                                                *)
Idle == [pc |-> "idle", p |-> 0, stale |-> FALSE, gone |-> FALSE, want |-> NoRules, buf |-> NoEntry]
NoPeer == [open |-> FALSE, stale |-> FALSE, buf |-> NoEntry]

Fault == faults < MaxFaults /\ faults' = faults + 1
Edit == edits < MaxEdits /\ edits' = edits + 1

(***************************************************************************)
(* Ownership.                                                              *)
(***************************************************************************)
policyPrecedes(p, q) ==
    policy[p].birth < policy[q].birth \/ (policy[p].birth = policy[q].birth /\ p < q)

(* A policy that is being deleted hands over to the next.                  *)
Claimants == {p \in Policies : policy[p].exists /\ ~policy[p].deleting}
bucketOwner(p) ==
    CHOOSE q \in Claimants \cup {p} : \A o \in (Claimants \cup {p}) \ {q} : policyPrecedes(q, o)

(***************************************************************************)
(* The pass.                                                               *)
(***************************************************************************)

(* The one status write at the end of a pass; an old copy cannot make it.  *)
EndWith(p, o) ==
    /\ pass' = Idle
    /\ policy' = IF pass.stale THEN policy ELSE [policy EXCEPT ![p] = o]

(* Mutant: one failure phase for all.                                      *)
MutFailPhase(p) == EndWith(p, [policy[p] EXCEPT !.phase = "Terminating"])

(* A dependency is missing; another policy is the owner and this one gives *)
(* up its claim to clean up; a call failed, of a live policy or a deletion.*)
Pending(p) == EndWith(p, [policy[p] EXCEPT !.phase = "Pending"])
Conflict(p) == EndWith(p, [policy[p] EXCEPT !.phase = "Failed", !.mark = FALSE])
failPhase(p) == EndWith(p, [policy[p] EXCEPT !.phase = "Failed"])
cleanupFailed(p) == EndWith(p, [policy[p] EXCEPT !.phase = "Terminating"])
PassTo(x) == pass' = x /\ policy' = policy

(* The head of Reconcile, up to the first call to the filer.               *)
Reconcile(p) ==
    /\ pass.pc = "idle" /\ policy[p].exists /\ ~policy[p].deleting
    /\ CASE ~policy[p].fin -> EndWith(p, [policy[p] EXCEPT !.fin = TRUE])
         [] policy[p].fin /\ bucket # "ready" -> Pending(p)
         [] policy[p].fin /\ bucket = "ready" /\ bucketOwner(p) # p -> Conflict(p)
         [] policy[p].fin /\ bucket = "ready" /\ bucketOwner(p) = p /\ ~cluster -> Pending(p)
         [] OTHER -> PassTo([Idle EXCEPT !.pc = "apply", !.p = p, !.want = policy[p].rules])
    /\ UNCHANGED <<cluster, bucketVars, filerVars, peer, edits, faults>>

ClearLegacyBucketTTLs == ttl' = FALSE

(* Configurations are the same when they declare the same rules.           *)
lifecycleConfigEqual(current, desired) == current = desired

(* reconcilePolicy: the old TTLs go, and GetBucketLifecycle reads the entry*)
(* (a missing one fails the policy); it is written if the rules differ.    *)
Apply ==
    /\ pass.pc = "apply" /\ ClearLegacyBucketTTLs /\ entry' = entry
    /\ IF ~entry.up
         THEN failPhase(pass.p)
         ELSE PassTo(IF lifecycleConfigEqual(entry.rules, pass.want)
                       THEN [pass EXCEPT !.pc = "status"] ELSE [pass EXCEPT !.pc = "set"])
    /\ UNCHANGED <<cluster, bucketVars, peer, edits, faults>>

(* SetBucketLifecycle looks the entry up again: the copy with new rules.   *)
WithRules(r) == [entry EXCEPT !.rules = r, !.back = FALSE]

LookupEntry ==
    /\ pass.pc = "set"
    /\ IF entry.up
         THEN PassTo([pass EXCEPT !.pc = "write", !.buf = WithRules(pass.want)])
         ELSE failPhase(pass.p)
    /\ UNCHANGED <<cluster, bucketVars, filerVars, peer, edits, faults>>

(* UpdateEntry writes a copy whole, whatever has changed since it was read.*)
UpdateEntry(copy) ==
    entry' = [copy EXCEPT !.lost = (copy.value # entry.value) \/ entry.lost]

(* It fails when the entry is gone.                                        *)
WriteEntry ==
    /\ pass.pc = "write"
    /\ IF entry.up
         THEN UpdateEntry(pass.buf) /\ PassTo([pass EXCEPT !.pc = "status", !.buf = NoEntry])
         ELSE entry' = entry /\ failPhase(pass.p)
    /\ UNCHANGED <<cluster, bucketVars, ttl, peer, edits, faults>>

Ready ==
    /\ pass.pc = "status"
    /\ EndWith(pass.p, [policy[pass.p] EXCEPT !.phase = "Ready", !.mark = TRUE])
    /\ UNCHANGED <<cluster, bucketVars, filerVars, peer, edits, faults>>

(* handleDeletion: what the status records was applied is removed, unless  *)
(* it is to be retained or the cluster is gone.                            *)
MutHandleDeletion(p) ==
    /\ pass.pc = "idle" /\ policy[p].exists /\ policy[p].deleting
    /\ LET cleans == policy[p].mark /\ ~policy[p].retain /\ cluster /\ bucket # "none"
       IN  PassTo([Idle EXCEPT !.p = p, !.gone = ~cluster, !.pc = IF cleans THEN "cleanup" ELSE "finalize"])
    /\ UNCHANGED <<cluster, bucketVars, filerVars, peer, edits, faults>>

handleDeletion(p) ==
    /\ pass.pc = "idle" /\ policy[p].exists /\ policy[p].deleting
    /\ LET cleans == policy[p].mark /\ ~policy[p].retain /\ cluster
       IN  PassTo([Idle EXCEPT !.p = p, !.gone = ~cluster, !.pc = IF cleans THEN "cleanup" ELSE "finalize"])
    /\ UNCHANGED <<cluster, bucketVars, filerVars, peer, edits, faults>>

(* The old TTLs go, then SetBucketLifecycle(nil) looks the entry up; with  *)
(* no entry or no rules there is nothing to write.                         *)
Cleanup ==
    /\ pass.pc = "cleanup" /\ ClearLegacyBucketTTLs /\ entry' = entry
    /\ PassTo(IF entry.up /\ entry.rules # NoRules
                THEN [pass EXCEPT !.pc = "clear", !.buf = WithRules(NoRules)]
                ELSE [pass EXCEPT !.pc = "finalize"])
    /\ UNCHANGED <<cluster, bucketVars, peer, edits, faults>>

ClearEntry ==
    /\ pass.pc = "clear"
    /\ IF entry.up
         THEN UpdateEntry(pass.buf) /\ PassTo([pass EXCEPT !.pc = "finalize", !.buf = NoEntry])
         ELSE entry' = entry /\ cleanupFailed(pass.p)
    /\ UNCHANGED <<cluster, bucketVars, ttl, peer, edits, faults>>

removeFinalizer ==
    /\ pass.pc = "finalize"
    /\ EndWith(pass.p, NoPolicy(pass.p))
    /\ UNCHANGED <<cluster, bucketVars, filerVars, peer, edits, faults>>

(* A call fails, and then the status write of that too, or not.            *)
PassFails ==
    /\ pass.pc # "idle" /\ Fault
    /\ \/ PassTo(Idle)
       \/ pass.pc \in {"apply", "set", "write"} /\ failPhase(pass.p)
       \/ pass.pc \in {"cleanup", "clear"} /\ cleanupFailed(pass.p)
    /\ UNCHANGED <<cluster, bucketVars, filerVars, peer, edits>>

(***************************************************************************)
(* The Bucket controller, the cluster, people.                             *)
(***************************************************************************)

(* Mutant: a quota is set only when the status does not have it.           *)
MutPushes == spec # recorded

(* A quota that is set is pushed by every pass, a removed one removed while*)
(* the status has it; an owner is pushed when the status differs.          *)
Pushes == IF attr = "quota" THEN spec = 1 \/ recorded = 1 ELSE spec # recorded

(* SetQuota, RemoveQuota, SetOwner, RemoveOwner read the entry. Pushing    *)
(* what is there and on record matters only if another write comes between,*)
(* and that is counted as a fault.                                         *)
PeerReads ==
    /\ ~peer.open /\ cluster /\ bucket = "ready" /\ entry.up /\ Pushes
    /\ IF entry.value = spec /\ recorded = spec THEN Fault ELSE UNCHANGED faults
    /\ peer' = [open |-> TRUE, stale |-> FALSE, buf |-> [entry EXCEPT !.value = spec]]
    /\ UNCHANGED <<crVars, filerVars, pass, edits>>

(* They write it back, and the status records it, unless the CR has been   *)
(* edited or a call fails.                                                 *)
PeerWrites ==
    /\ peer.open /\ peer' = NoPeer
    /\ \E ok \in BOOLEAN :
         /\ IF ok \/ peer.stale \/ ~entry.up THEN UNCHANGED faults ELSE Fault
         /\ LET records == ok /\ ~peer.stale /\ entry.up
            IN  /\ entry' = IF entry.up
                              THEN [peer.buf EXCEPT !.back = @ \/ peer.buf.rules # entry.rules, !.lost = ~records]
                              ELSE entry
                /\ recorded' = IF records THEN peer.buf.value ELSE recorded
    /\ UNCHANGED <<policy, cluster, bucket, attr, spec, ttl, pass, edits>>

Provision ==
    /\ bucket = "new" /\ cluster /\ bucket' = "ready"
    /\ entry' = IF entry.up THEN entry ELSE [NoEntry EXCEPT !.up = TRUE]
    /\ UNCHANGED <<policy, cluster, attr, spec, recorded, ttl, pass, peer, edits, faults>>

(* The Bucket CR is deleted, and the bucket with it or not.                *)
BucketDeleted ==
    /\ Edit /\ bucket # "none" /\ bucket' = "none" /\ entry' \in {entry, NoEntry}
    /\ UNCHANGED <<policy, cluster, attr, spec, recorded, ttl, pass, peer, faults>>

BucketEdit ==
    /\ Edit /\ bucket # "none" /\ spec' = 1 - spec
    /\ peer' = [peer EXCEPT !.stale = peer.open]
    /\ UNCHANGED <<policy, cluster, bucket, attr, recorded, filerVars, pass, faults>>

ClusterEdit ==
    /\ Edit /\ cluster' = ~cluster
    /\ UNCHANGED <<policy, bucketVars, filerVars, pass, peer, faults>>

(* A policy is created (not before the others), edited, or deleted.        *)
PolicyEdit(p) ==
    /\ Edit
    /\ \/ /\ ~policy[p].exists
          /\ \E t \in Births :
               /\ \A q \in Policies : policy[q].exists => policy[q].birth <= t
               /\ policy' = [policy EXCEPT ![p] = [NoPolicy(p) EXCEPT !.exists = TRUE, !.birth = t]]
       \/ /\ policy[p].exists /\ ~policy[p].deleting
          /\ \E r \in RulesOf(p) \ {policy[p].rules} :
               policy' = [policy EXCEPT ![p].rules = r]
       \/ /\ policy[p].exists /\ ~policy[p].deleting
          /\ \E r \in BOOLEAN :
               policy' = [policy EXCEPT ![p] = IF @.fin THEN [@ EXCEPT !.deleting = TRUE, !.retain = r]
                                                       ELSE NoPolicy(p)]
    /\ pass' = [pass EXCEPT !.stale = @ \/ pass.p = p]
    /\ UNCHANGED <<cluster, bucketVars, filerVars, peer, faults>>

Restart ==
    /\ Fault /\ pass.pc # "idle" /\ PassTo(Idle)
    /\ UNCHANGED <<cluster, bucketVars, filerVars, peer, edits>>

(* The bucket's configuration is lost, or set by hand through the gateway. *)
Drift ==
    /\ Fault /\ entry.up /\ entry' = [entry EXCEPT !.rules = NoRules]
    /\ UNCHANGED <<crVars, ttl, pass, peer, edits>>

Init ==
    /\ \E x \in BOOLEAN : policy = [p \in Policies |-> [NoPolicy(p) EXCEPT !.exists = x]]
    /\ bucket = "new" /\ cluster = TRUE
    /\ attr \in Attributes /\ spec = 1 /\ recorded = 0
    /\ entry = NoEntry /\ ttl = TRUE
    /\ pass = Idle /\ peer = NoPeer /\ edits = 0 /\ faults = 0

PassStep ==
    Apply \/ LookupEntry \/ WriteEntry \/ Ready \/ Cleanup \/ ClearEntry \/ removeFinalizer

Next ==
    \/ \E p \in Policies : Reconcile(p) \/ handleDeletion(p) \/ PolicyEdit(p)
    \/ PassStep \/ PassFails \/ Restart \/ Drift
    \/ PeerReads \/ PeerWrites \/ Provision
    \/ BucketDeleted \/ BucketEdit \/ ClusterEdit

Spec == Init /\ [][Next]_vars

(* Every policy is queued again (ResyncInterval, 10 s while it is not      *)
(* Ready) and one worker serves them in turn; so is the Bucket.            *)
Fairness ==
    /\ \A p \in Policies : SF_vars(Reconcile(p)) /\ SF_vars(handleDeletion(p))
    /\ WF_vars(PassStep) /\ WF_vars(Provision) /\ SF_vars(PeerReads) /\ WF_vars(PeerWrites)

FairSpec == Spec /\ Fairness

(***************************************************************************)
(* Properties.                                                             *)
(***************************************************************************)

PolicyType ==
    [exists : BOOLEAN, birth : Births, rules : AllRules, retain : BOOLEAN, deleting : BOOLEAN,
     fin : BOOLEAN, mark : BOOLEAN, phase : Phases]

PassType ==
    [pc : {"idle", "apply", "set", "write", "status", "cleanup", "clear", "finalize"},
     p : Policies \cup {0}, stale : BOOLEAN, gone : BOOLEAN, want : AllRules, buf : Entries]

(* The variables have their types; a finalizer holds back a deletion, and  *)
(* only what is being deleted is Terminating.                              *)
TypeOK ==
    /\ policy \in [Policies -> PolicyType]
    /\ \A p \in Policies : /\ policy[p].deleting => policy[p].fin
                           /\ policy[p].phase = "Terminating" => policy[p].deleting
    /\ bucket \in {"none", "new", "ready"} /\ cluster \in BOOLEAN
    /\ attr \in Attributes /\ spec \in 0 .. 1 /\ recorded \in 0 .. 1
    /\ entry \in Entries /\ ttl \in BOOLEAN /\ pass \in PassType
    /\ peer \in [open : BOOLEAN, stale : BOOLEAN, buf : Entries]

(* A policy whose rules are on record as applied does not leave them       *)
(* behind: when its finalizer goes they are gone, unless they are to be    *)
(* retained, its deletion found no cluster, or another writer of the entry,*)
(* who had read it before, put them back (handleDeletion through failures, *)
(* restarts, conflicts and a Bucket CR that went first).                   *)
RecordedCleaned ==
    [][\A p \in Policies :
         policy[p].exists /\ ~policy'[p].exists /\ policy[p].mark /\ ~policy[p].retain =>
             pass.gone \/ entry.rules[1] # p \/ entry.back]_vars

Owner == {p \in Claimants : bucketOwner(p) = p}

(* In the end the oldest policy's rules are the bucket's and the only ones *)
(* (the TTLs of older versions are gone), the other policies have stood    *)
(* down, what was deleted is gone, and the Bucket controller's part of the *)
(* entry is what its CR asks for, although each of the two overwrites the  *)
(* other's changes now and then. Excepted are an owner (or lock) and a     *)
(* removed quota that an old copy undid, or whose pass could not record it:*)
(* the status says that there is nothing to push (bucket_controller.go).   *)
LifecycleSettles ==
    /\ \A p \in Policies :
         /\ <>[](p \in Owner /\ bucket = "ready" /\ cluster /\ entry.up =>
                   policy[p].phase = "Ready" /\ policy[p].mark /\ entry.rules = policy[p].rules /\ ~ttl)
         /\ <>[](p \in Claimants \ Owner /\ bucket = "ready" =>
                   policy[p].phase = "Failed" /\ ~policy[p].mark)
         /\ <>[]~policy[p].deleting
    /\ <>[](cluster /\ bucket = "ready" /\ entry.up =>
               entry.value = spec \/ (entry.lost /\ (attr = "owner" \/ spec = 0)))

(***************************************************************************)
(* Formulas that TLC refutes: what a doc, a comment or a reader expects    *)
(* and the code does not keep. README.md, "Observations", has the constants*)
(***************************************************************************)
(* A policy that applies its rules is always cleaned up on deletion.       *)
CleanedUp ==
    \A p \in Policies :
        ~policy[p].exists /\ cluster /\ pass.p # p /\ ~peer.open => entry.rules[1] # p
=============================================================================
