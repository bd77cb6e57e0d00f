---------------------------- MODULE AdminScripts ----------------------------
(***************************************************************************)
(* The AdminScript controller: it turns an AdminScript into a CronJob that *)
(* runs weed shell against a cluster. It has no resync: a pass follows an  *)
(* event of the script, of its Seaweed or of the CronJob, an error, or a   *)
(* missing cluster. What it renders depends on a fact that only passes of  *)
(* the Seaweed reconciler find out, the presence of cert-manager.          *)
(***************************************************************************)
EXTENDS Integers, FiniteSets

CONSTANTS
    MaxScripts,       \* bound: AdminScripts of the one name, one after the other
    MaxScriptEdits,   \* bound: edits by people
    MaxScriptFaults   \* bound: failed calls, restarts, and runs that collide with a pass

ASSUME ScriptAssumption ==
    MaxScripts \in Nat /\ MaxScriptEdits \in Nat /\ MaxScriptFaults \in Nat

(* What tells specs apart. "ownImage" stands for every field that is copied*)
(* into the CronJob; "elsewhere" is a clusterRef to a cluster that is not  *)
(* there; a bad schedule is refused by the API server.                     *)
ScriptFeatures == {"suspend", "ownImage", "badSchedule", "elsewhere"}
ClusterFeatures == {"image", "filer", "tls"}

NoCron == [owner |-> 0, spec |-> {"none"}, active |-> FALSE]
Foreign == [owner |-> 0, spec |-> {"foreign"}, active |-> FALSE]   \* of the same name
IdlePass == [pc |-> "idle", uid |-> 0, gen |-> 0, f |-> {}, desired |-> {},
             outcome |-> "none", active |-> FALSE]
NoStatus == [phase |-> "none", gen |-> 0, active |-> FALSE]

VARIABLES
    script,   \* the AdminScript: uid, whether it exists, features, generation
    status,   \* and its status: phase, observed generation, runs active
    seaweed,  \* the Seaweed: exists, features, whether its status is up to date
    cron,     \* the CronJob
    seenCron, \* the CronJob that the operator's cache shows
    queued,   \* the script is in the work queue
    probed,   \* this operator process has found cert-manager
    scriptPass, \* the pass under way
    scriptEdits, scriptFaults

budget == <<scriptEdits, scriptFaults>>
scriptVars ==
    <<script, status, seaweed, cron, seenCron, queued, probed, scriptPass, budget>>

FaultCounted == scriptFaults < MaxScriptFaults /\ scriptFaults' = scriptFaults + 1
EditCounted == scriptEdits < MaxScriptEdits /\ scriptEdits' = scriptEdits + 1

(***************************************************************************)
(* The controller.                                                         *)
(***************************************************************************)
BeginScript ==
    /\ scriptPass.pc = "idle" /\ queued /\ queued' = FALSE
    /\ scriptPass' = IF script.exists
                       THEN [IdlePass EXCEPT !.pc = "render", !.uid = script.uid,
                                             !.gen = script.gen, !.f = script.f]
                       ELSE IdlePass
    /\ UNCHANGED <<script, status, seaweed, cron, seenCron, probed, budget>>

(* tlsEffective: the TLS Secret is mounted if the cluster asks for TLS and *)
(* the probe of the Seaweed reconciler has found cert-manager.             *)
tlsEffective(cf, known) == "tls" \in cf /\ known

CronJobSpec(sf, cf, known) ==
    (sf \ {"elsewhere"})
    \cup {x \in cf : x = "image" => "ownImage" \notin sf}
    \cup (IF tlsEffective(cf, known) THEN {"certs"} ELSE {})

Phase(f) == IF "suspend" \in f THEN "Suspended" ELSE "Active"

MutBuildCronJob ==
    /\ scriptPass.pc = "render"
    /\ scriptPass' = IF seaweed.exists
                       THEN [scriptPass EXCEPT
                               !.pc = "upsert",
                               !.desired = CronJobSpec(scriptPass.f, seaweed.f, probed)]
                       ELSE [scriptPass EXCEPT !.pc = "status", !.outcome = "Pending"]
    /\ UNCHANGED <<script, status, seaweed, cron, seenCron, queued, probed, budget>>

(* The cluster is read, and the CronJob rendered from both; without the    *)
(* cluster the CronJob is left as it is.                                   *)
buildCronJob ==
    /\ scriptPass.pc = "render"
    /\ scriptPass' = IF seaweed.exists /\ "elsewhere" \notin scriptPass.f
                       THEN [scriptPass EXCEPT
                               !.pc = "upsert",
                               !.desired = CronJobSpec(scriptPass.f, seaweed.f, probed)]
                       ELSE [scriptPass EXCEPT !.pc = "status", !.outcome = "Pending"]
    /\ UNCHANGED <<script, status, seaweed, cron, seenCron, queued, probed, budget>>

MutUpToDate == seenCron # NoCron

UpToDate == seenCron # NoCron /\ seenCron.spec = scriptPass.desired

MutOwnable == TRUE

(* SetControllerReference: an object has at most one controller.           *)
Ownable == seenCron.owner \in {0, scriptPass.uid}

(* What the server accepts: no second Create, no Update of an old version, *)
(* no schedule that does not parse.                                        *)
Accepted == "badSchedule" \notin scriptPass.desired /\ cron = seenCron

createOrUpdateCronJob ==
    /\ scriptPass.pc = "upsert"
    /\ LET written == ~UpToDate /\ Ownable /\ Accepted
           failed == ~UpToDate /\ ~(Ownable /\ Accepted)
       IN  /\ cron' = IF written
                        THEN [cron EXCEPT !.owner = scriptPass.uid, !.spec = scriptPass.desired]
                        ELSE cron
           /\ scriptPass' = [scriptPass EXCEPT
                               !.pc = "status",
                               !.outcome = IF failed THEN "Failed" ELSE Phase(scriptPass.f),
                               !.active = seenCron.active]
    /\ UNCHANGED <<script, status, seaweed, seenCron, queued, probed, budget>>

(* The status that a pass writes: when the upsert failed, or there is no   *)
(* cluster, the mirrored CronJob status stays as it was.                   *)
NewStatus ==
    IF scriptPass.outcome \in {"Pending", "Failed"}
      THEN [phase |-> "Pending", gen |-> scriptPass.gen, active |-> status.active]
      ELSE [phase |-> scriptPass.outcome, gen |-> scriptPass.gen, active |-> scriptPass.active]

MutPatchStatus ==
    /\ scriptPass.pc = "status"
    /\ LET stored == /\ script.exists
                     /\ script.uid = scriptPass.uid /\ script.gen = scriptPass.gen
       IN  /\ status' = IF stored THEN NewStatus ELSE status
           /\ queued' = (queued \/ status' # status)
    /\ scriptPass' = IdlePass
    /\ UNCHANGED <<script, seaweed, cron, seenCron, probed, budget>>

(* The write conflicts with an edit since the pass read the script. A pass *)
(* that failed, did not find the cluster (30 s) or could not write runs    *)
(* again, and so does one whose write changed something: it is an event.   *)
patchStatus ==
    /\ scriptPass.pc = "status"
    /\ LET stored == /\ script.exists
                     /\ script.uid = scriptPass.uid /\ script.gen = scriptPass.gen
       IN  /\ status' = IF stored THEN NewStatus ELSE status
           /\ queued' = (\/ queued \/ ~stored \/ status' # status
                        \/ scriptPass.outcome \in {"Pending", "Failed"})
    /\ scriptPass' = IdlePass
    /\ UNCHANGED <<script, seaweed, cron, seenCron, probed, budget>>

(* A read or write fails; the pass ends with an error.                     *)
CallFails ==
    /\ scriptPass.pc # "idle" /\ FaultCounted
    /\ scriptPass' = IdlePass /\ queued' = TRUE
    /\ UNCHANGED <<script, status, seaweed, cron, seenCron, probed, scriptEdits>>

(* A new process lists every object, and has not looked for cert-manager.  *)
OperatorRestarts ==
    /\ FaultCounted
    /\ scriptPass' = IdlePass /\ queued' = TRUE /\ probed' = FALSE /\ seenCron' = cron
    /\ UNCHANGED <<script, status, seaweed, cron, scriptEdits>>

(***************************************************************************)
(* The Seaweed reconciler, every minute. It probes if the cluster has TLS, *)
(* and its status write is an event only if it changes the status.         *)
(***************************************************************************)
SeaweedPass ==
    /\ seaweed.exists
    /\ probed' = (probed \/ "tls" \in seaweed.f)
    /\ seaweed' = [seaweed EXCEPT !.observed = TRUE]
    /\ queued' = (queued \/ (~seaweed.observed /\ "elsewhere" \notin script.f))
    /\ UNCHANGED <<script, status, cron, seenCron, scriptPass, budget>>

(***************************************************************************)
(* Kubernetes: the informer's event, runs of the CronJob, and the garbage  *)
(* collector. An event of a CronJob is for the script its owner names.     *)
(***************************************************************************)
CronJobSync ==
    /\ seenCron # cron /\ seenCron' = cron
    /\ queued' = (queued \/ seenCron.owner # 0 \/ cron.owner # 0)
    /\ UNCHANGED <<script, status, seaweed, cron, probed, scriptPass, budget>>

(* Runs are minutes apart and the steps of a pass milliseconds: that one   *)
(* starts or ends while a pass is due counts as a fault.                   *)
Quiet == scriptPass = IdlePass /\ ~queued /\ seenCron = cron
RunStarts ==
    /\ cron \notin {NoCron, Foreign} /\ "suspend" \notin cron.spec /\ ~cron.active
    /\ cron' = [cron EXCEPT !.active = TRUE]
    /\ IF Quiet THEN UNCHANGED scriptFaults ELSE FaultCounted
    /\ UNCHANGED <<script, status, seaweed, seenCron, queued, probed, scriptPass, scriptEdits>>
RunEnds ==
    /\ cron.active
    /\ cron' = [cron EXCEPT !.active = FALSE]
    /\ IF Quiet THEN UNCHANGED scriptFaults ELSE FaultCounted
    /\ UNCHANGED <<script, status, seaweed, seenCron, queued, probed, scriptPass, scriptEdits>>

Collect ==
    /\ cron.owner # 0 /\ ~(script.exists /\ script.uid = cron.owner)
    /\ cron' = NoCron
    /\ UNCHANGED <<script, status, seaweed, seenCron, queued, probed, scriptPass, budget>>

(***************************************************************************)
(* People.                                                                 *)
(***************************************************************************)
CreateScript ==
    /\ ~script.exists /\ script.uid < MaxScripts
    /\ \E f \in {{}, {"suspend"}} :
         script' = [uid |-> script.uid + 1, exists |-> TRUE, f |-> f, gen |-> 1]
    /\ status' = NoStatus /\ queued' = TRUE
    /\ UNCHANGED <<seaweed, cron, seenCron, probed, scriptPass, budget>>
Toggled(f, x) == IF x \in f THEN f \ {x} ELSE f \cup {x}
EditScript ==
    /\ script.exists /\ EditCounted /\ queued' = TRUE
    /\ \E x \in ScriptFeatures : script' = [script EXCEPT !.f = Toggled(@, x), !.gen = @ + 1]
    /\ UNCHANGED <<status, seaweed, cron, seenCron, probed, scriptPass, scriptFaults>>
DeleteScript ==
    /\ script.exists /\ EditCounted /\ queued' = TRUE
    /\ script' = [script EXCEPT !.exists = FALSE]
    /\ UNCHANGED <<status, seaweed, cron, seenCron, probed, scriptPass, scriptFaults>>

(* mapSeaweedToAdminScripts: an event of the cluster is one for the script.*)
EditCluster ==
    /\ EditCounted
    /\ \/ seaweed' = [seaweed EXCEPT !.exists = ~@, !.observed = FALSE]
       \/ /\ seaweed.exists
          /\ \E x \in ClusterFeatures :
               seaweed' = [seaweed EXCEPT !.f = Toggled(@, x), !.observed = FALSE]
    /\ queued' = (queued \/ (script.exists /\ "elsewhere" \notin script.f))
    /\ UNCHANGED <<script, status, cron, seenCron, probed, scriptPass, scriptFaults>>

ScriptInit ==
    /\ script = [uid |-> 0, exists |-> FALSE, f |-> {}, gen |-> 0]
    /\ status = NoStatus
    /\ seaweed \in [exists : BOOLEAN, f : {{}, {"tls"}}, observed : {FALSE}]
    /\ cron \in {NoCron, Foreign} /\ seenCron = cron
    /\ queued = FALSE /\ probed = FALSE
    /\ scriptPass = IdlePass
    /\ scriptEdits = 0 /\ scriptFaults = 0

PassStep == BeginScript \/ buildCronJob \/ createOrUpdateCronJob \/ patchStatus

ScriptNext ==
    \/ PassStep \/ CallFails \/ OperatorRestarts \/ SeaweedPass
    \/ CronJobSync \/ RunStarts \/ RunEnds \/ Collect
    \/ CreateScript \/ EditScript \/ DeleteScript \/ EditCluster

ScriptSpec == ScriptInit /\ [][ScriptNext]_scriptVars

(* The work queue and the informers deliver, the Seaweed is reconciled     *)
(* every minute, the schedule comes round and runs end, garbage is         *)
(* collected.                                                              *)
ScriptFairness ==
    /\ WF_scriptVars(PassStep) /\ WF_scriptVars(SeaweedPass) /\ WF_scriptVars(CronJobSync)
    /\ WF_scriptVars(RunStarts /\ Quiet) /\ WF_scriptVars(RunEnds /\ Quiet)
    /\ WF_scriptVars(Collect)

FairScriptSpec == ScriptSpec /\ ScriptFairness

(***************************************************************************)
(* Properties.                                                             *)
(***************************************************************************)
(* The variables have their types, and a rendered CronJob is made of what  *)
(* was there to render.                                                    *)
ScriptTypeOK ==
    /\ script.uid \in 0 .. MaxScripts /\ script.f \subseteq ScriptFeatures
    /\ seaweed.f \subseteq ClusterFeatures
    /\ status.phase \in {"none", "Pending", "Active", "Suspended"}
    /\ status.gen \in 0 .. script.gen
    /\ \A c \in {cron, seenCron} :
         \/ c.spec \in {NoCron.spec, Foreign.spec}
         \/ /\ c.owner \in 1 .. MaxScripts
            /\ c.spec \subseteq (ScriptFeatures \ {"elsewhere", "badSchedule"})
                               \cup ClusterFeatures \cup {"certs"}
    /\ {queued, probed, script.exists, seaweed.exists} \subseteq BOOLEAN
    /\ scriptPass.pc \in {"idle", "render", "upsert", "status"}
    /\ scriptPass.pc = "idle" <=> scriptPass = IdlePass
    /\ scriptPass.pc = "upsert" => scriptPass.f \subseteq scriptPass.desired

(* The CronJob of an AdminScript that is gone, but not yet collected, is   *)
(* not given to the next AdminScript of the name: it would be collected    *)
(* with its first owner.                                                   *)
KeepsOwner ==
    [][cron.owner # 0 /\ cron'.owner # 0 => cron'.owner = cron.owner]_scriptVars

(* What an AdminScript that can be rendered asks for.                      *)
Renderable == script.exists /\ seaweed.exists /\ script.f \cap {"elsewhere", "badSchedule"} = {}
FullSpec == CronJobSpec(script.f, seaweed.f, "tls" \in seaweed.f)

(* In the end the CronJob is the one of the last edit of script or cluster,*)
(* with the TLS mounts whatever order the reconcilers ran in after a       *)
(* restart, because each run of it is an event that starts a pass. Until it*)
(* is to run again, a suspended one may stay without them.                 *)
CronJobFollows ==
    <>[](Renderable => /\ cron.owner = script.uid
                       /\ cron.spec \cup {"certs"} = FullSpec \cup {"certs"}
                       /\ "suspend" \notin script.f => cron.spec = FullSpec)

(* In the end the status is that of the last edit: neither an edit in the  *)
(* middle of a pass nor a conflict of its last write leaves the status of  *)
(* an earlier spec or of an earlier cluster.                               *)
StatusFollows ==
    <>[](script.exists =>
           status.gen = script.gen /\ status.phase = IF Renderable THEN Phase(script.f) ELSE "Pending")

(***************************************************************************)
(* Formulas that TLC refutes: what a doc, a comment or a reader expects    *)
(* and the code does not keep. README.md, "Observations", has the constants*)
(***************************************************************************)
(* A run against a cluster with TLS has what it needs to authenticate, once*)
(* both the cluster and the script report that they are reconciled.        *)
RunsAuthenticate ==
    [][RunStarts /\ "tls" \in seaweed.f /\ seaweed.exists /\ seaweed.observed
         /\ status.phase = "Active" /\ status.gen = script.gen /\ Quiet
       => "certs" \in cron.spec]_scriptVars

(* A Pending AdminScript has no CronJob.                                   *)
PendingHasNone ==
    script.exists /\ status.phase = "Pending" => cron.owner # script.uid
=============================================================================
