----------------------- MODULE LifecyclePoliciesProofs -----------------------
(***************************************************************************)
(* Proofs about LifecyclePolicies, for any set of policies and any number  *)
(* of edits and faults.                                                    *)
(***************************************************************************)
EXTENDS LifecyclePolicies, TLAPS

(***************************************************************************)
(* The invariant. What the status records is what a deletion works from,   *)
(* and the finalizer is there as long as anything is recorded; a pass that *)
(* deletes works for a policy that waits for it.                           *)
(***************************************************************************)
RecordOf(o) ==
    /\ (o.deleting => o.fin) /\ (o.mark => o.fin) /\ (o.phase = "Terminating" => o.deleting)
RecordInv ==
    /\ \A p \in Policies : RecordOf(policy[p])
    /\ pass.pc # "idle" =>
         /\ pass.p \in Policies
         /\ ~pass.stale => policy[pass.p].exists /\ policy[pass.p].fin
    /\ pass.pc \in {"cleanup", "clear", "finalize"} => policy[pass.p].exists /\ policy[pass.p].deleting

(* The copies of the entry in the hands of its two writers. Rules that an  *)
(* old copy brought back are known as such to whoever read them since.     *)
BuffersInv ==
    /\ pass.pc \in {"write", "clear"} => pass.buf.up /\ ~pass.buf.back
    /\ pass.pc = "clear" => pass.buf.rules = NoRules
    /\ peer.open => peer.buf.up
EntryInv ==
    /\ ~entry.up => entry.rules = NoRules
    /\ peer.open /\ entry.back /\ entry.rules # NoRules /\ peer.buf.rules = entry.rules => peer.buf.back

(* Once a deletion has cleaned up, its policy's rules do not come back but *)
(* with an old copy.                                                       *)
CleanInv ==
    pass.pc = "finalize" /\ ~pass.gone /\ policy[pass.p].mark /\ ~policy[pass.p].retain =>
        entry.rules[1] # pass.p \/ entry.back

IInv == TypeOK /\ RecordInv /\ BuffersInv /\ EntryInv /\ CleanInv

LEMMA Constants ==
    /\ NoRules \in AllRules /\ NoRules[1] = 0 /\ 0 \notin Policies
    /\ NoEntry \in Entries /\ ~NoEntry.up /\ NoEntry.rules = NoRules /\ ~NoEntry.back
    /\ Idle \in PassType /\ Idle.pc = "idle"
    /\ \A p \in Policies : /\ NoPolicy(p) \in PolicyType /\ RecordOf(NoPolicy(p)) /\ ~NoPolicy(p).exists
                           /\ RulesOf(p) \subseteq AllRules
<1>1. NoRules \in AllRules /\ NoRules[1] = 0
  <2>1. NoRules \in AllRules BY Zenon DEF AllRules
  <2>2. NoRules[1] = 0 BY DEF NoRules
  <2> QED BY <2>1, <2>2
<1>2. 0 \notin Policies BY PoliciesAssumption
<1>3. NoEntry \in Entries /\ ~NoEntry.up /\ NoEntry.rules = NoRules /\ ~NoEntry.back
  BY <1>1 DEF NoEntry, Entries
<1>4. Idle \in PassType /\ Idle.pc = "idle" BY <1>1, <1>3 DEF Idle, PassType
<1>5. ASSUME NEW p \in Policies
      PROVE  /\ NoPolicy(p) \in PolicyType /\ RecordOf(NoPolicy(p)) /\ ~NoPolicy(p).exists
             /\ RulesOf(p) \subseteq AllRules
  <2>1. RulesOf(p) \subseteq AllRules BY DEF AllRules
  <2>2. <<p, 1>> \in AllRules BY <2>1 DEF RulesOf
  <2>3. NoPolicy(p) \in PolicyType BY <2>2 DEF NoPolicy, PolicyType, Births, Phases
  <2> QED BY <2>1, <2>3 DEF NoPolicy, RecordOf
<1> QED BY <1>1, <1>2, <1>3, <1>4, <1>5

(***************************************************************************)
(* Ends of a pass, and its way on.                                         *)
(***************************************************************************)
PeerType == [open : BOOLEAN, stale : BOOLEAN, buf : Entries]
PolicyOK == policy \in [Policies -> PolicyType] /\ \A p \in Policies : RecordOf(policy[p])
FilerOK == entry \in Entries /\ ttl \in BOOLEAN
RestOK ==
    /\ bucket \in {"none", "new", "ready"} /\ cluster \in BOOLEAN
    /\ attr \in Attributes /\ spec \in 0 .. 1 /\ recorded \in 0 .. 1
    /\ peer \in PeerType

LEMMA Parts ==
    /\ TypeOK /\ RecordInv => PolicyOK /\ FilerOK /\ RestOK
    /\ PolicyOK /\ FilerOK /\ RestOK /\ pass \in PassType => TypeOK
BY DEF TypeOK, RecordInv, PolicyOK, FilerOK, RestOK, RecordOf, PeerType

(* A pass that has ended has nothing left to keep right but the entry.     *)
LEMMA Ended ==
    ASSUME PolicyOK', FilerOK', RestOK', EntryInv', pass' = Idle, peer'.open => peer'.buf.up
    PROVE  IInv'
<1>1. pass'.pc = "idle" /\ pass' \in PassType BY Constants
<1>2. TypeOK' BY <1>1 DEF TypeOK, PolicyOK, FilerOK, RestOK, RecordOf, PeerType
<1>3. RecordInv' BY <1>1 DEF RecordInv, PolicyOK
<1>4. BuffersInv' BY <1>1 DEF BuffersInv
<1>5. CleanInv' BY <1>1 DEF CleanInv
<1> QED BY <1>2, <1>3, <1>4, <1>5 DEF IInv

LEMMA EndWithOK ==
    ASSUME PolicyOK, NEW p \in Policies, NEW o \in PolicyType, RecordOf(o), EndWith(p, o)
    PROVE  PolicyOK' /\ pass' = Idle
<1>1. policy' = policy \/ policy' = [policy EXCEPT ![p] = o] BY DEF EndWith
<1> QED BY <1>1 DEF EndWith, PolicyOK

(* A pass that ends with a failure on record.                              *)
LEMMA FailedOK ==
    ASSUME PolicyOK, NEW p \in Policies,
           failPhase(p) \/ (cleanupFailed(p) /\ policy[p].deleting),
           FilerOK', RestOK', EntryInv', peer'.open => peer'.buf.up
    PROVE  IInv'
<1>1. policy[p] \in PolicyType /\ RecordOf(policy[p]) BY DEF PolicyOK
<1>2. /\ [policy[p] EXCEPT !.phase = "Failed"] \in PolicyType
      /\ RecordOf([policy[p] EXCEPT !.phase = "Failed"])
  BY <1>1 DEF PolicyType, RecordOf, Phases
<1>3. /\ [policy[p] EXCEPT !.phase = "Terminating"] \in PolicyType
      /\ policy[p].deleting => RecordOf([policy[p] EXCEPT !.phase = "Terminating"])
  BY <1>1 DEF PolicyType, RecordOf, Phases
<1> QED BY <1>2, <1>3, EndWithOK, Ended DEF failPhase, cleanupFailed

(* The variables that a step of the controller leaves alone.               *)
LEMMA Unmoved ==
    ASSUME IInv, UNCHANGED <<cluster, bucketVars, peer>>
    PROVE  /\ RestOK' /\ (peer'.open => peer'.buf.up)
           /\ UNCHANGED entry /\ ttl' \in BOOLEAN => FilerOK' /\ EntryInv'
BY Parts DEF IInv, RestOK, FilerOK, BuffersInv, EntryInv, bucketVars

LEMMA InitInv == Init => IInv
<1> SUFFICES ASSUME Init PROVE IInv
  OBVIOUS
<1>1. PICK x \in BOOLEAN : policy = [p \in Policies |-> [NoPolicy(p) EXCEPT !.exists = x]]
  BY DEF Init
<1>2. ASSUME NEW p \in Policies PROVE policy[p] \in PolicyType /\ RecordOf(policy[p])
  <2>1. NoPolicy(p) \in PolicyType /\ RecordOf(NoPolicy(p)) BY Constants
  <2>2. policy[p] = [NoPolicy(p) EXCEPT !.exists = x] BY <1>1
  <2> QED BY <2>1, <2>2 DEF PolicyType, RecordOf
<1>3. policy \in [Policies -> PolicyType] BY <1>1, <1>2
<1>4. peer = NoPeer /\ ~NoPeer.open /\ NoPeer \in PeerType
  BY Constants DEF Init, NoPeer, PeerType
<1>5. TypeOK BY <1>2, <1>3, <1>4, Constants DEF Init, TypeOK, RecordOf, PeerType
<1>6. RecordInv /\ BuffersInv /\ CleanInv BY <1>2, <1>4, Constants DEF Init, RecordInv, BuffersInv, CleanInv
<1>7. EntryInv BY <1>4, Constants DEF Init, EntryInv
<1> QED BY <1>5, <1>6, <1>7 DEF IInv

(***************************************************************************)
(* The lifecycle controller.                                               *)
(***************************************************************************)
LEMMA PassGoesOn ==
    ASSUME IInv, NEW x \in PassType, PassTo(x), UNCHANGED <<cluster, bucketVars, peer>>,
           FilerOK', EntryInv', x.pc # "idle", x.p \in Policies,
           ~x.stale => policy[x.p].exists /\ policy[x.p].fin,
           x.pc \in {"cleanup", "clear", "finalize"} => policy[x.p].exists /\ policy[x.p].deleting,
           x.pc \in {"write", "clear"} => x.buf.up /\ ~x.buf.back, x.pc = "clear" => x.buf.rules = NoRules,
           x.pc = "finalize" /\ ~x.gone /\ policy[x.p].mark /\ ~policy[x.p].retain =>
               entry'.rules[1] # x.p \/ entry'.back
    PROVE  IInv'
<1>1. pass' = x /\ policy' = policy BY DEF PassTo
<1>2. PolicyOK' BY <1>1, Parts DEF IInv, PolicyOK, RecordOf
<1>3. RestOK' /\ (peer'.open => peer'.buf.up) BY Unmoved
<1>4. TypeOK' BY <1>1, <1>2, <1>3 DEF TypeOK, PolicyOK, FilerOK, RestOK, RecordOf, PeerType
<1>5. RecordInv' BY <1>1, <1>2 DEF RecordInv, PolicyOK
<1>6. BuffersInv' BY <1>1, <1>3 DEF BuffersInv
<1>7. CleanInv' BY <1>1 DEF CleanInv
<1> QED BY <1>4, <1>5, <1>6, <1>7 DEF IInv

LEMMA ReconcileInv ==
    ASSUME IInv, NEW p \in Policies, Reconcile(p)
    PROVE  IInv'
<1>1. PolicyOK /\ policy[p] \in PolicyType /\ RecordOf(policy[p]) BY Parts DEF IInv, PolicyOK
<1>2. UNCHANGED <<cluster, bucketVars, peer, entry>> /\ ttl' \in BOOLEAN
  BY DEF Reconcile, filerVars, IInv, TypeOK
<1>3. RestOK' /\ (peer'.open => peer'.buf.up) /\ FilerOK' /\ EntryInv' BY <1>2, Unmoved
<1>4. ASSUME NEW o \in PolicyType, RecordOf(o), EndWith(p, o) PROVE IInv'
  BY <1>1, <1>3, <1>4, EndWithOK, Ended
<1>5. [policy[p] EXCEPT !.fin = TRUE] \in PolicyType /\ RecordOf([policy[p] EXCEPT !.fin = TRUE])
  BY <1>1 DEF PolicyType, RecordOf
<1>6. [policy[p] EXCEPT !.phase = "Pending"] \in PolicyType /\ RecordOf([policy[p] EXCEPT !.phase = "Pending"])
  BY <1>1 DEF PolicyType, RecordOf, Phases
<1>7. /\ [policy[p] EXCEPT !.phase = "Failed", !.mark = FALSE] \in PolicyType
      /\ RecordOf([policy[p] EXCEPT !.phase = "Failed", !.mark = FALSE])
  BY <1>1 DEF PolicyType, RecordOf, Phases
<1>8. PICK x : x = [Idle EXCEPT !.pc = "apply", !.p = p, !.want = policy[p].rules] OBVIOUS
<1>9. x \in PassType /\ x.pc = "apply" /\ x.p = p BY <1>1, <1>8, Constants DEF PassType, PolicyType
<1>10. \/ EndWith(p, [policy[p] EXCEPT !.fin = TRUE]) \/ Pending(p) \/ Conflict(p)
       \/ PassTo(x) /\ policy[p].fin
  BY <1>8 DEF Reconcile
<1>11. CASE PassTo(x) /\ policy[p].fin
  <2>1. policy[p].exists BY DEF Reconcile
  <2> QED BY <1>2, <1>3, <1>9, <1>11, <2>1, PassGoesOn
<1> QED BY <1>4, <1>5, <1>6, <1>7, <1>10, <1>11 DEF Pending, Conflict

LEMMA HandleDeletionInv ==
    ASSUME IInv, NEW p \in Policies, handleDeletion(p)
    PROVE  IInv'
<1>1. PolicyOK /\ policy[p] \in PolicyType /\ RecordOf(policy[p]) BY Parts DEF IInv, PolicyOK
<1>2. UNCHANGED <<cluster, bucketVars, peer, entry>> /\ ttl' \in BOOLEAN
  BY DEF handleDeletion, filerVars, IInv, TypeOK
<1>3. FilerOK' /\ EntryInv' BY <1>2, Unmoved
<1>4. policy[p].exists /\ policy[p].deleting /\ policy[p].fin BY <1>1 DEF handleDeletion, RecordOf
<1>5. PICK g \in BOOLEAN : g = ~cluster OBVIOUS
<1>6. PICK k : k = IF policy[p].mark /\ ~policy[p].retain /\ cluster THEN "cleanup" ELSE "finalize"
  OBVIOUS
<1>7. PICK x : x = [Idle EXCEPT !.p = p, !.gone = g, !.pc = k] OBVIOUS
<1>8. x \in PassType /\ x.p = p /\ x.gone = g /\ x.pc = k /\ k \in {"cleanup", "finalize"}
  BY <1>6, <1>7, Constants DEF PassType
<1>9. PassTo(x) BY <1>5, <1>6, <1>7 DEF handleDeletion
<1>10. k = "finalize" /\ ~g /\ policy[p].mark /\ ~policy[p].retain => FALSE BY <1>5, <1>6
<1> QED BY <1>2, <1>3, <1>4, <1>8, <1>9, <1>10, PassGoesOn

LEMMA PassStepInv ==
    ASSUME IInv, PassStep
    PROVE  IInv'
<1>1. /\ PolicyOK /\ entry \in Entries /\ ttl \in BOOLEAN /\ EntryInv /\ RecordInv /\ BuffersInv
      /\ pass \in PassType
  BY Parts DEF IInv, TypeOK
<1>2. pass.pc # "idle" /\ pass.p \in Policies
  BY <1>1 DEF PassStep, Apply, LookupEntry, WriteEntry, Ready, Cleanup, ClearEntry, removeFinalizer,
              RecordInv
<1>3. policy[pass.p] \in PolicyType /\ RecordOf(policy[pass.p]) BY <1>1, <1>2 DEF PolicyOK
<1>4. UNCHANGED <<cluster, bucketVars, peer>>
  BY DEF PassStep, Apply, LookupEntry, WriteEntry, Ready, Cleanup, ClearEntry, removeFinalizer
<1>5. RestOK' /\ (peer'.open => peer'.buf.up) BY <1>4, Unmoved
<1>6. UNCHANGED entry /\ ttl' \in BOOLEAN => FilerOK' /\ EntryInv' BY <1>4, Unmoved
<1>7. ASSUME failPhase(pass.p), UNCHANGED <<entry, ttl>> PROVE IInv'
  BY <1>1, <1>2, <1>5, <1>6, <1>7, FailedOK
<1>17. ~pass.stale => policy[pass.p].exists /\ policy[pass.p].fin BY <1>1, <1>2 DEF RecordInv
<1>8. CASE Apply
  <2>1. entry' = entry /\ ttl' \in BOOLEAN /\ pass.pc = "apply" BY <1>8 DEF Apply, ClearLegacyBucketTTLs
  <2>2. CASE failPhase(pass.p) BY <1>1, <1>2, <1>5, <1>6, <2>1, <2>2, FailedOK
  <2>3. ASSUME NEW k \in {"status", "set"}, PassTo([pass EXCEPT !.pc = k]) PROVE IInv'
    <3>1. PICK x : x = [pass EXCEPT !.pc = k] OBVIOUS
    <3>2. x \in PassType /\ x.pc = k /\ x.p = pass.p /\ x.stale = pass.stale BY <1>1, <3>1 DEF PassType
    <3> QED BY <1>2, <1>4, <1>6, <1>17, <2>1, <2>3, <3>1, <3>2, PassGoesOn
  <2> QED BY <1>8, <2>2, <2>3 DEF Apply
<1>13. ASSUME NEW r \in AllRules
       PROVE  /\ WithRules(r) \in Entries /\ WithRules(r).up = entry.up
              /\ ~WithRules(r).back /\ WithRules(r).rules = r
  BY <1>1 DEF WithRules, Entries
<1>14. CASE LookupEntry
  <2>1. UNCHANGED <<entry, ttl>> /\ pass.pc = "set" BY <1>14 DEF LookupEntry, filerVars
  <2>2. CASE ~entry.up BY <1>7, <1>14, <2>1, <2>2 DEF LookupEntry
  <2>3. CASE entry.up
    <3>1. PICK e : e = WithRules(pass.want) OBVIOUS
    <3>2. e \in Entries /\ e.up /\ ~e.back
      <4>1. pass.want \in AllRules BY <1>1 DEF PassType
      <4> QED BY <1>13, <2>3, <3>1, <4>1
    <3>3. PICK w : w = [pass EXCEPT !.pc = "write", !.buf = e] OBVIOUS
    <3>4. w \in PassType /\ w.pc = "write" /\ w.p = pass.p /\ w.stale = pass.stale /\ w.buf = e
      BY <1>1, <3>2, <3>3 DEF PassType
    <3>5. PassTo(w) BY <1>14, <2>3, <3>1, <3>3 DEF LookupEntry
    <3> QED BY <1>1, <1>2, <1>4, <1>6, <1>17, <2>1, <3>2, <3>4, <3>5, PassGoesOn
  <2> QED BY <2>2, <2>3
<1>15. ASSUME UpdateEntry(pass.buf), pass.buf.up, pass.buf \in Entries
       PROVE  /\ entry' \in Entries /\ entry'.up /\ entry'.rules = pass.buf.rules
              /\ entry'.back = pass.buf.back
  <2>1. PICK l \in BOOLEAN : l = ((pass.buf.value # entry.value) \/ entry.lost) OBVIOUS
  <2>2. entry' = [pass.buf EXCEPT !.lost = l] BY <1>15, <2>1 DEF UpdateEntry
  <2> QED BY <1>15, <2>2 DEF Entries
<1>9. CASE WriteEntry
  <2>1. ttl' = ttl /\ pass.pc = "write" BY <1>9 DEF WriteEntry
  <2>2. CASE ~entry.up BY <1>7, <1>9, <2>1, <2>2 DEF WriteEntry
  <2>3. CASE entry.up
    <3>1. PICK s : s = [pass EXCEPT !.pc = "status", !.buf = NoEntry] OBVIOUS
    <3>2. PassTo(s) /\ UpdateEntry(pass.buf) BY <1>9, <2>3, <3>1 DEF WriteEntry
    <3>3. s \in PassType /\ s.pc = "status" /\ s.p = pass.p /\ s.stale = pass.stale
      BY <1>1, <3>1, Constants DEF PassType
    <3>4. pass.buf.up /\ ~pass.buf.back /\ pass.buf \in Entries BY <1>1, <2>1 DEF BuffersInv, PassType
    <3>5. FilerOK' BY <1>1, <1>15, <2>1, <3>2, <3>4 DEF FilerOK
    <3>6. EntryInv' BY <1>4, <1>15, <3>2, <3>4 DEF EntryInv
    <3> QED BY <1>2, <1>4, <1>17, <3>2, <3>3, <3>5, <3>6, PassGoesOn
  <2> QED BY <2>2, <2>3
<1>10. CASE Ready
  <2>1. PICK o : o = [policy[pass.p] EXCEPT !.phase = "Ready", !.mark = TRUE] OBVIOUS
  <2>2. o \in PolicyType /\ o.fin = policy[pass.p].fin /\ o.phase = "Ready"
    BY <1>3, <2>1 DEF PolicyType, Phases
  <2>3. EndWith(pass.p, o) /\ UNCHANGED <<entry, ttl>> BY <1>10, <2>1 DEF Ready, filerVars
  <2>4. CASE pass.stale
    <3>1. PolicyOK' /\ pass' = Idle BY <1>1, <2>3, <2>4 DEF EndWith, PolicyOK
    <3> QED BY <1>1, <1>5, <1>6, <2>3, <3>1, Ended
  <2>5. CASE ~pass.stale
    <3>1. RecordOf(o) BY <1>1, <1>2, <2>2, <2>5 DEF RecordInv, RecordOf
    <3> QED BY <1>1, <1>2, <1>5, <1>6, <2>2, <2>3, <3>1, EndWithOK, Ended
  <2> QED BY <2>4, <2>5
<1>11. CASE ClearEntry
  <2>1. ttl' = ttl /\ pass.pc = "clear" BY <1>11 DEF ClearEntry
  <2>2. CASE ~entry.up
    <3>1. cleanupFailed(pass.p) /\ entry' = entry BY <1>11, <2>2 DEF ClearEntry
    <3>2. policy[pass.p].deleting BY <1>1, <2>1 DEF RecordInv
    <3> QED BY <1>1, <1>2, <1>5, <1>6, <2>1, <3>1, <3>2, FailedOK
  <2>3. CASE entry.up
    <3>1. PICK f : f = [pass EXCEPT !.pc = "finalize", !.buf = NoEntry] OBVIOUS
    <3>2. PassTo(f) /\ UpdateEntry(pass.buf) BY <1>11, <2>3, <3>1 DEF ClearEntry
    <3>3. f \in PassType /\ f.pc = "finalize" /\ f.p = pass.p /\ f.stale = pass.stale
      BY <1>1, <3>1, Constants DEF PassType
    <3>4. pass.buf.up /\ pass.buf.rules = NoRules /\ pass.buf \in Entries BY <1>1, <2>1 DEF BuffersInv, PassType
    <3>5. FilerOK' BY <1>1, <1>15, <2>1, <3>2, <3>4 DEF FilerOK
    <3>6. EntryInv' BY <1>15, <3>2, <3>4 DEF EntryInv
    <3>7. entry'.rules[1] # f.p BY <1>2, <1>15, <3>2, <3>3, <3>4, Constants
    <3>8. policy[pass.p].exists /\ policy[pass.p].deleting /\ policy[pass.p].fin
      BY <1>1, <1>3, <2>1 DEF RecordInv, RecordOf
    <3> QED BY <1>2, <1>4, <3>2, <3>3, <3>5, <3>6, <3>7, <3>8, PassGoesOn
  <2> QED BY <2>2, <2>3
<1>12. CASE removeFinalizer
  <2>1. EndWith(pass.p, NoPolicy(pass.p)) /\ UNCHANGED <<entry, ttl>> BY <1>12 DEF removeFinalizer, filerVars
  <2> QED BY <1>1, <1>2, <1>5, <1>6, <2>1, Constants, EndWithOK, Ended
<1>16. CASE Cleanup
  <2>1. entry' = entry /\ ttl' \in BOOLEAN /\ pass.pc = "cleanup"
    BY <1>16 DEF Cleanup, ClearLegacyBucketTTLs
  <2>2. policy[pass.p].exists /\ policy[pass.p].deleting /\ policy[pass.p].fin
    BY <1>1, <1>3, <2>1 DEF RecordInv, RecordOf
  <2>3. PICK e : e = WithRules(NoRules) OBVIOUS
  <2>4. e \in Entries /\ e.up = entry.up /\ ~e.back /\ e.rules = NoRules BY <1>13, <2>3, Constants
  <2>5. PICK c : c = [pass EXCEPT !.pc = "clear", !.buf = e] OBVIOUS
  <2>6. PICK f : f = [pass EXCEPT !.pc = "finalize"] OBVIOUS
  <2>7. c \in PassType /\ c.pc = "clear" /\ c.p = pass.p /\ c.buf = e BY <1>1, <2>4, <2>5 DEF PassType
  <2>8. f \in PassType /\ f.pc = "finalize" /\ f.p = pass.p BY <1>1, <2>6 DEF PassType
  <2>9. CASE entry.up /\ entry.rules # NoRules
    <3>1. PassTo(c) BY <1>16, <2>3, <2>5, <2>9 DEF Cleanup
    <3> QED BY <1>2, <1>4, <1>6, <2>1, <2>2, <2>4, <2>7, <2>9, <3>1, PassGoesOn
  <2>10. CASE ~(entry.up /\ entry.rules # NoRules)
    <3>1. PassTo(f) BY <1>16, <2>6, <2>10 DEF Cleanup
    <3>2. entry'.rules = NoRules BY <1>1, <2>1, <2>10 DEF EntryInv
    <3>3. entry'.rules[1] # pass.p BY <1>2, <3>2, Constants
    <3> QED BY <1>2, <1>4, <1>6, <2>1, <2>2, <2>8, <3>1, <3>3, PassGoesOn
  <2> QED BY <2>9, <2>10
<1> QED BY <1>8, <1>9, <1>10, <1>11, <1>12, <1>14, <1>16 DEF PassStep

LEMMA PassEndsInv ==
    ASSUME IInv, PassFails \/ Restart
    PROVE  IInv'
<1>1. PolicyOK /\ RecordInv /\ ttl \in BOOLEAN BY Parts DEF IInv, TypeOK
<1>2. UNCHANGED <<cluster, bucketVars, peer, entry, ttl>> BY DEF PassFails, Restart, filerVars
<1>3. RestOK' /\ (peer'.open => peer'.buf.up) /\ FilerOK' /\ EntryInv' BY <1>1, <1>2, Unmoved
<1>4. CASE PassTo(Idle)
  <2>1. PolicyOK' /\ pass' = Idle BY <1>1, <1>4 DEF PassTo, PolicyOK
  <2> QED BY <1>3, <2>1, Ended
<1>5. CASE ~PassTo(Idle)
  <2>1. /\ pass.p \in Policies
        /\ failPhase(pass.p) \/ (cleanupFailed(pass.p) /\ policy[pass.p].deleting)
    BY <1>1, <1>5 DEF PassFails, Restart, RecordInv
  <2> QED BY <1>1, <1>3, <2>1, FailedOK
<1> QED BY <1>4, <1>5

(***************************************************************************)
(* The others.                                                             *)
(***************************************************************************)

(* A change of the entry or of the world around the pass.                  *)
LEMMA Around ==
    ASSUME IInv, UNCHANGED <<policy, pass>>, FilerOK', RestOK', EntryInv', peer'.open => peer'.buf.up,
           entry.rules[1] # pass.p \/ entry.back => entry'.rules[1] # pass.p \/ entry'.back
           \/ pass.p \notin Policies
    PROVE  IInv'
<1>1. PolicyOK' /\ pass' \in PassType BY Parts DEF IInv, PolicyOK, TypeOK
<1>2. TypeOK' BY <1>1 DEF TypeOK, PolicyOK, FilerOK, RestOK, RecordOf, PeerType
<1>3. RecordInv' BY DEF IInv, RecordInv
<1>4. BuffersInv' BY DEF IInv, BuffersInv
<1>5. CleanInv' BY DEF IInv, CleanInv, RecordInv
<1> QED BY <1>2, <1>3, <1>4, <1>5 DEF IInv

LEMMA WritersInv ==
    ASSUME IInv, PeerReads \/ PeerWrites \/ Provision \/ BucketDeleted \/ BucketEdit \/ ClusterEdit \/ Drift
    PROVE  IInv'
<1>1. /\ FilerOK /\ RestOK /\ EntryInv /\ (peer.open => peer.buf.up) /\ entry \in Entries
      /\ spec \in 0 .. 1 /\ recorded \in 0 .. 1 /\ attr \in Attributes
      /\ peer \in PeerType /\ cluster \in BOOLEAN /\ ttl \in BOOLEAN
  BY Parts DEF IInv, BuffersInv, FilerOK, RestOK
<1>2. UNCHANGED <<policy, pass>>
  BY DEF PeerReads, PeerWrites, Provision, BucketDeleted, BucketEdit, ClusterEdit, Drift, crVars
<1>3. CASE PeerReads
  <2>1. PICK e : e = [entry EXCEPT !.value = spec] OBVIOUS
  <2>2. e \in Entries /\ e.up = entry.up /\ e.rules = entry.rules /\ e.back = entry.back
    BY <1>1, <2>1 DEF Entries
  <2>3. peer' = [open |-> TRUE, stale |-> FALSE, buf |-> e] /\ entry.up BY <1>3, <2>1 DEF PeerReads
  <2>4. UNCHANGED <<cluster, bucket, attr, spec, recorded, entry, ttl>>
    BY <1>3 DEF PeerReads, crVars, bucketVars, filerVars
  <2>5. RestOK' BY <1>1, <2>2, <2>3, <2>4 DEF RestOK, PeerType
  <2>6. FilerOK' /\ EntryInv' /\ (peer'.open => peer'.buf.up)
    BY <1>1, <2>2, <2>3, <2>4 DEF FilerOK, EntryInv
  <2> QED BY <1>2, <2>4, <2>5, <2>6, Around
<1>4. CASE PeerWrites
  <2>1. PICK x \in BOOLEAN : x = (peer.buf.back \/ peer.buf.rules # entry.rules) OBVIOUS
  <2>11. PICK ok \in BOOLEAN :
           LET records == ok /\ ~peer.stale /\ entry.up
           IN  /\ entry' = IF entry.up
                             THEN [peer.buf EXCEPT !.back = @ \/ peer.buf.rules # entry.rules, !.lost = ~records]
                             ELSE entry
               /\ recorded' = IF records THEN peer.buf.value ELSE recorded
    BY <1>4, Zenon DEF PeerWrites
  <2>12. PICK l \in BOOLEAN : l = ~(ok /\ ~peer.stale /\ entry.up) OBVIOUS
  <2>2. PICK e : e = [peer.buf EXCEPT !.back = x, !.lost = l] OBVIOUS
  <2>3. peer.open /\ peer.buf \in Entries /\ peer.buf.up BY <1>1, <1>4 DEF PeerWrites, PeerType
  <2>13. recorded' \in 0 .. 1 BY <1>1, <2>3, <2>11 DEF Entries
  <2>4. e \in Entries /\ e.up /\ e.rules = peer.buf.rules /\ e.back = x BY <2>2, <2>3 DEF Entries
  <2>5. entry' = (IF entry.up THEN e ELSE entry) /\ peer' = NoPeer 
    BY <1>4, <2>1, <2>2, <2>11, <2>12 DEF PeerWrites
  <2>6. ~NoPeer.open /\ NoPeer \in PeerType BY Constants DEF NoPeer, PeerType
  <2>7. UNCHANGED <<cluster, bucket, attr, spec, ttl>> BY <1>4 DEF PeerWrites
  <2>8. RestOK' BY <1>1, <2>5, <2>6, <2>7, <2>13 DEF RestOK
  <2>9. FilerOK' /\ EntryInv' /\ (peer'.open => peer'.buf.up)
    BY <1>1, <2>4, <2>5, <2>6, <2>7 DEF FilerOK, EntryInv
  <2>10. ASSUME pass.p \in Policies, entry.rules[1] # pass.p \/ entry.back
         PROVE  entry'.rules[1] # pass.p \/ entry'.back
    <3>1. CASE ~entry.up BY <2>5, <2>10, <3>1
    <3>2. CASE entry.up /\ peer.buf.rules # entry.rules BY <2>1, <2>4, <2>5, <3>2
    <3>3. CASE entry.up /\ peer.buf.rules = entry.rules /\ entry.rules[1] # pass.p BY <2>4, <2>5, <3>3
    <3>4. CASE entry.up /\ peer.buf.rules = entry.rules /\ entry.rules[1] = pass.p
      <4>1. entry.rules # NoRules /\ entry.back BY <2>10, <3>4, Constants
      <4>2. peer.buf.back BY <1>1, <2>3, <3>4, <4>1 DEF EntryInv
      <4> QED BY <2>1, <2>4, <2>5, <3>4, <4>2
    <3> QED BY <3>1, <3>2, <3>3, <3>4
  <2> QED BY <1>2, <2>8, <2>9, <2>10, Around
<1>5. CASE Provision
  <2>1. PICK e : e = [NoEntry EXCEPT !.up = TRUE] OBVIOUS
  <2>2. e \in Entries /\ e.up /\ e.rules = NoRules /\ ~e.back BY <2>1, Constants DEF Entries
  <2>3. entry' = (IF entry.up THEN entry ELSE e) /\ UNCHANGED <<cluster, attr, spec, recorded, ttl, peer>> /\ bucket' = "ready"
    BY <1>5, <2>1 DEF Provision
  <2>4. RestOK' BY <1>1, <2>3 DEF RestOK
  <2>5. FilerOK' /\ EntryInv' /\ (peer'.open => peer'.buf.up) BY <1>1, <2>2, <2>3 DEF FilerOK, EntryInv
  <2>6. entry' = entry \/ entry'.rules[1] # pass.p \/ pass.p \notin Policies BY <2>2, <2>3, Constants
  <2> QED BY <1>2, <2>4, <2>5, <2>6, Around
<1>6. CASE BucketDeleted
  <2>1. entry' \in {entry, NoEntry} /\ UNCHANGED <<cluster, attr, spec, recorded, ttl, peer>> /\ bucket' = "none"
    BY <1>6 DEF BucketDeleted
  <2>2. RestOK' BY <1>1, <2>1 DEF RestOK
  <2>3. FilerOK' /\ EntryInv' /\ (peer'.open => peer'.buf.up) BY <1>1, <2>1, Constants DEF FilerOK, EntryInv
  <2>4. entry' = entry \/ entry'.rules[1] # pass.p \/ pass.p \notin Policies BY <2>1, Constants
  <2> QED BY <1>2, <2>2, <2>3, <2>4, Around
<1>7. CASE BucketEdit \/ ClusterEdit
  <2>1. UNCHANGED <<bucket, attr, recorded, entry, ttl>>
    BY <1>7 DEF BucketEdit, ClusterEdit, filerVars, bucketVars
  <2>2. spec' \in 0 .. 1
    <3>1. spec' = spec \/ spec' = 1 - spec BY <1>7 DEF BucketEdit, ClusterEdit, bucketVars
    <3> QED BY <1>1, <3>1
  <2>3. cluster' \in BOOLEAN BY <1>1, <1>7, Zenon DEF BucketEdit, ClusterEdit
  <2>4. peer' \in PeerType /\ peer'.open = peer.open /\ peer'.buf = peer.buf
    <3>1. peer' = peer \/ peer' = [peer EXCEPT !.stale = peer.open]
      BY <1>7 DEF BucketEdit, ClusterEdit
    <3> QED BY <1>1, <3>1 DEF PeerType
  <2>5. RestOK' BY <1>1, <2>1, <2>2, <2>3, <2>4 DEF RestOK
  <2>6. FilerOK' /\ EntryInv' /\ (peer'.open => peer'.buf.up) BY <1>1, <2>1, <2>4 DEF FilerOK, EntryInv
  <2> QED BY <1>2, <2>1, <2>5, <2>6, Around
<1>8. CASE Drift
  <2>1. PICK e : e = [entry EXCEPT !.rules = NoRules] OBVIOUS
  <2>2. e \in Entries /\ e.rules = NoRules BY <1>1, <2>1, Constants DEF Entries
  <2>3. entry' = e /\ UNCHANGED <<cluster, bucket, attr, spec, recorded, ttl, peer>>
    BY <1>8, <2>1 DEF Drift, crVars, bucketVars
  <2>4. RestOK' BY <1>1, <2>3 DEF RestOK
  <2>5. FilerOK' /\ EntryInv' /\ (peer'.open => peer'.buf.up) BY <1>1, <2>2, <2>3 DEF FilerOK, EntryInv
  <2>6. entry'.rules[1] # pass.p \/ pass.p \notin Policies BY <2>2, <2>3, Constants
  <2> QED BY <1>2, <2>4, <2>5, <2>6, Around
<1> QED BY <1>3, <1>4, <1>5, <1>6, <1>7, <1>8

(* A person cannot touch a policy that is being deleted, and edits spoil   *)
(* the copy of a pass that works for the policy.                           *)
LEMMA PolicyEditInv ==
    ASSUME IInv, NEW p \in Policies, PolicyEdit(p)
    PROVE  IInv'
<1>1. PolicyOK /\ policy[p] \in PolicyType /\ RecordOf(policy[p]) /\ pass \in PassType /\ RecordInv
  BY Parts DEF IInv, TypeOK, PolicyOK
<1>2. PICK o \in PolicyType : /\ RecordOf(o) /\ policy' = [policy EXCEPT ![p] = o]
                              /\ ~policy[p].deleting \/ ~policy[p].exists
  <2>1. CASE ~policy[p].exists
    <3>1. PICK t \in Births : policy' = [policy EXCEPT ![p] = [NoPolicy(p) EXCEPT !.exists = TRUE, !.birth = t]]
      BY <2>1 DEF PolicyEdit
    <3>2. PICK o : o = [NoPolicy(p) EXCEPT !.exists = TRUE, !.birth = t] OBVIOUS
    <3>3. o \in PolicyType /\ RecordOf(o) BY <3>2, Constants DEF PolicyType, RecordOf
    <3> QED BY <2>1, <3>1, <3>2, <3>3
  <2>2. CASE policy[p].exists
    <3>1. ~policy[p].deleting BY <2>2 DEF PolicyEdit
    <3>2. CASE \E r \in RulesOf(p) : policy' = [policy EXCEPT ![p].rules = r]
      <4>1. PICK r \in RulesOf(p) : policy' = [policy EXCEPT ![p].rules = r] BY <3>2
      <4>2. PICK o : o = [policy[p] EXCEPT !.rules = r] OBVIOUS
      <4>3. o \in PolicyType /\ RecordOf(o) BY <1>1, <4>1, <4>2, Constants DEF PolicyType, RecordOf
      <4> QED BY <3>1, <4>1, <4>2, <4>3
    <3>3. CASE \E r \in BOOLEAN :
                 policy' = [policy EXCEPT ![p] = IF @.fin THEN [@ EXCEPT !.deleting = TRUE, !.retain = r]
                                                         ELSE NoPolicy(p)]
      <4>1. PICK r \in BOOLEAN :
              policy' = [policy EXCEPT ![p] = IF @.fin THEN [@ EXCEPT !.deleting = TRUE, !.retain = r]
                                                      ELSE NoPolicy(p)]
        BY <3>3
      <4>2. PICK o : o = [policy[p] EXCEPT !.deleting = TRUE, !.retain = r] OBVIOUS
      <4>3. o \in PolicyType /\ (policy[p].fin => RecordOf(o)) BY <1>1, <4>2 DEF PolicyType, RecordOf
      <4> QED BY <3>1, <4>1, <4>2, <4>3, Constants
    <3> QED BY <2>2, <3>2, <3>3 DEF PolicyEdit
  <2> QED BY <1>1, <2>1, <2>2 DEF PolicyType
<1>3. PolicyOK' BY <1>1, <1>2 DEF PolicyOK
<1>4. PICK x \in BOOLEAN : x = (pass.stale \/ pass.p = p) OBVIOUS
<1>5. pass' = [pass EXCEPT !.stale = x] BY <1>4 DEF PolicyEdit
<1>6. /\ pass' \in PassType /\ pass'.pc = pass.pc /\ pass'.p = pass.p /\ pass'.stale = x
      /\ pass'.gone = pass.gone /\ pass'.buf = pass.buf
  BY <1>1, <1>5 DEF PassType
<1>7. pass.pc \in {"cleanup", "clear", "finalize"} => pass.p # p BY <1>1, <1>2 DEF RecordInv
<1>8. \A q \in Policies : q # p => policy'[q] = policy[q] BY <1>1, <1>2 DEF PolicyOK
<1>9. UNCHANGED <<cluster, bucketVars, peer, entry, ttl>> BY DEF PolicyEdit, filerVars
<1>10. FilerOK' /\ RestOK' /\ EntryInv' /\ (peer'.open => peer'.buf.up)
  BY <1>9, Unmoved DEF IInv, TypeOK
<1>11. TypeOK' BY <1>3, <1>6, <1>10 DEF TypeOK, PolicyOK, FilerOK, RestOK, RecordOf, PeerType
<1>12. RecordInv'
  <2>1. pass'.pc # "idle" => pass'.p \in Policies BY <1>1, <1>6 DEF RecordInv
  <2>2. pass'.pc # "idle" /\ ~pass'.stale => policy'[pass'.p].exists /\ policy'[pass'.p].fin
    BY <1>1, <1>4, <1>6, <1>8 DEF RecordInv
  <2>3. pass'.pc \in {"cleanup", "clear", "finalize"} => policy'[pass'.p].exists /\ policy'[pass'.p].deleting
    BY <1>1, <1>6, <1>7, <1>8, <2>1 DEF RecordInv
  <2> QED BY <1>3, <2>1, <2>2, <2>3 DEF RecordInv, PolicyOK
<1>13. BuffersInv' BY <1>6, <1>10 DEF IInv, BuffersInv
<1>14. CleanInv' BY <1>1, <1>6, <1>7, <1>8, <1>9 DEF IInv, CleanInv, RecordInv
<1> QED BY <1>10, <1>11, <1>12, <1>13, <1>14 DEF IInv

LEMMA NextInv == IInv /\ [Next]_vars => IInv'
<1> SUFFICES ASSUME IInv, [Next]_vars PROVE IInv'
  OBVIOUS
<1>1. CASE \E p \in Policies : Reconcile(p) \/ handleDeletion(p) \/ PolicyEdit(p)
  BY <1>1, ReconcileInv, HandleDeletionInv, PolicyEditInv
<1>2. CASE PassStep \/ PassFails \/ Restart BY <1>2, PassStepInv, PassEndsInv
<1>3. CASE PeerReads \/ PeerWrites \/ Provision \/ BucketDeleted \/ BucketEdit \/ ClusterEdit \/ Drift
  BY <1>3, WritersInv
<1>4. CASE UNCHANGED vars
  BY <1>4 DEF vars, crVars, bucketVars, filerVars, IInv, TypeOK, RecordInv, BuffersInv, EntryInv, CleanInv
<1> QED BY <1>1, <1>2, <1>3, <1>4 DEF Next

LEMMA InvHolds == Spec => []IInv
BY InitInv, NextInv, PTL DEF Spec

(* Type correctness of policies, the entry and the two open writes; a      *)
(* policy whose deletion is under way has its finalizer.                   *)
THEOREM LifecycleTypeCorrect == Spec => []TypeOK
<1>1. IInv => TypeOK BY DEF IInv
<1> QED BY <1>1, InvHolds, PTL

CleanStep ==
    \A p \in Policies :
        policy[p].exists /\ ~policy'[p].exists /\ policy[p].mark /\ ~policy[p].retain =>
            pass.gone \/ entry.rules[1] # p \/ entry.back

(* Only the end of a deletion, or a person before the finalizer is there,  *)
(* makes a policy go.                                                      *)
LEMMA CleanNext ==
    ASSUME IInv, [Next]_vars
    PROVE  CleanStep
<1> SUFFICES ASSUME NEW p \in Policies, policy[p].exists, ~policy'[p].exists, policy[p].mark, ~policy[p].retain
             PROVE  pass.gone \/ entry.rules[1] # p \/ entry.back
  BY DEF CleanStep
<1>1. PolicyOK /\ RecordInv /\ policy[p].fin /\ \A q \in Policies : policy[q] \in PolicyType
  BY Parts DEF IInv, PolicyOK, RecordInv, RecordOf
<1>2. ASSUME NEW q \in Policies, NEW o, EndWith(q, o), o.exists = policy[q].exists PROVE FALSE
  BY <1>1, <1>2 DEF EndWith, PolicyOK
<1>3. policy' # policy OBVIOUS
<1>4. ASSUME NEW q \in Policies, Reconcile(q) PROVE FALSE
  <2>1. /\ [policy[q] EXCEPT !.fin = TRUE].exists = policy[q].exists
        /\ [policy[q] EXCEPT !.phase = "Pending"].exists = policy[q].exists
        /\ [policy[q] EXCEPT !.phase = "Failed", !.mark = FALSE].exists = policy[q].exists
    BY <1>1 DEF PolicyType
  <2>2. \/ EndWith(q, [policy[q] EXCEPT !.fin = TRUE]) \/ Pending(q) \/ Conflict(q) \/ policy' = policy
    BY <1>4 DEF Reconcile, PassTo
  <2> QED BY <1>2, <1>3, <2>1, <2>2 DEF Pending, Conflict
<1>5. ASSUME NEW q \in Policies, handleDeletion(q) PROVE FALSE BY <1>3, <1>5 DEF handleDeletion, PassTo
<1>6. ASSUME NEW q \in Policies, PolicyEdit(q) PROVE FALSE
  <2>1. CASE q # p BY <1>1, <1>6, <2>1 DEF PolicyEdit, PolicyOK
  <2>2. CASE q = p
    <3>1. \A r \in BOOLEAN : [policy[p] EXCEPT !.deleting = TRUE, !.retain = r].exists BY <1>1 DEF PolicyType
    <3>2. \A r : [policy[p] EXCEPT !.rules = r].exists BY <1>1 DEF PolicyType
    <3>3. \/ \E r : policy' = [policy EXCEPT ![p] = [policy[p] EXCEPT !.rules = r]]
          \/ \E r \in BOOLEAN :
               policy' = [policy EXCEPT ![p] = [policy[p] EXCEPT !.deleting = TRUE, !.retain = r]]
      BY <1>1, <1>6, <2>2 DEF PolicyEdit
    <3> QED BY <1>1, <3>1, <3>2, <3>3 DEF PolicyOK
  <2> QED BY <2>1, <2>2
<1>7. CASE removeFinalizer
  <2>1. pass.pc = "finalize" /\ pass.p \in Policies BY <1>1, <1>7 DEF removeFinalizer, RecordInv
  <2>2. p = pass.p BY <1>1, <1>7, <2>1 DEF removeFinalizer, EndWith, PolicyOK
  <2> QED BY <2>1, <2>2 DEF IInv, CleanInv
<1>8. CASE Apply \/ LookupEntry \/ WriteEntry \/ Ready \/ Cleanup \/ ClearEntry \/ PassFails \/ Restart
  <2>1. pass.p \in Policies
    BY <1>1, <1>8 DEF Apply, LookupEntry, WriteEntry, Ready, Cleanup, ClearEntry, PassFails, Restart, RecordInv
  <2>2. /\ [policy[pass.p] EXCEPT !.phase = "Failed"].exists = policy[pass.p].exists
        /\ [policy[pass.p] EXCEPT !.phase = "Terminating"].exists = policy[pass.p].exists
        /\ [policy[pass.p] EXCEPT !.phase = "Ready", !.mark = TRUE].exists = policy[pass.p].exists
    BY <1>1, <2>1 DEF PolicyType
  <2>3. \/ policy' = policy \/ failPhase(pass.p) \/ cleanupFailed(pass.p)
        \/ EndWith(pass.p, [policy[pass.p] EXCEPT !.phase = "Ready", !.mark = TRUE])
    BY <1>8 DEF Apply, LookupEntry, WriteEntry, Ready, Cleanup, ClearEntry, PassFails, Restart, PassTo
  <2> QED BY <1>2, <1>3, <2>1, <2>2, <2>3 DEF failPhase, cleanupFailed
<1>9. CASE PeerReads \/ PeerWrites \/ Provision \/ BucketDeleted \/ BucketEdit \/ ClusterEdit \/ Drift
           \/ UNCHANGED vars
  BY <1>3, <1>9 DEF PeerReads, PeerWrites, Provision, BucketDeleted, BucketEdit, ClusterEdit, Drift, vars, crVars
<1> QED BY <1>4, <1>5, <1>6, <1>7, <1>8, <1>9 DEF Next, PassStep

(* A policy on record as applied does not leave its rules behind, for any  *)
(* number of policies, edits and faults: when its finalizer goes they are  *)
(* gone from the entry, unless retained, or its deletion found no cluster, *)
(* or the other writer's old copy put them back (handleDeletion).          *)
THEOREM RulesAreCleaned == Spec => RecordedCleaned
<1>1. IInv /\ [Next]_vars => CleanStep BY CleanNext
<1>2. CleanStep <=>
        \A p \in Policies :
            policy[p].exists /\ ~policy'[p].exists /\ policy[p].mark /\ ~policy[p].retain =>
                pass.gone \/ entry.rules[1] # p \/ entry.back
  BY DEF CleanStep
<1> QED BY <1>1, <1>2, InvHolds, PTL DEF Spec, RecordedCleaned
=============================================================================
