----------------------- MODULE ClusterWorkloadsProofs -----------------------
(***************************************************************************)
(* Proofs about ClusterWorkloads, for every set of clusters to start from, *)
(* every set of features to toggle, and any number of edits and faults.    *)
(***************************************************************************)
EXTENDS ClusterWorkloads, TLAPS

(***************************************************************************)
(* Calls and plans. What a pass for the features f may call, and in which  *)
(* order.                                                                  *)
(***************************************************************************)
ACall(op, n) == [op |-> op, n |-> n]

(* No call deletes a workload with claims, except that of a DaemonSet; the *)
(* security configuration is deleted only if f does not need it, and only  *)
(* pruneOwned deletes ConfigMaps.                                          *)
Kept == (WithPods \ {S3, Sftp, Mirror, Mirror2}) \cup ConfigMaps \cup {Server, Security, OldSecurity}
Sane(c, f) ==
    /\ c \in CallType
    /\ c.op = "put" => c.n # OldSecurity
    /\ c.op = "apply" => c.n \in {CA, Server}
    /\ c.op = "delete" => c.n \notin Kept
    /\ c.op = "prune" => c.n \notin WithPods \cup {Server}
    /\ c.op = "prune" /\ c.n \in {Security, OldSecurity} => ~securityConfigNeeded(f)
    /\ c.op = "clear" => c.n = OldWorker
    /\ c.op = "replace" => c.n \in {Volume, VolumeDs, OldWorkerPeer}
    /\ c.op = "replace" /\ c.n = Volume => "daemonset" \in f

(* A workload of volume servers is put right after the other kind is gone, *)
(* and the security Secret right after the keys were read.                 *)
Turned == {Volume, VolumeDs, Security}
Before(n) == IF n = Security THEN ACall("keys", Security) ELSE ACall("replace", Rival(n))
InTurn(s) ==
    \A i \in 2 .. Len(s) : \A n \in Turned :
        s[i] = ACall("put", n) => s[i - 1] = Before(n)

(* The Secrets that templates mount come before the workloads.             *)
PutsPods(c) == c.op = "put" /\ c.n \in WithPods
MakesSecret(c) == c = ACall("put", Security) \/ c = ACall("apply", Server)
SecretsFirst(s) ==
    \A i, j \in 1 .. Len(s) : i < j /\ PutsPods(s[i]) => ~MakesSecret(s[j])

Has(s, c) == \E i \in 1 .. Len(s) : s[i] = c

(* A sequence of calls that is part of a plan, with nothing before it.     *)
Part(s, f) ==
    /\ s \in Seq(CallType)
    /\ \A i \in 1 .. Len(s) : Sane(s[i], f)
    /\ InTurn(s)
    /\ Len(s) > 0 => \A n \in Turned : s[1] # ACall("put", n)

NoSecrets(s) == \A i \in 1 .. Len(s) : ~MakesSecret(s[i])
NoPods(s) == \A i \in 1 .. Len(s) : ~PutsPods(s[i])

(***************************************************************************)
(* Lemmas on sequences of calls.                                           *)
(***************************************************************************)
LEMMA PartConcat ==
    ASSUME NEW s, NEW t, NEW f, Part(s, f), Part(t, f)
    PROVE  Part(s \o t, f)
<1>1. s \in Seq(CallType) /\ t \in Seq(CallType) BY DEF Part
<1>2. s \o t \in Seq(CallType) /\ Len(s \o t) = Len(s) + Len(t) BY <1>1
<1>3. /\ \A i \in 1 .. Len(s) : (s \o t)[i] = s[i]
      /\ \A i \in Len(s) + 1 .. Len(s) + Len(t) : (s \o t)[i] = t[i - Len(s)]
  BY <1>1
<1>4. Len(s) \in Nat /\ Len(t) \in Nat BY <1>1
<1>5. ASSUME NEW i \in 1 .. Len(s \o t) PROVE Sane((s \o t)[i], f)
  <2>1. CASE i <= Len(s)
    <3>1. i \in 1 .. Len(s) BY <1>2, <1>4, <2>1
    <3> QED BY <1>3, <3>1 DEF Part
  <2>2. CASE i > Len(s)
    <3>1. i \in Len(s) + 1 .. Len(s) + Len(t) /\ i - Len(s) \in 1 .. Len(t) BY <1>2, <1>4, <2>2
    <3> QED BY <1>3, <3>1 DEF Part
  <2> QED BY <1>2, <1>4, <2>1, <2>2
<1>6. InTurn(s \o t)
  <2> SUFFICES ASSUME NEW i \in 2 .. Len(s \o t), NEW n \in Turned,
                      (s \o t)[i] = ACall("put", n)
               PROVE  (s \o t)[i - 1] = Before(n)
    BY DEF InTurn
  <2>1. CASE i <= Len(s)
    <3>1. i \in 2 .. Len(s) /\ i - 1 \in 1 .. Len(s) /\ i \in 1 .. Len(s) BY <1>2, <1>4, <2>1
    <3>2. (s \o t)[i] = s[i] /\ (s \o t)[i - 1] = s[i - 1] BY <1>3, <3>1
    <3> QED BY <3>1, <3>2 DEF Part, InTurn
  <2>2. CASE i = Len(s) + 1
    <3>1. i \in Len(s) + 1 .. Len(s) + Len(t) /\ i - Len(s) = 1 /\ Len(t) > 0 BY <1>2, <1>4, <2>2
    <3>2. (s \o t)[i] = t[1] BY <1>3, <3>1
    <3> QED BY <3>1, <3>2 DEF Part
  <2>3. CASE i > Len(s) + 1
    <3>1. /\ i \in Len(s) + 1 .. Len(s) + Len(t) /\ i - 1 \in Len(s) + 1 .. Len(s) + Len(t)
          /\ i - Len(s) \in 2 .. Len(t) /\ (i - 1) - Len(s) = (i - Len(s)) - 1
      BY <1>2, <1>4, <2>3
    <3>2. (s \o t)[i] = t[i - Len(s)] /\ (s \o t)[i - 1] = t[(i - Len(s)) - 1] BY <1>3, <3>1
    <3> QED BY <3>1, <3>2 DEF Part, InTurn
  <2> QED BY <1>2, <1>4, <2>1, <2>2, <2>3
<1>7. Len(s \o t) > 0 => \A n \in Turned : (s \o t)[1] # ACall("put", n)
  <2>1. CASE Len(s) > 0
    <3>1. (s \o t)[1] = s[1] BY <1>3, <1>4, <2>1
    <3> QED BY <2>1, <3>1 DEF Part
  <2>2. CASE Len(s) = 0
    <3>1. Len(t) > 0 => (s \o t)[1] = t[1] BY <1>3, <1>4, <2>2
    <3> QED BY <1>2, <1>4, <2>2, <3>1 DEF Part
  <2> QED BY <1>4, <2>1, <2>2
<1> QED BY <1>2, <1>5, <1>6, <1>7 DEF Part

LEMMA PartCall ==
    ASSUME NEW f, NEW op, NEW n, Sane(ACall(op, n), f),
           op = "put" => n \notin Turned
    PROVE  Part(Call(op, n), f)
<1> DEFINE c == ACall(op, n)
<1>1. Call(op, n) = <<c>> BY DEF Call, ACall
<1>2. c \in CallType BY DEF Sane
<1>3. \A m \in Turned : c # ACall("put", m) BY DEF ACall
<1> HIDE DEF c
<1>4. <<c>> \in Seq(CallType) /\ Len(<<c>>) = 1 /\ <<c>>[1] = c BY <1>2
<1>5. Sane(c, f) BY DEF c
<1> QED BY <1>1, <1>3, <1>4, <1>5 DEF Part, InTurn

LEMMA PartWhen ==
    ASSUME NEW f, NEW condition, NEW s, condition => Part(s, f)
    PROVE  Part(When(condition, s), f)
<1>1. Part(<<>>, f) BY DEF Part, InTurn
<1> QED BY <1>1 DEF When

(* What must come right before a put comes, then the put.                  *)
LEMMA PartSwitch ==
    ASSUME NEW f, NEW n \in Turned, NEW c, c = Before(n), Sane(c, f)
    PROVE  Part(<<c>> \o Put(n), f)
<1> DEFINE d == ACall("put", n)
<1>1. Put(n) = <<d>> BY DEF Put, Call, ACall
<1>2. c \in CallType BY DEF Sane
<1>3. Sane(d, f) /\ d \in CallType
  BY DEF Sane, ACall, CallType, Ops, Names, WithPods, Turned, Volume, VolumeDs, Security, OldSecurity
<1>4. \A m \in Turned : c # ACall("put", m) BY DEF ACall, Before
<1>5. \A m \in Turned : d = ACall("put", m) => c = Before(m)
  BY DEF ACall
<1> HIDE DEF d
<1>7. PICK s : s = <<c>> \o <<d>> OBVIOUS
<1>8. s \in Seq(CallType) /\ Len(s) = 2 /\ s[1] = c /\ s[2] = d BY <1>2, <1>3, <1>7
<1>9. \A i \in 1 .. 2 : Sane(s[i], f)
  <2> TAKE i \in 1 .. 2
  <2>1. i = 1 \/ i = 2 OBVIOUS
  <2> QED BY <2>1, <1>3, <1>8
<1>10. InTurn(s)
  <2> SUFFICES ASSUME NEW i \in 2 .. 2, NEW m \in Turned, s[i] = ACall("put", m)
               PROVE  s[i - 1] = Before(m)
    BY <1>8 DEF InTurn
  <2>1. i = 2 /\ i - 1 = 1 OBVIOUS
  <2> QED BY <2>1, <1>5, <1>8
<1> QED BY <1>1, <1>4, <1>7, <1>8, <1>9, <1>10 DEF Part

(***************************************************************************)
(* The order of the Secrets and the workloads in a plan, and its last call.*)
(***************************************************************************)
LEMMA ConcatItems ==
    ASSUME NEW s \in Seq(CallType), NEW t \in Seq(CallType),
           NEW i \in 1 .. Len(s \o t)
    PROVE  \/ i \in 1 .. Len(s) /\ (s \o t)[i] = s[i]
           \/ i \in Len(s) + 1 .. Len(s) + Len(t) /\ i - Len(s) \in 1 .. Len(t)
              /\ (s \o t)[i] = t[i - Len(s)]
OBVIOUS

LEMMA NoSecretsConcat ==
    ASSUME NEW f, NEW s, NEW t, Part(s, f), Part(t, f), NoSecrets(s), NoSecrets(t)
    PROVE  NoSecrets(s \o t)
BY ConcatItems DEF NoSecrets, Part

LEMMA NoPodsConcat ==
    ASSUME NEW f, NEW s, NEW t, Part(s, f), Part(t, f), NoPods(s), NoPods(t)
    PROVE  NoPods(s \o t)
BY ConcatItems DEF NoPods, Part

LEMMA SecretsFirstConcat ==
    ASSUME NEW f, NEW s, NEW t, Part(s, f), Part(t, f), SecretsFirst(s), NoSecrets(t)
    PROVE  SecretsFirst(s \o t)
<1> SUFFICES ASSUME NEW i \in 1 .. Len(s \o t), NEW j \in 1 .. Len(s \o t),
                    i < j, PutsPods((s \o t)[i]), MakesSecret((s \o t)[j])
             PROVE  FALSE
  BY DEF SecretsFirst
<1>1. s \in Seq(CallType) /\ t \in Seq(CallType) BY DEF Part
<1>2. j \in 1 .. Len(s) /\ (s \o t)[j] = s[j] BY <1>1, ConcatItems DEF NoSecrets
<1>3. i \in 1 .. Len(s) /\ (s \o t)[i] = s[i] BY <1>1, <1>2
<1> QED BY <1>2, <1>3 DEF SecretsFirst

LEMMA HasConcat ==
    ASSUME NEW s \in Seq(CallType), NEW t \in Seq(CallType), NEW c, Has(s, c) \/ Has(t, c)
    PROVE  Has(s \o t, c)
<1>1. CASE Has(s, c)
  <2>1. PICK i \in 1 .. Len(s) : s[i] = c BY <1>1 DEF Has
  <2>2. i \in 1 .. Len(s \o t) /\ (s \o t)[i] = c BY <2>1
  <2> QED BY <2>2 DEF Has
<1>2. CASE Has(t, c)
  <2>1. PICK i \in 1 .. Len(t) : t[i] = c BY <1>2 DEF Has
  <2>2. Len(s) + i \in 1 .. Len(s \o t) /\ (s \o t)[Len(s) + i] = c BY <2>1
  <2> QED BY <2>2 DEF Has
<1> QED BY <1>1, <1>2

LEMMA HasCall ==
    ASSUME NEW op, NEW n
    PROVE  /\ Has(Call(op, n), ACall(op, n))
           /\ ~MakesSecret(ACall(op, n)) => NoSecrets(Call(op, n))
           /\ ~PutsPods(ACall(op, n)) => NoPods(Call(op, n))
<1>1. Len(Call(op, n)) = 1 /\ Call(op, n)[1] = ACall(op, n) BY DEF Call, ACall
<1> HIDE DEF Call
<1> QED BY <1>1 DEF Has, NoSecrets, NoPods

LEMMA EmptyCalls == NoSecrets(<<>>) /\ NoPods(<<>>)
BY DEF NoSecrets, NoPods

(* Calls before the workloads, and calls after the Secrets.                *)
Earlier(s, f) == Part(s, f) /\ NoPods(s)
Later(s, f) == Part(s, f) /\ NoSecrets(s)

LEMMA EarlierConcat ==
    ASSUME NEW f, NEW s, NEW t, Earlier(s, f), Earlier(t, f)
    PROVE  Earlier(s \o t, f)
BY PartConcat, NoPodsConcat DEF Earlier

LEMMA LaterConcat ==
    ASSUME NEW f, NEW s, NEW t, Later(s, f), Later(t, f)
    PROVE  Later(s \o t, f)
BY PartConcat, NoSecretsConcat DEF Later

LEMMA EmptyPart ==
    ASSUME NEW f
    PROVE  Earlier(<<>>, f) /\ Later(<<>>, f)
<1>1. Part(<<>>, f) BY DEF Part, InTurn
<1> QED BY <1>1, EmptyCalls DEF Earlier, Later

LEMMA LaterWhen ==
    ASSUME NEW f, NEW condition, NEW s, condition => Later(s, f)
    PROVE  Later(When(condition, s), f)
BY EmptyPart DEF When

LEMMA EarlierWhen ==
    ASSUME NEW f, NEW condition, NEW s, condition => Earlier(s, f)
    PROVE  Earlier(When(condition, s), f)
BY EmptyPart DEF When

LEMMA LaterPut ==
    ASSUME NEW f, NEW n \in Names \ (Turned \cup {OldSecurity})
    PROVE  Later(Put(n), f)
<1>1. Sane(ACall("put", n), f) BY DEF Sane, ACall, CallType, Ops
<1>2. ~MakesSecret(ACall("put", n)) BY DEF ACall, MakesSecret, Turned
<1> QED BY <1>1, <1>2, PartCall, HasCall DEF Put, Later

LEMMA EarlierApply ==
    ASSUME NEW f, NEW n \in {CA, Server}
    PROVE  Earlier(Apply(n), f)
<1>1. Sane(ACall("apply", n), f) BY DEF Sane, ACall, CallType, Ops, Names
<1>2. ~PutsPods(ACall("apply", n)) BY DEF ACall, PutsPods
<1> QED BY <1>1, <1>2, PartCall, HasCall DEF Apply, Earlier

LEMMA LaterDel ==
    ASSUME NEW f, NEW n \in Names \ Kept
    PROVE  Later(Del(n), f)
<1>1. Sane(ACall("delete", n), f) BY DEF Sane, ACall, CallType, Ops
<1>2. ~MakesSecret(ACall("delete", n)) BY DEF ACall, MakesSecret
<1> QED BY <1>1, <1>2, PartCall, HasCall DEF Del, Later

LEMMA EitherPrune ==
    ASSUME NEW f, NEW n \in Names \ (WithPods \cup {Server}),
           n \in {Security, OldSecurity} => ~securityConfigNeeded(f)
    PROVE  Earlier(Prune(n), f) /\ Later(Prune(n), f)
<1>1. Sane(ACall("prune", n), f) BY DEF Sane, ACall, CallType, Ops
<1>2. ~PutsPods(ACall("prune", n)) /\ ~MakesSecret(ACall("prune", n))
  BY DEF ACall, PutsPods, MakesSecret
<1> QED BY <1>1, <1>2, PartCall, HasCall DEF Prune, Earlier, Later

LEMMA LaterCheck ==
    ASSUME NEW f, NEW op \in {"refuse", "quorum", "credentials", "status"}
    PROVE  Later(Check(op), f)
<1>1. Sane(ACall(op, Master), f) BY DEF Sane, ACall, CallType, Ops, Names, WithPods
<1>2. ~MakesSecret(ACall(op, Master)) BY DEF ACall, MakesSecret
<1> QED BY <1>1, <1>2, PartCall, HasCall DEF Check, Later

LEMMA LaterSwitch ==
    ASSUME NEW f, NEW n \in {Volume, VolumeDs}, n = VolumeDs => "daemonset" \in f
    PROVE  Later(DelAndWait(Rival(n)) \o Put(n), f)
<1> DEFINE c == ACall("replace", Rival(n))
<1>1. Rival(n) \in {Volume, VolumeDs} /\ (Rival(n) = Volume => n = VolumeDs)
  BY DEF Rival, Volume, VolumeDs
<1>2. Sane(c, f) BY <1>1 DEF Sane, ACall, CallType, Ops, Names, WithPods
<1>3. n \in Turned /\ c = Before(n) /\ n # Security
  BY DEF Turned, Before, Volume, VolumeDs, Security
<1>4. DelAndWait(Rival(n)) = <<c>> BY DEF DelAndWait, Call, ACall
<1>5. Part(DelAndWait(Rival(n)) \o Put(n), f) BY <1>2, <1>3, <1>4, PartSwitch
<1>6. /\ ~MakesSecret(c) /\ ~MakesSecret(ACall("put", n))
      /\ c \in CallType /\ ACall("put", n) \in CallType
  BY <1>1, <1>3 DEF ACall, MakesSecret, CallType, Ops, Names, WithPods
<1>7. NoSecrets(DelAndWait(Rival(n))) /\ NoSecrets(Put(n)) BY <1>6, HasCall DEF DelAndWait, Put
<1>8. DelAndWait(Rival(n)) \in Seq(CallType) /\ Put(n) \in Seq(CallType)
  BY <1>6 DEF DelAndWait, Put, Call, ACall
<1>9. NoSecrets(DelAndWait(Rival(n)) \o Put(n)) BY <1>7, <1>8, ConcatItems DEF NoSecrets
<1> QED BY <1>5, <1>9 DEF Later

LEMMA LaterCleanup ==
    ASSUME NEW f
    PROVE  Later(cleanupLegacyWorkerStatefulSet(f), f)
<1>1. OldWorkerPeer # Volume /\ OldWorkerPeer \in Names /\ OldWorker \in Names
  BY DEF OldWorkerPeer, Volume, Names, WithPods
<1>2. Sane(ACall("replace", OldWorkerPeer), f) /\ Sane(ACall("clear", OldWorker), f)
  BY <1>1 DEF Sane, ACall, CallType, Ops
<1>3. ~MakesSecret(ACall("replace", OldWorkerPeer)) /\ ~MakesSecret(ACall("clear", OldWorker))
  BY DEF ACall, MakesSecret
<1>4. Later(Call("clear", OldWorker), f) /\ Later(Call("replace", OldWorkerPeer), f)
  BY <1>2, <1>3, PartCall, HasCall DEF Later
<1> QED BY <1>4, LaterConcat DEF cleanupLegacyWorkerStatefulSet, DelAndWait

(* The objects that a plan upserts, those it deletes and those it prunes.  *)
Upserted ==
    {Master, Group, Filer, Admin, Worker, S3, Sftp, Mirror, Mirror2, MasterConfig, FilerConfig,
     MirrorConfig, MirrorConfig2, HostIngress, FilerIngress, S3Ingress, SFTPIngress, MasterServices,
     VolumeServices, GroupServices, FilerServices, AdminServices, S3Services, SFTPServices}
Deleted ==
    {S3, Sftp, Mirror, Mirror2, MirrorConfig, MirrorConfig2, S3Ingress, SFTPIngress, S3Services,
     SFTPServices}
Pruned == {MasterConfig, FilerConfig, FilerIngress, S3Ingress, SFTPIngress}

LEMMA NamesApart ==
    /\ Upserted \subseteq Names \ (Turned \cup {OldSecurity})
    /\ Deleted \subseteq Names \ Kept
    /\ Pruned \subseteq Names \ (WithPods \cup {Server, Security, OldSecurity})
    /\ {Security, OldSecurity} \subseteq Names \ (WithPods \cup ConfigMaps \cup {Server, CA})
    /\ {CA, Server} \subseteq Names \ (WithPods \cup ConfigMaps)
    /\ {Volume, VolumeDs} \subseteq Names /\ ConfigMaps \subseteq Names \ WithPods
    /\ Volume # VolumeDs /\ Security # OldSecurity /\ CA # Server
BY DEF Upserted, Deleted, Pruned, Kept, Turned, Names, WithPods, Ingresses, ConfigMaps, Master, Volume,
       VolumeDs, Group, Filer, Admin, Worker, OldWorker, OldWorkerPeer, S3, Sftp, Mirror, Mirror2,
       Security, OldSecurity, CA, Server, MasterConfig, FilerConfig, MirrorConfig, MirrorConfig2,
       HostIngress, FilerIngress, S3Ingress, SFTPIngress, MasterServices, VolumeServices,
       GroupServices, FilerServices, AdminServices, S3Services, SFTPServices

LEMMA LaterUpserted ==
    ASSUME NEW f, NEW n \in Upserted
    PROVE  Later(Put(n), f)
BY LaterPut, NamesApart

LEMMA LaterDeleted ==
    ASSUME NEW f, NEW n \in Deleted
    PROVE  Later(Del(n), f)
BY LaterDel, NamesApart

LEMMA LaterPruned ==
    ASSUME NEW f, NEW n \in Pruned
    PROVE  Later(Prune(n), f)
BY EitherPrune, NamesApart

(***************************************************************************)
(* The plan of a pass.                                                     *)
(***************************************************************************)
LEMMA SecurityCalls ==
    ASSUME NEW f
    PROVE  /\ Earlier(ensureSecurityConfig(f), f)
           /\ securityConfigNeeded(f) => Has(ensureSecurityConfig(f), ACall("put", Security))
<1>1. CASE securityConfigNeeded(f)
  <2> DEFINE keys == ACall("keys", Security)
             both == Call("keys", Security) \o Put(Security)
  <2>1. Sane(keys, f) /\ Sane(ACall("legacy", OldSecurity), f) /\ ACall("put", Security) \in CallType
    BY NamesApart DEF Sane, ACall, CallType, Ops
  <2>2. ~PutsPods(keys) /\ ~PutsPods(ACall("put", Security)) /\ ~PutsPods(ACall("legacy", OldSecurity))
    BY NamesApart DEF ACall, PutsPods
  <2>3. Security \in Turned /\ keys = Before(Security) BY DEF Turned, Before
  <2>4. Call("keys", Security) = <<keys>> BY DEF Call, ACall
  <2>5. Part(both, f) BY <2>1, <2>3, <2>4, PartSwitch
  <2>6. Call("keys", Security) \in Seq(CallType) /\ Put(Security) \in Seq(CallType)
    BY <2>1 DEF Sane, Put, Call, ACall
  <2>7. NoPods(Call("keys", Security)) /\ NoPods(Put(Security)) BY <2>2, HasCall DEF Put
  <2>8. NoPods(both) BY <2>6, <2>7, ConcatItems DEF NoPods
  <2>9. Earlier(Call("legacy", OldSecurity), f) BY <2>1, <2>2, PartCall, HasCall DEF Earlier
  <2>10. Has(Put(Security), ACall("put", Security)) BY HasCall DEF Put
  <2>11. Has(both, ACall("put", Security)) BY <2>6, <2>10, HasConcat
  <2> HIDE DEF both
  <2>12. ensureSecurityConfig(f) = both \o Call("legacy", OldSecurity)
    BY <1>1 DEF ensureSecurityConfig, ensureSecuritySecret, both
  <2>13. Earlier(ensureSecurityConfig(f), f) BY <2>5, <2>8, <2>9, <2>12, EarlierConcat DEF Earlier
  <2> QED BY <2>5, <2>9, <2>11, <2>12, <2>13, HasConcat DEF Earlier, Part
<1>2. CASE ~securityConfigNeeded(f)
  <2>1. Earlier(Prune(Security), f) /\ Earlier(Prune(OldSecurity), f) BY <1>2, NamesApart, EitherPrune
  <2> QED BY <1>2, <2>1, EarlierConcat DEF ensureSecurityConfig
<1> QED BY <1>1, <1>2

LEMMA TLSCalls ==
    ASSUME NEW f
    PROVE  /\ Earlier(ensureTLS(f), f)
           /\ tlsEffective(f) => Has(ensureTLS(f), ACall("apply", Server))
<1> DEFINE certs == When("issuerRef" \notin f, Apply(CA)) \o Apply(Server)
<1>1. Earlier(Apply(CA), f) /\ Earlier(Apply(Server), f) BY EarlierApply
<1>2. Earlier(When("issuerRef" \notin f, Apply(CA)), f) BY <1>1, EarlierWhen
<1>3. Earlier(certs, f) BY <1>1, <1>2, EarlierConcat
<1>4. Has(Apply(Server), ACall("apply", Server)) BY HasCall DEF Apply
<1>5. Has(certs, ACall("apply", Server)) BY <1>1, <1>2, <1>4, HasConcat DEF Earlier, Part
<1>6. ensureTLS(f) = When(tlsEffective(f), certs) BY DEF ensureTLS
<1> HIDE DEF certs
<1>7. Earlier(ensureTLS(f), f) BY <1>3, <1>6, EarlierWhen
<1> QED BY <1>5, <1>6, <1>7 DEF When

LEMMA LaterCalls ==
    ASSUME NEW f
    PROVE  /\ Later(ensureMaster(f), f) /\ Later(ensureVolumeServers(f), f)
           /\ Later(ensureFilerServers(f), f) /\ Later(ensureAdminServers(f), f)
           /\ Later(ensureWorkers(f), f) /\ Later(ensureS3Gateway(f), f)
           /\ Later(ensureSFTPGateway(f), f) /\ Later(ensureBackupMirrors(f), f)
           /\ Later(ensureSeaweedIngress(f), f) /\ Later(ensureComponentIngresses(f), f)
<1> USE LaterConcat, LaterWhen, LaterUpserted, LaterDeleted, LaterPruned, LaterCleanup,
        LaterSwitch, LaterCheck, EmptyPart
<1>1. Later(ensureMaster(f), f)
  <2>1. {MasterServices, MasterConfig, Master} \subseteq Upserted /\ MasterConfig \in Pruned
    BY DEF Upserted, Pruned
  <2>2. /\ Later(Put(MasterServices), f) /\ Later(Put(Master), f)
        /\ Later(IF "masterConfig" \in f THEN Put(MasterConfig) ELSE Prune(MasterConfig), f)
        /\ Later(When("concurrentStart" \notin f, Check("quorum")), f)
    BY <2>1
  <2> QED BY <2>2 DEF ensureMaster
<1>2. Later(ensureVolumeServers(f), f)
  <2>1. {VolumeServices, GroupServices, Group} \subseteq Upserted BY DEF Upserted
  <2>2. Later(ensureVolumeServersWithTopology(f), f) BY <2>1 DEF ensureVolumeServersWithTopology
  <2>3. Rival(Volume) = VolumeDs /\ Rival(VolumeDs) = Volume BY NamesApart DEF Rival
  <2>4. Later(ensureVolumeServerStatefulSet(f), f) BY <2>3, NamesApart DEF ensureVolumeServerStatefulSet
  <2>5. "daemonset" \in f => Later(ensureVolumeServerDaemonSet(f), f)
    BY <2>3 DEF ensureVolumeServerDaemonSet
  <2>6. /\ Later(Put(VolumeServices) \o ensureVolumeServerStatefulSet(f), f)
        /\ "daemonset" \in f =>
             Later(Put(VolumeServices) \o When("hostPath" \notin f, Check("refuse"))
                   \o ensureVolumeServerDaemonSet(f), f)
    BY <2>1, <2>4, <2>5
  <2> QED BY <2>2, <2>6 DEF ensureVolumeServers
<1>3. Later(ensureFilerServers(f), f)
  <2>1. {FilerServices, FilerConfig, Filer} \subseteq Upserted /\ FilerConfig \in Pruned
    BY DEF Upserted, Pruned
  <2>2. /\ Later(Put(FilerServices), f) /\ Later(Put(Filer), f)
        /\ Later(IF "config" \in f THEN Put(FilerConfig) ELSE Prune(FilerConfig), f)
    BY <2>1
  <2> QED BY <2>2 DEF ensureFilerServers
<1>4. Later(ensureAdminServers(f), f)
  <2>1. Later(Put(AdminServices), f) /\ Later(Put(Admin), f) BY DEF Upserted
  <2> QED BY <2>1 DEF ensureAdminServers
<1>5. Later(ensureWorkers(f), f)
  <2>1. Later(Put(Worker), f) BY DEF Upserted
  <2> QED BY <2>1 DEF ensureWorkers
<1>6. Later(ensureS3Gateway(f), f)
  <2>1. /\ Later(Put(S3Services), f) /\ Later(Put(S3), f) /\ Later(Put(S3Ingress), f)
        /\ Later(Del(S3Services), f) /\ Later(Del(S3), f) /\ Later(Del(S3Ingress), f)
    BY DEF Upserted, Deleted
  <2>2. Later(deleteS3Gateway(f), f) BY <2>1 DEF deleteS3Gateway
  <2> QED BY <2>1, <2>2 DEF ensureS3Gateway
<1>7. Later(ensureSFTPGateway(f), f)
  <2>1. /\ Later(Put(SFTPServices), f) /\ Later(Put(Sftp), f) /\ Later(Put(SFTPIngress), f)
        /\ Later(Del(SFTPServices), f) /\ Later(Del(Sftp), f) /\ Later(Del(SFTPIngress), f)
    BY DEF Upserted, Deleted
  <2>2. Later(deleteSFTPGateway(f), f) BY <2>1 DEF deleteSFTPGateway
  <2> QED BY <2>1, <2>2 DEF ensureSFTPGateway
<1>8. Later(ensureBackupMirrors(f), f)
  <2>1. /\ Later(Put(MirrorConfig), f) /\ Later(Put(Mirror), f) /\ Later(Check("credentials"), f)
        /\ Later(Put(MirrorConfig2), f) /\ Later(Put(Mirror2), f)
        /\ Later(Del(MirrorConfig), f) /\ Later(Del(Mirror), f)
        /\ Later(Del(MirrorConfig2), f) /\ Later(Del(Mirror2), f)
    BY DEF Upserted, Deleted
  <2>2. \A b \in BOOLEAN : /\ Later(When(b, Del(Mirror)), f) /\ Later(When(b, Del(Mirror2)), f)
                           /\ Later(When(b, Del(MirrorConfig)), f) /\ Later(When(b, Del(MirrorConfig2)), f)
    BY <2>1
  <2>3. Later(pruneBackupMirrors(f), f) BY <2>2 DEF pruneBackupMirrors
  <2>4. \A b \in BOOLEAN : /\ Later(When(b, Check("credentials") \o Put(MirrorConfig) \o Put(Mirror)), f)
                           /\ Later(When(b, Check("credentials") \o Put(MirrorConfig2) \o Put(Mirror2)), f)
    <3>1. /\ Later(Check("credentials") \o Put(MirrorConfig) \o Put(Mirror), f)
          /\ Later(Check("credentials") \o Put(MirrorConfig2) \o Put(Mirror2), f)
      BY <2>1
    <3> QED BY <3>1
  <2> QED BY <2>3, <2>4 DEF ensureBackupMirrors
<1>9. Later(ensureSeaweedIngress(f), f)
  <2>1. Later(Put(HostIngress), f) BY DEF Upserted
  <2> QED BY <2>1 DEF ensureSeaweedIngress
<1>10. Later(ensureComponentIngresses(f), f)
  <2>1. Ingresses \subseteq Upserted /\ Ingresses \subseteq Pruned BY DEF Ingresses, Upserted, Pruned
  <2>2. \A n \in Ingresses : /\ Later(When(n \in Wanted(f), Put(n)), f)
                             /\ Later(When(n \notin Wanted(f), Prune(n)), f)
    BY <2>1
  <2> QED BY <2>2 DEF ensureComponentIngresses, Ingresses
<1> QED BY <1>1, <1>2, <1>3, <1>4, <1>5, <1>6, <1>7, <1>8, <1>9, <1>10

(* A beginning of a plan, with the calls that make the Secrets.            *)
PlanUpTo(s, f) ==
    /\ Part(s, f) /\ SecretsFirst(s)
    /\ securityConfigNeeded(f) => Has(s, ACall("put", Security))
    /\ tlsEffective(f) => Has(s, ACall("apply", Server))

LEMMA PlanConcat ==
    ASSUME NEW f, NEW s, NEW t, PlanUpTo(s, f), Later(t, f)
    PROVE  PlanUpTo(s \o t, f)
<1>1. s \in Seq(CallType) /\ t \in Seq(CallType) BY DEF PlanUpTo, Later, Part
<1> QED BY <1>1, PartConcat, SecretsFirstConcat, HasConcat DEF PlanUpTo, Later

LEMMA PlanCalls ==
    ASSUME NEW f
    PROVE  PlanUpTo(Plan(f), f) /\ Plan(f) # <<>> /\ Last(Plan(f)).op = "status"
<1> DEFINE p1 == ensureTLS(f) \o ensureSecurityConfig(f)
           p2 == p1 \o ensureMaster(f) \o ensureVolumeServers(f)
           p3 == p2 \o ensureFilerServers(f) \o ensureAdminServers(f) \o ensureWorkers(f)
           p4 == p3 \o ensureS3Gateway(f) \o ensureSFTPGateway(f) \o ensureBackupMirrors(f)
           p5 == p4 \o ensureSeaweedIngress(f) \o ensureComponentIngresses(f)
<1>1. PlanUpTo(p1, f)
  <2>1. Earlier(p1, f) BY SecurityCalls, TLSCalls, EarlierConcat
  <2>2. SecretsFirst(p1) BY <2>1 DEF Earlier, SecretsFirst, NoPods
  <2>3. ensureTLS(f) \in Seq(CallType) /\ ensureSecurityConfig(f) \in Seq(CallType)
    BY SecurityCalls, TLSCalls DEF Earlier, Part
  <2> QED BY <2>1, <2>2, <2>3, SecurityCalls, TLSCalls, HasConcat DEF PlanUpTo, Earlier
<1> HIDE DEF p1
<1>2. PlanUpTo(p2, f) BY <1>1, LaterCalls, PlanConcat
<1> HIDE DEF p2
<1>3. PlanUpTo(p3, f) BY <1>2, LaterCalls, PlanConcat
<1> HIDE DEF p3
<1>4. PlanUpTo(p4, f) BY <1>3, LaterCalls, PlanConcat
<1> HIDE DEF p4
<1>5. PlanUpTo(p5, f) BY <1>4, LaterCalls, PlanConcat
<1>6. Plan(f) = p5 \o Check("status") BY DEF Plan, p1, p2, p3, p4
<1> HIDE DEF p5
<1>7. PlanUpTo(Plan(f), f) BY <1>5, <1>6, LaterCheck, PlanConcat
<1>8. Check("status") = <<ACall("status", Master)>> BY DEF Check, Call, ACall
<1>9. p5 \in Seq(CallType) /\ ACall("status", Master) \in CallType
  BY <1>5 DEF PlanUpTo, Part, ACall, CallType, Ops, Names, WithPods
<1>10. /\ Len(p5 \o <<ACall("status", Master)>>) = Len(p5) + 1
       /\ (p5 \o <<ACall("status", Master)>>)[Len(p5) + 1] = ACall("status", Master)
       /\ p5 \o <<ACall("status", Master)>> # <<>>
  BY <1>9
<1>11. Plan(f) # <<>> /\ Last(Plan(f)) = ACall("status", Master)
  BY <1>6, <1>8, <1>10 DEF Last
<1> QED BY <1>7, <1>11 DEF ACall

(* A call is made and the rest of the plan is left.                        *)
LEMMA TailCalls ==
    ASSUME NEW s \in Seq(CallType), s # <<>>
    PROVE  /\ Tail(s) \in Seq(CallType) /\ Len(Tail(s)) = Len(s) - 1 /\ Len(s) \in Nat \ {0}
           /\ \A i \in 1 .. Len(Tail(s)) : Tail(s)[i] = s[i + 1] /\ i + 1 \in 1 .. Len(s)
           /\ Head(s) = s[1] /\ Head(s) \in CallType
OBVIOUS

LEMMA TailLast ==
    ASSUME NEW s \in Seq(CallType), s # <<>>, Last(s).op = "status", Head(s).op # "status"
    PROVE  Tail(s) # <<>> /\ Last(Tail(s)).op = "status"
<1>1. Len(s) > 1 BY TailCalls DEF Last
<1>2. Len(Tail(s)) > 0 /\ Len(Tail(s)) \in 1 .. Len(Tail(s)) BY <1>1, TailCalls
<1>3. Tail(s)[Len(Tail(s))] = s[Len(s)] BY <1>2, TailCalls
<1>4. Tail(s) # <<>>
  <2>1. \A t \in Seq(CallType) : Len(t) > 0 => t # <<>> OBVIOUS
  <2>2. Tail(s) \in Seq(CallType) BY TailCalls
  <2> QED BY <1>2, <2>1, <2>2, Zenon
<1> QED BY <1>3, <1>4 DEF Last

LEMMA TailOrder ==
    ASSUME NEW s \in Seq(CallType), s # <<>>, NEW f,
           \A i \in 1 .. Len(s) : Sane(s[i], f), InTurn(s), SecretsFirst(s)
    PROVE  /\ \A i \in 1 .. Len(Tail(s)) : Sane(Tail(s)[i], f)
           /\ InTurn(Tail(s)) /\ SecretsFirst(Tail(s))
           /\ \A c : Has(s, c) /\ c # Head(s) => Has(Tail(s), c)
           /\ \A n \in Turned :
                Tail(s) # <<>> /\ Head(Tail(s)) = ACall("put", n) =>
                  Head(s) = Before(n)
<1>1. \A i \in 1 .. Len(Tail(s)) : Sane(Tail(s)[i], f) BY TailCalls
<1>2. InTurn(Tail(s))
  <2> SUFFICES ASSUME NEW i \in 2 .. Len(Tail(s)), NEW n \in Turned,
                      Tail(s)[i] = ACall("put", n)
               PROVE  Tail(s)[i - 1] = Before(n)
    BY DEF InTurn
  <2>1. i \in 1 .. Len(Tail(s)) /\ i - 1 \in 1 .. Len(Tail(s)) BY TailCalls
  <2>2. i + 1 \in 2 .. Len(s) /\ (i + 1) - 1 = i /\ (i - 1) + 1 = i BY TailCalls
  <2>3. Tail(s)[i] = s[i + 1] /\ Tail(s)[i - 1] = s[(i + 1) - 1] BY <2>1, <2>2, TailCalls
  <2> QED BY <2>2, <2>3 DEF InTurn
<1>3. SecretsFirst(Tail(s))
  <2> SUFFICES ASSUME NEW i \in 1 .. Len(Tail(s)), NEW j \in 1 .. Len(Tail(s)),
                      i < j, PutsPods(Tail(s)[i])
               PROVE  ~MakesSecret(Tail(s)[j])
    BY DEF SecretsFirst
  <2>1. i + 1 < j + 1 OBVIOUS
  <2>2. Tail(s)[i] = s[i + 1] /\ Tail(s)[j] = s[j + 1] /\ i + 1 \in 1 .. Len(s) /\ j + 1 \in 1 .. Len(s)
    BY TailCalls
  <2> QED BY <2>1, <2>2 DEF SecretsFirst
<1>4. ASSUME NEW c, Has(s, c), c # Head(s) PROVE Has(Tail(s), c)
  <2>1. PICK i \in 1 .. Len(s) : s[i] = c BY <1>4 DEF Has
  <2>2. i # 1 BY <2>1, <1>4, TailCalls
  <2>3. i - 1 \in 1 .. Len(Tail(s)) /\ (i - 1) + 1 = i BY <2>2, TailCalls
  <2>4. Tail(s)[i - 1] = c BY <2>1, <2>3, TailCalls
  <2> QED BY <2>3, <2>4 DEF Has
<1>5. ASSUME NEW n \in Turned, Tail(s) # <<>>, Head(Tail(s)) = ACall("put", n)
      PROVE  Head(s) = Before(n)
  <2>1. Len(Tail(s)) > 0 BY <1>5, TailCalls
  <2>2. Head(Tail(s)) = s[2] /\ 2 \in 2 .. Len(s) /\ 2 - 1 = 1 BY <2>1, <1>5, TailCalls
  <2>3. s[2 - 1] = Before(n) BY <2>2, <1>5 DEF InTurn
  <2> QED BY <2>2, <2>3, TailCalls
<1> QED BY <1>1, <1>2, <1>3, <1>4, <1>5

(***************************************************************************)
(* Objects.                                                                *)
(***************************************************************************)
LEMMA StoreWith ==
    ASSUME NEW known, NEW n \in Names, NEW v \in ObjType, IsStore(known),
           v.in \subseteq Render(n, Features).in
    PROVE  IsStore(With(known, n, v))
BY DEF IsStore, With

LEMMA StoreWithout ==
    ASSUME NEW known, NEW n, IsStore(known)
    PROVE  IsStore(Without(known, n))
BY DEF IsStore, Without

(* A rendered object is made of the features of the CR that its component  *)
(* knows, and so mounts no Secret that the CR does not call for.           *)
Rendered(v, all, f) ==
    v \in ObjType /\ v.in \subseteq f /\ v.key = 0 /\ v.owned /\ v.in \subseteq all.in

LEMMA RenderType ==
    ASSUME NEW n, NEW f \in SUBSET Features
    PROVE  Rendered(Render(n, f), Render(n, Features), f)
<1>1. \A X : Rendered([Plain EXCEPT !.in = f \cap X], [Plain EXCEPT !.in = Features \cap X], f)
  BY DEF Rendered, Plain, ObjType, NoFeatures
<1>2. \A X : Rendered(Workload(f, X), Workload(Features, X), f)
  BY DEF Rendered, Workload, Plain, ObjType, NoFeatures, withJWTSigningAnnotation, securityConfigNeeded
<1>3. Rendered(Plain, Plain, f) BY DEF Rendered, Plain, ObjType, NoFeatures
<1>4. \A v, all : \A c, d \in BOOLEAN :
        Rendered(v, all, f) /\ all \in ObjType =>
          Rendered([v EXCEPT !.claims = c], [all EXCEPT !.claims = d], f)
  BY DEF Rendered, ObjType
<1>5. \A X : Workload(Features, X) \in ObjType
  BY DEF Workload, Plain, ObjType, NoFeatures, withJWTSigningAnnotation, securityConfigNeeded
<1>6. /\ Rendered(createVolumeServerStatefulSet(f), createVolumeServerStatefulSet(Features), f)
      /\ Rendered(createVolumeServerTopologyStatefulSet(f), createVolumeServerTopologyStatefulSet(Features), f)
  BY <1>2, <1>4, <1>5 DEF createVolumeServerStatefulSet, createVolumeServerTopologyStatefulSet,
     buildFlatVolumePodSpec, buildTopologyPodSpec, pvcVolumeDisks
<1>7. Rendered(createFilerStatefulSet(f), createFilerStatefulSet(Features), f)
  <2>1. ("persistence" \in f) \in BOOLEAN /\ ("persistence" \in Features) \in BOOLEAN OBVIOUS
  <2>2. \A X : Rendered([Workload(f, X) EXCEPT !.claims = "persistence" \in f],
                        [Workload(Features, X) EXCEPT !.claims = "persistence" \in Features], f)
    BY <2>1, <1>2, <1>4, <1>5, Zenon
  <2> QED BY <2>2 DEF createFilerStatefulSet
<1>8. /\ Rendered(createMasterStatefulSet(f), createMasterStatefulSet(Features), f)
      /\ Rendered(createVolumeServerDaemonSet(f), createVolumeServerDaemonSet(Features), f)
      /\ Rendered(createAdminStatefulSet(f), createAdminStatefulSet(Features), f)
      /\ Rendered(createWorkerDeployment(f), createWorkerDeployment(Features), f)
      /\ Rendered(buildS3Deployment(f), buildS3Deployment(Features), f)
      /\ Rendered(buildSFTPDeployment(f), buildSFTPDeployment(Features), f)
  BY <1>2 DEF createMasterStatefulSet, createVolumeServerDaemonSet, buildFlatVolumePodSpec,
     createAdminStatefulSet, createWorkerDeployment, buildS3Deployment, buildSFTPDeployment
<1>9. /\ Rendered(buildMirrorDeployment(f), buildMirrorDeployment(Features), f)
      /\ Rendered(renderSecurityTOML(f), renderSecurityTOML(Features), f)
      /\ Rendered(ensureServerCertificate(f), ensureServerCertificate(Features), f)
      /\ Rendered(s3IngressBackend(f), s3IngressBackend(Features), f)
  BY <1>1 DEF buildMirrorDeployment, renderSecurityTOML, ensureServerCertificate, s3IngressBackend
<1> QED BY <1>3, <1>6, <1>7, <1>8, <1>9 DEF Render

(* Only these StatefulSets have volumeClaimTemplates.                      *)
LEMMA ClaimsOf ==
    ASSUME NEW n, NEW f, n \notin {Volume, Group, Filer}
    PROVE  Render(n, f).claims = FALSE
<1>1. \A X : [Plain EXCEPT !.in = X].claims = FALSE /\ Plain.claims = FALSE BY DEF Plain
<1>2. \A X : Workload(f, X).claims = FALSE BY DEF Workload, Plain
<1> QED
  BY <1>1, <1>2
  DEF Render, createMasterStatefulSet, createVolumeServerDaemonSet, buildFlatVolumePodSpec,
      createAdminStatefulSet, createWorkerDeployment, buildS3Deployment, buildSFTPDeployment,
      buildMirrorDeployment, renderSecurityTOML, ensureServerCertificate, s3IngressBackend

(***************************************************************************)
(* Type correctness, in three parts.                                       *)
(***************************************************************************)
StoresOK == IsStore(objs) /\ IsStore(cache)

PassOK ==
    /\ pass \in PassType
    /\ Busy => pass.gen \in 1 .. cr.gen /\ (Webhook => Valid(pass.f)) /\ Last(pass.todo).op = "status"

RestOK ==
    /\ cr \in CrType /\ (Webhook => Valid(cr.f))
    /\ DOMAIN pods \subseteq WithPods /\ pods \in [DOMAIN pods -> SUBSET Features]
    /\ status \in [gen : Nat, ready : BOOLEAN] /\ status.gen <= cr.gen
    /\ {creds, issued} \subseteq BOOLEAN
    /\ edits \in 0 .. MaxEdits /\ faults \in 0 .. MaxFaults

LEMMA TypeParts == TypeOK <=> StoresOK /\ PassOK /\ RestOK
BY DEF TypeOK, StoresOK, PassOK, RestOK

LEMMA TypePartsNext == TypeOK' <=> StoresOK' /\ PassOK' /\ RestOK'
BY DEF TypeOK, StoresOK, PassOK, RestOK

LEMMA StoresNext == (StoresOK)' <=> IsStore(objs') /\ IsStore(cache')
BY DEF StoresOK, IsStore, Render

LEMMA WritesType ==
    ASSUME StoresOK, NEW n \in Names, NEW v \in ObjType, Writes(n, v),
           v.in \subseteq Render(n, Features).in
    PROVE  StoresOK'
<1>1. IsStore(With(objs, n, v)) /\ IsStore(With(cache, n, v)) BY StoreWith DEF StoresOK
<1>2. IsStore(objs') /\ IsStore(cache') BY <1>1 DEF Writes, Late, StoresOK
<1> QED BY <1>2, StoresNext

LEMMA DeletesType ==
    ASSUME StoresOK, NEW n, Deletes(n) \/ WritesNothing \/ UNCHANGED <<objs, cache>>
    PROVE  StoresOK'
<1>1. IsStore(Without(objs, n)) /\ IsStore(Without(cache, n)) BY StoreWithout DEF StoresOK
<1>2. IsStore(objs') /\ IsStore(cache') BY <1>1 DEF Deletes, Late, WritesNothing, StoresOK
<1> QED BY <1>2, StoresNext

(* Late news count as faults.                                              *)
LEMMA FaultsType ==
    ASSUME RestOK, UNCHANGED <<cr, pods, creds, status, issued, edits>>,
           NEW n, NEW v, Writes(n, v) \/ Deletes(n) \/ WritesNothing
    PROVE  RestOK'
<1>1. faults' = faults \/ (faults < MaxFaults /\ faults' = faults + 1)
  BY DEF Writes, Deletes, WritesNothing, Late, Fault
<1>2. faults' \in 0 .. MaxFaults BY <1>1, ClusterAssumption DEF RestOK
<1> QED BY <1>2 DEF RestOK

LEMMA EndsType ==
    ASSUME Ends
    PROVE  PassOK' /\ ~Busy'
<1>1. IdlePass \in PassType /\ IdlePass.todo = <<>> BY DEF IdlePass, PassType, NoFeatures
<1> QED BY <1>1 DEF Ends, PassOK, Busy

(* What is at the head of a plan.                                          *)
LEMMA TargetType ==
    ASSUME PassOK, Busy
    PROVE  /\ Target \in Names /\ pass.f \in SUBSET Features /\ pass.todo \in Seq(CallType)
           /\ pass.todo # <<>> /\ Head(pass.todo) = ACall(Head(pass.todo).op, Target)
<1>1. pass.todo \in Seq(CallType) /\ pass.f \in SUBSET Features /\ pass.todo # <<>>
  BY DEF PassOK, PassType, Busy
<1>2. Head(pass.todo) \in CallType BY <1>1, TailCalls
<1> QED BY <1>1, <1>2 DEF Target, CallType, ACall

(* What a pass that has made its first call knows, whatever it notes.      *)
Noted == pass.stale \cup {n \in {Target} : Outdated(n)}

LEMMA GoesOnType ==
    ASSUME PassOK, Busy, Head(pass.todo).op # "status", cr' = cr,
           NEW k \in Nat, NEW l \in BOOLEAN, NEW e \in BOOLEAN, NEW a \in BOOLEAN,
           pass' = [pass EXCEPT !.stale = Noted, !.todo = Tail(@), !.key = k, !.legacy = l,
                                !.existed = e, !.again = a]
    PROVE  /\ PassOK' /\ Busy' /\ pass'.f = pass.f /\ pass'.todo = Tail(pass.todo)
           /\ pass'.stale = Noted /\ pass'.key = k
<1>1. pass \in PassType /\ pass.todo \in Seq(CallType) BY DEF PassOK, PassType
<1>2. Tail(pass.todo) \in Seq(CallType) /\ Tail(pass.todo) # <<>> /\ Last(Tail(pass.todo)).op = "status"
  BY <1>1, TailCalls, TailLast DEF PassOK, Busy
<1>3. Noted \in SUBSET Names BY <1>1, TargetType DEF Noted, PassType
<1> HIDE DEF Noted
<1>4. /\ pass' \in PassType /\ pass'.f = pass.f /\ pass'.gen = pass.gen /\ pass'.todo = Tail(pass.todo)
      /\ pass'.stale = Noted /\ pass'.key = k
  BY <1>1, <1>2, <1>3 DEF PassType
<1> QED BY <1>2, <1>4 DEF PassOK, Busy

LEMMA GoesOnIs ==
    ASSUME PassOK, Busy, Head(pass.todo).op # "status", cr' = cr, GoesOn
    PROVE  /\ PassOK' /\ Busy' /\ pass'.f = pass.f /\ pass'.todo = Tail(pass.todo)
           /\ pass'.stale = Noted /\ pass'.key = pass.key
<1>1. pass \in PassType BY DEF PassOK
<1>2. pass' = [pass EXCEPT !.stale = Noted, !.todo = Tail(@), !.key = pass.key, !.legacy = pass.legacy,
                           !.existed = pass.existed, !.again = FALSE]
  BY <1>1 DEF GoesOn, Looked, Noted, PassType
<1>3. pass.key \in Nat /\ pass.legacy \in BOOLEAN /\ pass.existed \in BOOLEAN BY <1>1 DEF PassType
<1> QED BY <1>2, <1>3, GoesOnType

LEMMA ClearIs ==
    ASSUME PassOK, deleteFirst
    PROVE  /\ PassOK' /\ Busy' /\ pass'.f = pass.f /\ pass'.todo = Tail(pass.todo)
           /\ pass'.stale = Noted /\ pass'.key = pass.key
<1>1. pass \in PassType /\ Busy /\ Head(pass.todo).op # "status" /\ cr' = cr
  BY DEF PassOK, deleteFirst, At
<1>2. PICK e \in BOOLEAN : pass' = [Looked EXCEPT !.todo = Tail(@), !.existed = e]
  <2>1. Seen(Target) \in BOOLEAN BY DEF Seen
  <2> QED BY <2>1, Zenon DEF deleteFirst
<1>3. pass' = [pass EXCEPT !.stale = Noted, !.todo = Tail(@), !.key = pass.key, !.legacy = pass.legacy,
                           !.existed = e, !.again = pass.again]
  BY <1>1, <1>2 DEF Looked, Noted, PassType
<1>4. pass.key \in Nat /\ pass.legacy \in BOOLEAN /\ pass.again \in BOOLEAN BY <1>1 DEF PassType
<1> QED BY <1>1, <1>3, <1>4, GoesOnType

(* The key is the one there is, or a new one.                              *)
LEMMA KeyTypes ==
    ASSUME StoresOK
    PROVE  existingJWTSigningKeys \in Nat /\ randKey \in Nat
<1>1. \A n \in DOMAIN cache : cache[n].key \in Nat BY DEF StoresOK, IsStore, ObjType
<1>2. \A a, b, c, d : \E k \in 1 .. 5 : k \notin {a, b, c, d}
  <2> TAKE a, b, c, d
  <2> SUFFICES ASSUME \A k \in 1 .. 5 : k \in {a, b, c, d} PROVE FALSE
    OBVIOUS
  <2>1. 1 \in {a, b, c, d} /\ 2 \in {a, b, c, d} /\ 3 \in {a, b, c, d} /\ 4 \in {a, b, c, d} /\ 5 \in {a, b, c, d}
    OBVIOUS
  <2> QED BY <2>1
<1>3. randKey \in 1 .. 5 BY <1>2 DEF randKey
<1> QED BY <1>1, <1>3 DEF existingJWTSigningKeys, Seen

LEMMA KeysAre ==
    ASSUME PassOK, StoresOK, readKeys
    PROVE  /\ PassOK' /\ Busy' /\ pass'.f = pass.f /\ pass'.todo = Tail(pass.todo)
           /\ pass'.stale = Noted
           /\ "jwt" \in pass.f /\ existingJWTSigningKeys # 0 => pass'.key = existingJWTSigningKeys
<1>1. pass \in PassType /\ Busy /\ Head(pass.todo).op # "status" /\ cr' = cr
  BY DEF PassOK, readKeys, At
<1>2. PICK k \in Nat : k = CASE "jwt" \notin pass.f -> 0
                             [] "jwt" \in pass.f /\ existingJWTSigningKeys # 0 -> existingJWTSigningKeys
                             [] OTHER -> randKey
  BY KeyTypes
<1>3. PICK l \in BOOLEAN : l = (~Seen(Security) /\ Seen(OldSecurity)) OBVIOUS
<1>4. pass' = [pass EXCEPT !.stale = Noted, !.todo = Tail(@), !.key = k, !.legacy = l,
                           !.existed = pass.existed, !.again = pass.again]
  BY <1>1, <1>2, <1>3 DEF readKeys, Looked, Noted, PassType
<1>5. pass.existed \in BOOLEAN /\ pass.again \in BOOLEAN BY <1>1 DEF PassType
<1>6. /\ PassOK' /\ Busy' /\ pass'.f = pass.f /\ pass'.todo = Tail(pass.todo)
      /\ pass'.stale = Noted /\ pass'.key = k
  BY <1>1, <1>4, <1>5, GoesOnType
<1> QED BY <1>2, <1>6

(* The object was not seen and exists: it will be read again.              *)
ReadsAgain == pass' = [Looked EXCEPT !.again = TRUE]

LEMMA AgainIs ==
    ASSUME PassOK, Busy, cr' = cr, ReadsAgain
    PROVE  /\ PassOK' /\ Busy' /\ pass'.f = pass.f /\ pass'.todo = pass.todo
           /\ pass'.stale = Noted /\ pass'.key = pass.key
<1>1. pass \in PassType BY DEF PassOK
<1>2. Noted \in SUBSET Names BY <1>1, TargetType DEF Noted, PassType
<1>3. pass' = [pass EXCEPT !.stale = Noted, !.again = TRUE] BY <1>1 DEF ReadsAgain, Looked, Noted, PassType
<1> HIDE DEF Noted
<1>4. /\ pass' \in PassType /\ pass'.f = pass.f /\ pass'.gen = pass.gen /\ pass'.todo = pass.todo
      /\ pass'.stale = Noted /\ pass'.key = pass.key
  BY <1>1, <1>2, <1>3 DEF PassType
<1> QED BY <1>4 DEF PassOK, Busy

(* What a pass wants an object to be, and what it makes of an existing one.*)
LEMMA DesiredType ==
    ASSUME PassOK, Busy, NEW n
    PROVE  /\ Desired(n) \in ObjType /\ Desired(n).in = Render(n, pass.f).in
           /\ Desired(n).in \subseteq Render(n, Features).in /\ Desired(n).in \subseteq pass.f
           /\ Desired(n).owned /\ Desired(n).claims = Render(n, pass.f).claims
           /\ n = Security => Desired(n).key = pass.key
<1>1. Rendered(Render(n, pass.f), Render(n, Features), pass.f) BY TargetType, RenderType
<1>2. PICK k \in Nat : k = IF n = Security THEN pass.key ELSE 0 BY DEF PassOK, PassType
<1>3. Desired(n) = [Render(n, pass.f) EXCEPT !.key = k] BY <1>2 DEF Desired
<1> QED BY <1>1, <1>2, <1>3 DEF Rendered, ObjType

LEMMA MergeType ==
    ASSUME NEW n, NEW old \in ObjType, NEW new \in ObjType
    PROVE  /\ Merge(n, old, new) \in ObjType /\ Merge(n, old, new).in = new.in
           /\ Merge(n, old, new).claims = old.claims /\ Merge(n, old, new).owned = old.owned
           /\ Merge(n, old, new).key = new.key
<1>1. PICK a \in BOOLEAN, b \in BOOLEAN, c \in BOOLEAN :
         /\ Merge(n, old, new) = [new EXCEPT !.claims = a, !.notes = b, !.owned = c]
         /\ a = old.claims /\ c = old.owned
  <2>1. old.claims \in BOOLEAN /\ (old.notes \/ new.notes) \in BOOLEAN /\ old.owned \in BOOLEAN BY DEF ObjType
  <2> QED BY <2>1, Zenon DEF Merge
<1> QED BY <1>1 DEF ObjType

(* An upsert writes an object of its type, and the pass goes on or ends.   *)
LEMMA UpsertType ==
    ASSUME TypeOK, CreateOrUpdate
    PROVE  StoresOK' /\ PassOK' /\ RestOK'
<1> DEFINE n == Target
           new == Desired(n)
<1>1. StoresOK /\ PassOK /\ RestOK /\ cr' = cr /\ UNCHANGED <<cr, pods, creds, status, issued, edits>>
  BY TypeParts DEF CreateOrUpdate
<1>2. Busy /\ Head(pass.todo).op # "status" BY DEF CreateOrUpdate, At
<1>3. n \in Names BY <1>1, <1>2, TargetType
<1>4. new \in ObjType /\ new.in \subseteq Render(n, Features).in BY <1>1, <1>2, DesiredType
<1>5. Ends => PassOK' BY EndsType
<1>6. GoesOn => PassOK' BY <1>1, <1>2, GoesOnIs
<1>7. WritesNothing \/ Deletes(n) => StoresOK' /\ RestOK' BY <1>1, DeletesType, FaultsType
<1>8. ReadsAgain => PassOK' BY <1>1, <1>2, AgainIs
<1>9. Writes(n, new) => StoresOK' /\ RestOK' BY <1>1, <1>3, <1>4, WritesType, FaultsType
<1>10. ASSUME Seen(n) PROVE Writes(n, Merge(n, cache[n], new)) => StoresOK' /\ RestOK'
  <2>1. cache[n] \in ObjType BY <1>1, <1>10 DEF StoresOK, IsStore, Seen
  <2> DEFINE merged == Merge(n, cache[n], new)
  <2>2. merged \in ObjType /\ merged.in = new.in BY <1>4, <2>1, MergeType
  <2> HIDE DEF merged
  <2> QED BY <1>1, <1>3, <1>4, <2>2, WritesType, FaultsType DEF merged
<1> HIDE DEF n, new
<1>11. /\ Seen(n) => Update(n, new)
       /\ ~Seen(n) => \/ WritesNothing /\ Ends
                      \/ WritesNothing /\ ReadsAgain
                      \/ Writes(n, new) /\ GoesOn
  BY DEF CreateOrUpdate, n, new, ReadsAgain
<1>12. CASE Seen(n)
  <2>1. \/ Deletes(n) /\ Ends
        \/ WritesNothing /\ (Ends \/ GoesOn)
        \/ Writes(n, Merge(n, cache[n], new)) /\ GoesOn
    BY <1>11, <1>12 DEF Update
  <2> QED BY <2>1, <1>5, <1>6, <1>7, <1>10, <1>12
<1> QED BY <1>5, <1>6, <1>7, <1>8, <1>9, <1>11, <1>12

LEMMA ApplyType ==
    ASSUME TypeOK, applyUnstructured
    PROVE  StoresOK' /\ PassOK' /\ RestOK'
<1> DEFINE n == Target
           new == Desired(n)
<1>1. StoresOK /\ PassOK /\ RestOK /\ cr' = cr /\ UNCHANGED <<cr, pods, creds, status, issued, edits>>
  BY TypeParts DEF applyUnstructured
<1>2. Busy /\ Head(pass.todo).op # "status" BY DEF applyUnstructured, At
<1>3. n \in Names BY <1>1, <1>2, TargetType
<1>4. new \in ObjType /\ new.in \subseteq Render(n, Features).in BY <1>1, <1>2, DesiredType
<1>5. Ends => PassOK' BY EndsType
<1>6. GoesOn => PassOK' BY <1>1, <1>2, GoesOnIs
<1>7. WritesNothing => StoresOK' /\ RestOK' BY <1>1, DeletesType, FaultsType
<1>8. Writes(n, new) => StoresOK' /\ RestOK' BY <1>1, <1>3, <1>4, WritesType, FaultsType
<1>9. ASSUME Seen(n) PROVE Writes(n, Merge(n, cache[n], new)) => StoresOK' /\ RestOK'
  <2>1. cache[n] \in ObjType BY <1>1, <1>9 DEF StoresOK, IsStore, Seen
  <2> DEFINE merged == Merge(n, cache[n], new)
  <2>2. merged \in ObjType /\ merged.in = new.in BY <1>4, <2>1, MergeType
  <2> HIDE DEF merged
  <2> QED BY <1>1, <1>3, <1>4, <2>2, WritesType, FaultsType DEF merged
<1> HIDE DEF n, new
<1>10. \/ Writes(n, new) /\ GoesOn
       \/ Seen(n) /\ Writes(n, Merge(n, cache[n], new)) /\ GoesOn
       \/ WritesNothing /\ Ends
  BY DEF applyUnstructured, n, new
<1> QED BY <1>5, <1>6, <1>7, <1>8, <1>9, <1>10

(* The generation counts from the creation of the CR; no pass is made for a*)
(* CR that is not there.                                                   *)
LifeInv == cr.gen = 0 <=> cr.life = "none"

TypeInv == TypeOK /\ LifeInv

LEMMA TypeInit == Init => TypeInv
<1> SUFFICES ASSUME Init PROVE TypeInv
  OBVIOUS
<1>1. cr \in CrType /\ Valid(cr.f) /\ LifeInv BY DEF Init, CrType, Valid, LifeInv
<1>2. IsStore(Leftovers)
  <2>1. CASE Upgraded
    <3> DEFINE v(n) == [Plain EXCEPT !.notes = TRUE, !.key = Count(n = OldSecurity)]
               old == {OldWorker, OldWorkerPeer, OldSecurity, MasterConfig}
    <3>1. Leftovers = [n \in old |-> v(n)] BY <2>1 DEF Leftovers
    <3>2. \A n : v(n) \in ObjType /\ v(n).in = {} BY DEF ObjType, Plain, NoFeatures, Count
    <3>3. old \subseteq Names BY DEF Names, WithPods
    <3> HIDE DEF v, old
    <3> QED BY <3>1, <3>2, <3>3 DEF IsStore
  <2>2. CASE ~Upgraded BY <2>2 DEF Leftovers, NoObjects, IsStore
  <2> QED BY <2>1, <2>2
<1>3. StoresOK BY <1>2 DEF Init, StoresOK
<1>4. PassOK
  <2>1. IdlePass \in PassType /\ IdlePass.todo = <<>> BY DEF IdlePass, PassType, NoFeatures
  <2> QED BY <2>1 DEF Init, PassOK, Busy
<1>5. RestOK
  <2>1. DOMAIN pods \subseteq WithPods /\ pods \in [DOMAIN pods -> SUBSET Features] BY DEF Init
  <2>2. status \in [gen : Nat, ready : BOOLEAN] /\ status.gen <= cr.gen BY DEF Init
  <2>3. creds \in BOOLEAN /\ issued \in BOOLEAN BY DEF Init
  <2>4. edits \in 0 .. MaxEdits /\ faults \in 0 .. MaxFaults BY ClusterAssumption DEF Init
  <2> QED BY <1>1, <2>1, <2>2, <2>3, <2>4 DEF RestOK
<1> QED BY <1>1, <1>3, <1>4, <1>5, TypeParts DEF TypeInv

LEMMA TypeNext == TypeInv /\ [Next]_vars => TypeInv'
<1> SUFFICES ASSUME TypeInv, [Next]_vars PROVE TypeInv'
  OBVIOUS
<1> USE ClusterAssumption
<1>1. StoresOK /\ PassOK /\ RestOK /\ LifeInv /\ TypeOK BY TypeParts DEF TypeInv
<1>2. SUFFICES StoresOK' /\ PassOK' /\ RestOK' /\ LifeInv' BY TypePartsNext DEF TypeInv
<1>3. UNCHANGED cr => LifeInv' BY <1>1 DEF LifeInv
<1>4. UNCHANGED <<cr, pods, status, creds, issued, edits, faults>> => RestOK' BY <1>1 DEF RestOK
<1>5. UNCHANGED <<objs, cache>> => StoresOK' BY <1>1, DeletesType
<1>6. UNCHANGED <<pass, cr>> => PassOK' BY <1>1 DEF PassOK, Busy
<1>7. Busy /\ Head(pass.todo).op # "status" /\ GoesOn /\ cr' = cr => PassOK' BY <1>1, GoesOnIs
<1>8. Ends => PassOK' BY EndsType
<1>9. cr \in CrType /\ cr.gen \in Nat /\ cr.f \in SUBSET Features BY <1>1 DEF RestOK, CrType
<1>10. ASSUME NEW n, Deletes(n) \/ WritesNothing, UNCHANGED <<cr, pods, creds, status, issued, edits>>
       PROVE  StoresOK' /\ RestOK'
  BY <1>1, <1>10, DeletesType, FaultsType
<1>11. CASE Begin
  <2>1. Plan(cr.f) \in Seq(CallType) /\ Plan(cr.f) # <<>> /\ Last(Plan(cr.f)).op = "status"
    BY PlanCalls DEF PlanUpTo, Part
  <2>2. cr.gen \in 1 .. cr.gen BY <1>1, <1>9, <1>11 DEF Begin, LifeInv
  <2>3. /\ pass' \in PassType /\ pass'.f = cr.f /\ pass'.gen = cr.gen /\ pass'.todo = Plan(cr.f)
        /\ cr' = cr
    BY <1>9, <1>11, <2>1 DEF Begin, IdlePass, PassType
  <2>4. Webhook => Valid(cr.f) BY <1>1 DEF RestOK
  <2>5. PassOK' BY <2>1, <2>2, <2>3, <2>4 DEF PassOK, Busy
  <2> QED BY <2>5, <1>3, <1>4, <1>5, <1>11 DEF Begin
<1>12. CASE CreateOrUpdate BY <1>1, <1>3, <1>12, UpsertType DEF CreateOrUpdate
<1>13. CASE applyUnstructured BY <1>1, <1>3, <1>13, ApplyType DEF applyUnstructured
<1>14. CASE deleteIfExists
  <2>1. PassOK' BY <1>7, <1>14 DEF deleteIfExists, At
  <2> QED BY <2>1, <1>3, <1>10, <1>14 DEF deleteIfExists
<1>15. CASE pruneOwned
  <2>1. PassOK' BY <1>7, <1>15 DEF pruneOwned, At
  <2> QED BY <2>1, <1>3, <1>10, <1>15 DEF pruneOwned
<1>16. CASE deleteFirst BY <1>1, <1>3, <1>10, <1>16, ClearIs DEF deleteFirst
<1>17. CASE deleteAndWait
  <2>1. PassOK' BY <1>7, <1>8, <1>17 DEF deleteAndWait, At
  <2> QED BY <2>1, <1>3, <1>10, <1>17 DEF deleteAndWait
<1>18. CASE refuseWithoutHostPath BY <1>3, <1>4, <1>5, <1>8, <1>18 DEF refuseWithoutHostPath
<1>19. CASE readKeys BY <1>1, <1>3, <1>4, <1>5, <1>19, KeysAre DEF readKeys
<1>20. CASE deleteLegacySecurityConfigMap
  <2>1. PassOK' BY <1>7, <1>20 DEF deleteLegacySecurityConfigMap, At
  <2> QED BY <2>1, <1>3, <1>10, <1>20 DEF deleteLegacySecurityConfigMap
<1>21. CASE waitForMasterStatefulSet
  <2>1. PassOK' BY <1>7, <1>8, <1>21 DEF waitForMasterStatefulSet, At
  <2> QED BY <2>1, <1>3, <1>4, <1>5, <1>21 DEF waitForMasterStatefulSet
<1>22. CASE resolveBackupCredentials
  <2>1. PassOK' BY <1>7, <1>8, <1>22 DEF resolveBackupCredentials, At
  <2> QED BY <2>1, <1>3, <1>4, <1>5, <1>22 DEF resolveBackupCredentials
<1>23. CASE updateStatus
  <2>1. pass.gen \in Nat BY <1>1 DEF PassOK, PassType
  <2>2. \A s : IsReady(pass.f, s) \in BOOLEAN BY DEF IsReady
  <2>3. \/ status' = status
        \/ \E s : status' = [gen |-> pass.gen, ready |-> IsReady(pass.f, s)] /\ pass.gen = cr.gen
    BY <1>23 DEF updateStatus
  <2>4. status' \in [gen : Nat, ready : BOOLEAN] /\ status'.gen <= cr.gen
    BY <1>1, <1>9, <2>1, <2>2, <2>3 DEF RestOK
  <2>5. RestOK' BY <1>1, <2>4, <1>23 DEF updateStatus, RestOK
  <2> QED BY <2>5, <1>3, <1>5, <1>8, <1>23 DEF updateStatus
<1>24. CASE CallFails
  <2>1. RestOK' BY <1>1, <1>24 DEF CallFails, RestOK, Fault
  <2> QED BY <2>1, <1>3, <1>5, <1>8, <1>24 DEF CallFails
<1>25. CASE OperatorRestarts
  <2>1. RestOK' BY <1>1, <1>25 DEF OperatorRestarts, RestOK, Fault
  <2>2. IsStore(objs') /\ IsStore(cache') BY <1>1, <1>25 DEF OperatorRestarts, StoresOK
  <2> QED BY <2>1, <2>2, StoresNext, <1>3, <1>8, <1>25 DEF OperatorRestarts
<1>26. CASE PodsCatchUp
  <2>1. \A n \in DOMAIN objs : objs[n].in \in SUBSET Features BY <1>1 DEF StoresOK, IsStore, ObjType
  <2>2. Startable \subseteq WithPods \cap DOMAIN objs BY DEF Startable
  <2>3. DOMAIN pods' \subseteq WithPods /\ pods' \in [DOMAIN pods' -> SUBSET Features]
    BY <1>1, <1>26, <2>1, <2>2 DEF PodsCatchUp, RestOK
  <2>4. RestOK' BY <1>1, <1>26, <2>3 DEF PodsCatchUp, RestOK
  <2> QED BY <2>4, <1>3, <1>5, <1>6, <1>26 DEF PodsCatchUp
<1>27. CASE PodsStop
  <2>1. DOMAIN pods' \subseteq WithPods /\ pods' \in [DOMAIN pods' -> SUBSET Features]
    BY <1>1, <1>27 DEF PodsStop, RestOK
  <2>2. RestOK' BY <1>1, <1>27, <2>1 DEF PodsStop, RestOK
  <2> QED BY <2>2, <1>3, <1>5, <1>6, <1>27 DEF PodsStop
<1>28. CASE Create
  <2>1. PICK f \in Start : (Webhook => Valid(f)) /\ cr' = [life |-> "exists", f |-> f, gen |-> 1]
    BY <1>28 DEF Create
  <2>2. cr' \in CrType /\ (Webhook => Valid(cr'.f)) /\ cr'.gen = 1 /\ cr'.life = "exists" BY <2>1 DEF CrType
  <2>3. cr.gen = 0 BY <1>1, <1>28 DEF Create, LifeInv
  <2>4. RestOK' BY <1>1, <2>2, <2>3, <1>28 DEF Create, RestOK
  <2>5. PassOK'
    <3>1. pass' = pass /\ pass \in PassType BY <1>1, <1>28 DEF Create, PassOK
    <3>2. ~Busy
      <4>1. 1 .. 0 = {} OBVIOUS
      <4> QED BY <1>1, <2>3, <4>1 DEF PassOK
    <3> QED BY <3>1, <3>2 DEF PassOK, Busy
  <2>6. LifeInv' BY <2>2 DEF LifeInv
  <2> QED BY <2>4, <2>5, <2>6, <1>5, <1>28 DEF Create
<1>29. CASE Delete
  <2>1. cr' \in CrType /\ cr'.f = cr.f /\ cr'.gen = cr.gen /\ cr'.life = "deleted" /\ cr.life = "exists"
    BY <1>9, <1>29 DEF Delete, CrType
  <2>2. RestOK' BY <1>1, <2>1, <1>29 DEF Delete, Edit, RestOK
  <2>3. PassOK' BY <1>1, <2>1, <1>29 DEF Delete, PassOK, Busy
  <2>4. LifeInv' BY <1>1, <2>1 DEF LifeInv
  <2> QED BY <2>2, <2>3, <2>4, <1>5, <1>29 DEF Delete
<1>30. CASE Collect
  <2>1. IsStore(objs') /\ IsStore(cache') BY <1>1, <1>30 DEF Collect, StoresOK, IsStore
  <2> QED BY <2>1, StoresNext, <1>3, <1>4, <1>6, <1>30 DEF Collect
<1>31. CASE CredentialsAppear
  <2>1. RestOK' BY <1>1, <1>31 DEF CredentialsAppear, RestOK
  <2> QED BY <2>1, <1>3, <1>5, <1>6, <1>31 DEF CredentialsAppear
<1>32. CASE CertificateIssued
  <2>1. RestOK' BY <1>1, <1>32 DEF CertificateIssued, RestOK
  <2> QED BY <2>1, <1>3, <1>5, <1>6, <1>32 DEF CertificateIssued
<1>33. ASSUME NEW n \in Names, CacheSync(n) PROVE StoresOK' /\ PassOK' /\ RestOK' /\ LifeInv'
  <2>1. IsStore(Without(cache, n)) BY <1>1, StoreWithout DEF StoresOK
  <2>2. Exists(n) => IsStore(With(cache, n, objs[n])) BY <1>1, StoreWith DEF StoresOK, IsStore, Exists
  <2>3. IsStore(objs') /\ IsStore(cache') BY <1>1, <1>33, <2>1, <2>2 DEF CacheSync, StoresOK
  <2> QED BY <2>3, StoresNext, <1>3, <1>4, <1>6, <1>33 DEF CacheSync
<1>34. ASSUME NEW n \in ConfigMaps, Occupy(n) PROVE StoresOK' /\ PassOK' /\ RestOK' /\ LifeInv'
  <2> DEFINE theirs == [Plain EXCEPT !.owned = FALSE]
  <2>1. theirs \in ObjType /\ theirs.in = {} BY DEF ObjType, Plain, NoFeatures
  <2>2. n \in Names BY NamesApart
  <2>3. IsStore(With(objs, n, theirs)) BY <1>1, <2>1, <2>2, StoreWith DEF StoresOK
  <2>4. IsStore(objs') /\ IsStore(cache') BY <1>1, <1>34, <2>3 DEF Occupy, StoresOK
  <2>5. RestOK' BY <1>1, <1>34 DEF Occupy, Edit, RestOK
  <2> QED BY <2>4, <2>5, StoresNext, <1>3, <1>6, <1>34 DEF Occupy
<1>35. ASSUME NEW w \in WithPods, Evict(w) PROVE StoresOK' /\ PassOK' /\ RestOK' /\ LifeInv'
  <2>1. RestOK' BY <1>1, <1>35 DEF Evict, RestOK, Fault
  <2> QED BY <2>1, <1>3, <1>5, <1>6, <1>35 DEF Evict
<1>36. ASSUME NEW x \in Toggles, Toggle(x) PROVE StoresOK' /\ PassOK' /\ RestOK' /\ LifeInv'
  <2>1. PICK f \in SUBSET Features : (Webhook => Valid(f)) /\ cr' = [cr EXCEPT !.f = f, !.gen = @ + 1]
    BY <1>9, <1>36 DEF Toggle
  <2>2. cr' \in CrType /\ cr'.f = f /\ cr'.gen = cr.gen + 1 /\ cr'.life = cr.life
    <3>1. cr' = [cr EXCEPT !.f = f, !.gen = @ + 1] BY <2>1
    <3>2. PICK g \in Nat : g = cr.gen + 1 BY <1>9
    <3>3. cr' = [cr EXCEPT !.f = f, !.gen = g] BY <3>1, <3>2
    <3>4. cr' = [life |-> cr.life, f |-> f, gen |-> g] BY <1>9, <3>3 DEF CrType
    <3> QED BY <1>9, <3>2, <3>4 DEF CrType
  <2>6. cr.life = "exists" BY <1>36 DEF Toggle
  <2>3. RestOK' BY <1>1, <1>9, <2>1, <2>2, <1>36 DEF Toggle, Edit, RestOK
  <2>4. PassOK' BY <1>1, <1>9, <2>2, <1>36 DEF Toggle, PassOK, Busy
  <2>5. LifeInv' BY <1>1, <1>9, <2>2, <2>6 DEF LifeInv
  <2> QED BY <2>3, <2>4, <2>5, <1>5, <1>36 DEF Toggle
<1>37. CASE UNCHANGED vars BY <1>3, <1>4, <1>5, <1>6, <1>37 DEF vars
<1> QED
  BY <1>11, <1>12, <1>13, <1>14, <1>15, <1>16, <1>17, <1>18, <1>19, <1>20, <1>21, <1>22,
     <1>23, <1>24, <1>25, <1>26, <1>27, <1>28, <1>29, <1>30, <1>31, <1>32, <1>33, <1>34, <1>35,
     <1>36, <1>37
  DEF Next, PassStep

(* The variables of the Seaweed reconciler always have their types, every  *)
(* object is rendered from features its builder knows, and a pass works for*)
(* a spec the webhook admits, if there is one, and has its status update   *)
(* ahead of it.                                                            *)
THEOREM ClusterTypeCorrect == Spec => []TypeOK
<1>1. Init => TypeInv BY TypeInit
<1>2. TypeInv /\ [Next]_vars => TypeInv' BY TypeNext
<1>3. TypeInv => TypeOK BY DEF TypeInv
<1> QED BY <1>1, <1>2, <1>3, PTL DEF Spec

(***************************************************************************)
(* The steps of a pass, by what they do to the objects.                    *)
(***************************************************************************)
First == Head(pass.todo)
Advances ==
    /\ First.op # "status" /\ pass'.f = pass.f /\ pass'.todo = Tail(pass.todo)
    /\ pass'.stale = Noted /\ (First.op # "keys" => pass'.key = pass.key)

Inserts(n) ==
    /\ First \in {ACall("put", n), ACall("apply", n)} /\ ~Exists(n)
    /\ ~Seen(n) /\ Writes(n, Desired(n)) /\ Advances
Merges(n) ==
    /\ First \in {ACall("put", n), ACall("apply", n)} /\ Seen(n) /\ Exists(n) /\ objs[n] = cache[n]
    /\ Writes(n, Merge(n, cache[n], Desired(n))) /\ Advances
Replaces(n) ==
    /\ First = ACall("put", n) /\ Seen(n) /\ ~cache[n].claims /\ Desired(n).claims
    /\ Deletes(n) /\ Ends
Removes(n) ==
    /\ Deletes(n)
    /\ \/ First = ACall("delete", n) /\ Advances
       \/ First = ACall("prune", n) /\ (Exists(n) => objs[n].owned) /\ Advances
       \/ First = ACall("clear", n) /\ Advances
       \/ First = ACall("replace", n) /\ Ends
       \/ First.op = "legacy" /\ n = OldSecurity /\ Advances
Reads ==
    /\ First.op = "keys" /\ WritesNothing /\ Advances
    /\ "jwt" \in pass.f /\ existingJWTSigningKeys # 0 => pass'.key = existingJWTSigningKeys
Skips ==
    /\ WritesNothing /\ First.op \notin {"keys", "apply"} /\ Advances
    /\ First.op = "replace" => ~Seen(First.n)
    /\ First.op = "put" => Seen(First.n)
LooksAgain ==
    /\ WritesNothing /\ First.op = "put" /\ pass'.f = pass.f /\ pass'.todo = pass.todo
    /\ pass'.stale = Noted /\ pass'.key = pass.key /\ Outdated(First.n)
Stops == WritesNothing /\ Ends

PassMove ==
    /\ Busy /\ cr' = cr
    /\ \/ \E n \in Names : Inserts(n) \/ Merges(n) \/ Replaces(n) \/ Removes(n)
       \/ Reads \/ Skips \/ LooksAgain \/ Stops

LEMMA UpsertMove ==
    ASSUME TypeInv, CreateOrUpdate
    PROVE  PassMove
<1>1. PassOK /\ StoresOK /\ Busy /\ First.op = "put" /\ cr' = cr
  BY TypeParts DEF TypeInv, CreateOrUpdate, At, First
<1>2. PICK n \in Names : n = Target /\ First = ACall("put", n) /\ First.n = n
  BY <1>1, TargetType DEF First, Target, ACall
<1> DEFINE new == Desired(n)
<1>3. GoesOn => Advances BY <1>1, GoesOnIs DEF Advances, First
<1>4. /\ Seen(n) => Update(n, new)
      /\ ~Seen(n) => \/ WritesNothing /\ Ends
                     \/ Exists(n) /\ WritesNothing /\ ReadsAgain
                     \/ ~Exists(n) /\ Writes(n, new) /\ GoesOn
  BY <1>2 DEF CreateOrUpdate, ReadsAgain
<1>5. CASE Seen(n)
  <2>1. cache[n] \in ObjType /\ new \in ObjType
    BY <1>1, <1>2, <1>5, DesiredType DEF StoresOK, IsStore, Seen
  <2> HIDE DEF new
  <2>2. MustReplace(cache[n], new) => ~cache[n].claims /\ new.claims
    BY <2>1 DEF MustReplace, vctSemanticallyEqual, ObjType
  <2>3. \/ MustReplace(cache[n], new) /\ Deletes(n) /\ Ends
        \/ WritesNothing /\ (Ends \/ GoesOn)
        \/ Exists(n) /\ objs[n] = cache[n] /\ Writes(n, Merge(n, cache[n], new)) /\ GoesOn
    BY <1>4, <1>5 DEF Update
  <2>4. CASE MustReplace(cache[n], new) /\ Deletes(n) /\ Ends
    <3>1. Replaces(n) BY <1>2, <1>5, <2>2, <2>4 DEF Replaces, new
    <3> QED BY <3>1, <1>1 DEF PassMove
  <2>5. CASE WritesNothing /\ (Ends \/ GoesOn)
    <3>1. Stops \/ Skips BY <1>1, <1>2, <1>3, <1>5, <2>5 DEF Stops, Skips
    <3> QED BY <3>1, <1>1 DEF PassMove
  <2>6. CASE Exists(n) /\ objs[n] = cache[n] /\ Writes(n, Merge(n, cache[n], new)) /\ GoesOn
    <3>1. Merges(n) BY <1>2, <1>3, <1>5, <2>6 DEF Merges, new
    <3> QED BY <3>1, <1>1 DEF PassMove
  <2> QED BY <2>3, <2>4, <2>5, <2>6
<1>6. CASE ~Seen(n)
  <2>1. Exists(n) => Outdated(n) BY <1>6 DEF Outdated
  <2>2. ReadsAgain => /\ pass'.f = pass.f /\ pass'.todo = pass.todo
                      /\ pass'.stale = Noted /\ pass'.key = pass.key
    BY <1>1, AgainIs
  <2>3. Stops \/ LooksAgain \/ Inserts(n)
    BY <1>1, <1>2, <1>3, <1>4, <1>6, <2>1, <2>2 DEF Stops, LooksAgain, Inserts
  <2> QED BY <2>3, <1>1 DEF PassMove
<1> QED BY <1>5, <1>6

LEMMA ApplyMove ==
    ASSUME TypeInv, applyUnstructured
    PROVE  PassMove
<1>1. PassOK /\ Busy /\ First.op = "apply" /\ cr' = cr
  BY TypeParts DEF TypeInv, applyUnstructured, At, First
<1>2. PICK n \in Names : n = Target /\ First = ACall("apply", n)
  BY <1>1, TargetType DEF First, Target, ACall
<1>3. GoesOn => Advances BY <1>1, GoesOnIs DEF Advances, First
<1>4. \/ ~Seen(n) /\ ~Exists(n) /\ Writes(n, Desired(n)) /\ GoesOn
      \/ Seen(n) /\ ~Outdated(n) /\ Writes(n, Merge(n, cache[n], Desired(n))) /\ GoesOn
      \/ WritesNothing /\ Ends
  BY <1>2 DEF applyUnstructured
<1>5. Inserts(n) \/ Merges(n) \/ Stops
  BY <1>2, <1>3, <1>4 DEF Inserts, Merges, Stops, Outdated
<1> QED BY <1>1, <1>5 DEF PassMove

LEMMA PassMoves ==
    ASSUME TypeInv, PassStep
    PROVE  PassMove
<1>1. PassOK /\ StoresOK BY TypeParts DEF TypeInv
<1>2. Busy /\ cr' = cr
  BY DEF PassStep, CreateOrUpdate, applyUnstructured, deleteIfExists, pruneOwned, deleteFirst,
     deleteAndWait, refuseWithoutHostPath, readKeys, deleteLegacySecurityConfigMap,
     waitForMasterStatefulSet, resolveBackupCredentials, updateStatus, At
<1>3. First.op # "status" /\ GoesOn => Advances BY <1>1, <1>2, GoesOnIs DEF Advances, First
<1>4. Target \in Names /\ First = ACall(First.op, Target) /\ First.n = Target
  BY <1>1, <1>2, TargetType DEF First, Target
<1>5. CASE deleteIfExists
  <2>1. First.op = "delete" /\ GoesOn /\ (Deletes(Target) \/ WritesNothing)
    BY <1>5 DEF deleteIfExists, At, First
  <2>2. Removes(Target) \/ Skips BY <2>1, <1>3, <1>4 DEF Removes, Skips
  <2> QED BY <2>1, <2>2, <1>2, <1>4 DEF PassMove
<1>6. CASE pruneOwned
  <2>1. /\ First.op = "prune" /\ GoesOn
        /\ ((Exists(Target) => objs[Target].owned) /\ Deletes(Target)) \/ WritesNothing
    BY <1>6 DEF pruneOwned, At, First
  <2>2. Removes(Target) \/ Skips BY <2>1, <1>3, <1>4 DEF Removes, Skips
  <2> QED BY <2>1, <2>2, <1>2, <1>4 DEF PassMove
<1>7. CASE deleteFirst
  <2>1. First.op = "clear" /\ (Deletes(Target) \/ WritesNothing)
    BY <1>7 DEF deleteFirst, At, First
  <2>2. Advances BY <1>1, <1>7, <2>1, ClearIs DEF Advances
  <2>3. Removes(Target) \/ Skips BY <2>1, <2>2, <1>4 DEF Removes, Skips
  <2> QED BY <2>3, <1>2, <1>4 DEF PassMove
<1>8. CASE deleteAndWait
  <2>1. /\ First.op = "replace"
        /\ \/ Deletes(Target) /\ Ends
           \/ ~Seen(Target) /\ WritesNothing /\ (Ends \/ GoesOn)
    BY <1>8 DEF deleteAndWait, At, First
  <2>2. Removes(Target) \/ Skips \/ Stops BY <2>1, <1>3, <1>4 DEF Removes, Skips, Stops
  <2> QED BY <2>1, <2>2, <1>2, <1>4 DEF PassMove
<1>9. CASE readKeys
  <2>1. First.op = "keys" /\ WritesNothing BY <1>9 DEF readKeys, At, First, WritesNothing
  <2>2. Reads BY <1>1, <1>9, <2>1, KeysAre DEF Reads, Advances
  <2> QED BY <2>2, <1>2 DEF PassMove
<1>10. CASE deleteLegacySecurityConfigMap
  <2>1. First.op = "legacy" /\ GoesOn /\ (Deletes(OldSecurity) \/ WritesNothing)
    BY <1>10 DEF deleteLegacySecurityConfigMap, At, First
  <2>2. Removes(OldSecurity) \/ Skips BY <2>1, <1>3 DEF Removes, Skips
  <2> QED BY <2>1, <2>2, <1>2, NamesApart DEF PassMove
<1>11. CASE waitForMasterStatefulSet \/ resolveBackupCredentials
  <2>1. First.op \in {"quorum", "credentials"} /\ WritesNothing /\ (GoesOn \/ Ends)
    BY <1>11 DEF waitForMasterStatefulSet, resolveBackupCredentials, At, First, WritesNothing
  <2>2. Skips \/ Stops BY <2>1, <1>3 DEF Skips, Stops
  <2> QED BY <2>1, <2>2, <1>2 DEF PassMove
<1>12. CASE updateStatus \/ refuseWithoutHostPath
  <2>1. WritesNothing /\ Ends BY <1>12 DEF updateStatus, refuseWithoutHostPath, WritesNothing
  <2> QED BY <2>1, <1>2 DEF PassMove, Stops
<1> QED
  BY <1>5, <1>6, <1>7, <1>8, <1>9, <1>10, <1>11, <1>12, UpsertMove, ApplyMove DEF PassStep

(***************************************************************************)
(* All other steps, by what they do to the objects, the pass and the CR.   *)
(***************************************************************************)
Starts == ~Busy /\ pass'.f = cr.f /\ pass'.todo = Plan(cr.f) /\ UNCHANGED <<objs, cache, cr>>
Breaks == Ends /\ objs' = objs /\ cache' \in {cache, objs} /\ cr' = cr
Collects ==
    /\ cr.life = "deleted" /\ objs' = [n \in DOMAIN objs \ Owned |-> objs[n]] /\ cache' = objs'
    /\ UNCHANGED <<pass, cr>>
Syncs(n) ==
    /\ cache' = IF Exists(n) THEN With(cache, n, objs[n]) ELSE Without(cache, n)
    /\ UNCHANGED <<objs, pass, cr>>
Occupies(n) ==
    /\ Exists(n) /\ objs' = With(objs, n, [Plain EXCEPT !.owned = FALSE])
    /\ UNCHANGED <<cache, pass, cr>>
Rests == UNCHANGED <<objs, cache, pass>> /\ (cr.life = "deleted" => cr'.life = "deleted")

Move ==
    \/ PassMove \/ Starts \/ Breaks \/ Collects \/ Rests
    \/ \E n \in Names : Syncs(n)
    \/ \E n \in ConfigMaps : Occupies(n)

LEMMA Moves ==
    ASSUME TypeInv, [Next]_vars
    PROVE  Move
<1>1. CASE PassStep BY <1>1, PassMoves DEF Move
<1>2. CASE Begin
  <2>1. pass'.f = cr.f /\ pass'.todo = Plan(cr.f) BY <1>2 DEF Begin, IdlePass
  <2> QED BY <1>2, <2>1 DEF Move, Begin, Starts
<1>3. CASE CallFails BY <1>3 DEF Move, CallFails, Breaks
<1>4. CASE OperatorRestarts BY <1>4 DEF Move, OperatorRestarts, Breaks
<1>5. CASE Collect BY <1>5 DEF Move, Collect, Collects
<1>6. ASSUME NEW n \in Names, CacheSync(n) PROVE Move BY <1>6 DEF Move, CacheSync, Syncs
<1>7. ASSUME NEW n \in ConfigMaps, Occupy(n) PROVE Move BY <1>7 DEF Move, Occupy, Occupies
<1>8. CASE \/ PodsCatchUp \/ PodsStop \/ CredentialsAppear \/ CertificateIssued
           \/ (\E w \in WithPods : Evict(w)) \/ UNCHANGED vars
  BY <1>8 DEF Move, Rests, PodsCatchUp, PodsStop, CredentialsAppear, CertificateIssued, Evict, vars
<1>9. CASE Create BY <1>9 DEF Move, Rests, Create
<1>10. CASE Delete
  <2>1. cr \in CrType BY DEF TypeInv, TypeOK
  <2> QED BY <1>10, <2>1 DEF Move, Rests, Delete, CrType
<1>11. CASE \E x \in Toggles : Toggle(x) BY <1>11 DEF Move, Rests, Toggle
<1> QED
  BY <1>1, <1>2, <1>3, <1>4, <1>5, <1>6, <1>7, <1>8, <1>9, <1>10, <1>11 DEF Next

(* What a pass has ahead of it is the rest of a plan.                      *)
PlanInv ==
    Busy => /\ \A i \in 1 .. Len(pass.todo) : Sane(pass.todo[i], pass.f)
            /\ InTurn(pass.todo) /\ SecretsFirst(pass.todo)

LEMMA FirstSane ==
    ASSUME TypeInv, PlanInv, Busy
    PROVE  /\ Sane(First, pass.f) /\ First \in CallType
           /\ pass.todo \in Seq(CallType) /\ pass.todo # <<>>
<1>1. pass.todo \in Seq(CallType) /\ pass.todo # <<>> BY DEF TypeInv, TypeOK, PassType, Busy
<1>2. First = pass.todo[1] /\ 1 \in 1 .. Len(pass.todo) BY <1>1, TailCalls DEF First
<1> QED BY <1>1, <1>2 DEF PlanInv, Sane

LEMMA AdvanceFacts ==
    ASSUME TypeInv, PlanInv, Busy, Advances
    PROVE  /\ pass'.f = pass.f /\ pass'.todo = Tail(pass.todo) /\ Tail(pass.todo) # <<>>
           /\ pass'.stale = Noted
<1>1. PassOK BY TypeParts DEF TypeInv
<1>2. Tail(pass.todo) # <<>> BY <1>1, FirstSane, TailLast DEF PassOK, Advances, First, Busy
<1> QED BY <1>2 DEF Advances

(* A pass that has just put the call in its turn before this one.          *)
LEMMA TurnFacts ==
    ASSUME TypeInv, PlanInv, Busy, Advances, NEW n \in Turned, First' = ACall("put", n)
    PROVE  First = Before(n)
<1>1. pass'.todo = Tail(pass.todo) /\ Tail(pass.todo) # <<>> BY AdvanceFacts
<1>2. pass.todo \in Seq(CallType) /\ pass.todo # <<>> BY FirstSane
<1>3. Head(Tail(pass.todo)) = ACall("put", n) BY <1>1 DEF First
<1> QED BY <1>1, <1>2, <1>3, TailOrder DEF PlanInv, First

LEMMA StartFacts ==
    ASSUME Starts, NEW n \in Turned
    PROVE  First' # ACall("put", n)
<1>1. Plan(cr.f) # <<>> /\ Part(Plan(cr.f), cr.f) /\ Plan(cr.f) \in Seq(CallType)
  BY PlanCalls DEF PlanUpTo, Part
<1>2. Head(Plan(cr.f)) = Plan(cr.f)[1] /\ Len(Plan(cr.f)) > 0 BY <1>1, TailCalls
<1>3. Head(Plan(cr.f)) # ACall("put", n) BY <1>1, <1>2 DEF Part
<1> QED BY <1>3 DEF Starts, First

LEMMA PlanNext ==
    ASSUME TypeInv, PlanInv, Move
    PROVE  PlanInv'
<1>1. ASSUME Busy, Advances PROVE PlanInv'
  <2>1. pass.todo \in Seq(CallType) /\ pass.todo # <<>> BY <1>1, FirstSane
  <2>2. /\ \A i \in 1 .. Len(Tail(pass.todo)) : Sane(Tail(pass.todo)[i], pass.f)
        /\ InTurn(Tail(pass.todo)) /\ SecretsFirst(Tail(pass.todo))
    BY <1>1, <2>1, TailOrder DEF PlanInv
  <2>3. pass'.f = pass.f /\ pass'.todo = Tail(pass.todo) BY <1>1, AdvanceFacts
  <2> QED BY <2>2, <2>3 DEF PlanInv
<1>2. Ends => PlanInv' BY EndsType DEF PlanInv
<1>3. Starts => PlanInv' BY PlanCalls DEF Starts, PlanInv, PlanUpTo, Part
<1>4. pass'.todo = pass.todo /\ pass'.f = pass.f => PlanInv' BY DEF PlanInv, Busy
<1> QED
  BY <1>1, <1>2, <1>3, <1>4
  DEF Move, PassMove, Inserts, Merges, Replaces, Removes, Reads, Skips, LooksAgain, Stops, Breaks,
      Collects, Syncs, Occupies, Rests

(***************************************************************************)
(* The cache may lag on any object, but it never shows a StatefulSet with  *)
(* claims as one without, and it shows the old ConfigMap with the key while*)
(* there is one. And nobody but the operator makes objects other than      *)
(* ConfigMaps.                                                             *)
(***************************************************************************)
CacheInv ==
    /\ \A n \in {Volume, Group, Filer} :
         Seen(n) /\ Exists(n) => cache[n].claims = objs[n].claims
    /\ Exists(OldSecurity) => Seen(OldSecurity) /\ cache[OldSecurity] = objs[OldSecurity]
    /\ \A n \in DOMAIN objs : n \notin ConfigMaps => objs[n].owned

LEMMA CacheWrites ==
    ASSUME CacheInv, NEW n \in Names, NEW v, Writes(n, v), n # OldSecurity,
           n \notin ConfigMaps => v.owned,
           Seen(n) /\ n \in {Volume, Group, Filer} => cache[n].claims = v.claims
    PROVE  CacheInv'
<1>1. objs' = With(objs, n, v) /\ cache' \in {cache, With(cache, n, v)} BY DEF Writes, Late
<1>2. ASSUME NEW m \in {Volume, Group, Filer}, Seen(m)', Exists(m)'
      PROVE  cache'[m].claims = objs'[m].claims
  <2>1. CASE m = n BY <1>1, <1>2, <2>1 DEF With, Exists, Seen
  <2>2. CASE m # n BY <1>1, <1>2, <2>2 DEF With, Exists, Seen, CacheInv
  <2> QED BY <2>1, <2>2
<1>3. Exists(OldSecurity)' => Seen(OldSecurity)' /\ cache'[OldSecurity] = objs'[OldSecurity]
  BY <1>1 DEF With, Exists, Seen, CacheInv
<1>4. \A m \in DOMAIN objs' : m \notin ConfigMaps => objs'[m].owned BY <1>1 DEF With, CacheInv
<1> QED BY <1>2, <1>3, <1>4 DEF CacheInv

LEMMA CacheDeletes ==
    ASSUME CacheInv, NEW n, Deletes(n)
    PROVE  CacheInv'
<1>1. objs' = Without(objs, n) /\ cache' \in {cache, Without(cache, n)} BY DEF Deletes, Late
<1> QED BY <1>1 DEF Without, Exists, Seen, CacheInv

LEMMA CacheNext ==
    ASSUME TypeInv, PlanInv, CacheInv, Move
    PROVE  CacheInv'
<1>1. CASE UNCHANGED <<objs, cache>> BY <1>1 DEF CacheInv, Exists, Seen
<1>2. PassOK /\ StoresOK BY TypeParts DEF TypeInv
<1>3. ASSUME Busy, NEW n \in Names, Inserts(n) \/ Merges(n) PROVE CacheInv'
  <2>1. /\ Desired(n) \in ObjType /\ Desired(n).owned BY <1>2, <1>3, DesiredType
  <2>2. n # OldSecurity
    <3>1. Sane(First, pass.f) /\ First.n = n /\ First.op \in {"put", "apply"}
      BY <1>3, FirstSane DEF Inserts, Merges, ACall
    <3> QED BY <3>1, NamesApart DEF Sane
  <2>3. CASE Inserts(n) BY <2>1, <2>2, <2>3, CacheWrites DEF Inserts
  <2>4. CASE Merges(n)
    <3>1. cache[n] \in ObjType /\ cache[n] = objs[n] /\ n \in DOMAIN objs
      BY <1>2, <2>4 DEF Merges, StoresOK, IsStore, Seen, Exists
    <3>2. PICK v : v = Merge(n, cache[n], Desired(n)) OBVIOUS
    <3>3. v.claims = cache[n].claims /\ v.owned = objs[n].owned BY <2>1, <3>1, <3>2, MergeType
    <3>4. n \notin ConfigMaps => v.owned BY <3>1, <3>3 DEF CacheInv
    <3> QED BY <2>2, <2>4, <3>2, <3>3, <3>4, CacheWrites DEF Merges
  <2> QED BY <1>3, <2>3, <2>4
<1>4. ASSUME NEW n \in Names, Replaces(n) \/ Removes(n) PROVE CacheInv'
  BY <1>4, CacheDeletes DEF Replaces, Removes
<1>5. CASE Breaks BY <1>5 DEF Breaks, CacheInv, Exists, Seen
<1>6. CASE Collects BY <1>6 DEF Collects, CacheInv, Exists, Seen
<1>7. ASSUME NEW n \in Names, Syncs(n) PROVE CacheInv'
  BY <1>7 DEF Syncs, With, Without, CacheInv, Exists, Seen
<1>8. ASSUME NEW n \in ConfigMaps, Occupies(n) PROVE CacheInv'
  <2>1. n \notin {Volume, Group, Filer, OldSecurity}
    BY NamesApart DEF WithPods
  <2> QED BY <1>8, <2>1 DEF Occupies, With, CacheInv, Exists, Seen
<1> QED
  BY <1>1, <1>3, <1>4, <1>5, <1>6, <1>7, <1>8
  DEF Move, PassMove, Starts, Rests, Reads, Skips, LooksAgain, Stops, WritesNothing

(***************************************************************************)
(* The inductive invariant of the reconciler, on whichever objects the     *)
(* cache lags.                                                             *)
(***************************************************************************)
CoreInv == TypeInv /\ PlanInv /\ CacheInv

LEMMA CoreInit == Init => CoreInv
<1> SUFFICES ASSUME Init PROVE CoreInv
  OBVIOUS
<1>1. PlanInv BY DEF Init, PlanInv, Busy, IdlePass
<1>2. \A n \in DOMAIN Leftovers : Leftovers[n].owned BY DEF Leftovers, Plain, NoObjects
<1>3. CacheInv BY <1>2 DEF Init, CacheInv, Exists, Seen
<1> QED BY <1>1, <1>3, TypeInit DEF CoreInv

LEMMA CoreNext == CoreInv /\ [Next]_vars => CoreInv' /\ Move
BY TypeNext, Moves, PlanNext, CacheNext DEF CoreInv

LEMMA CoreHolds == Spec => []CoreInv
BY CoreInit, CoreNext, PTL DEF Spec

(* What a pass writes over an object keeps its claims and its owner.       *)
LEMMA MergeFacts ==
    ASSUME CoreInv, Busy, NEW n \in Names, Merges(n)
    PROVE  \E v \in ObjType :
             /\ objs' = With(objs, n, v) /\ v.claims = objs[n].claims /\ v.owned = objs[n].owned
             /\ v.in = Desired(n).in /\ v.key = Desired(n).key
<1>1. PassOK /\ StoresOK BY TypeParts DEF CoreInv, TypeInv
<1>2. Desired(n) \in ObjType BY <1>1, DesiredType
<1>3. cache[n] \in ObjType /\ cache[n] = objs[n] BY <1>1 DEF Merges, StoresOK, IsStore, Seen
<1>4. PICK v : v = Merge(n, cache[n], Desired(n)) OBVIOUS
<1>5. /\ v \in ObjType /\ v.claims = objs[n].claims /\ v.owned = objs[n].owned
      /\ v.in = Desired(n).in /\ v.key = Desired(n).key
  BY <1>2, <1>3, <1>4, MergeType
<1>6. objs' = With(objs, n, v) BY <1>4 DEF Merges, Writes
<1> QED BY <1>5, <1>6

(* What may be removed.                                                    *)
LEMMA RemoveFacts ==
    ASSUME CoreInv, Busy, NEW n \in Names, Removes(n)
    PROVE  /\ objs' = Without(objs, n)
           /\ n \in {Volume, Group, Filer} => n = Volume /\ "daemonset" \in pass.f
           /\ n # Server
           /\ securityConfigNeeded(pass.f) => n # Security
           /\ n \in ConfigMaps => (Exists(n) => objs[n].owned)
           /\ First.op \notin {"put", "apply", "keys"}
<1>1. Sane(First, pass.f) BY FirstSane DEF CoreInv
<1>2. objs' = Without(objs, n) BY DEF Removes, Deletes
<1>3. First.op \notin {"put", "apply", "keys"} BY DEF Removes, ACall
<1>4. /\ {Volume, Group, Filer} \subseteq WithPods \ {S3, Sftp, Mirror, Mirror2, OldWorker, VolumeDs}
      /\ {OldSecurity, OldWorker, VolumeDs, OldWorkerPeer, Volume} \cap
            (ConfigMaps \cup {Server, Security}) = {}
      /\ {OldSecurity, OldWorkerPeer} \cap {Volume, Group, Filer} = {}
  BY DEF WithPods, ConfigMaps, Volume, VolumeDs, Group, Filer, S3, Sftp, Mirror, Mirror2, OldWorker,
     OldWorkerPeer, OldSecurity, Security, Server, MasterConfig, FilerConfig
<1>5. CASE First = ACall("delete", n)
  <2>1. n \notin Kept BY <1>1, <1>5 DEF Sane, ACall
  <2> QED BY <1>2, <1>3, <1>4, <2>1 DEF Kept
<1>6. CASE First = ACall("prune", n) /\ (Exists(n) => objs[n].owned)
  <2>1. /\ n \notin WithPods \cup {Server}
        /\ n \in {Security, OldSecurity} => ~securityConfigNeeded(pass.f)
    BY <1>1, <1>6 DEF Sane, ACall
  <2> QED BY <1>2, <1>3, <1>4, <1>6, <2>1
<1>7. CASE First = ACall("clear", n)
  <2>1. n = OldWorker BY <1>1, <1>7 DEF Sane, ACall
  <2> QED BY <1>2, <1>3, <1>4, <2>1
<1>8. CASE First = ACall("replace", n)
  <2>1. n \in {Volume, VolumeDs, OldWorkerPeer} /\ (n = Volume => "daemonset" \in pass.f)
    BY <1>1, <1>8 DEF Sane, ACall
  <2> QED BY <1>2, <1>3, <1>4, <2>1
<1>9. CASE n = OldSecurity BY <1>2, <1>3, <1>4, <1>9
<1> QED BY <1>5, <1>6, <1>7, <1>8, <1>9 DEF Removes

(* Only workloads with claims are made anew.                               *)
LEMMA ReplaceFacts ==
    ASSUME CoreInv, Busy, NEW n \in Names, Replaces(n)
    PROVE  /\ objs' = Without(objs, n) /\ n \in {Volume, Group, Filer}
           /\ Exists(n) => ~objs[n].claims
<1>1. PassOK BY TypeParts DEF CoreInv, TypeInv
<1>2. Render(n, pass.f).claims BY <1>1, DesiredType DEF Replaces
<1>3. n \in {Volume, Group, Filer} BY <1>2, ClaimsOf
<1> QED BY <1>3 DEF Replaces, Deletes, CoreInv, CacheInv

(***************************************************************************)
(* Claims, and what others own.                                            *)
(***************************************************************************)

(* A StatefulSet with volumeClaimTemplates is not deleted by the operator  *)
(* while the CR exists, except for a DaemonSet of volume servers: whichever*)
(* objects the cache lags on, whatever fails.                              *)
THEOREM ClaimsStay == Spec => ClaimsKept
<1> DEFINE Stays(n) == Exists(n) /\ objs[n].claims /\ cr.life = "exists" =>
                         \/ n \in DOMAIN objs' /\ objs'[n].claims
                         \/ n = Volume /\ "daemonset" \in pass.f
<1>1. ASSUME CoreInv, Move, NEW n \in {Volume, Group, Filer} PROVE Stays(n)
  <2> SUFFICES ASSUME Exists(n), objs[n].claims, cr.life = "exists" PROVE Stays(n)
    OBVIOUS
  <2>1. n \notin ConfigMaps BY NamesApart DEF WithPods
  <2>2. CASE objs' = objs BY <2>2 DEF Exists
  <2>3. ASSUME NEW m \in Names, Inserts(m) PROVE Stays(n)
    <3>1. m # n BY <2>3 DEF Inserts
    <3> QED BY <2>3, <3>1 DEF Inserts, Writes, With, Exists
  <2>4. ASSUME Busy, NEW m \in Names, Merges(m) PROVE Stays(n)
    <3>1. PICK v : objs' = With(objs, m, v) /\ v.claims = objs[m].claims
      BY <1>1, <2>4, MergeFacts
    <3> QED BY <3>1 DEF With, Exists
  <2>5. ASSUME Busy, NEW m \in Names, Replaces(m) PROVE Stays(n)
    <3>1. objs' = Without(objs, m) /\ m # n BY <1>1, <2>5, ReplaceFacts
    <3> QED BY <3>1 DEF Without, Exists
  <2>6. ASSUME Busy, NEW m \in Names, Removes(m) PROVE Stays(n)
    <3>1. objs' = Without(objs, m) /\ (m = n => n = Volume /\ "daemonset" \in pass.f)
      BY <1>1, <2>6, RemoveFacts
    <3> QED BY <3>1 DEF Without, Exists
  <2>7. ASSUME NEW m \in ConfigMaps, Occupies(m) PROVE Stays(n)
    BY <2>1, <2>7 DEF Occupies, With, Exists
  <2> QED
    BY <1>1, <2>2, <2>3, <2>4, <2>5, <2>6, <2>7
    DEF Move, PassMove, Reads, Skips, LooksAgain, Stops, WritesNothing, Starts, Breaks, Collects,
        Syncs, Rests
<1>2. CoreInv /\ [Next]_vars => [\A n \in {Volume, Group, Filer} : Stays(n)]_vars
  BY <1>1, CoreNext
<1> QED BY <1>2, CoreHolds, PTL DEF Spec, ClaimsKept

(* A ConfigMap that somebody else put in the place of the operator's is    *)
(* neither deleted nor taken over, whatever the pass saw before.           *)
THEOREM ForeignIsKept == Spec => ForeignKept
<1> DEFINE Stays(n) == Exists(n) /\ ~objs[n].owned => n \in DOMAIN objs' /\ ~objs'[n].owned
<1>1. ASSUME CoreInv, Move, NEW n \in ConfigMaps PROVE Stays(n)
  <2> SUFFICES ASSUME Exists(n), ~objs[n].owned PROVE Stays(n)
    OBVIOUS
  <2>1. n \notin {Volume, Group, Filer} BY NamesApart DEF WithPods
  <2>2. CASE objs' = objs BY <2>2 DEF Exists
  <2>3. ASSUME NEW m \in Names, Inserts(m) PROVE Stays(n)
    <3>1. m # n BY <2>3 DEF Inserts
    <3> QED BY <2>3, <3>1 DEF Inserts, Writes, With, Exists
  <2>4. ASSUME Busy, NEW m \in Names, Merges(m) PROVE Stays(n)
    <3>1. PICK v : objs' = With(objs, m, v) /\ v.owned = objs[m].owned
      BY <1>1, <2>4, MergeFacts
    <3> QED BY <3>1 DEF With, Exists
  <2>5. ASSUME Busy, NEW m \in Names, Replaces(m) PROVE Stays(n)
    <3>1. objs' = Without(objs, m) /\ m # n BY <1>1, <2>1, <2>5, ReplaceFacts
    <3> QED BY <3>1 DEF Without, Exists
  <2>6. ASSUME Busy, NEW m \in Names, Removes(m) PROVE Stays(n)
    <3>1. objs' = Without(objs, m) /\ m # n BY <1>1, <2>6, RemoveFacts
    <3> QED BY <3>1 DEF Without, Exists
  <2>7. ASSUME NEW m \in ConfigMaps, Occupies(m) PROVE Stays(n)
    <3>1. PICK v : v = [Plain EXCEPT !.owned = FALSE] OBVIOUS
    <3>2. ~v.owned BY <3>1 DEF Plain
    <3> QED BY <2>7, <3>1, <3>2 DEF Occupies, With, Exists
  <2>8. Collects => Stays(n) BY DEF Collects, Owned, Exists
  <2> QED
    BY <1>1, <2>2, <2>3, <2>4, <2>5, <2>6, <2>7, <2>8
    DEF Move, PassMove, Reads, Skips, LooksAgain, Stops, WritesNothing, Starts, Breaks, Syncs, Rests
<1>2. CoreInv /\ [Next]_vars => [\A n \in ConfigMaps : Stays(n)]_vars
  BY <1>1, CoreNext
<1> QED BY <1>2, CoreHolds, PTL DEF Spec, ForeignKept

(***************************************************************************)
(* The two kinds of volume workload.                                       *)
(***************************************************************************)
KindInv ==
    \A n \in {Volume, VolumeDs} :
        Busy /\ First = ACall("put", n) /\ Exists(Rival(n)) => Rival(n) \in pass.stale

(* How a step may change which objects exist.                              *)
LEMMA DomainFacts ==
    ASSUME CoreInv, Move
    PROVE  \/ DOMAIN objs' \subseteq DOMAIN objs
           \/ Busy /\ \E n \in Names : Inserts(n) /\ DOMAIN objs' = DOMAIN objs \cup {n}
<1>1. objs' = objs => DOMAIN objs' \subseteq DOMAIN objs OBVIOUS
<1>2. ASSUME NEW n \in Names, Inserts(n) PROVE DOMAIN objs' = DOMAIN objs \cup {n}
  BY <1>2 DEF Inserts, Writes, With
<1>3. ASSUME NEW n \in Names, Merges(n) PROVE DOMAIN objs' \subseteq DOMAIN objs
  BY <1>3 DEF Merges, Writes, With, Exists
<1>4. ASSUME NEW n \in Names, Replaces(n) \/ Removes(n) PROVE DOMAIN objs' \subseteq DOMAIN objs
  BY <1>4 DEF Replaces, Removes, Deletes, Without
<1>5. ASSUME NEW n \in ConfigMaps, Occupies(n) PROVE DOMAIN objs' \subseteq DOMAIN objs
  BY <1>5 DEF Occupies, With, Exists
<1>6. Collects => DOMAIN objs' \subseteq DOMAIN objs BY DEF Collects
<1> QED
  BY <1>1, <1>2, <1>3, <1>4, <1>5, <1>6
  DEF Move, PassMove, Reads, Skips, LooksAgain, Stops, WritesNothing, Starts, Breaks, Syncs, Rests

LEMMA KindNext ==
    ASSUME CoreInv, KindInv, Move
    PROVE  KindInv'
<1> SUFFICES ASSUME NEW n \in {Volume, VolumeDs}, Busy', First' = ACall("put", n), Exists(Rival(n))'
             PROVE  Rival(n) \in pass'.stale
  BY DEF KindInv
<1>1. ~Ends BY EndsType
<1>2. n \in Turned /\ n # Security /\ Rival(n) # n BY DEF Turned, Volume, VolumeDs, Security, Rival
<1>3. ASSUME Busy, Advances, PassMove PROVE Rival(n) \in pass'.stale
  <2>1. First = Before(n) BY <1>2, <1>3, TurnFacts DEF CoreInv
  <2>2. First.op = "replace" /\ First.n = Rival(n) BY <1>2, <2>1 DEF Before, ACall
  <2>3. Skips
    <3>1. \A op, m : First = ACall(op, m) => op = "replace" BY <2>2 DEF ACall
    <3>2. \A m : ~Inserts(m) /\ ~Merges(m) /\ ~Replaces(m) BY <3>1 DEF Inserts, Merges, Replaces
    <3>3. \A m : ~Removes(m) BY <1>1, <2>2, <3>1 DEF Removes
    <3> QED BY <1>1, <1>3, <2>2, <3>2, <3>3 DEF PassMove, Reads, LooksAgain, Stops
  <2>4. ~Seen(Rival(n)) /\ objs' = objs BY <2>2, <2>3 DEF Skips, WritesNothing
  <2>5. Outdated(Rival(n)) BY <2>4 DEF Outdated, Exists
  <2>6. Target = Rival(n) BY <2>2 DEF Target, First
  <2> QED BY <1>3, <2>5, <2>6 DEF Advances, Noted
<1>4. CASE Starts BY <1>2, <1>4, StartFacts
<1>5. CASE pass'.todo = pass.todo /\ pass.stale \subseteq pass'.stale /\ DOMAIN objs' \subseteq DOMAIN objs
  BY <1>5 DEF KindInv, First, Busy, Exists
<1>6. CASE LooksAgain
  <2>1. pass'.todo = pass.todo /\ pass.stale \subseteq pass'.stale /\ objs' = objs
    BY <1>6 DEF LooksAgain, Noted, WritesNothing
  <2> QED BY <1>5, <2>1
<1>7. CASE Collects BY <1>5, <1>7 DEF Collects
<1>8. CASE \E m \in ConfigMaps : Occupies(m)
  <2>1. pass' = pass BY <1>8 DEF Occupies
  <2>2. DOMAIN objs' \subseteq DOMAIN objs BY <1>8 DEF Occupies, With, Exists
  <2> QED BY <1>5, <2>1, <2>2
<1> QED
  BY <1>1, <1>3, <1>4, <1>5, <1>6, <1>7, <1>8
  DEF Move, PassMove, Inserts, Merges, Replaces, Removes, Reads, Skips, Stops, Breaks, Syncs, Rests

(* The StatefulSet of volume servers is not made while their DaemonSet     *)
(* exists, nor the other way round, whatever the cache lags on, except by a*)
(* pass that looked for the other one and was shown an outdated copy: the  *)
(* plan puts one right after the other was found to be gone.               *)
THEOREM KindsNeverMeet == Spec => KindsApart
<1> DEFINE Apart(n) == ~Exists(n) /\ Exists(Rival(n)) /\ n \in DOMAIN objs' => Rival(n) \in pass.stale
<1>1. Init => KindInv BY DEF Init, KindInv, Busy, IdlePass
<1>2. CoreInv /\ KindInv /\ [Next]_vars => KindInv' BY CoreNext, KindNext
<1>3. ASSUME CoreInv, KindInv, Move, NEW n \in {Volume, VolumeDs} PROVE Apart(n)
  <2> SUFFICES ASSUME ~Exists(n), Exists(Rival(n)), n \in DOMAIN objs' PROVE Rival(n) \in pass.stale
    OBVIOUS
  <2>1. Busy /\ Inserts(n) BY <1>3, DomainFacts DEF Exists
  <2>2. First = ACall("put", n)
    <3>1. Sane(First, pass.f) BY <1>3, <2>1, FirstSane DEF CoreInv
    <3>2. n \notin {CA, Server} BY DEF Volume, VolumeDs, CA, Server
    <3>3. First # ACall("apply", n) BY <3>1, <3>2 DEF Sane, ACall
    <3> QED BY <2>1, <3>3 DEF Inserts
  <2> QED BY <1>3, <2>1, <2>2 DEF KindInv
<1>4. CoreInv /\ KindInv /\ [Next]_vars => [\A n \in {Volume, VolumeDs} : Apart(n)]_vars
  BY <1>3, CoreNext
<1> QED BY <1>1, <1>2, <1>4, CoreHolds, PTL DEF Spec, KindsApart

(***************************************************************************)
(* The Secrets that the templates mount.                                   *)
(***************************************************************************)
MountInv ==
    Busy /\ cr.life # "deleted" =>
        /\ securityConfigNeeded(pass.f) =>
             Has(pass.todo, ACall("put", Security)) \/ Exists(Security) \/ Security \in pass.stale
        /\ tlsEffective(pass.f) => Has(pass.todo, ACall("apply", Server)) \/ Exists(Server)

LEMMA MountNext ==
    ASSUME CoreInv, MountInv, Move
    PROVE  MountInv'
<1>1. Ends => MountInv' BY EndsType DEF MountInv
<1>2. Starts => MountInv' BY PlanCalls DEF Starts, MountInv, PlanUpTo
<1>3. ASSUME pass'.todo = pass.todo, pass'.f = pass.f, pass.stale \subseteq pass'.stale,
             DOMAIN objs \subseteq DOMAIN objs', cr.life = "deleted" => cr'.life = "deleted"
      PROVE  MountInv'
  BY <1>3 DEF MountInv, Busy, Exists
<1>4. Collects => MountInv' BY DEF Collects, MountInv
<1>5. LooksAgain /\ cr' = cr => MountInv' BY <1>3 DEF LooksAgain, WritesNothing, Noted
<1>6. ASSUME NEW n \in ConfigMaps, Occupies(n) PROVE MountInv'
  BY <1>3, <1>6 DEF Occupies, With
<1>7. ASSUME PassMove, Advances PROVE MountInv'
  <2>1. Busy /\ cr' = cr BY <1>7 DEF PassMove
  <2>2. pass'.f = pass.f /\ pass'.todo = Tail(pass.todo) /\ pass'.stale = Noted
    BY <1>7, <2>1, AdvanceFacts DEF CoreInv
  <2>3. pass.todo \in Seq(CallType) /\ pass.todo # <<>> BY <2>1, FirstSane DEF CoreInv
  <2>4. \A c : Has(pass.todo, c) /\ c # First => Has(pass'.todo, c)
    BY <2>1, <2>2, <2>3, TailOrder DEF CoreInv, PlanInv, First
  <2>5. /\ First = ACall("put", Security) => Exists(Security)' \/ Security \in pass'.stale
        /\ First = ACall("apply", Server) => Exists(Server)'
        /\ securityConfigNeeded(pass.f) /\ Exists(Security) => Exists(Security)'
        /\ Exists(Server) => Exists(Server)'
    <3>0. \A op, n : ACall(op, n).op = op /\ ACall(op, n).n = n BY DEF ACall
    <3>1. CASE \E n \in Names : Inserts(n) \/ Merges(n)
      <4>1. PICK n \in Names : /\ First \in {ACall("put", n), ACall("apply", n)}
                               /\ DOMAIN objs' = DOMAIN objs \cup {n}
        BY <3>1 DEF Inserts, Merges, Writes, With
      <4>2. /\ First = ACall("put", Security) => n = Security
            /\ First = ACall("apply", Server) => n = Server
        BY <3>0, <4>1
      <4> QED BY <4>1, <4>2 DEF Exists
    <3>2. CASE \E n \in Names : Removes(n)
      <4>1. PICK n \in Names : Removes(n) BY <3>2
      <4>2. /\ DOMAIN objs' = DOMAIN objs \ {n} /\ n # Server
            /\ securityConfigNeeded(pass.f) => n # Security
            /\ First.op \notin {"put", "apply"}
        BY <2>1, <4>1, RemoveFacts DEF Without
      <4> QED BY <3>0, <4>2 DEF Exists
    <3>3. CASE Reads BY <3>0, <3>3 DEF Reads, WritesNothing, Exists
    <3>4. CASE Skips
      <4>1. objs' = objs /\ First.op # "apply" BY <3>4 DEF Skips, WritesNothing
      <4>2. ASSUME First = ACall("put", Security), ~Exists(Security) PROVE Security \in pass'.stale
        <5>1. First.op = "put" /\ First.n = Security BY <3>0, <4>2
        <5>2. Seen(Security) /\ Target = Security BY <3>4, <5>1 DEF Skips, Target, First
        <5>3. Outdated(Security) BY <4>2, <5>2 DEF Outdated
        <5> QED BY <2>2, <5>2, <5>3 DEF Noted
      <4> QED BY <3>0, <4>1, <4>2 DEF Exists
    <3>5. CASE Stops \/ \E n \in Names : Replaces(n)
      <4>1. Ends BY <3>5 DEF Stops, Replaces
      <4>2. ~Busy' BY <4>1, EndsType
      <4>3. pass'.todo # <<>> BY <1>7, <2>1, AdvanceFacts DEF CoreInv
      <4> QED BY <4>2, <4>3 DEF Busy
    <3>6. CASE LooksAgain
      <4>1. pass'.todo = pass.todo BY <3>6 DEF LooksAgain
      <4>2. Len(Tail(pass.todo)) # Len(pass.todo) BY <2>3, TailCalls
      <4> QED BY <2>2, <4>1, <4>2
    <3> QED BY <1>7, <3>1, <3>2, <3>3, <3>4, <3>5, <3>6 DEF PassMove
  <2>6. Security \in pass.stale => Security \in pass'.stale BY <2>2 DEF Noted
  <2> QED BY <2>1, <2>2, <2>4, <2>5, <2>6 DEF MountInv
<1> QED
  BY <1>1, <1>2, <1>3, <1>4, <1>5, <1>6, <1>7
  DEF Move, PassMove, Inserts, Merges, Replaces, Removes, Reads, Skips, Stops, Breaks, Syncs, Rests

(* A workload is created or changed only when its Secrets have been made.  *)
LEMMA MountStep ==
    ASSUME CoreInv, MountInv, Move, NEW w \in WithPods, w \in DOMAIN objs',
           cr.life = "exists", Exists(w) => objs[w].in # objs'[w].in
    PROVE  Backed(objs'[w].in) \/ Security \in pass.stale
<1>1. w \in Names /\ w \notin {Security, Server, CA} /\ w \notin ConfigMaps BY NamesApart DEF Names
<1>2. Busy /\ First = ACall("put", w) /\ objs'[w].in = Desired(w).in
  <2>1. objs' # objs BY DEF Exists
  <2>2. (Busy /\ Sane(First, pass.f)) \/ \E n \in ConfigMaps : Occupies(n)
    <3>1. Busy => Sane(First, pass.f) BY FirstSane DEF CoreInv
    <3>2. ~Collects BY DEF Collects
    <3> QED BY <2>1, <3>1, <3>2 DEF Move, PassMove, Starts, Breaks, Syncs, Rests
  <2>3. ~(\E n \in ConfigMaps : Occupies(n)) BY <1>1 DEF Occupies, With, Exists
  <2>4. First # ACall("apply", w) BY <1>1, <2>2, <2>3 DEF Sane, ACall
  <2>5. CASE \E n \in Names : Inserts(n)
    <3>1. PICK n \in Names : Inserts(n) BY <2>5
    <3>2. n = w BY <3>1 DEF Inserts, Writes, With, Exists
    <3> QED BY <2>2, <2>3, <2>4, <3>1, <3>2 DEF Inserts, Writes, With
  <2>6. CASE \E n \in Names : Merges(n)
    <3>1. PICK n \in Names : Merges(n) BY <2>6
    <3>2. n = w BY <3>1 DEF Merges, Writes, With, Exists
    <3>3. PICK v : objs' = With(objs, w, v) /\ v.in = Desired(w).in
      BY <2>2, <2>3, <3>1, <3>2, MergeFacts
    <3>4. First = ACall("put", w) BY <2>4, <3>1, <3>2 DEF Merges
    <3> QED BY <2>2, <2>3, <3>3, <3>4 DEF With
  <2>7. ~(\E n \in Names : Replaces(n) \/ Removes(n))
    <3> SUFFICES ASSUME NEW n \in Names, Deletes(n) PROVE FALSE
      BY DEF Replaces, Removes
    <3> QED BY DEF Deletes, Without, Exists
  <2> QED
    BY <2>1, <2>3, <2>5, <2>6, <2>7
    DEF Move, PassMove, Reads, Skips, LooksAgain, Stops, WritesNothing, Starts, Breaks, Collects,
        Syncs, Rests
<1>3. pass.todo \in Seq(CallType) /\ pass.todo # <<>> /\ SecretsFirst(pass.todo)
  BY <1>2, FirstSane DEF CoreInv, PlanInv
<1>4. /\ First = pass.todo[1] /\ 1 \in 1 .. Len(pass.todo) /\ PutsPods(pass.todo[1])
      /\ ~MakesSecret(pass.todo[1])
  BY <1>1, <1>2, <1>3, TailCalls DEF First, PutsPods, MakesSecret, ACall
<1>5. \A i \in 1 .. Len(pass.todo) : ~MakesSecret(pass.todo[i])
  <2> TAKE i \in 1 .. Len(pass.todo)
  <2>1. i = 1 \/ 1 < i OBVIOUS
  <2> QED BY <2>1, <1>3, <1>4 DEF SecretsFirst
<1>6. /\ securityConfigNeeded(pass.f) => Exists(Security) \/ Security \in pass.stale
      /\ tlsEffective(pass.f) => Exists(Server)
  BY <1>2, <1>5 DEF MountInv, Has, MakesSecret
<1>7. objs'[w].in \subseteq pass.f
  BY <1>2, DesiredType, TypeParts DEF CoreInv, TypeInv
<1>8. /\ securityConfigNeeded(objs'[w].in) => securityConfigNeeded(pass.f)
      /\ tlsEffective(objs'[w].in) => tlsEffective(pass.f)
  BY <1>7 DEF securityConfigNeeded, tlsEffective
<1>9. Security # Server BY DEF Security, Server
<1> QED BY <1>6, <1>8, <1>9 DEF Backed, tlsVolumesAndMounts

(* Whatever the cache lags on, a workload is never given a template that   *)
(* mounts a security Secret that does not exist, unless the pass was shown *)
(* an outdated copy of it, nor the Secret of a Certificate that has not    *)
(* been asked for: both calls come before the workloads, in the same pass, *)
(* and nothing that the rest of the plan deletes is one of the two.        *)
THEOREM MountsAreBacked == Spec => MountsBacked
<1>1. Init => MountInv BY DEF Init, MountInv, Busy, IdlePass
<1>2. CoreInv /\ MountInv /\ [Next]_vars => MountInv' BY CoreNext, MountNext
<1>3. CoreInv /\ MountInv /\ [Next]_vars =>
        [\A w \in WithPods \cap DOMAIN objs' :
           cr.life = "exists" /\ (Exists(w) => objs[w].in # objs'[w].in) =>
             Backed(objs'[w].in) \/ Security \in pass.stale]_vars
  BY CoreNext, MountStep
<1> QED BY <1>1, <1>2, <1>3, CoreHolds, PTL DEF Spec, MountsBacked

(***************************************************************************)
(* The JWT signing key.                                                    *)
(***************************************************************************)
(* The key that a pass is about to write is the one in use, if the Secret  *)
(* it read was what is stored.                                             *)
KeyInv ==
    Busy /\ First = ACall("put", Security) /\ "jwt" \in pass.f /\ Security \notin pass.stale =>
        (LiveKey # 0 => pass.key = LiveKey)

LEMMA CollectedKey ==
    ASSUME CoreInv, Collects
    PROVE  LiveKey' = 0
<1>1. Security \notin ConfigMaps /\ OldSecurity \notin ConfigMaps BY NamesApart
<1>2. ~Exists(Security)' /\ ~Exists(OldSecurity)'
  BY <1>1 DEF Collects, Owned, Exists, CoreInv, CacheInv
<1> QED BY <1>2 DEF LiveKey

LEMMA OccupiedKey ==
    ASSUME NEW n \in ConfigMaps, Occupies(n)
    PROVE  LiveKey' = LiveKey
<1>1. n # Security /\ n # OldSecurity BY NamesApart
<1> QED BY <1>1 DEF Occupies, With, LiveKey, Exists

LEMMA KeyNext ==
    ASSUME CoreInv, KeyInv, Move
    PROVE  KeyInv'
<1> SUFFICES ASSUME Busy', First' = ACall("put", Security), "jwt" \in pass'.f,
                    Security \notin pass'.stale, LiveKey' # 0
             PROVE  pass'.key = LiveKey'
  BY DEF KeyInv
<1>1. ~Ends BY EndsType
<1>2. Security \in Turned /\ Before(Security) = ACall("keys", Security) BY DEF Turned, Before
<1>3. ASSUME Busy, Advances, PassMove PROVE pass'.key = LiveKey'
  <2>1. First = Before(Security) BY <1>2, <1>3, TurnFacts DEF CoreInv
  <2>2. First.op = "keys" /\ First.n = Security /\ Target = Security
    BY <1>2, <2>1 DEF ACall, Target, First
  <2>3. Reads
    <3>1. \A op, m : First = ACall(op, m) => op = "keys" BY <2>2 DEF ACall
    <3>2. \A m : ~Inserts(m) /\ ~Merges(m) /\ ~Replaces(m) BY <3>1 DEF Inserts, Merges, Replaces
    <3>3. \A m : ~Removes(m) BY <2>2, <3>1 DEF Removes
    <3> QED BY <1>1, <1>3, <2>2, <3>2, <3>3 DEF PassMove, Skips, LooksAgain, Stops
  <2>4. ~Outdated(Security) /\ pass'.f = pass.f BY <1>3, <2>2 DEF Advances, Noted
  <2>5. objs' = objs BY <2>3 DEF Reads, WritesNothing
  <2>6. LiveKey' = LiveKey BY <2>5 DEF LiveKey, Exists
  <2>7. existingJWTSigningKeys = LiveKey
    <3>1. CASE Exists(Security)
      <4>1. Seen(Security) /\ objs[Security] = cache[Security] BY <2>4, <3>1 DEF Outdated
      <4> QED BY <3>1, <4>1 DEF existingJWTSigningKeys, LiveKey
    <3>2. CASE ~Exists(Security)
      <4>1. ~Seen(Security) BY <2>4, <3>2 DEF Outdated
      <4>2. Exists(OldSecurity) BY <2>6, <3>2 DEF LiveKey
      <4>3. Seen(OldSecurity) /\ cache[OldSecurity] = objs[OldSecurity] BY <4>2 DEF CoreInv, CacheInv
      <4> QED BY <3>2, <4>1, <4>2, <4>3 DEF existingJWTSigningKeys, LiveKey
    <3> QED BY <3>1, <3>2
  <2> QED BY <2>3, <2>4, <2>6, <2>7 DEF Reads
<1>4. CASE Starts BY <1>2, <1>4, StartFacts
<1>5. ASSUME pass' = pass, LiveKey' = LiveKey PROVE pass'.key = LiveKey'
  BY <1>5 DEF KeyInv, First, Busy
<1>6. objs' = objs => LiveKey' = LiveKey BY DEF LiveKey, Exists
<1>7. CASE LooksAgain /\ Busy
  <2>1. First = ACall("put", Security) /\ Outdated(First.n) BY <1>7 DEF LooksAgain, First
  <2>2. Target = Security /\ Outdated(Security) BY <2>1 DEF ACall, Target, First
  <2> QED BY <1>7, <2>2 DEF LooksAgain, Noted
<1>8. CASE Collects BY <1>8, CollectedKey
<1>9. CASE \E m \in ConfigMaps : Occupies(m)
  <2>1. pass' = pass BY <1>9 DEF Occupies
  <2> QED BY <1>5, <1>9, <2>1, OccupiedKey
<1> QED
  BY <1>1, <1>3, <1>4, <1>5, <1>6, <1>7, <1>8, <1>9
  DEF Move, PassMove, Inserts, Merges, Replaces, Removes, Reads, Skips, Stops, Breaks, Syncs, Rests

LEMMA KeyStep ==
    ASSUME CoreInv, KeyInv, Move,
           Busy, "jwt" \in pass.f, LiveKey # 0, LiveKey' # 0, Security \notin pass.stale
    PROVE  LiveKey' = LiveKey
<1>1. Sane(First, pass.f) BY FirstSane DEF CoreInv
<1>2. PassOK BY TypeParts DEF CoreInv, TypeInv
<1>3. securityConfigNeeded(pass.f) BY DEF securityConfigNeeded
<1>4. objs' = objs => LiveKey' = LiveKey BY DEF LiveKey, Exists
<1>5. ASSUME NEW n \in Names, Inserts(n) \/ Merges(n) PROVE LiveKey' = LiveKey
  <2>1. First \in {ACall("put", n), ACall("apply", n)} BY <1>5 DEF Inserts, Merges
  <2>2. n # OldSecurity /\ (n = Security => First = ACall("put", Security))
    <3>1. First.n = n /\ First.op \in {"put", "apply"} BY <2>1 DEF ACall
    <3>2. First.op = "apply" => n \in {CA, Server} BY <1>1, <3>1 DEF Sane
    <3>3. First.op = "put" => n # OldSecurity BY <1>1, <3>1 DEF Sane
    <3> QED BY <2>1, <3>1, <3>2, <3>3, NamesApart DEF ACall
  <2>3. PICK v : objs' = With(objs, n, v) /\ v.key = Desired(n).key
    <3>1. CASE Inserts(n) BY <3>1 DEF Inserts, Writes
    <3>2. CASE Merges(n) BY <3>2, MergeFacts
    <3> QED BY <1>5, <3>1, <3>2
  <2>4. CASE n # Security BY <2>2, <2>3, <2>4 DEF With, LiveKey, Exists
  <2>5. CASE n = Security
    <3>1. v.key = LiveKey BY <1>2, <2>2, <2>3, <2>5, DesiredType DEF KeyInv
    <3>2. Exists(Security)' /\ objs'[Security] = v BY <2>3, <2>5 DEF With, Exists
    <3> QED BY <3>1, <3>2 DEF LiveKey
  <2> QED BY <2>4, <2>5
<1>6. ASSUME NEW n \in Names, Replaces(n) PROVE LiveKey' = LiveKey
  <2>1. objs' = Without(objs, n) /\ n \in {Volume, Group, Filer} BY <1>6, ReplaceFacts
  <2>2. n # Security /\ n # OldSecurity BY <2>1 DEF Volume, Group, Filer, Security, OldSecurity
  <2> QED BY <2>1, <2>2 DEF Without, LiveKey, Exists
<1>7. ASSUME NEW n \in Names, Removes(n) PROVE LiveKey' = LiveKey
  <2>1. objs' = Without(objs, n) /\ n # Security BY <1>3, <1>7, RemoveFacts
  <2>2. CASE n # OldSecurity \/ Exists(Security)
    BY <2>1, <2>2, NamesApart DEF Without, LiveKey, Exists
  <2>3. CASE n = OldSecurity /\ ~Exists(Security)
    <3>1. LiveKey' = 0 BY <2>1, <2>3 DEF Without, LiveKey, Exists
    <3> QED BY <3>1
  <2> QED BY <2>2, <2>3
<1>8. Collects => LiveKey' = LiveKey BY CollectedKey
<1> QED
  BY <1>4, <1>5, <1>6, <1>7, <1>8, OccupiedKey
  DEF Move, PassMove, Reads, Skips, LooksAgain, Stops, WritesNothing, Starts, Breaks, Syncs, Rests

(* Whatever the cache lags on, the key that the components sign with does  *)
(* not change while the JWT section is asked for, except by a pass that was*)
(* shown an outdated copy of the security Secret: not when a pass is cut   *)
(* short between making the Secret and deleting the old ConfigMap, nor     *)
(* across restarts and any edits of the CR.                                *)
THEOREM KeyNeverChanges == Spec => KeysKept
<1>1. Init => KeyInv BY DEF Init, KeyInv, Busy, IdlePass
<1>2. CoreInv /\ KeyInv /\ [Next]_vars => KeyInv' BY CoreNext, KeyNext
<1>3. CoreInv /\ KeyInv /\ [Next]_vars =>
        [Busy /\ "jwt" \in pass.f /\ LiveKey # 0 /\ LiveKey' # 0 =>
           LiveKey' = LiveKey \/ Security \in pass.stale]_vars
  BY CoreNext, KeyStep
<1> QED BY <1>1, <1>2, <1>3, CoreHolds, PTL DEF Spec, KeysKept
=============================================================================
