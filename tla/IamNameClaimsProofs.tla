------------------------- MODULE IamNameClaimsProofs -------------------------
(***************************************************************************)
(* Proofs about IamNameClaims, for any number of CRs, names, edits, faults *)
(* and passes.                                                             *)
(***************************************************************************)
EXTENDS IamNameClaims, TLAPS

(* The cache is right about every CR it does not lag on.                   *)
CacheCorrect == \A c \in CRs : c \notin lag => cached[c] = obj[c]

(* What a write of CR c to the API server does and leaves alone.           *)
LEMMA PutFacts ==
    ASSUME TypeOK, NEW c \in CRs, NEW o \in Objects, Put(c, o)
    PROVE  /\ obj' \in [CRs -> Objects] /\ cached' \in [CRs -> Objects]
           /\ lag' \in SUBSET CRs
           /\ obj'[c] = o /\ cached'[c] \in {cached[c], o}
           /\ \A d \in CRs \ {c} : obj'[d] = obj[d] /\ cached'[d] = cached[d]
           /\ CacheCorrect => CacheCorrect'
<1>1. CASE o = obj[c]
  BY <1>1 DEF Put, apiVars, TypeOK, CacheCorrect
<1>2. CASE o # obj[c] /\ CacheLag
  BY <1>2 DEF Put, TypeOK, CacheCorrect
<1>3. CASE o # obj[c] /\ ~CacheLag
  BY <1>3 DEF Put, TypeOK, CacheCorrect
<1> QED
  BY <1>1, <1>2, <1>3

(* What a deleted CR leaves behind is an object.                           *)
LEMMA GoneType == \A c \in CRs : Gone(c) \in Objects
BY NamesAssumption, BoundsAssumption DEF Gone, Objects, NoName, Phases

(* Every copy a pass writes back is an object again.                       *)
LEMMA WriteTypes ==
    ASSUME TypeOK, NEW phase \in Phases
    PROVE  /\ [snap EXCEPT !.phase = phase] \in Objects
           /\ [snap EXCEPT !.fin = TRUE] \in Objects
           /\ [snap EXCEPT !.status = snap.name, !.phase = "Ready"] \in Objects
BY DEF TypeOK, Objects, Phases

(* A last write of the pass, made or rejected, keeps the types.            *)
LEMMA WriteAndEndType ==
    ASSUME TypeOK, NEW o \in Objects, WriteAndEnd(o)
    PROVE  /\ obj' \in [CRs -> Objects] /\ cached' \in [CRs -> Objects]
           /\ lag' \in SUBSET CRs
           /\ pc' = "idle" /\ cur' \in CRs /\ snap' \in Objects /\ stale' \in BOOLEAN
<1>1. CASE stale
  BY <1>1, GoneType DEF WriteAndEnd, EndPass, apiVars, TypeOK
<1>2. CASE ~stale
  <2>1. cur \in CRs /\ Put(cur, o)
    BY <1>2 DEF WriteAndEnd, TypeOK
  <2> QED
    BY <2>1, PutFacts, GoneType DEF WriteAndEnd, EndPass, TypeOK
<1> QED
  BY <1>1, <1>2

(* An edit of a CR by a user keeps TypeOK.                                 *)
LEMMA UserPutsType ==
    ASSUME TypeOK, NEW c \in CRs, NEW o \in Objects, UserPuts(c, o),
           clock' \in 0 .. MaxClock, unseen' \in SUBSET CRs
    PROVE  TypeOK'
<1>1. stale' \in BOOLEAN
  BY Zenon DEF UserPuts
<1>2. edits' \in 0 .. MaxEdits
  BY BoundsAssumption DEF UserPuts, Edit, TypeOK
<1>3. Put(c, o)
  BY DEF UserPuts
<1> QED
  BY <1>1, <1>2, <1>3, PutFacts DEF UserPuts, TypeOK

(* Every variable keeps its type: in particular a pass only ever writes    *)
(* well-formed CRs and IAM objects of CRs.                                 *)
THEOREM IamTypeCorrect == Spec => []TypeOK
<1>1. Init => TypeOK
  <2> SUFFICES ASSUME Init PROVE TypeOK
    OBVIOUS
  <2>1. obj \in [CRs -> Objects] /\ cached \in [CRs -> Objects] /\ snap \in Objects
    BY GoneType DEF Init
  <2>2. user \in [Names -> CRs \cup {NoUser}]
    BY DEF Init
  <2>3. clock \in 0 .. MaxClock /\ edits \in 0 .. MaxEdits /\ faults \in 0 .. MaxFaults
    BY BoundsAssumption DEF Init
  <2>4. cluster \in BOOLEAN /\ stale \in BOOLEAN
    BY DEF Init
  <2>5. lag \in SUBSET CRs /\ granted \in SUBSET CRs /\ cur \in CRs /\ pc = "idle"
        /\ unseen \in SUBSET CRs
    BY DEF Init
  <2> QED
    BY <2>1, <2>2, <2>3, <2>4, <2>5 DEF TypeOK
<1>2. TypeOK /\ [Next]_vars => TypeOK'
  <2> SUFFICES ASSUME TypeOK, [Next]_vars PROVE TypeOK'
    OBVIOUS
  <2> USE BoundsAssumption
  <2>0. ASSUME NEW p \in Phases, WriteStatus(p), UNCHANGED <<envVars, user, edits>>,
               faults' \in 0 .. MaxFaults
        PROVE  TypeOK'
    BY <2>0, WriteTypes, WriteAndEndType DEF WriteStatus, TypeOK, envVars
  <2>1. CASE Refuse
    <3>1. Refusal \in Phases
      BY DEF Refusal, Phases
    <3> QED
      BY <2>1, <3>1, <2>0 DEF Refuse, TypeOK
  <2>2. CASE Proceed
    <3>1. pc' \in {"handleDeletion", "addFinalizer", "upsert"}
      BY <2>2 DEF Proceed, GoTo, TypeOK, Objects
    <3> QED
      BY <2>2, <3>1 DEF Proceed, GoTo, TypeOK, apiVars, envVars
  <2>3. CASE AddFinalizer
    BY <2>3, WriteTypes, WriteAndEndType DEF AddFinalizer, TypeOK, envVars, Phases
  <2>4. CASE Upsert
    BY <2>4 DEF Upsert, GoTo, TypeOK, apiVars, envVars, Objects
  <2>5. CASE WriteReady
    BY <2>5, WriteTypes, WriteAndEndType DEF WriteReady, TypeOK, envVars, Phases
  <2>6. CASE HandleDeletion
    <3>1. pc' \in {"idle", "removeFinalizer", "deleteUser"} /\ cur' = cur /\ snap' \in Objects
      BY <2>6, GoneType DEF HandleDeletion, GoTo, EndPass, TypeOK
    <3>2. stale' \in BOOLEAN
      BY <2>6, Zenon DEF HandleDeletion, GoTo, EndPass, TypeOK
    <3> QED
      BY <2>6, <3>1, <3>2 DEF HandleDeletion, TypeOK, apiVars, envVars
  <2>7. CASE DeleteUser
    BY <2>7 DEF DeleteUser, GoTo, TypeOK, apiVars, envVars, Objects
  <2>8. CASE RemoveFinalizer
    BY <2>8, GoneType, WriteAndEndType DEF RemoveFinalizer, TypeOK, envVars
  <2>9. CASE UpsertFails
    <3>1. faults' \in 0 .. MaxFaults /\ "Failed" \in Phases
      BY <2>9 DEF UpsertFails, Fault, TypeOK, Phases
    <3> QED
      BY <2>9, <3>1, <2>0 DEF UpsertFails
  <2>10. CASE DeleteUserFails
    <3>1. faults' \in 0 .. MaxFaults /\ "Terminating" \in Phases
      BY <2>10 DEF DeleteUserFails, Fault, TypeOK, Phases
    <3> QED
      BY <2>10, <3>1, <2>0 DEF DeleteUserFails
  <2>11. CASE PassAborts
    <3>1. faults' \in 0 .. MaxFaults
      BY <2>11 DEF PassAborts, Fault, TypeOK
    <3>2. snap' \in Objects /\ cur' \in CRs
      BY <2>11, GoneType DEF PassAborts, EndPass, TypeOK
    <3> QED
      BY <2>11, <3>1, <3>2 DEF PassAborts, EndPass, TypeOK, apiVars, envVars
  <2>12. CASE CacheSync
    BY <2>12 DEF CacheSync, TypeOK, passVars, envVars
  <2>13. ASSUME NEW c \in CRs, Load(c) PROVE TypeOK'
    <3>1. stale' \in BOOLEAN
      BY <2>13 DEF Load
    <3> QED
      BY <2>13, <3>1 DEF Load, TypeOK, apiVars, envVars
  <2>14. ASSUME NEW c \in CRs, UserDeletes(c) PROVE TypeOK'
    <3>1. (IF obj[c].fin THEN [obj[c] EXCEPT !.deleting = TRUE] ELSE Gone(c)) \in Objects
      BY GoneType DEF TypeOK, Objects
    <3> QED
      BY <2>14, <3>1, UserPutsType DEF UserDeletes, TypeOK
  <2>15. ASSUME NEW c \in CRs, GrantChanges(c) PROVE TypeOK'
    BY <2>15 DEF GrantChanges, Edit, TypeOK, apiVars, passVars
  <2>16. ASSUME NEW c \in CRs, NEW n \in Names, UserRenames(c, n) PROVE TypeOK'
    <3>1. [obj[c] EXCEPT !.name = n] \in Objects
      BY DEF TypeOK, Objects
    <3>2. clock' \in 0 .. MaxClock /\ unseen' \in SUBSET CRs
      BY <2>16 DEF UserRenames, TypeOK
    <3> QED
      BY <2>16, <3>1, <3>2, UserPutsType DEF UserRenames
  <2>17. ASSUME NEW c \in CRs, NEW n \in Names, NEW r \in RetainChoices, UserCreates(c, n, r)
         PROVE  TypeOK'
    <3>1. clock' \in 0 .. MaxClock
      BY <2>17 DEF UserCreates, TypeOK
    <3>2. [Gone(c) EXCEPT !.exists = TRUE, !.birth = clock', !.name = n, !.retain = r]
             \in Objects
      BY <3>1, GoneType, ChoicesAssumption DEF Objects
    <3> QED
      BY <2>17, <3>1, <3>2, UserPutsType DEF UserCreates, TypeOK
  <2>18. ASSUME NEW n \in Names, UserLost(n) PROVE TypeOK'
    BY <2>18 DEF UserLost, Fault, TypeOK, apiVars, passVars, envVars
  <2>19. CASE ClusterChanges
    BY <2>19 DEF ClusterChanges, Edit, TypeOK, apiVars, passVars
  <2>20. CASE UNCHANGED vars
    BY <2>20 DEF vars, apiVars, passVars, envVars, TypeOK
  <2> QED
    BY <2>1, <2>2, <2>3, <2>4, <2>5, <2>6, <2>7, <2>8, <2>9, <2>10, <2>11, <2>12, <2>13,
       <2>14, <2>15, <2>16, <2>17, <2>18, <2>19, <2>20 DEF Next, PassStep
<1> QED
  BY <1>1, <1>2, PTL DEF Spec
-----------------------------------------------------------------------------
(* c is live and carries a name in its status.                             *)
Provisioned(c) == obj[c].exists /\ ~obj[c].deleting /\ obj[c].status # NoName

(* Why a stale list of claimants is good enough. A CR is provisioned only  *)
(* by a pass whose copy was current, so the cache has known its claim ever *)
(* since, or a rename is still on its way to the cache (Visible); a pass   *)
(* that still holds the latest version holds what the cache holds          *)
(* (Current); a pass that saw its CR terminating is not about a            *)
(* provisioned one (Dying); and from the list of claimants to the          *)
(* DeleteUser call no other CR becomes provisioned under the name, except  *)
(* by such a rename (Unclaimed).                                           *)
Visible(c) ==
    Provisioned(c) =>
        /\ cached[c].exists /\ ~cached[c].deleting
        /\ c \notin unseen => cached[c].name = obj[c].name

Current == pc # "idle" /\ ~stale => snap = obj[cur] /\ cached[cur] = snap
Dying   == pc # "idle" /\ snap.deleting => ~Provisioned(cur)
Route   == /\ pc # "idle" => snap.exists
           /\ pc \in {"addFinalizer", "upsert", "writeReady"} => ~snap.deleting
           /\ pc \in {"handleDeletion", "deleteUser", "removeFinalizer"} => snap.deleting
Unclaimed ==
    pc = "deleteUser" => \A c \in CRs \ {cur} : Owns(c, snap.name) => c \in unseen

HandoverInv ==
    /\ CacheCorrect /\ (\A c \in CRs : Visible(c))
    /\ Current /\ Dying /\ Route /\ Unclaimed

(* The user's writes provision nothing: they leave provisioned CRs as they *)
(* are, delete them or rename them.                                        *)
LEMMA UserPutsKeeps ==
    ASSUME TypeOK, HandoverInv, NEW c \in CRs, NEW o \in Objects, UserPuts(c, o),
           unseen \subseteq unseen',
           o.exists /\ ~o.deleting /\ o.status # NoName =>
               Provisioned(c) /\ c \in unseen'
    PROVE  HandoverInv'
<1>1. Put(c, o) /\ UNCHANGED <<pc, cur, snap>>
  BY DEF UserPuts
<1>2. /\ obj'[c] = o /\ CacheCorrect' /\ cached'[c] \in {cached[c], o}
      /\ \A d \in CRs \ {c} : obj'[d] = obj[d] /\ cached'[d] = cached[d]
  BY <1>1, PutFacts DEF HandoverInv
<1>3. Provisioned(c)' => Provisioned(c) /\ c \in unseen'
  BY <1>2 DEF Provisioned
<1>4. \A d \in CRs : Visible(d)'
  <2>1. Visible(c)'
    BY <1>2, <1>3 DEF HandoverInv, Visible, Provisioned
  <2>2. \A d \in CRs \ {c} : Visible(d)'
    BY <1>2 DEF HandoverInv, Visible, Provisioned
  <2> QED
    BY <2>1, <2>2
<1>5. Current'
  <2> SUFFICES ASSUME pc # "idle", ~stale' PROVE snap = obj'[cur] /\ cached'[cur] = snap
    BY <1>1 DEF Current
  <2>1. ~stale /\ cur # c
    BY DEF UserPuts
  <2> QED
    BY <1>2, <2>1 DEF HandoverInv, Current, TypeOK
<1>6. Dying'
  BY <1>1, <1>2, <1>3 DEF HandoverInv, Dying, Provisioned, TypeOK
<1>7. Route'
  BY <1>1 DEF HandoverInv, Route
<1>8. Unclaimed'
  <2> SUFFICES ASSUME pc = "deleteUser", NEW d \in CRs \ {cur} PROVE Owns(d, snap.name)' => d \in unseen'
    BY <1>1 DEF Unclaimed
  <2>1. CASE d = c
    <3>1. snap.name # NoName
      BY NamesAssumption DEF TypeOK, Objects, NoName
    <3> QED
      BY <1>1, <1>3, <2>1, <3>1 DEF Owns, Provisioned
  <2>2. CASE d # c
    BY <1>1, <1>2, <2>2 DEF HandoverInv, Unclaimed, Owns
  <2> QED
    BY <2>1, <2>2
<1> QED
  BY <1>2, <1>4, <1>5, <1>6, <1>7, <1>8 DEF HandoverInv

(* The pass's writes end it; they provision at most the CR of the pass,    *)
(* and only under the version the cache holds too.                         *)
LEMMA WriteAndEndKeeps ==
    ASSUME TypeOK, HandoverInv, pc # "idle", NEW o \in Objects, WriteAndEnd(o),
           o.exists /\ ~o.deleting /\ o.status # NoName =>
               snap.exists /\ ~snap.deleting /\ snap.name = o.name,
           UNCHANGED unseen
    PROVE  HandoverInv'
<1>1. pc' = "idle" /\ cur \in CRs
  BY DEF WriteAndEnd, EndPass, TypeOK
<1>2. CASE stale
  BY <1>1, <1>2 DEF WriteAndEnd, apiVars, HandoverInv, CacheCorrect, Visible, Provisioned,
                    Current, Dying, Route, Unclaimed
<1>3. CASE ~stale
  <2>1. /\ obj'[cur] = o /\ CacheCorrect' /\ cached'[cur] \in {cached[cur], o}
        /\ \A d \in CRs \ {cur} : obj'[d] = obj[d] /\ cached'[d] = cached[d]
    BY <1>1, <1>3, PutFacts DEF WriteAndEnd, HandoverInv
  <2>2. cached[cur] = snap
    BY <1>3 DEF HandoverInv, Current
  <2>3. Visible(cur)'
    BY <1>1, <2>1, <2>2, WriteAndEndType DEF Visible, Provisioned, WriteAndEnd, EndPass
  <2>4. \A d \in CRs \ {cur} : Visible(d)'
    BY <2>1 DEF HandoverInv, Visible, Provisioned
  <2> QED
    BY <1>1, <2>1, <2>3, <2>4 DEF HandoverInv, Current, Dying, Route, Unclaimed,
       WriteAndEnd, EndPass
<1> QED
  BY <1>2, <1>3

(* Steps that only move the pass on.                                       *)
LEMMA GoToKeeps ==
    ASSUME TypeOK, HandoverInv, NEW p, GoTo(p), pc # "idle", UNCHANGED <<apiVars, unseen>>,
           Route', Unclaimed'
    PROVE  HandoverInv'
BY DEF HandoverInv, GoTo, apiVars, CacheCorrect, Visible, Provisioned, Current, Dying

(* Every step keeps HandoverInv.                                           *)
LEMMA HandoverInv_Inductive ==
    ASSUME TypeOK, HandoverInv, [Next]_vars
    PROVE  HandoverInv'
<1>0. ASSUME pc = "check" \/ pc = "upsert" \/ pc = "deleteUser",
             NEW ph \in Phases, WriteStatus(ph), UNCHANGED unseen
      PROVE  HandoverInv'
  <2> DEFINE o == [snap EXCEPT !.phase = ph]
  <2>1. o \in Objects /\ o.exists = snap.exists /\ o.deleting = snap.deleting
        /\ o.name = snap.name
    BY WriteTypes DEF TypeOK, Objects
  <2>2. WriteAndEnd(o) /\ pc # "idle" /\ UNCHANGED unseen
    BY <1>0 DEF WriteStatus
  <2> HIDE DEF o
  <2> QED
    BY <2>1, <2>2, WriteAndEndKeeps
<1>1. CASE Refuse
  <2>1. Refusal \in Phases
    BY DEF Refusal, Phases
  <2> QED
    BY <1>0, <1>1, <2>1 DEF Refuse, envVars
<1>2. CASE Proceed
  <2>1. /\ pc' \in {"handleDeletion", "addFinalizer", "upsert"} /\ GoTo(pc')
        /\ pc' \in {"addFinalizer", "upsert"} => ~snap.deleting
        /\ pc' = "handleDeletion" => snap.deleting
    BY <1>2 DEF Proceed, GoTo, TypeOK, Objects
  <2>2. Route' /\ Unclaimed' /\ pc # "idle"
    BY <1>2, <2>1 DEF Proceed, GoTo, HandoverInv, Route, Unclaimed
  <2> QED
    BY <1>2, <2>1, <2>2, GoToKeeps DEF Proceed, envVars
<1>3. CASE AddFinalizer
  <2> DEFINE o == [snap EXCEPT !.fin = TRUE]
  <2>1. o \in Objects /\ o.exists = snap.exists /\ o.deleting = snap.deleting
        /\ o.name = snap.name
    BY WriteTypes DEF TypeOK, Objects, Phases
  <2>2. WriteAndEnd(o) /\ pc # "idle" /\ UNCHANGED unseen
    BY <1>3 DEF AddFinalizer, envVars
  <2> HIDE DEF o
  <2> QED
    BY <2>1, <2>2, WriteAndEndKeeps
<1>4. CASE Upsert
  <2>1. Route' /\ Unclaimed' /\ pc # "idle" /\ GoTo("writeReady")
        /\ UNCHANGED <<apiVars, unseen>>
    BY <1>4 DEF Upsert, envVars, GoTo, HandoverInv, Route, Unclaimed
  <2> QED
    BY <2>1, GoToKeeps
<1>5. CASE WriteReady
  <2> DEFINE o == [snap EXCEPT !.status = snap.name, !.phase = "Ready"]
  <2>1. o \in Objects /\ o.exists = snap.exists /\ o.deleting = snap.deleting
        /\ o.name = snap.name
    BY WriteTypes DEF TypeOK, Objects, Phases
  <2>2. WriteAndEnd(o) /\ pc # "idle" /\ UNCHANGED unseen
    BY <1>5 DEF WriteReady, envVars
  <2> HIDE DEF o
  <2> QED
    BY <2>1, <2>2, WriteAndEndKeeps
<1>6. CASE HandleDeletion
  <2>1. CASE ~snap.fin
    BY <1>6, <2>1 DEF HandleDeletion, EndPass, apiVars, envVars, HandoverInv, CacheCorrect, Visible,
                      Provisioned, Current, Dying, Route, Unclaimed
  <2>2. CASE snap.fin
    <3>1. /\ pc = "handleDeletion" /\ GoTo(pc') /\ UNCHANGED <<apiVars, unseen>>
          /\ pc' \in {"removeFinalizer", "deleteUser"}
          /\ pc' = "deleteUser" => Claimants(cached, cur, snap.name) = {}
      BY <1>6, <2>2 DEF HandleDeletion, GoTo, envVars
    <3>2. ASSUME Claimants(cached, cur, snap.name) = {}, NEW c \in CRs \ {cur},
                 Owns(c, snap.name), c \notin unseen
          PROVE  FALSE
      <4>1. snap.name # NoName
        BY NamesAssumption DEF TypeOK, Objects, NoName
      <4>2. cached[c].exists /\ ~cached[c].deleting /\ cached[c].name = snap.name
        BY <3>2, <4>1 DEF HandoverInv, Visible, Provisioned, Owns
      <4>3. c \in Claimants(cached, cur, snap.name)
        BY <4>2 DEF Claimants
      <4> QED
        BY <3>2, <4>3
    <3>3. Unclaimed'
      BY <3>1, <3>2 DEF Unclaimed, GoTo, Owns, apiVars
    <3>4. Route'
      BY <3>1 DEF GoTo, HandoverInv, Route
    <3> QED
      BY <3>1, <3>3, <3>4, GoToKeeps
  <2> QED
    BY <2>1, <2>2
<1>7. CASE DeleteUser
  <2>1. Route' /\ Unclaimed' /\ pc # "idle" /\ GoTo("removeFinalizer")
        /\ UNCHANGED <<apiVars, unseen>>
    BY <1>7 DEF DeleteUser, envVars, GoTo, HandoverInv, Route, Unclaimed
  <2> QED
    BY <2>1, GoToKeeps
<1>8. CASE RemoveFinalizer
  <2>1. Gone(cur) \in Objects /\ Gone(cur).exists = FALSE
    BY GoneType DEF Gone, TypeOK
  <2>2. WriteAndEnd(Gone(cur)) /\ pc # "idle" /\ UNCHANGED unseen
    BY <1>8 DEF RemoveFinalizer, envVars
  <2> QED
    BY <2>1, <2>2, WriteAndEndKeeps
<1>9. CASE UpsertFails
  BY <1>0, <1>9 DEF UpsertFails, Phases, envVars
<1>10. CASE DeleteUserFails
  BY <1>0, <1>10 DEF DeleteUserFails, Phases, envVars
<1>11. CASE PassAborts
  BY <1>11 DEF PassAborts, EndPass, apiVars, envVars, HandoverInv, CacheCorrect, Visible,
               Provisioned, Current, Dying, Route, Unclaimed
<1>12. CASE CacheSync
  <2>1. cached' = obj /\ UNCHANGED <<obj, pc, cur, snap, stale, unseen>>
    BY <1>12 DEF CacheSync, passVars, envVars
  <2>2. CacheCorrect' /\ Route' /\ Dying' /\ Unclaimed'
    BY <2>1 DEF CacheCorrect, HandoverInv, Route, Dying, Provisioned, Unclaimed, Owns
  <2>3. \A c \in CRs : Visible(c)'
    BY <2>1 DEF Visible, Provisioned
  <2>4. Current'
    BY <2>1 DEF HandoverInv, Current
  <2> QED
    BY <2>2, <2>3, <2>4 DEF HandoverInv
<1>13. ASSUME NEW c \in CRs, Load(c) PROVE HandoverInv'
  <2>1. /\ pc' = "check" /\ cur' = c /\ snap' = cached[c] /\ stale' = (c \in lag)
        /\ UNCHANGED <<obj, cached, lag>> /\ cached[c].exists /\ unseen' = unseen \cap lag
    BY <1>13 DEF Load, apiVars
  <2>2. CacheCorrect' /\ (\A d \in CRs : Visible(d)') /\ Route' /\ Unclaimed'
    BY <2>1 DEF HandoverInv, CacheCorrect, Visible, Provisioned, Route, Unclaimed
  <2>3. Current'
    BY <2>1 DEF HandoverInv, CacheCorrect, Current
  <2>4. Dying'
    BY <2>1 DEF HandoverInv, Visible, Provisioned, Dying
  <2> QED
    BY <2>2, <2>3, <2>4 DEF HandoverInv
<1>14. ASSUME NEW c \in CRs, UserDeletes(c) PROVE HandoverInv'
  <2> DEFINE o == IF obj[c].fin THEN [obj[c] EXCEPT !.deleting = TRUE] ELSE Gone(c)
  <2>1. o \in Objects /\ ~(o.exists /\ ~o.deleting)
    BY GoneType DEF TypeOK, Objects, Gone
  <2>2. UserPuts(c, o) /\ UNCHANGED unseen
    BY <1>14 DEF UserDeletes
  <2> HIDE DEF o
  <2> QED
    BY <2>1, <2>2, UserPutsKeeps
<1>15. ASSUME NEW c \in CRs, NEW n \in Names, UserRenames(c, n) PROVE HandoverInv'
  <2> DEFINE o == [obj[c] EXCEPT !.name = n]
  <2>1. /\ o \in Objects /\ o.exists = obj[c].exists /\ o.deleting = obj[c].deleting
        /\ o.status = obj[c].status
    BY DEF TypeOK, Objects
  <2>2. /\ UserPuts(c, o) /\ unseen \subseteq unseen'
        /\ obj[c].status # NoName => c \in unseen'
    BY <1>15 DEF UserRenames
  <2> HIDE DEF o
  <2>3. o.exists /\ ~o.deleting /\ o.status # NoName => Provisioned(c) /\ c \in unseen'
    BY <2>1, <2>2 DEF Provisioned
  <2> QED
    BY <2>1, <2>2, <2>3, UserPutsKeeps
<1>16. ASSUME NEW c \in CRs, NEW n \in Names, NEW r \in RetainChoices, UserCreates(c, n, r)
       PROVE  HandoverInv'
  <2> DEFINE o == [Gone(c) EXCEPT !.exists = TRUE, !.birth = clock', !.name = n,
                                  !.retain = r]
  <2>1. clock' \in 0 .. MaxClock
    BY <1>16, BoundsAssumption DEF UserCreates, TypeOK
  <2>2. o \in Objects /\ o.status = NoName
    BY <2>1, GoneType, ChoicesAssumption DEF Objects, Gone
  <2>3. UserPuts(c, o) /\ UNCHANGED unseen
    BY <1>16 DEF UserCreates
  <2> HIDE DEF o
  <2> QED
    BY <2>2, <2>3, UserPutsKeeps
<1>17. CASE UNCHANGED <<apiVars, passVars, unseen>>
  BY <1>17 DEF apiVars, passVars, HandoverInv, CacheCorrect, Visible, Provisioned, Current,
               Dying, Route, Unclaimed, Owns
<1>18. Next => \/ PassStep \/ UpsertFails \/ DeleteUserFails \/ PassAborts \/ CacheSync
               \/ (\E c \in CRs : Load(c) \/ UserDeletes(c))
               \/ (\E c \in CRs, n \in Names : UserRenames(c, n))
               \/ (\E c \in CRs, n \in Names, r \in RetainChoices : UserCreates(c, n, r))
               \/ UNCHANGED <<apiVars, passVars, unseen>>
  BY DEF Next, GrantChanges, UserLost, ClusterChanges, envVars
<1> QED
  BY <1>1, <1>2, <1>3, <1>4, <1>5, <1>6, <1>7, <1>8, <1>9, <1>10, <1>11, <1>12, <1>13,
     <1>14, <1>15, <1>16, <1>17, <1>18 DEF PassStep, vars, envVars

(* The handover of handleDeletion is safe for any number of CRs, cache     *)
(* lag, crashes and concurrent edits: DeleteUser removes the IAM object of *)
(* a live CR provisioned under that name only when that CR's name was set  *)
(* back to it by a rename the cache did not show when the pass began.      *)
THEOREM HandoverIsSafe == Spec => HandoverSafe
<1>1. Init => HandoverInv
  BY GoneType DEF Init, HandoverInv, CacheCorrect, Visible, Provisioned, Current, Dying,
                  Route, Unclaimed, Gone
<1>2. TypeOK /\ HandoverInv /\ [Next]_vars => HandoverInv'
  BY HandoverInv_Inductive
<1>3. TypeOK /\ HandoverInv /\ [Next]_vars =>
        [\A n \in Names :
            user[n] # NoUser /\ user'[n] = NoUser /\ faults' = faults
                => \A c \in CRs : Owns(c, n) => c \in unseen]_vars
  <2> SUFFICES ASSUME TypeOK, HandoverInv, Next, NEW n \in Names, user[n] # NoUser,
                      user'[n] = NoUser, faults' = faults, NEW c \in CRs, Owns(c, n)
               PROVE  c \in unseen
    OBVIOUS
  <2>1. DeleteUser
    <3>1. ~Upsert
      BY CRsAssumption DEF Upsert, TypeOK, NoUser, Objects
    <3>2. \A m \in Names : ~UserLost(m)
      BY DEF UserLost, Fault, TypeOK
    <3>3. DeleteUser \/ user' = user
      BY <3>1, <3>2 DEF Next, PassStep, Refuse, Proceed, AddFinalizer, WriteReady,
         HandleDeletion, RemoveFinalizer, UpsertFails, DeleteUserFails, PassAborts,
         CacheSync, Load, UserDeletes, GrantChanges, UserRenames, UserCreates, UserPuts,
         ClusterChanges
    <3> QED
      BY <3>3
  <2>2. pc = "deleteUser" /\ n = snap.name
    BY <2>1 DEF DeleteUser, TypeOK, Objects
  <2>3. n # NoName
    BY NamesAssumption DEF NoName
  <2>4. CASE c # cur
    BY <2>2, <2>4 DEF HandoverInv, Unclaimed
  <2>5. c # cur
    BY <2>2, <2>3 DEF HandoverInv, Dying, Route, Provisioned, Owns
  <2> QED
    BY <2>4, <2>5
<1> QED
  BY <1>1, <1>2, <1>3, IamTypeCorrect, PTL DEF Spec, HandoverSafe
=============================================================================
