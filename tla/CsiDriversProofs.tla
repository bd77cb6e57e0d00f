--------------------------- MODULE CsiDriversProofs ---------------------------
(***************************************************************************)
(* Proofs about CsiDrivers, for any number of CRs with the same or their   *)
(* own names and driver names, and any number of edits and faults.         *)
(***************************************************************************)
EXTENDS CsiDrivers, TLAPS

Ensuring == {"rbac", "object", "controller", "node", "mount", "class", "status"}
TearingDown == {"unbind", "unregister", "unclass", "finalize"}

(* A pass that has gone past its deletion of the RBAC objects, and of the  *)
(* CSIDriver object.                                                       *)
Unbound(d) == pass.d = d /\ pass.pc \in {"unregister", "unclass", "finalize"}
Unregistered(d) == pass.d = d /\ pass.pc \in {"unclass", "finalize"}

(* A CR whose finalizer will delete the cluster-scoped objects.            *)
Answers(d) == cr[d].exists /\ cr[d].fin

(* A pass has put the finalizer in place before it touches anything; only  *)
(* deleted CRs are torn down; workloads have a CR, and a pass that deploys *)
(* them has made them its own.                                             *)
FinInv ==
    /\ pass.pc # "idle" => cr[pass.d].fin
    /\ pass.pc \in TearingDown => cr[pass.d].deleting
    /\ pass.pc \in Ensuring \ {"rbac"} => work[pass.d].owner = "cr"
    /\ \A d \in Drivers : work[d].owner = "cr" => cr[d].exists

(* RBAC objects have a CR that will remove them.                           *)
RbacInv ==
    \A n \in Drivers : rbac[n] # None =>
        \E d \in Drivers : NameOf(d) = n /\ Answers(d) /\ ~Unbound(d)

(* Without ties a CR that has got its turn keeps it: the CR of a pass, the *)
(* one that has workloads, and one that will remove the CSIDriver object.  *)
TurnInv ==
    tied = {} =>
        /\ pass.pc \in Ensuring => ~driverNameConflict(pass.d)
        /\ \A d \in Drivers : work[d].owner = "cr" => ~driverNameConflict(d)
        /\ \A n \in Drivers : object[n] # NoObject =>
             \E d \in Drivers :
                 DriverNameOf(d) = n /\ Answers(d) /\ ~driverNameConflict(d) /\ ~Unregistered(d)

(* With ties it keeps it against all but the CRs that were tied with it.   *)
Overtaken(d) ==
    \E other \in Drivers \ {d} :
        /\ cr[other].exists /\ ~cr[other].deleting
        /\ DriverNameOf(other) = DriverNameOf(d)
        /\ <<other, d>> \in older /\ <<other, d>> \notin tied

PairInv ==
    /\ pass.pc \in Ensuring => ~Overtaken(pass.d)
    /\ \A d \in Drivers : work[d].owner = "cr" => ~Overtaken(d)

CsiInv == FinInv /\ RbacInv /\ TurnInv /\ PairInv
-----------------------------------------------------------------------------
(* The part of the type invariant that is about the CRs.                   *)
CrPart ==
    /\ cr \in [Drivers -> CrType]
    /\ \A d \in Drivers : cr[d].deleting => cr[d].fin
    /\ older \subseteq Drivers \X Drivers
    /\ \A p \in older : cr[p[1]].exists /\ cr[p[2]].exists /\ <<p[2], p[1]>> \notin older
    /\ \A d, e \in Drivers :
         cr[d].exists /\ cr[e].exists /\ d # e => <<d, e>> \in older \/ <<e, d>> \in older
    /\ recent \subseteq {d \in Drivers : cr[d].exists /\ ~cr[d].deleting}
    /\ tied \subseteq Drivers \X Drivers

LEMMA NameTypes ==
    /\ \A d \in Drivers : NameOf(d) \in Drivers /\ DriverNameOf(d) \in Drivers
    /\ \A d \in Drivers : \A o : storageClassName(d, o) \in ClassNames
    /\ Drivers \subseteq Nat /\ None \notin Drivers /\ Drivers \cup {None} \subseteq 0 .. Admin
    /\ 1 \in Drivers /\ NoCr \in CrType /\ NewCr \in CrType
    /\ NoObject \in [inst : Drivers \cup {None}, attach : BOOLEAN]
    /\ NoClass \in [inst : 0 .. Admin, prov : 0 .. Admin, params : BOOLEAN]
    /\ NoWork \in WorkType /\ IdlePass \in PassType
<1>1. /\ Drivers \subseteq Nat /\ None \notin Drivers /\ Drivers \cup {None} \subseteq 0 .. Admin
      /\ 1 \in Drivers
  BY BoundsAssumption DEF Drivers, None, Admin
<1>2. \A d \in Drivers : NameOf(d) \in Drivers /\ DriverNameOf(d) \in Drivers
  BY <1>1 DEF NameOf, DriverNameOf
<1>3. \A d \in Drivers : \A o : storageClassName(d, o) \in ClassNames
  BY <1>2 DEF storageClassName, ClassNames
<1>4. NoCr \in CrType /\ NewCr \in CrType
  BY DEF NoCr, NewCr, CrType
<1>5. NoObject \in [inst : Drivers \cup {None}, attach : BOOLEAN]
  BY DEF NoObject
<1>6. NoClass \in [inst : 0 .. Admin, prov : 0 .. Admin, params : BOOLEAN]
  BY <1>1 DEF NoClass
<1>7. NoWork \in WorkType /\ IdlePass \in PassType
  BY <1>4 DEF NoWork, WorkType, IdlePass, PassType
<1> QED
  BY <1>1, <1>2, <1>3, <1>4, <1>5, <1>6, <1>7

(***************************************************************************)
(* What can happen to the CRs, and to the turns they have.                 *)
(***************************************************************************)

(* Writes of status, finalizer and spec leave the turns as they are.       *)
LEMMA KeptCRs ==
    ASSUME CrPart, cr' \in [Drivers -> CrType], older' = older, recent' \subseteq recent, tied' = tied,
           \A d \in Drivers :
               /\ cr'[d].exists = cr[d].exists /\ cr'[d].deleting = cr[d].deleting
               /\ cr[d].fin => cr'[d].fin
    PROVE  /\ CrPart'
           /\ \A d \in Drivers : driverNameConflict(d)' = driverNameConflict(d)
           /\ \A d \in Drivers : Overtaken(d)' => Overtaken(d)
           /\ \A d \in Drivers : Answers(d) => Answers(d)'
<1>1. CrPart'
  BY DEF CrPart
<1>4. \A d \in Drivers : Overtaken(d)' => Overtaken(d)
  BY DEF Overtaken
<1>2. \A d \in Drivers : driverNameConflict(d)' = driverNameConflict(d)
  BY DEF driverNameConflict, othersTurn
<1>3. \A d \in Drivers : Answers(d) => Answers(d)'
  BY DEF Answers
<1> QED
  BY <1>1, <1>2, <1>3, <1>4

(* A CR with the finalizer is marked as deleted: others may get its turn.  *)
LEMMA DeletingCR ==
    ASSUME CrPart, NEW c \in Drivers, cr[c].fin, cr' = [cr EXCEPT ![c].deleting = TRUE],
           older' = older, recent' = {}, tied' = tied
    PROVE  /\ CrPart'
           /\ \A d \in Drivers : driverNameConflict(d)' => driverNameConflict(d)
           /\ \A d \in Drivers : Overtaken(d)' => Overtaken(d)
           /\ \A d \in Drivers : Answers(d) => Answers(d)'
<1>1. cr[c] \in CrType
  BY DEF CrPart
<1>2. /\ [cr[c] EXCEPT !.deleting = TRUE] \in CrType
      /\ cr'[c].exists = cr[c].exists /\ cr'[c].fin = cr[c].fin /\ cr'[c].deleting
      /\ \A d \in Drivers \ {c} : cr'[d] = cr[d]
  BY <1>1 DEF CrType, CrPart
<1>3. cr' \in [Drivers -> CrType]
  BY <1>2 DEF CrPart
<1>4. CrPart'
  BY <1>2, <1>3 DEF CrPart
<1>5. \A d \in Drivers : driverNameConflict(d)' => driverNameConflict(d)
  BY <1>2 DEF driverNameConflict, othersTurn
<1>6. \A d \in Drivers : Answers(d) => Answers(d)'
  BY <1>2 DEF Answers
<1>7. \A d \in Drivers : Overtaken(d)' => Overtaken(d)
  BY <1>2 DEF Overtaken
<1> QED
  BY <1>4, <1>5, <1>6, <1>7

(* A CR goes.                                                              *)
LEMMA GoneCR ==
    ASSUME CrPart, NEW c \in Drivers, Gone(c), recent' \subseteq recent \ {c}, tied' = tied
    PROVE  /\ CrPart' /\ ~cr'[c].exists
           /\ \A d \in Drivers : driverNameConflict(d)' => driverNameConflict(d)
           /\ \A d \in Drivers : Overtaken(d)' => Overtaken(d)
           /\ \A d \in Drivers \ {c} : cr'[d] = cr[d] /\ (Answers(d) => Answers(d)')
<1>1. cr'[c] = NoCr /\ \A d \in Drivers \ {c} : cr'[d] = cr[d]
  BY DEF CrPart, Gone
<1>2. ~NoCr.exists /\ ~NoCr.deleting
  BY DEF NoCr
<1>3. cr' \in [Drivers -> CrType]
  BY NameTypes DEF CrPart, Gone
<1>4. older' \subseteq older /\ \A p \in older' : p[1] # c /\ p[2] # c
  BY DEF Gone
<1>5. \A d, e \in Drivers \ {c} : <<d, e>> \in older => <<d, e>> \in older'
  BY DEF Gone
<1>6. CrPart'
  <2>1. \A d \in Drivers : cr'[d].deleting => cr'[d].fin
    BY <1>1, <1>2 DEF CrPart
  <2>2. older' \subseteq Drivers \X Drivers
    BY <1>4 DEF CrPart
  <2>3. \A p \in older' : cr'[p[1]].exists /\ cr'[p[2]].exists /\ <<p[2], p[1]>> \notin older'
    <3> SUFFICES ASSUME NEW p \in older'
                 PROVE  cr'[p[1]].exists /\ cr'[p[2]].exists /\ <<p[2], p[1]>> \notin older'
      OBVIOUS
    <3>1. p \in older /\ p[1] # c /\ p[2] # c /\ p[1] \in Drivers /\ p[2] \in Drivers
      BY <1>4 DEF CrPart
    <3> QED
      BY <1>1, <1>4, <3>1 DEF CrPart
  <2>4. \A d, e \in Drivers :
          cr'[d].exists /\ cr'[e].exists /\ d # e => <<d, e>> \in older' \/ <<e, d>> \in older'
    BY <1>1, <1>2, <1>5 DEF CrPart
  <2>5. recent' \subseteq {d \in Drivers : cr'[d].exists /\ ~cr'[d].deleting}
    BY <1>1 DEF CrPart
  <2> QED
    BY <1>3, <2>1, <2>2, <2>3, <2>4, <2>5 DEF CrPart
<1>7. \A d \in Drivers : driverNameConflict(d)' => driverNameConflict(d)
  BY <1>1, <1>2, <1>4 DEF driverNameConflict, othersTurn
<1>8. \A d \in Drivers \ {c} : Answers(d) => Answers(d)'
  BY <1>1 DEF Answers
<1>9. \A d \in Drivers : Overtaken(d)' => Overtaken(d)
  BY <1>1, <1>2, <1>4 DEF Overtaken
<1> QED
  BY <1>1, <1>2, <1>6, <1>7, <1>8, <1>9

(* A CR comes. Without a tie it comes last, and takes nobody's turn.       *)
LEMMA CreatedCR ==
    ASSUME CrPart, NEW c \in Drivers, Create(c)
    PROVE  /\ CrPart' /\ cr'[c] = NewCr /\ tied \subseteq tied'
           /\ \A d \in Drivers \ {c} : Overtaken(d)' => Overtaken(d)
           /\ \A d \in Drivers \ {c} : cr'[d] = cr[d] /\ (Answers(d) => Answers(d)')
           /\ tied' = {} => \A d \in Drivers \ {c} : driverNameConflict(d)' => driverNameConflict(d)
<1>1. cr'[c] = NewCr /\ \A d \in Drivers \ {c} : cr'[d] = cr[d]
  BY DEF CrPart, Create
<1>2. NewCr.exists /\ ~NewCr.deleting
  BY DEF NewCr, NoCr
<1>3. cr' \in [Drivers -> CrType]
  BY NameTypes DEF CrPart, Create
<1>4. PICK S \in SUBSET recent :
         /\ older' = older \cup ({e \in Drivers : cr[e].exists} \ S) \X {c} \cup {c} \X S
         /\ tied' = tied \cup {c} \X S
  BY DEF Create
<1>5. ~cr[c].exists /\ S \subseteq Drivers /\ c \notin S
  BY DEF Create, CrPart
<1>6. \A d, e \in Drivers : <<d, e>> \in older => d # c /\ e # c /\ d # e /\ <<e, d>> \notin older
                             /\ cr[d].exists /\ cr[e].exists
  <2> SUFFICES ASSUME NEW d \in Drivers, NEW e \in Drivers, <<d, e>> \in older
               PROVE  cr[d].exists /\ cr[e].exists /\ <<e, d>> \notin older
    BY <1>5
  <2> QED
    BY DEF CrPart
<1>7. \A d, e \in Drivers : <<d, e>> \in older' <=>
         \/ <<d, e>> \in older
         \/ e = c /\ cr[d].exists /\ d \notin S
         \/ d = c /\ e \in S
  BY <1>4
<1>8. CrPart'
  <2>1. \A d \in Drivers : cr'[d].deleting => cr'[d].fin
    BY <1>1, <1>2 DEF CrPart
  <2>2. older' \subseteq Drivers \X Drivers
    BY <1>4, <1>5 DEF CrPart
  <2>3. ASSUME NEW p \in older'
        PROVE  cr'[p[1]].exists /\ cr'[p[2]].exists /\ <<p[2], p[1]>> \notin older'
    <3>1. PICK d \in Drivers, e \in Drivers : p = <<d, e>>
      BY <2>2
    <3>2. \A s \in S : cr[s].exists /\ s # c
      BY <1>5 DEF CrPart
    <3>3. cr'[d].exists /\ cr'[e].exists /\ <<e, d>> \notin older'
      BY <1>1, <1>2, <1>5, <1>6, <1>7, <3>1, <3>2
    <3> QED
      BY <3>1, <3>3
  <2>4. \A d, e \in Drivers :
          cr'[d].exists /\ cr'[e].exists /\ d # e => <<d, e>> \in older' \/ <<e, d>> \in older'
    BY <1>1, <1>7 DEF CrPart
  <2>5. recent' \subseteq {d \in Drivers : cr'[d].exists /\ ~cr'[d].deleting}
    BY <1>1, <1>2 DEF CrPart, Create
  <2>6. tied' \subseteq Drivers \X Drivers
    BY <1>4, <1>5 DEF CrPart
  <2> QED
    BY <1>3, <2>1, <2>2, <2>3, <2>4, <2>5, <2>6 DEF CrPart
<1>9. \A d \in Drivers \ {c} : Answers(d) => Answers(d)'
  BY <1>1 DEF Answers
<1>10. tied \subseteq tied' /\ \A e \in S : <<c, e>> \in tied'
  BY <1>4
<1>12. \A d \in Drivers \ {c} : Overtaken(d)' => Overtaken(d)
  <2> SUFFICES ASSUME NEW d \in Drivers \ {c}, NEW other \in Drivers \ {d},
                      cr'[other].exists, ~cr'[other].deleting, DriverNameOf(other) = DriverNameOf(d),
                      <<other, d>> \in older', <<other, d>> \notin tied'
               PROVE  Overtaken(d)
    BY DEF Overtaken, DriverNameOf
  <2>1. <<other, d>> \in older /\ other # c /\ <<other, d>> \notin tied
    BY <1>6, <1>7, <1>10
  <2> QED
    BY <1>1, <2>1 DEF Overtaken
<1>11. ASSUME tied' = {}, NEW d \in Drivers \ {c}, driverNameConflict(d)' PROVE driverNameConflict(d)
  <2>1. S = {}
    BY <1>10, <1>11
  <2>2. PICK other \in Drivers \ {d} :
           /\ cr'[other].exists /\ ~cr'[other].deleting
           /\ DriverNameOf(other) = DriverNameOf(d) /\ <<other, d>> \in older'
    BY <1>11 DEF driverNameConflict, othersTurn, DriverNameOf
  <2>3. <<other, d>> \in older /\ other # c
    BY <1>6, <1>7, <2>1, <2>2
  <2> QED
    BY <1>1, <2>2, <2>3 DEF driverNameConflict, othersTurn
<1> QED
  BY <1>1, <1>8, <1>9, <1>10, <1>11, <1>12
-----------------------------------------------------------------------------
(***************************************************************************)
(* The rest of the type invariant, and steps that leave most things alone. *)
(***************************************************************************)
WorkOK == work \in [Drivers -> WorkType] /\ \A d \in Drivers : WorkDone(work[d])
ClusterOK ==
    /\ rbac \in [Drivers -> Drivers \cup {None}]
    /\ object \in [Drivers -> [inst : Drivers \cup {None}, attach : BOOLEAN]]
    /\ class \in [ClassNames -> [inst : 0 .. Admin, prov : 0 .. Admin, params : BOOLEAN]]
PassOK == pass \in PassType /\ (pass.pc # "idle" => pass.d \in Drivers /\ cr[pass.d].exists)
CountOK == reach \in BOOLEAN /\ edits \in 0 .. MaxEdits /\ faults \in 0 .. MaxFaults

LEMMA TypeParts == TypeOK <=> CrPart /\ WorkOK /\ ClusterOK /\ PassOK /\ CountOK
BY DEF TypeOK, CrPart, WorkOK, ClusterOK, PassOK, CountOK

LEMMA TypePartsNext == CrPart' /\ WorkOK' /\ ClusterOK' /\ PassOK' /\ CountOK' => TypeOK'
BY DEF TypeOK, CrPart, WorkOK, ClusterOK, PassOK, CountOK

(* The CRs stay what they are, but for their status, spec and finalizer.   *)
SameCRs ==
    /\ cr' \in [Drivers -> CrType] /\ older' = older /\ recent' \subseteq recent /\ tied' = tied
    /\ \A d \in Drivers :
         /\ cr'[d].exists = cr[d].exists /\ cr'[d].deleting = cr[d].deleting
         /\ cr[d].fin => cr'[d].fin

LEMMA UnchangedCRs == CrPart /\ UNCHANGED crVars => SameCRs
BY DEF CrPart, crVars, SameCRs

PhaseNames == {"none", "Pending", "Ready", "Degraded", "Failed"}

LEMMA WrittenPhase ==
    ASSUME CrPart, NEW d \in Drivers, NEW ph \in PhaseNames, UNCHANGED <<older, recent, tied>>,
           cr' = cr \/ cr' = [cr EXCEPT ![d].phase = ph]
    PROVE  SameCRs
<1>1. CASE cr' = cr
  BY <1>1 DEF SameCRs, CrPart
<1>2. CASE cr' = [cr EXCEPT ![d].phase = ph]
  <2>1. cr[d] \in CrType
    BY DEF CrPart
  <2>2. [cr[d] EXCEPT !.phase = ph] \in CrType
    BY <2>1 DEF CrType, PhaseNames
  <2>3. /\ cr'[d].exists = cr[d].exists /\ cr'[d].deleting = cr[d].deleting /\ cr'[d].fin = cr[d].fin
        /\ \A e \in Drivers \ {d} : cr'[e] = cr[e]
    BY <1>2, <2>1 DEF CrType, CrPart
  <2>4. cr' \in [Drivers -> CrType]
    BY <1>2, <2>2 DEF CrPart
  <2> QED
    BY <2>3, <2>4 DEF SameCRs
<1> QED
  BY <1>1, <1>2

LEMMA WrittenFinalizer ==
    ASSUME CrPart, NEW d \in Drivers, UNCHANGED <<older, recent, tied>>,
           cr' = [cr EXCEPT ![d].fin = TRUE]
    PROVE  SameCRs
<1>1. cr[d] \in CrType
  BY DEF CrPart
<1>2. [cr[d] EXCEPT !.fin = TRUE] \in CrType
  BY <1>1 DEF CrType
<1>3. /\ cr'[d].exists = cr[d].exists /\ cr'[d].deleting = cr[d].deleting /\ cr'[d].fin
      /\ \A e \in Drivers \ {d} : cr'[e] = cr[e]
  BY <1>1 DEF CrType, CrPart
<1>4. cr' \in [Drivers -> CrType]
  BY <1>2 DEF CrPart
<1> QED
  BY <1>3, <1>4 DEF SameCRs

LEMMA ChangedSpec ==
    ASSUME CrPart, NEW d \in Drivers, Change(d)
    PROVE  SameCRs
<1>1. cr[d] \in CrType
  BY DEF CrPart
<1>2. PICK o : /\ cr' = [cr EXCEPT ![d] = o]
               /\ \/ o = [cr[d] EXCEPT !.class = "none"]
                  \/ o = [cr[d] EXCEPT !.class = "named"]
                  \/ o = [cr[d] EXCEPT !.params = ~cr[d].params]
                  \/ o = [cr[d] EXCEPT !.attach = ~cr[d].attach]
                  \/ o = [cr[d] EXCEPT !.mount = ~cr[d].mount]
                  \/ o = [cr[d] EXCEPT !.ref = ~cr[d].ref]
  BY Zenon DEF Change
<1>3. o \in CrType /\ o.exists = cr[d].exists /\ o.deleting = cr[d].deleting /\ o.fin = cr[d].fin
  <2>1. PICK b \in BOOLEAN : b = ~cr[d].attach
    OBVIOUS
  <2>2. PICK c \in BOOLEAN : c = ~cr[d].mount
    OBVIOUS
  <2>3. PICK e \in BOOLEAN : e = ~cr[d].ref
    OBVIOUS
  <2>5. PICK f \in BOOLEAN : f = ~cr[d].params
    OBVIOUS
  <2>4. \/ o = [cr[d] EXCEPT !.class = "none"]
        \/ o = [cr[d] EXCEPT !.class = "named"]
        \/ o = [cr[d] EXCEPT !.attach = b]
        \/ o = [cr[d] EXCEPT !.mount = c]
        \/ o = [cr[d] EXCEPT !.ref = e]
        \/ o = [cr[d] EXCEPT !.params = f]
    BY <1>2, <2>1, <2>2, <2>3, <2>5, Zenon
  <2> QED
    BY <1>1, <2>4 DEF CrType
<1>4. cr'[d] = o /\ \A e \in Drivers \ {d} : cr'[e] = cr[e]
  BY <1>2 DEF CrPart
<1>5. cr' \in [Drivers -> CrType]
  BY <1>2, <1>3 DEF CrPart
<1>6. older' = older /\ recent' = {} /\ tied' = tied
  BY DEF Change, Later
<1> QED
  BY <1>3, <1>4, <1>5, <1>6 DEF SameCRs

(* The pass goes on with the same CR.                                      *)
LEMMA PassGoesOn ==
    ASSUME PassOK, NEW pc, GoesTo(pc), pass.pc # "idle",
           pc \in Ensuring \cup TearingDown, \A d \in Drivers : cr'[d].exists = cr[d].exists
    PROVE  PassOK' /\ pass'.pc = pc /\ pass'.d = pass.d /\ pass.d \in Drivers
BY DEF PassOK, GoesTo, PassType, Ensuring, TearingDown

LEMMA PassEnds == Ends => PassOK' /\ pass'.pc = "idle" /\ pass'.d = None
BY NameTypes DEF Ends, PassOK, IdlePass

(* A pass that ends with a phase to report.                                *)
LEMMA EndsWithPhase ==
    ASSUME TypeOK, NEW ph \in PhaseNames, pass.pc # "idle", EndsWith(ph), UNCHANGED <<older, recent, tied>>
    PROVE  SameCRs /\ PassOK' /\ pass'.pc = "idle" /\ pass'.d = None
<1>1. CrPart /\ pass.d \in Drivers
  BY TypeParts DEF PassOK
<1>2. cr' = cr \/ cr' = [cr EXCEPT ![pass.d].phase = ph]
  BY DEF EndsWith
<1>3. SameCRs
  BY <1>1, <1>2, WrittenPhase
<1> QED
  BY <1>3, PassEnds DEF EndsWith

(* RBAC objects that are not touched.                                      *)
LEMMA RbacFrame ==
    ASSUME RbacInv, rbac' = rbac,
           \A d \in Drivers : Answers(d) /\ ~Unbound(d) => Answers(d)' /\ ~Unbound(d)'
    PROVE  RbacInv'
BY DEF RbacInv, NameOf

LEMMA PairFrame ==
    ASSUME TypeOK, FinInv, PairInv,
           \A d \in Drivers : cr[d].exists /\ Overtaken(d)' => Overtaken(d),
           \A d \in Drivers : work'[d].owner = "cr" => work[d].owner = "cr",
           pass'.pc \in Ensuring => pass.pc \in Ensuring /\ pass'.d = pass.d
    PROVE  PairInv'
<1>1. ASSUME pass'.pc \in Ensuring PROVE ~Overtaken(pass.d)'
  <2>1. PICK d : d = pass.d
    OBVIOUS
  <2>2. d \in Drivers /\ cr[d].exists /\ ~Overtaken(d) /\ pass'.d = d
    BY <1>1, <2>1 DEF TypeOK, PairInv, Ensuring
  <2>3. ~Overtaken(d)'
    BY <2>2
  <2> QED
    BY <2>2, <2>3 DEF Overtaken
<1>2. \A d \in Drivers : work'[d].owner = "cr" => ~Overtaken(d)'
  BY DEF FinInv, PairInv
<1> QED
  BY <1>1, <1>2 DEF PairInv

(* Turns of CRs that had theirs, and of no other.                          *)
LEMMA TurnFrame ==
    ASSUME TypeOK, FinInv, TurnInv, PairInv, tied \subseteq tied', object' = object,
           \A d \in Drivers : cr[d].exists /\ tied' = {} /\ driverNameConflict(d)' => driverNameConflict(d),
           \A d \in Drivers : cr[d].exists /\ Overtaken(d)' => Overtaken(d),
           \A d \in Drivers : work'[d].owner = "cr" => work[d].owner = "cr",
           pass'.pc \in Ensuring => pass.pc \in Ensuring /\ pass'.d = pass.d,
           \A d \in Drivers : Answers(d) /\ ~Unregistered(d) => Answers(d)' /\ ~Unregistered(d)'
    PROVE  TurnInv' /\ PairInv'
<1>0. PairInv'
  BY PairFrame
<1> SUFFICES ASSUME tied' = {}
             PROVE  /\ pass'.pc \in Ensuring => ~driverNameConflict(pass.d)'
                    /\ \A d \in Drivers : work'[d].owner = "cr" => ~driverNameConflict(d)'
                    /\ \A n \in Drivers : object'[n] # NoObject =>
                         \E d \in Drivers :
                             /\ DriverNameOf(d) = n /\ Answers(d)'
                             /\ ~driverNameConflict(d)' /\ ~Unregistered(d)'
  BY <1>0 DEF TurnInv, DriverNameOf
<1>1. ASSUME pass'.pc \in Ensuring PROVE ~driverNameConflict(pass.d)'
  <2>1. PICK d : d = pass.d
    OBVIOUS
  <2>2. d \in Drivers /\ cr[d].exists /\ ~driverNameConflict(d) /\ pass'.d = d
    BY <1>1, <2>1 DEF TypeOK, TurnInv, Ensuring
  <2>3. ~driverNameConflict(d)'
    BY <2>2
  <2> QED
    BY <2>2, <2>3 DEF driverNameConflict
<1>2. ASSUME NEW d \in Drivers, work'[d].owner = "cr" PROVE ~driverNameConflict(d)'
  BY <1>2 DEF FinInv, TurnInv
<1>3. ASSUME NEW n \in Drivers, object'[n] # NoObject
      PROVE  \E d \in Drivers : /\ DriverNameOf(d) = n /\ Answers(d)'
                                /\ ~driverNameConflict(d)' /\ ~Unregistered(d)'
  <2>1. PICK d \in Drivers :
           DriverNameOf(d) = n /\ Answers(d) /\ ~driverNameConflict(d) /\ ~Unregistered(d)
    BY <1>3 DEF TurnInv
  <2>2. cr[d].exists
    BY <2>1 DEF Answers
  <2> QED
    BY <2>1, <2>2
<1> QED
  BY <1>1, <1>2, <1>3
-----------------------------------------------------------------------------
(***************************************************************************)
(* The steps of a pass. A quiet one writes no CR, no RBAC object and no    *)
(* CSIDriver object.                                                       *)
(***************************************************************************)
Inv == TypeOK /\ CsiInv

(* A pass ends, whatever it reports.                                       *)
LEMMA EndKeeps ==
    ASSUME Inv, SameCRs, PassOK', pass'.pc = "idle", UNCHANGED <<rbac, object, class, reach>>,
           WorkOK', \A d \in Drivers : work'[d].owner = work[d].owner, CountOK'
    PROVE  Inv'
<1> USE DEF Inv, CsiInv
<1>1. CrPart /\ ClusterOK
  BY TypeParts
<1>2. /\ CrPart'
      /\ \A d \in Drivers : driverNameConflict(d)' = driverNameConflict(d)
      /\ \A d \in Drivers : Overtaken(d)' => Overtaken(d)
      /\ \A d \in Drivers : Answers(d) => Answers(d)'
  BY <1>1, KeptCRs DEF SameCRs
<1>3. TypeOK'
  <2>1. ClusterOK'
    BY <1>1 DEF ClusterOK
  <2> QED
    BY <1>2, <2>1, TypePartsNext
<1>4. FinInv'
  BY DEF FinInv, SameCRs, TearingDown, Ensuring
<1>5. RbacInv'
  BY <1>2, RbacFrame DEF Unbound
<1>6. tied' = tied
  BY DEF SameCRs
<1>7. TurnInv' /\ PairInv'
  BY <1>2, <1>6, TurnFrame DEF Unregistered, Ensuring
<1> QED
  BY <1>3, <1>4, <1>5, <1>7

(* A pass goes on to ensure the next object.                               *)
LEMMA EnsureKeeps ==
    ASSUME Inv, UNCHANGED crVars, NEW pc \in Ensuring, GoesTo(pc), pass.pc \in Ensuring \ {"rbac"},
           UNCHANGED <<rbac, object, reach, edits, faults>>, ClusterOK',
           WorkOK', \A d \in Drivers : work'[d].owner = work[d].owner
    PROVE  Inv'
<1> USE DEF Inv, CsiInv
<1>1. CrPart /\ PassOK /\ CountOK /\ SameCRs /\ pass.pc # "idle"
  BY TypeParts, UnchangedCRs DEF Ensuring
<1>2. /\ CrPart' /\ tied' = tied /\ cr' = cr
      /\ \A d \in Drivers : driverNameConflict(d)' = driverNameConflict(d)
      /\ \A d \in Drivers : Overtaken(d)' => Overtaken(d)
      /\ \A d \in Drivers : Answers(d) => Answers(d)'
  BY <1>1, KeptCRs DEF SameCRs, crVars
<1>3. PassOK' /\ pass'.pc = pc /\ pass'.d = pass.d
  BY <1>1, <1>2, PassGoesOn
<1>4. TypeOK'
  <2>1. CountOK'
    BY <1>1 DEF CountOK
  <2> QED
    BY <1>2, <1>3, <2>1, TypePartsNext
<1>5. FinInv'
  BY <1>1, <1>2, <1>3 DEF FinInv, TearingDown, Ensuring, PassOK
<1>6. RbacInv'
  BY <1>2, <1>3, RbacFrame DEF Unbound, Ensuring
<1>7. TurnInv' /\ PairInv'
  BY <1>2, <1>3, TurnFrame DEF Unregistered, Ensuring
<1> QED
  BY <1>4, <1>5, <1>6, <1>7

LEMMA BeginKeeps ==
    ASSUME Inv, NEW d \in Drivers, Begin(d)
    PROVE  Inv'
<1> USE DEF Inv, CsiInv
<1>1. CrPart /\ ClusterOK /\ WorkOK /\ PassOK /\ CountOK
  BY TypeParts
<1>2. UNCHANGED <<older, recent, tied, reach, rbac, object, class, work, edits, faults>> /\ cr[d].exists
  BY DEF Begin, clusterVars
<1>3. WorkOK' /\ CountOK' /\ ClusterOK'
  BY <1>1, <1>2 DEF WorkOK, CountOK, ClusterOK
<1> DEFINE p == [pc |-> "rbac", d |-> d, o |-> cr[d], stale |-> FALSE]
<1>4. CASE Ends /\ (cr' = [cr EXCEPT ![d].fin = TRUE] \/ cr' = [cr EXCEPT ![d].phase = "Failed"]
                     \/ cr' = [cr EXCEPT ![d].phase = "Pending"])
  <2>1. SameCRs
    BY <1>1, <1>2, <1>4, WrittenFinalizer, WrittenPhase DEF PhaseNames
  <2>2. PassOK' /\ pass'.pc = "idle"
    BY <1>4, PassEnds
  <2> QED
    BY <1>2, <1>3, <2>1, <2>2, EndKeeps
<1>5. CASE /\ cr' = cr
           /\ \/ pass' = [p EXCEPT !.pc = "unbind"] /\ cr[d].deleting
              \/ pass' = p /\ cr[d].fin /\ ~driverNameConflict(d)
  <2>1. cr[d] \in CrType
    BY <1>1 DEF CrPart
  <2>2. /\ pass'.d = d /\ pass' \in PassType
        /\ \/ pass'.pc = "unbind" /\ cr[d].deleting
           \/ pass'.pc = "rbac" /\ cr[d].fin /\ ~driverNameConflict(d)
    <3>1. CASE pass' = [p EXCEPT !.pc = "unbind"] /\ cr[d].deleting
      <4>1. pass' = [pc |-> "unbind", d |-> d, o |-> cr[d], stale |-> FALSE]
        BY <3>1
      <4> QED
        BY <2>1, <3>1, <4>1 DEF PassType
    <3>2. CASE pass' = p /\ cr[d].fin /\ ~driverNameConflict(d)
      BY <2>1, <3>2 DEF PassType
    <3> QED
      BY <1>5, <3>1, <3>2
  <2> HIDE DEF p
  <2>3. SameCRs
    BY <1>1, <1>2, <1>5, UnchangedCRs DEF crVars
  <2>4. /\ CrPart'
        /\ \A e \in Drivers : driverNameConflict(e)' = driverNameConflict(e)
        /\ \A e \in Drivers : Overtaken(e)' => Overtaken(e)
        /\ \A e \in Drivers : Answers(e) => Answers(e)'
    BY <1>1, <2>3, KeptCRs DEF SameCRs
  <2>5. PassOK'
    BY <1>2, <1>5, <2>2 DEF PassOK
  <2>6. TypeOK'
    BY <1>3, <2>4, <2>5, TypePartsNext
  <2>7. FinInv'
    BY <1>1, <1>2, <1>5, <2>2 DEF FinInv, TearingDown, Ensuring, CrPart
  <2>8. RbacInv'
    BY <1>2, <2>2, <2>4, RbacFrame DEF Unbound
  <2>9. TurnInv'
    <3> SUFFICES ASSUME tied' = {}
                 PROVE  /\ pass'.pc \in Ensuring => ~driverNameConflict(pass.d)'
                        /\ \A e \in Drivers : work'[e].owner = "cr" => ~driverNameConflict(e)'
                        /\ \A n \in Drivers : object'[n] # NoObject =>
                             \E e \in Drivers :
                                 /\ DriverNameOf(e) = n /\ Answers(e)'
                                 /\ ~driverNameConflict(e)' /\ ~Unregistered(e)'
      BY DEF TurnInv, DriverNameOf
    <3>1. pass'.pc \in Ensuring => ~driverNameConflict(pass.d)'
      <4>1. pass'.pc \in Ensuring => ~driverNameConflict(d)'
        BY <2>2, <2>4 DEF Ensuring
      <4> QED
        BY <2>2, <4>1 DEF driverNameConflict
    <3>2. \A e \in Drivers : ~Unregistered(e)'
      BY <2>2 DEF Unregistered
    <3> QED
      BY <1>2, <2>4, <3>1, <3>2 DEF TurnInv
  <2>10. PairInv'
    <3>1. pass'.pc \in Ensuring => ~Overtaken(d)'
      BY <2>2, <2>4 DEF Ensuring, Overtaken, driverNameConflict, othersTurn
    <3>2. pass'.pc \in Ensuring => ~Overtaken(pass.d)'
      BY <2>2, <3>1 DEF Overtaken
    <3>3. \A e \in Drivers : work'[e].owner = "cr" => ~Overtaken(e)'
      BY <1>2, <2>4 DEF PairInv
    <3> QED
      BY <3>2, <3>3 DEF PairInv
  <2> QED
    BY <2>6, <2>7, <2>8, <2>9, <2>10
<1> QED
  BY <1>4, <1>5 DEF Begin

LEMMA EnsureRbacKeeps ==
    ASSUME Inv, ensureRBAC
    PROVE  Inv'
<1> USE DEF Inv, CsiInv
<1>1. /\ CrPart /\ ClusterOK /\ WorkOK /\ PassOK /\ CountOK /\ pass.pc = "rbac"
      /\ pass.d \in Drivers /\ cr[pass.d].exists /\ cr[pass.d].fin
  BY TypeParts DEF ensureRBAC, PassOK, FinInv
<1>2. UNCHANGED <<older, recent, tied, reach, object, class, edits, faults>>
  BY DEF ensureRBAC
<1>3. CountOK'
  BY <1>1, <1>2 DEF CountOK
<1>4. CASE EndsWith("Failed") /\ UNCHANGED <<rbac, work>>
  <2>1. SameCRs /\ PassOK' /\ pass'.pc = "idle"
    BY <1>1, <1>2, <1>4, EndsWithPhase DEF PhaseNames
  <2> QED
    BY <1>1, <1>2, <1>3, <1>4, <2>1, EndKeeps DEF WorkOK
<1>5. CASE /\ rbac' = [rbac EXCEPT ![NameOf(pass.d)] = pass.d] /\ work[pass.d].owner # "gone"
           /\ work' = [work EXCEPT ![pass.d].owner = IF @ = "none" THEN "cr" ELSE @]
           /\ GoesTo("object") /\ cr' = cr
  <2>0. PICK d \in Drivers : d = pass.d
    BY <1>1
  <2>1. SameCRs
    BY <1>1, <1>2, <1>5, UnchangedCRs DEF crVars
  <2>2. /\ CrPart'
        /\ \A e \in Drivers : driverNameConflict(e)' = driverNameConflict(e)
        /\ \A e \in Drivers : Overtaken(e)' => Overtaken(e)
        /\ \A e \in Drivers : Answers(e) => Answers(e)'
    BY <1>1, <2>1, KeptCRs DEF SameCRs
  <2>3. PassOK' /\ pass'.pc = "object" /\ pass'.d = d
    BY <1>1, <1>5, <2>0, PassGoesOn DEF Ensuring
  <2>4. /\ work'[d] = [work[d] EXCEPT !.owner = IF work[d].owner = "none" THEN "cr" ELSE work[d].owner]
        /\ \A e \in Drivers \ {d} : work'[e] = work[e]
        /\ work' \in [Drivers -> WorkType]
    BY <1>1, <1>5, <2>0 DEF WorkOK, WorkType
  <2>5. work[d] \in WorkType
    BY <1>1 DEF WorkOK
  <2>6. WorkOK'
    <3>1. WorkDone(work[d])
      BY <1>1 DEF WorkOK
    <3>2. WorkDone(work'[d])
      BY <2>4, <2>5, <3>1 DEF WorkDone, WorkType
    <3> QED
      BY <1>1, <2>4, <3>2 DEF WorkOK
  <2>7. ClusterOK'
    BY <1>1, <1>2, <1>5, NameTypes DEF ClusterOK
  <2>8. TypeOK'
    BY <1>3, <2>2, <2>3, <2>6, <2>7, TypePartsNext
  <2>9. FinInv'
    <3>1. work'[d].owner = "cr"
      BY <1>5, <2>0, <2>4, <2>5 DEF WorkType
    <3> QED
      BY <1>1, <1>5, <2>0, <2>3, <2>4, <3>1 DEF FinInv, TearingDown, Ensuring
  <2>10. RbacInv'
    <3> SUFFICES ASSUME NEW n \in Drivers, rbac'[n] # None
                 PROVE  \E e \in Drivers : NameOf(e) = n /\ Answers(e)' /\ ~Unbound(e)'
      BY DEF RbacInv, NameOf
    <3>1. \A e \in Drivers : ~Unbound(e)'
      BY <2>3 DEF Unbound
    <3>2. CASE n = NameOf(d)
      BY <1>1, <2>0, <2>2, <3>1, <3>2 DEF Answers
    <3>3. CASE n # NameOf(d)
      <4>1. rbac[n] # None
        BY <1>1, <1>5, <2>0, <3>3 DEF ClusterOK
      <4> QED
        BY <2>2, <3>1, <4>1 DEF RbacInv
    <3> QED
      BY <3>2, <3>3
  <2>11. TurnInv'
    <3> SUFFICES ASSUME tied' = {}
                 PROVE  /\ ~driverNameConflict(d)'
                        /\ \A e \in Drivers : work'[e].owner = "cr" => ~driverNameConflict(e)'
                        /\ \A n \in Drivers : object'[n] # NoObject =>
                             \E e \in Drivers :
                                 /\ DriverNameOf(e) = n /\ Answers(e)'
                                 /\ ~driverNameConflict(e)' /\ ~Unregistered(e)'
      <4>1. driverNameConflict(pass.d)' = driverNameConflict(d)'
        BY <2>3 DEF driverNameConflict
      <4> QED
        BY <2>3, <4>1 DEF TurnInv, DriverNameOf
    <3>1. ~driverNameConflict(d)
      BY <1>1, <1>2, <2>0 DEF TurnInv, Ensuring
    <3>2. \A e \in Drivers : ~Unregistered(e)'
      BY <2>3 DEF Unregistered
    <3>3. \A e \in Drivers \ {d} : work'[e].owner = "cr" => ~driverNameConflict(e)'
      BY <1>2, <2>2, <2>4 DEF TurnInv
    <3>4. \A n \in Drivers : object'[n] # NoObject =>
             \E e \in Drivers : DriverNameOf(e) = n /\ Answers(e)' /\ ~driverNameConflict(e)'
      BY <1>2, <2>2 DEF TurnInv
    <3> QED
      BY <2>2, <3>1, <3>2, <3>3, <3>4
  <2>12. PairInv'
    <3>1. ~Overtaken(d)'
      BY <1>1, <2>0, <2>2 DEF PairInv, Ensuring
    <3>2. ~Overtaken(pass.d)'
      BY <2>3, <3>1 DEF Overtaken
    <3>3. \A e \in Drivers \ {d} : work'[e].owner = "cr" => ~Overtaken(e)'
      BY <2>2, <2>4 DEF PairInv
    <3> QED
      BY <3>1, <3>2, <3>3 DEF PairInv
  <2> QED
    BY <2>8, <2>9, <2>10, <2>11, <2>12
<1> QED
  BY <1>4, <1>5 DEF ensureRBAC

(* Setting a field of a CR's workloads.                                    *)
LEMMA FieldSet ==
    ASSUME WorkOK, NEW d \in Drivers, NEW w \in WorkType, work' = [work EXCEPT ![d] = w], WorkDone(w)
    PROVE  WorkOK'
BY DEF WorkOK

LEMMA WorkloadsKeep ==
    ASSUME Inv, ensureControllerDeployment \/ ensureNodeDaemonSet \/ ensureMountDaemonSet
    PROVE  Inv'
<1>1. /\ CrPart /\ ClusterOK /\ WorkOK /\ PassOK /\ pass.pc \in Ensuring \ {"rbac"} /\ pass.d \in Drivers
      /\ UNCHANGED crVars /\ UNCHANGED <<reach, rbac, object, class, edits, faults>>
  BY TypeParts DEF Inv, ensureControllerDeployment, ensureNodeDaemonSet, ensureMountDaemonSet,
     PassOK, Ensuring, clusterVars
<1>2. PICK d \in Drivers : d = pass.d
  BY <1>1
<1>3. work[d] \in WorkType /\ WorkDone(work[d]) /\ pass.o \in CrType /\ work[d].owner = "cr"
  BY <1>1, <1>2 DEF WorkOK, PassOK, PassType, Inv, CsiInv, FinInv
<1>4. filerAddress(pass.o) \in {"seaweed", "given"} /\ pass.o.mount \in BOOLEAN
  BY <1>3 DEF filerAddress, CrType
<1>5. PICK w : /\ work' = [work EXCEPT ![d] = w]
               /\ \/ w = [work[d] EXCEPT !.controller = filerAddress(pass.o)]
                  \/ w = [work[d] EXCEPT !.node = filerAddress(pass.o)]
                  \/ w = [work[d] EXCEPT !.mount = pass.o.mount]
  BY <1>2 DEF ensureControllerDeployment, ensureNodeDaemonSet, ensureMountDaemonSet,
     buildControllerDeployment, buildNodeDaemonSet, buildMountDaemonSet
<1>6. w \in WorkType /\ w.owner = work[d].owner /\ w.up = work[d].up
  BY <1>3, <1>4, <1>5 DEF WorkType
<1>7. WorkDone(w)
  BY <1>3, <1>4, <1>5, <1>6 DEF WorkType, WorkDone
<1>8. WorkOK' /\ \A e \in Drivers : work'[e].owner = work[e].owner
  BY <1>1, <1>5, <1>6, <1>7, FieldSet DEF WorkOK
<1>9. ClusterOK'
  BY <1>1 DEF ClusterOK
<1>10. \E pc \in Ensuring : GoesTo(pc)
  BY DEF ensureControllerDeployment, ensureNodeDaemonSet, ensureMountDaemonSet, Ensuring
<1> QED
  BY <1>1, <1>8, <1>9, <1>10, EnsureKeeps

LEMMA ClassKeeps ==
    ASSUME Inv, ensureStorageClass
    PROVE  Inv'
<1>1. /\ CrPart /\ ClusterOK /\ WorkOK /\ PassOK /\ CountOK /\ pass.pc \in Ensuring \ {"rbac"} /\ pass.d \in Drivers
      /\ pass.pc # "idle" /\ UNCHANGED <<older, recent, tied, reach, rbac, object, work, edits, faults>>
  BY TypeParts DEF Inv, ensureStorageClass, PassOK, Ensuring
<1>2. WorkOK' /\ CountOK'
  BY <1>1 DEF WorkOK, CountOK
<1>3. CASE EndsWith("Failed") /\ class' = class
  <2>1. SameCRs /\ PassOK' /\ pass'.pc = "idle"
    BY <1>1, <1>3, EndsWithPhase DEF Inv, PhaseNames
  <2> QED
    BY <1>1, <1>2, <1>3, <2>1, EndKeeps
<1>4. CASE /\ class' = [class EXCEPT ![storageClassName(pass.d, pass.o)] =
                           IF pass.o.class = "none" THEN NoClass ELSE buildStorageClass(pass.d, pass.o)]
           /\ GoesTo("status") /\ cr' = cr
  <2>0. pass.o.params \in BOOLEAN
    BY <1>1 DEF PassOK, PassType, CrType
  <2>1. buildStorageClass(pass.d, pass.o) \in [inst : 0 .. Admin, prov : 0 .. Admin, params : BOOLEAN]
    BY <1>1, <2>0, NameTypes DEF buildStorageClass
  <2>2. ClusterOK'
    BY <1>1, <1>4, <2>1, NameTypes DEF ClusterOK
  <2>3. UNCHANGED crVars /\ "status" \in Ensuring
    BY <1>1, <1>4 DEF crVars, Ensuring
  <2> QED
    BY <1>1, <1>2, <1>4, <2>2, <2>3, EnsureKeeps
<1> QED
  BY <1>3, <1>4 DEF ensureStorageClass

LEMMA StatusKeeps ==
    ASSUME Inv, refreshStatus
    PROVE  Inv'
<1>1. /\ WorkOK /\ CountOK /\ pass.pc # "idle"
      /\ UNCHANGED <<older, recent, tied, reach, rbac, object, class, work, edits, faults>>
  BY TypeParts DEF Inv, refreshStatus, clusterVars
<1>2. WorkOK' /\ CountOK'
  BY <1>1 DEF WorkOK, CountOK
<1>3. \E ph \in PhaseNames : EndsWith(ph)
  BY DEF refreshStatus, PhaseNames
<1>4. SameCRs /\ PassOK' /\ pass'.pc = "idle"
  BY <1>1, <1>3, EndsWithPhase DEF Inv
<1> QED
  BY <1>1, <1>2, <1>4, EndKeeps

(* The CSIDriver object is registered by a CR whose turn it is.            *)
LEMMA ObjectKeeps ==
    ASSUME Inv, ensureCSIDriverObject
    PROVE  Inv'
<1> USE DEF Inv, CsiInv
<1>1. /\ CrPart /\ ClusterOK /\ WorkOK /\ PassOK /\ CountOK /\ pass.pc = "object"
      /\ pass.d \in Drivers /\ cr[pass.d].exists /\ cr[pass.d].fin /\ GoesTo("controller")
      /\ UNCHANGED <<cr, older, recent, tied, reach, rbac, class, work, edits, faults>>
  BY TypeParts DEF ensureCSIDriverObject, PassOK, FinInv, crVars
<1>2. PICK d \in Drivers : d = pass.d
  BY <1>1
<1>3. WorkOK' /\ CountOK' /\ SameCRs
  BY <1>1, UnchangedCRs DEF WorkOK, CountOK, crVars
<1>4. /\ CrPart'
      /\ \A e \in Drivers : driverNameConflict(e)' = driverNameConflict(e)
      /\ \A e \in Drivers : Overtaken(e)' => Overtaken(e)
      /\ \A e \in Drivers : Answers(e) => Answers(e)'
  BY <1>1, <1>3, KeptCRs DEF SameCRs
<1>5. PassOK' /\ pass'.pc = "controller" /\ pass'.d = d
  BY <1>1, <1>2, PassGoesOn DEF Ensuring
<1>6. PICK o : o \in [inst : Drivers \cup {None}, attach : BOOLEAN]
               /\ object' = [object EXCEPT ![DriverNameOf(d)] = o]
  <2>1. pass.o.attach \in BOOLEAN
    BY <1>1 DEF PassOK, PassType, CrType
  <2>2. buildCSIDriverObject(d, pass.o) \in [inst : Drivers \cup {None}, attach : BOOLEAN]
    BY <2>1, NameTypes DEF buildCSIDriverObject
  <2>3. \/ object' = [object EXCEPT ![DriverNameOf(d)] = NoObject]
        \/ object' = [object EXCEPT ![DriverNameOf(d)] = buildCSIDriverObject(d, pass.o)]
    BY <1>2 DEF ensureCSIDriverObject
  <2> QED
    BY <2>2, <2>3, NameTypes
<1>7. ClusterOK'
  BY <1>1, <1>6, NameTypes DEF ClusterOK
<1>8. TypeOK'
  BY <1>3, <1>4, <1>5, <1>7, TypePartsNext
<1>9. FinInv'
  BY <1>1, <1>2, <1>5 DEF FinInv, TearingDown, Ensuring
<1>10. RbacInv'
  BY <1>1, <1>4, <1>5, RbacFrame DEF Unbound
<1>11. TurnInv'
  <2> SUFFICES ASSUME tied' = {}
               PROVE  /\ ~driverNameConflict(d)'
                      /\ \A e \in Drivers : work'[e].owner = "cr" => ~driverNameConflict(e)'
                      /\ \A n \in Drivers : object'[n] # NoObject =>
                           \E e \in Drivers :
                               /\ DriverNameOf(e) = n /\ Answers(e)'
                               /\ ~driverNameConflict(e)' /\ ~Unregistered(e)'
    <3>1. driverNameConflict(pass.d)' = driverNameConflict(d)'
      BY <1>5 DEF driverNameConflict
    <3> QED
      BY <1>5, <3>1 DEF TurnInv, DriverNameOf
  <2>1. ~driverNameConflict(d)'
    BY <1>1, <1>2, <1>4 DEF TurnInv, Ensuring
  <2>2. \A e \in Drivers : ~Unregistered(e)'
    BY <1>5 DEF Unregistered
  <2>3. \A e \in Drivers : work'[e].owner = "cr" => ~driverNameConflict(e)'
    BY <1>1, <1>4 DEF TurnInv
  <2>4. ASSUME NEW n \in Drivers, object'[n] # NoObject
        PROVE  \E e \in Drivers : DriverNameOf(e) = n /\ Answers(e)' /\ ~driverNameConflict(e)'
    <3>1. CASE n = DriverNameOf(d)
      BY <1>1, <1>2, <1>4, <2>1, <3>1 DEF Answers
    <3>2. CASE n # DriverNameOf(d)
      <4>1. object[n] # NoObject
        BY <1>1, <1>6, <2>4, <3>2 DEF ClusterOK
      <4> QED
        BY <1>1, <1>4, <4>1 DEF TurnInv
    <3> QED
      BY <3>1, <3>2
  <2> QED
    BY <2>1, <2>2, <2>3, <2>4
<1>12. PairInv'
  BY <1>1, <1>2, <1>4, <1>5, PairFrame DEF Ensuring
<1> QED
  BY <1>8, <1>9, <1>10, <1>11, <1>12
-----------------------------------------------------------------------------
(***************************************************************************)
(* The finalizer. It goes on although the CR it took up may have been      *)
(* edited since.                                                           *)
(***************************************************************************)
LEMMA TearDownStep ==
    ASSUME Inv, NEW pc \in TearingDown, GoesTo(pc), pass.pc \in TearingDown, ClusterOK',
           UNCHANGED crVars, UNCHANGED <<reach, work, edits, faults>>
    PROVE  /\ TypeOK' /\ FinInv' /\ tied' = tied /\ pass'.pc = pc /\ pass'.d = pass.d /\ pass.d \in Drivers
           /\ \A d \in Drivers : driverNameConflict(d)' = driverNameConflict(d)
           /\ \A d \in Drivers : Overtaken(d)' => Overtaken(d)
           /\ \A d \in Drivers : Answers(d) => Answers(d)'
<1> USE DEF Inv, CsiInv
<1>1. CrPart /\ WorkOK /\ PassOK /\ CountOK /\ SameCRs /\ pass.pc # "idle"
  BY TypeParts, UnchangedCRs DEF TearingDown
<1>2. /\ CrPart' /\ tied' = tied /\ cr' = cr
      /\ \A d \in Drivers : driverNameConflict(d)' = driverNameConflict(d)
      /\ \A d \in Drivers : Overtaken(d)' => Overtaken(d)
      /\ \A d \in Drivers : Answers(d) => Answers(d)'
  BY <1>1, KeptCRs DEF SameCRs, crVars
<1>3. PassOK' /\ pass'.pc = pc /\ pass'.d = pass.d /\ pass.d \in Drivers
  BY <1>1, <1>2, PassGoesOn
<1>4. WorkOK' /\ CountOK'
  BY <1>1 DEF WorkOK, CountOK
<1>5. TypeOK'
  BY <1>2, <1>3, <1>4, TypePartsNext
<1>6. FinInv'
  BY <1>1, <1>2, <1>3 DEF FinInv, TearingDown, Ensuring
<1> QED
  BY <1>2, <1>3, <1>5, <1>6

LEMMA UnbindKeeps ==
    ASSUME Inv, DeleteRBAC
    PROVE  Inv'
<1> USE DEF Inv, CsiInv
<1>1. ClusterOK /\ PassOK /\ pass.pc = "unbind" /\ pass.d \in Drivers
  BY TypeParts DEF DeleteRBAC, PassOK
<1>2. /\ rbac' = [rbac EXCEPT ![NameOf(pass.d)] = None] /\ UNCHANGED <<object, class>>
      /\ GoesTo("unregister") /\ UNCHANGED crVars /\ UNCHANGED <<reach, work, edits, faults>>
  BY DEF DeleteRBAC
<1>3. ClusterOK'
  BY <1>1, <1>2 DEF ClusterOK
<1>4. /\ TypeOK' /\ FinInv' /\ tied' = tied /\ pass'.pc = "unregister" /\ pass'.d = pass.d
      /\ \A d \in Drivers : driverNameConflict(d)' = driverNameConflict(d)
      /\ \A d \in Drivers : Overtaken(d)' => Overtaken(d)
      /\ \A d \in Drivers : Answers(d) => Answers(d)'
  BY <1>1, <1>2, <1>3, TearDownStep DEF TearingDown
<1>5. RbacInv'
  <2> SUFFICES ASSUME NEW n \in Drivers, rbac'[n] # None
               PROVE  \E d \in Drivers : NameOf(d) = n /\ Answers(d)' /\ ~Unbound(d)'
    BY DEF RbacInv, NameOf
  <2>1. n # NameOf(pass.d) /\ rbac[n] # None
    BY <1>1, <1>2 DEF ClusterOK
  <2>2. PICK d \in Drivers : NameOf(d) = n /\ Answers(d)
    BY <2>1 DEF RbacInv
  <2>3. d # pass.d
    BY <2>1, <2>2
  <2> QED
    BY <1>4, <2>2, <2>3 DEF Unbound
<1>6. TurnInv' /\ PairInv'
  BY <1>2, <1>4, TurnFrame DEF Unregistered, Ensuring
<1> QED
  BY <1>4, <1>5, <1>6

(* The CSIDriver object is left only to an older CR, which will remove it. *)
LEMMA UnregisterKeeps ==
    ASSUME Inv, DeleteObject
    PROVE  Inv'
<1> USE DEF Inv, CsiInv
<1>1. ClusterOK /\ PassOK /\ pass.pc = "unregister" /\ pass.d \in Drivers
  BY TypeParts DEF DeleteObject, PassOK
<1>2. /\ UNCHANGED <<rbac, class>> /\ GoesTo("unclass") /\ UNCHANGED crVars
      /\ UNCHANGED <<reach, work, edits, faults>>
      /\ \/ driverNameConflict(pass.d) /\ object' = object
         \/ object' = [object EXCEPT ![DriverNameOf(pass.d)] = NoObject]
  BY DEF DeleteObject
<1>3. ClusterOK'
  BY <1>1, <1>2, NameTypes DEF ClusterOK
<1>4. /\ TypeOK' /\ FinInv' /\ tied' = tied /\ pass'.pc = "unclass" /\ pass'.d = pass.d
      /\ \A d \in Drivers : driverNameConflict(d)' = driverNameConflict(d)
      /\ \A d \in Drivers : Overtaken(d)' => Overtaken(d)
      /\ \A d \in Drivers : Answers(d) => Answers(d)'
  BY <1>1, <1>2, <1>3, TearDownStep DEF TearingDown
<1>5. RbacInv'
  BY <1>1, <1>2, <1>4, RbacFrame DEF Unbound
<1>6. TurnInv'
  <2> SUFFICES ASSUME tied' = {}
               PROVE  /\ \A d \in Drivers : work'[d].owner = "cr" => ~driverNameConflict(d)'
                      /\ \A n \in Drivers : object'[n] # NoObject =>
                           \E d \in Drivers :
                               /\ DriverNameOf(d) = n /\ Answers(d)'
                               /\ ~driverNameConflict(d)' /\ ~Unregistered(d)'
    BY <1>4 DEF TurnInv, DriverNameOf, Ensuring
  <2>1. \A d \in Drivers : work'[d].owner = "cr" => ~driverNameConflict(d)'
    BY <1>2, <1>4 DEF TurnInv
  <2>2. ASSUME NEW n \in Drivers, object'[n] # NoObject
        PROVE  \E d \in Drivers : /\ DriverNameOf(d) = n /\ Answers(d)'
                                  /\ ~driverNameConflict(d)' /\ ~Unregistered(d)'
    <3>1. object[n] # NoObject /\ (driverNameConflict(pass.d) \/ n # DriverNameOf(pass.d))
      BY <1>1, <1>2, <2>2 DEF ClusterOK
    <3>2. PICK d \in Drivers : DriverNameOf(d) = n /\ Answers(d) /\ ~driverNameConflict(d)
      BY <1>4, <3>1 DEF TurnInv
    <3>3. d # pass.d
      BY <3>1, <3>2
    <3> QED
      BY <1>4, <3>2, <3>3 DEF Unregistered
  <2> QED
    BY <2>1, <2>2
<1>7. PairInv'
  BY <1>1, <1>2, <1>4, PairFrame DEF Ensuring
<1> QED
  BY <1>4, <1>5, <1>6, <1>7

LEMMA UnclassKeeps ==
    ASSUME Inv, DeleteClass
    PROVE  Inv'
<1> USE DEF Inv, CsiInv
<1>1. ClusterOK /\ PassOK /\ pass.pc = "unclass" /\ pass.d \in Drivers
  BY TypeParts DEF DeleteClass, PassOK
<1>2. /\ UNCHANGED <<rbac, object>> /\ GoesTo("finalize") /\ UNCHANGED crVars
      /\ UNCHANGED <<reach, work, edits, faults>>
      /\ class' = class \/ class' = [class EXCEPT ![storageClassName(pass.d, pass.o)] = NoClass]
  BY DEF DeleteClass
<1>3. ClusterOK'
  BY <1>1, <1>2, NameTypes DEF ClusterOK
<1>4. /\ TypeOK' /\ FinInv' /\ tied' = tied /\ pass'.pc = "finalize" /\ pass'.d = pass.d
      /\ \A d \in Drivers : driverNameConflict(d)' = driverNameConflict(d)
      /\ \A d \in Drivers : Overtaken(d)' => Overtaken(d)
      /\ \A d \in Drivers : Answers(d) => Answers(d)'
  BY <1>1, <1>2, <1>3, TearDownStep DEF TearingDown
<1>5. RbacInv'
  BY <1>1, <1>2, <1>4, RbacFrame DEF Unbound
<1>6. TurnInv' /\ PairInv'
  BY <1>1, <1>2, <1>4, TurnFrame DEF Unregistered, Ensuring
<1> QED
  BY <1>4, <1>5, <1>6

(* A CR goes that answers for nothing any more.                            *)
LEMMA GoneKeeps ==
    ASSUME Inv, NEW c \in Drivers, Gone(c), recent' \subseteq recent \ {c}, tied' = tied,
           UNCHANGED <<rbac, object, class, reach>>, CountOK',
           Answers(c) => pass.d = c /\ pass.pc = "finalize" /\ pass'.pc = "idle",
           pass'.pc = "idle" \/ (pass'.pc = pass.pc /\ pass'.d = pass.d), pass' \in PassType
    PROVE  Inv'
<1> USE DEF Inv, CsiInv
<1>1. CrPart /\ ClusterOK /\ WorkOK /\ PassOK
  BY TypeParts
<1>2. /\ CrPart' /\ ~cr'[c].exists
      /\ \A d \in Drivers : driverNameConflict(d)' => driverNameConflict(d)
      /\ \A d \in Drivers : Overtaken(d)' => Overtaken(d)
      /\ \A d \in Drivers \ {c} : cr'[d] = cr[d] /\ (Answers(d) => Answers(d)')
  BY <1>1, GoneCR
<1>3. pass'.pc # "idle" => pass'.pc = pass.pc /\ pass'.d = pass.d /\ pass.d # c /\ pass.d \in Drivers
  BY <1>1 DEF PassOK, FinInv, Answers
<1>4. PassOK'
  BY <1>1, <1>2, <1>3 DEF PassOK
<1>5. /\ work' \in [Drivers -> WorkType] /\ work'[c].owner # "cr" /\ work'[c].up = work[c].up
      /\ (work'[c].owner = "none" => work[c].owner = "none")
      /\ work'[c].controller = work[c].controller /\ work'[c].node = work[c].node
      /\ \A d \in Drivers \ {c} : work'[d] = work[d]
  <2> DEFINE w == [work[c] EXCEPT !.owner = IF work[c].owner = "none" THEN "none" ELSE "gone"]
  <2>1. work' = [work EXCEPT ![c] = w]
    BY DEF Gone
  <2>2. work[c] \in WorkType
    BY <1>1 DEF WorkOK
  <2>3. w \in WorkType /\ w.owner # "cr" /\ w.up = work[c].up
        /\ (w.owner = "none" => work[c].owner = "none")
        /\ w.controller = work[c].controller /\ w.node = work[c].node
    BY <2>2 DEF WorkType
  <2> QED
    BY <1>1, <2>1, <2>3 DEF WorkOK
<1>6. WorkOK'
  BY <1>1, <1>5 DEF WorkOK, WorkDone
<1>7. ClusterOK'
  BY <1>1 DEF ClusterOK
<1>8. TypeOK'
  BY <1>2, <1>4, <1>6, <1>7, TypePartsNext
<1>9. FinInv'
  BY <1>2, <1>3, <1>5 DEF FinInv, TearingDown, Ensuring
<1>10. \A d \in Drivers : Answers(d) /\ ~Unbound(d) => Answers(d)' /\ ~Unbound(d)'
  BY <1>2, <1>3 DEF Unbound
<1>11. \A d \in Drivers : Answers(d) /\ ~Unregistered(d) => Answers(d)' /\ ~Unregistered(d)'
  BY <1>2, <1>3 DEF Unregistered
<1>12. RbacInv'
  BY <1>10, RbacFrame
<1>13. \A d \in Drivers : work'[d].owner = "cr" => work[d].owner = "cr"
  BY <1>5
<1>14. pass'.pc \in Ensuring => pass.pc \in Ensuring /\ pass'.d = pass.d
  BY <1>3 DEF Ensuring
<1>15. TurnInv' /\ PairInv'
  BY <1>2, <1>11, <1>13, <1>14, TurnFrame
<1> QED
  BY <1>8, <1>9, <1>12, <1>15

LEMMA FinalizeKeeps ==
    ASSUME Inv, Finalize
    PROVE  Inv'
<1>1. /\ CrPart /\ WorkOK /\ CountOK /\ pass.pc = "finalize" /\ pass.d \in Drivers /\ cr[pass.d].deleting
      /\ UNCHANGED <<recent, tied, reach, rbac, object, class, edits, faults>>
  BY TypeParts DEF Inv, CsiInv, Finalize, clusterVars, PassOK, FinInv, TearingDown
<1>2. PassOK' /\ pass'.pc = "idle" /\ CountOK'
  BY <1>1, PassEnds DEF Finalize, CountOK
<1>3. CASE UNCHANGED <<cr, older, work>>
  BY <1>1, <1>2, <1>3, UnchangedCRs, EndKeeps DEF crVars, WorkOK
<1>4. CASE Gone(pass.d)
  <2>1. recent' \subseteq recent \ {pass.d}
    BY <1>1 DEF CrPart
  <2> QED
    BY <1>1, <1>2, <1>4, <2>1, GoneKeeps DEF PassOK
<1> QED
  BY <1>3, <1>4 DEF Finalize

LEMMA FailsKeeps ==
    ASSUME Inv, Fails
    PROVE  Inv'
<1>1. /\ CrPart /\ WorkOK /\ CountOK /\ pass.pc # "idle" /\ Fault
      /\ UNCHANGED <<older, recent, tied, reach, rbac, object, class, work, edits>>
  BY TypeParts DEF Inv, Fails, clusterVars
<1>2. WorkOK' /\ CountOK'
  BY <1>1, BoundsAssumption DEF WorkOK, CountOK, Fault
<1>3. SameCRs /\ PassOK' /\ pass'.pc = "idle"
  BY <1>1, UnchangedCRs, PassEnds, EndsWithPhase DEF Inv, Fails, crVars, PhaseNames
<1> QED
  BY <1>1, <1>2, <1>3, EndKeeps
-----------------------------------------------------------------------------
(***************************************************************************)
(* Kubernetes and people, while a pass may be under way.                   *)
(***************************************************************************)
LEMMA BystanderKeeps ==
    ASSUME Inv, SameCRs, PassOK', pass'.pc = pass.pc, pass'.d = pass.d,
           UNCHANGED <<rbac, object, class>>, WorkOK', CountOK',
           \A d \in Drivers : work'[d].owner = "cr" <=> work[d].owner = "cr"
    PROVE  Inv'
<1> USE DEF Inv, CsiInv
<1>1. CrPart /\ ClusterOK /\ PassOK
  BY TypeParts
<1>2. /\ CrPart' /\ tied' = tied
      /\ \A d \in Drivers : driverNameConflict(d)' = driverNameConflict(d)
      /\ \A d \in Drivers : Overtaken(d)' => Overtaken(d)
      /\ \A d \in Drivers : Answers(d) => Answers(d)'
  BY <1>1, KeptCRs DEF SameCRs
<1>3. ClusterOK'
  BY <1>1 DEF ClusterOK
<1>4. TypeOK'
  BY <1>2, <1>3, TypePartsNext
<1>5. FinInv'
  BY <1>1 DEF FinInv, SameCRs, PassOK, TearingDown, Ensuring
<1>6. RbacInv'
  BY <1>2, RbacFrame DEF Unbound
<1>7. TurnInv' /\ PairInv'
  BY <1>2, TurnFrame DEF Unregistered
<1> QED
  BY <1>4, <1>5, <1>6, <1>7

(* Pods, nodes and the garbage collector.                                  *)
LEMMA PodsKeep ==
    ASSUME Inv, NEW d \in Drivers, Schedule(d) \/ PodsReady(d) \/ Collect(d) \/ NodeFails(d)
    PROVE  Inv'
<1>1. /\ CrPart /\ WorkOK /\ PassOK /\ CountOK
      /\ UNCHANGED crVars /\ UNCHANGED <<reach, rbac, object, class, pass, edits>>
      /\ faults' = faults \/ Fault
  BY TypeParts DEF Inv, Schedule, PodsReady, Collect, NodeFails, clusterVars
<1>2. work[d] \in WorkType /\ WorkDone(work[d])
  BY <1>1 DEF WorkOK
<1>3. PICK w : /\ work' = [work EXCEPT ![d] = w]
               /\ \/ w = NoWork /\ work[d].owner = "gone"
                  \/ \E c \in {"controller", "node", "scheduled"} :
                        /\ c = "controller" => work[d].controller # "none"
                        /\ c = "node" => "scheduled" \in work[d].up
                        /\ c = "scheduled" => work[d].node # "none"
                        /\ w = [work[d] EXCEPT !.up = work[d].up \cup {c}]
                  \/ \E c \in work[d].up \ {"scheduled"} : w = [work[d] EXCEPT !.up = work[d].up \ {c}]
  BY DEF Schedule, PodsReady, Collect, NodeFails
<1>4. w \in WorkType /\ (w.owner = "cr" <=> work[d].owner = "cr")
  <2>1. CASE w = NoWork /\ work[d].owner = "gone"
    <3>1. NoWork \in WorkType
      BY NameTypes
    <3> QED
      BY <2>1, <3>1 DEF NoWork
  <2>2. ASSUME NEW u \in SUBSET {"controller", "scheduled", "node"}, w = [work[d] EXCEPT !.up = u]
        PROVE  w \in WorkType /\ w.owner = work[d].owner
    BY <1>2, <2>2 DEF WorkType
  <2>3. \A c \in {"controller", "scheduled", "node"} : work[d].up \cup {c} \in SUBSET {"controller", "scheduled", "node"}
    BY <1>2 DEF WorkType
  <2>4. \A c : work[d].up \ {c} \in SUBSET {"controller", "scheduled", "node"}
    BY <1>2 DEF WorkType
  <2> QED
    BY <1>3, <2>1, <2>2, <2>3, <2>4
<1>5. WorkDone(w)
  <2>1. CASE w = NoWork
    BY <2>1 DEF NoWork, WorkDone
  <2>2. CASE w # NoWork
    BY <1>2, <1>3, <2>2 DEF WorkType, WorkDone
  <2> QED
    BY <2>1, <2>2
<1>6. WorkOK' /\ \A e \in Drivers : work'[e].owner = "cr" <=> work[e].owner = "cr"
  BY <1>1, <1>3, <1>4, <1>5, FieldSet DEF WorkOK
<1>7. PassOK' /\ CountOK' /\ SameCRs
  BY <1>1, UnchangedCRs, BoundsAssumption DEF PassOK, CountOK, Fault, crVars
<1> QED
  BY <1>1, <1>6, <1>7, BystanderKeeps

LEMMA TouchedPass ==
    ASSUME pass \in PassType, NEW d, Touched(d)
    PROVE  pass' \in PassType /\ pass'.pc = pass.pc /\ pass'.d = pass.d
<1>1. PICK s \in BOOLEAN : s = (pass.stale \/ pass.d = d)
  OBVIOUS
<1>2. pass' = [pass EXCEPT !.stale = s]
  BY <1>1, Zenon DEF Touched
<1> QED
  BY <1>2 DEF PassType

LEMMA ChangeKeeps ==
    ASSUME Inv, NEW d \in Drivers, Change(d)
    PROVE  Inv'
<1>1. /\ CrPart /\ WorkOK /\ PassOK /\ CountOK /\ Edit /\ Touched(d)
      /\ UNCHANGED <<older, reach, rbac, object, class, work, faults>>
  BY TypeParts DEF Inv, Change, clusterVars
<1>2. SameCRs
  BY <1>1, ChangedSpec
<1>3. PassOK' /\ pass'.pc = pass.pc /\ pass'.d = pass.d
  BY <1>1, <1>2, TouchedPass DEF PassOK, SameCRs
<1>4. WorkOK' /\ CountOK'
  BY <1>1, BoundsAssumption DEF WorkOK, CountOK, Edit
<1> QED
  BY <1>1, <1>2, <1>3, <1>4, BystanderKeeps

LEMMA DeleteKeeps ==
    ASSUME Inv, NEW d \in Drivers, Delete(d)
    PROVE  Inv'
<1> USE DEF Inv, CsiInv
<1>1. /\ CrPart /\ ClusterOK /\ WorkOK /\ PassOK /\ CountOK /\ Edit /\ Touched(d)
      /\ UNCHANGED <<reach, rbac, object, class, faults>> /\ recent' = {} /\ tied' = tied
  BY TypeParts DEF Delete, clusterVars, Later
<1>2. pass' \in PassType /\ pass'.pc = pass.pc /\ pass'.d = pass.d
  BY <1>1, TouchedPass DEF PassOK
<1>3. CountOK'
  BY <1>1, BoundsAssumption DEF CountOK, Edit
<1>4. CASE ~cr[d].fin /\ Gone(d)
  BY <1>1, <1>2, <1>3, <1>4, GoneKeeps DEF Answers
<1>5. CASE cr[d].fin /\ cr' = [cr EXCEPT ![d].deleting = TRUE] /\ UNCHANGED <<older, work>>
  <2>1. /\ CrPart'
        /\ \A e \in Drivers : driverNameConflict(e)' => driverNameConflict(e)
        /\ \A e \in Drivers : Overtaken(e)' => Overtaken(e)
        /\ \A e \in Drivers : Answers(e) => Answers(e)'
    BY <1>1, <1>5, DeletingCR
  <2>2. cr[d] \in CrType
    BY <1>1 DEF CrPart
  <2>3. \A e \in Drivers : /\ cr'[e].exists = cr[e].exists /\ cr'[e].fin = cr[e].fin
                           /\ cr[e].deleting => cr'[e].deleting
    BY <1>1, <1>5, <2>2 DEF CrPart, CrType
  <2>4. PassOK' /\ WorkOK' /\ ClusterOK'
    BY <1>1, <1>2, <1>5, <2>3 DEF PassOK, WorkOK, ClusterOK
  <2>5. TypeOK'
    BY <1>3, <2>1, <2>4, TypePartsNext
  <2>6. FinInv'
    BY <1>1, <1>2, <1>5, <2>3 DEF FinInv, PassOK, TearingDown, Ensuring
  <2>7. RbacInv'
    BY <1>1, <1>2, <2>1, RbacFrame DEF Unbound
  <2>8. TurnInv' /\ PairInv'
    BY <1>1, <1>2, <1>5, <2>1, TurnFrame DEF Unregistered
  <2> QED
    BY <2>5, <2>6, <2>7, <2>8
<1> QED
  BY <1>4, <1>5 DEF Delete

LEMMA CreateKeeps ==
    ASSUME Inv, NEW d \in Drivers, Create(d)
    PROVE  Inv'
<1> USE DEF Inv, CsiInv
<1>1. /\ CrPart /\ ClusterOK /\ WorkOK /\ PassOK /\ CountOK /\ Edit /\ ~cr[d].exists
      /\ UNCHANGED <<reach, rbac, object, class, work, pass, faults>>
  BY TypeParts DEF Create, clusterVars
<1>2. /\ CrPart' /\ cr'[d] = NewCr /\ tied \subseteq tied'
      /\ \A e \in Drivers \ {d} : Overtaken(e)' => Overtaken(e)
      /\ \A e \in Drivers \ {d} : cr'[e] = cr[e] /\ (Answers(e) => Answers(e)')
      /\ tied' = {} => \A e \in Drivers \ {d} : driverNameConflict(e)' => driverNameConflict(e)
  BY <1>1, CreatedCR
<1>3. ~Answers(d) /\ work[d].owner # "cr" /\ (pass.pc # "idle" => pass.d # d)
  BY <1>1 DEF Answers, FinInv, PassOK
<1>4. WorkOK' /\ CountOK' /\ ClusterOK' /\ PassOK'
  BY <1>1, <1>2, <1>3, BoundsAssumption DEF WorkOK, CountOK, Edit, ClusterOK, PassOK
<1>5. TypeOK'
  BY <1>2, <1>4, TypePartsNext
<1>6. FinInv'
  BY <1>1, <1>2, <1>3 DEF FinInv, PassOK, TearingDown, Ensuring
<1>7. \A e \in Drivers : Answers(e) /\ ~Unbound(e) => Answers(e)' /\ ~Unbound(e)'
  BY <1>1, <1>2, <1>3 DEF Unbound
<1>8. \A e \in Drivers : Answers(e) /\ ~Unregistered(e) => Answers(e)' /\ ~Unregistered(e)'
  BY <1>1, <1>2, <1>3 DEF Unregistered
<1>9. RbacInv'
  BY <1>1, <1>7, RbacFrame
<1>10. \A e \in Drivers : cr[e].exists /\ tied' = {} /\ driverNameConflict(e)' => driverNameConflict(e)
  BY <1>1, <1>2
<1>11. TurnInv' /\ PairInv'
  BY <1>1, <1>2, <1>8, <1>10, TurnFrame
<1> QED
  BY <1>5, <1>6, <1>9, <1>11

LEMMA Inv_Inductive == Inv /\ [Next]_vars => Inv'
<1> SUFFICES ASSUME Inv, [Next]_vars PROVE Inv'
  OBVIOUS
<1>1. CASE ClusterEdit \/ SecondPasses \/ UNCHANGED vars
  <2>1. /\ CrPart /\ WorkOK /\ PassOK /\ CountOK /\ UNCHANGED <<cr, older, rbac, object, class, work, pass>>
        /\ recent' \subseteq recent /\ tied' = tied
    BY <1>1, TypeParts DEF Inv, ClusterEdit, SecondPasses, vars, crVars, clusterVars, Later
  <2>2. SameCRs /\ PassOK' /\ WorkOK'
    BY <2>1 DEF SameCRs, PassOK, WorkOK, CrPart
  <2>3. CountOK'
    <3>1. reach' \in BOOLEAN
      BY <1>1, <2>1 DEF ClusterEdit, SecondPasses, vars, CountOK
    <3>2. edits' \in 0 .. MaxEdits /\ faults' \in 0 .. MaxFaults
      BY <1>1, <2>1, BoundsAssumption DEF ClusterEdit, SecondPasses, vars, CountOK, Edit
    <3> QED
      BY <3>1, <3>2 DEF CountOK
  <2> QED
    BY <2>1, <2>2, <2>3, BystanderKeeps
<1>2. CASE PassStep
  BY <1>2, EnsureRbacKeeps, ObjectKeeps, WorkloadsKeep, ClassKeeps, StatusKeeps, UnbindKeeps,
     UnregisterKeeps, UnclassKeeps, FinalizeKeeps DEF PassStep
<1>3. ASSUME NEW d \in Drivers,
             \/ Begin(d) \/ Schedule(d) \/ PodsReady(d) \/ Collect(d) \/ NodeFails(d)
             \/ Create(d) \/ Change(d) \/ Delete(d)
      PROVE  Inv'
  BY <1>3, BeginKeeps, PodsKeep, CreateKeeps, ChangeKeeps, DeleteKeeps
<1> QED
  BY <1>1, <1>2, <1>3, FailsKeeps DEF Next

LEMMA InitialInv == Init => Inv
<1> SUFFICES ASSUME Init PROVE Inv
  OBVIOUS
<1>1. /\ NewCr.exists /\ ~NewCr.deleting /\ ~NoCr.exists /\ ~NoCr.deleting
      /\ IdlePass.pc = "idle" /\ NoWork.up = {} /\ NoWork.owner = "none"
  BY DEF NewCr, NoCr, IdlePass, NoWork
<1>2. \A d \in Drivers : cr[d] = IF d = 1 THEN NewCr ELSE NoCr
  BY DEF Init
<1>3. CrPart
  BY <1>1, <1>2, NameTypes DEF Init, CrPart
<1>4. [inst : {Admin}, prov : {DriverNameOf(1)}, params : BOOLEAN] \subseteq
         [inst : 0 .. Admin, prov : 0 .. Admin, params : BOOLEAN]
  <2>1. Admin \in 0 .. Admin /\ DriverNameOf(1) \in 0 .. Admin
    BY NameTypes, BoundsAssumption DEF Admin
  <2> QED
    BY <2>1
<1>5. ClusterOK
  <2>1. PICK c \in {NoClass} \cup [inst : {Admin}, prov : {DriverNameOf(1)}, params : BOOLEAN] :
           class = [n \in ClassNames |-> IF n = DriverNameOf(1) THEN c ELSE NoClass]
    BY DEF Init
  <2>2. c \in [inst : 0 .. Admin, prov : 0 .. Admin, params : BOOLEAN]
    BY <1>4, NameTypes
  <2>3. class \in [ClassNames -> [inst : 0 .. Admin, prov : 0 .. Admin, params : BOOLEAN]]
    BY <2>1, <2>2, NameTypes
  <2> QED
    BY <2>3, NameTypes DEF Init, ClusterOK
<1>6. WorkOK /\ PassOK /\ CountOK
  <2>1. WorkDone(NoWork)
    BY DEF NoWork, WorkDone
  <2> QED
    BY <1>1, <2>1, NameTypes, BoundsAssumption DEF Init, WorkOK, PassOK, CountOK
<1>7. TypeOK
  BY <1>3, <1>5, <1>6, TypeParts
<1>8. CsiInv
  BY <1>1, NameTypes DEF Init, CsiInv, FinInv, RbacInv, TurnInv, PairInv, Ensuring, TearingDown
<1> QED
  BY <1>7, <1>8 DEF Inv

LEMMA InvAlways == Spec => []Inv
BY InitialInv, Inv_Inductive, PTL DEF Spec

(* The state of the CSI drivers is well typed: any two CRs are ordered, no *)
(* CR is deleted without its finalizer, and no pass works on one that is   *)
(* gone.                                                                   *)
THEOREM CsiTypeCorrect == Spec => []TypeOK
<1>1. Inv => TypeOK
  BY DEF Inv
<1> QED
  BY <1>1, InvAlways, PTL

(* Of two node plugins of one driver name, for any number of CRs, one is   *)
(* that of a CR which is deleted or gone, or the CRs are tied.             *)
THEOREM OneRegistrarHolds == Spec => []OneRegistrar
<1>1. ASSUME Inv PROVE OneRegistrar
  <2> SUFFICES ASSUME NEW d \in Drivers, NEW e \in Drivers, d # e,
                      DriverNameOf(d) = DriverNameOf(e), NodePlugin(d), NodePlugin(e),
                      ~Leaving(d), ~Leaving(e), <<d, e>> \notin tied, <<e, d>> \notin tied
               PROVE  FALSE
    BY DEF OneRegistrar
  <2>1. work[d].owner = "cr" /\ work[e].owner = "cr"
    BY <1>1 DEF Inv, TypeOK, WorkType, WorkDone, NodePlugin, Leaving
  <2>2. /\ cr[d].exists /\ ~cr[d].deleting /\ cr[e].exists /\ ~cr[e].deleting
        /\ ~Overtaken(d) /\ ~Overtaken(e)
    BY <1>1, <2>1 DEF Inv, CsiInv, FinInv, PairInv, Leaving
  <2>3. <<d, e>> \in older \/ <<e, d>> \in older
    BY <1>1, <2>2 DEF Inv, TypeOK
  <2> QED
    BY <2>2, <2>3 DEF Overtaken
<1> QED
  BY <1>1, InvAlways, PTL

(* A CR that is gone has left no RBAC objects and, without ties, no        *)
(* CSIDriver object that nobody claims, wherever its last passes were cut  *)
(* short.                                                                  *)
THEOREM NothingLeftOver == Spec => []NoLeftovers
<1>1. ASSUME Inv PROVE NoLeftovers
  <2> SUFFICES ASSUME NEW d \in Drivers
               PROVE  /\ (\A e \in Drivers : cr[e].exists => NameOf(e) # NameOf(d)) =>
                            rbac[NameOf(d)] = None
                      /\ tied = {} /\ (\A e \in Drivers : cr[e].exists => DriverNameOf(e) # DriverNameOf(d)) =>
                            object[DriverNameOf(d)] = NoObject
    BY DEF NoLeftovers
  <2>1. NameOf(d) \in Drivers /\ DriverNameOf(d) \in Drivers
    BY NameTypes
  <2> QED
    BY <1>1, <2>1 DEF Inv, CsiInv, RbacInv, TurnInv, Answers
<1> QED
  BY <1>1, InvAlways, PTL
===============================================================================
