---------------------------- MODULE BackupsProofs ----------------------------
(***************************************************************************)
(* Proofs about Backups, for any number of intervals, any cron period and  *)
(* retention, a lagging cache, and any number of edits and faults; at the  *)
(* end, proofs about AdminScripts, which shares no name with Backups.      *)
(***************************************************************************)
EXTENDS Backups, AdminScripts, FiniteSetTheorems, WellFoundedInduction, TLAPS

(***************************************************************************)
(* What a CR, a Job and a pass know of each other.                         *)
(***************************************************************************)

(* The backup that a CR is about: a restore's is the one it names.         *)
Subject(c) == IF c = Restore THEN source.b ELSE c

(* The work of a CR has been done.                                         *)
Done(c) ==
    IF c = Restore THEN loaded \in files /\ loaded[2] = source.b
    ELSE \E l \in files : l[2] = c

(* The cache shows what is stored, or what was stored before. An outcome it*)
(* shows is the outcome.                                                   *)
CopyInv ==
    \A c \in CRs :
        /\ obj[c].exists => obj[c].made
        /\ ~obj[c].made => obj[c] = Absent /\ seen[c] = Absent
        /\ c \notin lag => seen[c] = obj[c]
        /\ seen[c].phase \in Terminal => obj[c].phase = seen[c].phase

(* A Job belongs to a CR that was created, and works for its subject.      *)
JobInv ==
    /\ \A c \in CRs :
         /\ job[c] # "none" => obj[c].made /\ target[c] \in Locations /\ target[c][2] = Subject(c)
         /\ job[c] = "complete" => Done(c)
    /\ loaded # NoLocation => obj[Restore].made

(* A pass that is not stale has in hand a CR that has not ended.           *)
PassSound(w) ==
    pass[w].step # "idle" =>
        LET c == pass[w].cr
        IN  /\ c \in Of(w) /\ obj[c].made
            /\ ~pass[w].stale => obj[c].phase \notin Terminal
            /\ pass[w].step = "create" => pass[w].at \in Locations /\ pass[w].at[2] = Subject(c)
            /\ pass[w].phase = "Completed" => Done(c)

PassInv == \A w \in Controllers : PassSound(w)

OutcomeInv == \A c \in CRs : obj[c].phase = "Completed" => Done(c)

WorkInv == CopyInv /\ JobInv /\ PassInv /\ OutcomeInv

(***************************************************************************)
(* What the schedule's history says.                                       *)
(***************************************************************************)
HistoryInv ==
    /\ \A b \in Slots :
         /\ obj[b].made => b <= clock
         /\ obj[b].made /\ b \notin forgotten =>
              obj[b].exists \/ \E c \in Slots : c > b /\ obj[c].made
    /\ \A b \in victims : \E c \in Slots : c > b /\ obj[c].made

(* The backups that a tick has found superfluous still are.                *)
VictimInv ==
    \A b \in victims : b \in Ended /\ Cardinality({c \in Ended : c > b}) >= Keep
-----------------------------------------------------------------------------
(* The names of the CRs are numbers, and the restore's is none of a backup.*)
LEMMA Names ==
    /\ CRs \subseteq Nat /\ Slots \subseteq Backup /\ Backup \subseteq CRs
    /\ Restore \in CRs /\ Restore \notin Backup /\ OnDemand \in Backup /\ OnDemand \notin Slots
    /\ \A w \in Controllers : Of(w) \subseteq CRs
    /\ \A c \in Of("backup") : c \notin Of("restore")
    /\ Controllers = {"backup", "restore"}
BY TimeAssumption DEF CRs, Slots, Backup, Restore, OnDemand, Of, Controllers

(* A non-empty set of slots has a largest one.                             *)
LEMMA MaxSlot ==
    ASSUME NEW S \in SUBSET Slots, S # {}
    PROVE  Max(S) \in S /\ \A y \in S : y <= Max(S)
<1> DEFINE T == {n \in Nat : \E x \in S : n = MaxClock - x}
           R == OpToRel(<, Nat)
<1>0. \A y \in S : MaxClock - y \in Nat /\ y \in Int
  BY TimeAssumption DEF Slots
<1>1. T \subseteq Nat /\ T # {}
  <2>1. PICK x \in S : TRUE
    OBVIOUS
  <2>2. MaxClock - x \in T
    BY <1>0, <2>1
  <2> QED
    BY <2>2
<1>2. IsWellFoundedOn(R, Nat)
  BY NatLessThanWellFounded
<1>3. PICK n \in T : \A m \in T : ~(<<m, n>> \in R)
  <2> HIDE DEF T, R
  <2> QED
    BY <1>1, <1>2, WFMin
<1>4. \A m \in T : ~(m < n)
  BY <1>3 DEF OpToRel
<1>5. PICK x \in S : n = MaxClock - x
  BY <1>3
<1>6. \A y \in S : MaxClock - y \in T
  BY <1>0
<1>7. \A y \in S : x >= y
  BY <1>0, <1>4, <1>5, <1>6, TimeAssumption
<1>8. \E z \in S : \A y \in S : z >= y
  BY <1>7
<1>9. Max(S) \in S /\ \A y \in S : Max(S) >= y
  BY <1>8, Zenon DEF Max
<1> QED
  BY <1>0, <1>9

(* Cron times do not come earlier after a later time.                      *)
LEMMA NextSlotMonotone ==
    ASSUME NEW t \in Nat, NEW u \in Nat, t <= u
    PROVE  NextSlot(t) <= NextSlot(u) /\ NextSlot(t) \in Nat /\ NextSlot(u) \in Nat
<1> DEFINE q == t \div Period
           r == u \div Period
<1>1. q \in Nat /\ r \in Nat /\ Period \in Nat
  BY TimeAssumption
<1>2. q <= r
  BY TimeAssumption
<1>3. (q + 1) * Period <= (r + 1) * Period
  <2> HIDE DEF q, r
  <2> QED
    BY <1>1, <1>2, TimeAssumption
<1>4. (q + 1) * Period \in Nat /\ (r + 1) * Period \in Nat
  <2> HIDE DEF q, r
  <2> QED
    BY <1>1, TimeAssumption
<1> QED
  BY <1>3, <1>4 DEF NextSlot
-----------------------------------------------------------------------------
(* The two ways a write of a CR reaches the cache: now, or later.          *)
LEMMA PutEffect ==
    ASSUME TypeOK, NEW c \in CRs, NEW o \in CrType, Put(c, o)
    PROVE  /\ obj' \in [CRs -> CrType] /\ seen' \in [CRs -> CrType] /\ lag' \subseteq CRs
           /\ obj'[c] = o /\ \A d \in CRs \ {c} : obj'[d] = obj[d] /\ seen'[d] = seen[d]
           /\ \A d \in CRs \ {c} : d \in lag' <=> d \in lag
           /\ \/ c \notin lag' /\ seen'[c] = o
              \/ c \in lag' /\ seen'[c] = seen[c]
<1>1. obj' = [obj EXCEPT ![c] = o]
  BY DEF Put
<1>2. CASE seen' = [seen EXCEPT ![c] = o] /\ lag' = lag \ {c}
  BY <1>1, <1>2 DEF TypeOK
<1>3. CASE seen' = seen /\ lag' = lag \cup {c}
  BY <1>1, <1>3 DEF TypeOK
<1> QED
  BY <1>2, <1>3 DEF Put

(* A write that keeps an outcome, of a CR that was made, keeps CopyInv.    *)
LEMMA PutKeepsCopies ==
    ASSUME TypeOK, CopyInv, NEW c \in CRs, NEW o \in CrType, Put(c, o),
           o.made, obj[c].phase \in Terminal => o.phase = obj[c].phase
    PROVE  CopyInv'
<1> SUFFICES ASSUME NEW d \in CRs
             PROVE  /\ obj'[d].exists => obj'[d].made
                    /\ ~obj'[d].made => obj'[d] = Absent /\ seen'[d] = Absent
                    /\ d \notin lag' => seen'[d] = obj'[d]
                    /\ seen'[d].phase \in Terminal => obj'[d].phase = seen'[d].phase
  BY DEF CopyInv
<1>1. CASE d # c
  BY <1>1, PutEffect DEF CopyInv
<1>2. CASE d = c
  BY <1>2, PutEffect DEF CopyInv
<1> QED
  BY <1>1, <1>2

(* What a script was written for is a location of its subject.             *)
LEMMA Scripts ==
    ASSUME TypeOK
    PROVE  /\ \A b \in Backup : snapshotScript(b) \in Locations /\ snapshotScript(b)[2] = b
           /\ restoreScript \in Locations /\ restoreScript[2] = source.b
<1>1. \A k \in {"pvc", "reserved", "given"}, b \in Backup :
         <<k, b>> \in Locations /\ <<k, b>>[2] = b
  BY DEF Locations
<1>2. source.b \in Backup
  BY DEF TypeOK
<1> QED
  BY <1>1, <1>2 DEF snapshotScript, restoreScript

LEMMA NoLocationIsNone == NoLocation \notin Locations
BY DEF NoLocation, Locations

(* Work that is done stays done.                                           *)
LEMMA DoneStays ==
    ASSUME NEW c, Done(c), files \subseteq files', UNCHANGED <<loaded, source>>
    PROVE  Done(c)'
BY DEF Done

(* Passes, Jobs and CRs that are left alone.                               *)
LEMMA WorkFrame ==
    ASSUME WorkInv, UNCHANGED <<crVars, source, jobVars, pass>>
    PROVE  WorkInv'
BY DEF WorkInv, CopyInv, JobInv, PassInv, PassSound, OutcomeInv, Done, Subject, crVars, jobVars

New == [made |-> TRUE, exists |-> TRUE, phase |-> "none"]

(* A CR is created: nothing is known of it yet, so a restore may name any  *)
(* backup.                                                                 *)
LEMMA CreationKeepsWork ==
    ASSUME TypeOK, WorkInv, NEW c \in CRs, ~obj[c].made, Put(c, New),
           UNCHANGED <<jobVars, pass>>, c # Restore => source' = source
    PROVE  WorkInv'
<1> USE DEF WorkInv, jobVars
<1>0. New \in CrType /\ New.made /\ obj[c].phase = "none" /\ New.phase = "none"
  BY DEF New, CrType, Phases, CopyInv, Absent
<1>1. CopyInv'
  BY <1>0, PutKeepsCopies DEF Terminal
<1>2. \A d \in CRs : obj[d].made => obj'[d] = obj[d] /\ obj'[d].made
  BY <1>0, PutEffect
<1>3. \A d \in CRs : d # Restore \/ obj[Restore].made => Subject(d)' = Subject(d) /\ Done(d)' = Done(d)
  BY DEF Subject, Done
<1>4. ~obj[Restore].made => loaded = NoLocation /\ job[Restore] = "none"
  BY Names DEF JobInv
<1>5. JobInv'
  BY <1>2, <1>3, <1>4, Names DEF JobInv
<1>6. PassInv'
  <2> SUFFICES ASSUME NEW w \in Controllers, pass[w].step # "idle"
               PROVE  LET d == pass[w].cr
                      IN  /\ d \in Of(w) /\ obj'[d].made
                          /\ ~pass[w].stale => obj'[d].phase \notin Terminal
                          /\ pass[w].step = "create" =>
                               pass[w].at \in Locations /\ pass[w].at[2] = Subject(d)'
                          /\ pass[w].phase = "Completed" => Done(d)'
    BY DEF PassInv, PassSound
  <2>1. pass[w].cr \in CRs /\ obj[pass[w].cr].made
    BY Names DEF PassInv, PassSound
  <2>2. Subject(pass[w].cr)' = Subject(pass[w].cr) /\ Done(pass[w].cr)' = Done(pass[w].cr)
    BY <1>3, <2>1
  <2> QED
    BY <1>2, <2>1, <2>2 DEF PassInv, PassSound
<1>7. OutcomeInv'
  <2> SUFFICES ASSUME NEW d \in CRs, obj'[d].phase = "Completed" PROVE Done(d)'
    BY DEF OutcomeInv
  <2>1. d # c
    BY <1>0, PutEffect
  <2>2. obj'[d] = obj[d]
    BY <1>0, <2>1, PutEffect
  <2>3. obj[d].made
    BY <2>2 DEF CopyInv, Absent
  <2> QED
    BY <1>3, <2>2, <2>3 DEF OutcomeInv
<1> QED
  BY <1>1, <1>5, <1>6, <1>7

(* Losing a Job takes nothing back.                                        *)
LEMMA NoJobKeepsWork ==
    ASSUME TypeOK, JobInv, OutcomeInv, NEW c \in CRs, NoJob(c), source' = source,
           \A d \in CRs : obj'[d].made = obj[d].made
    PROVE  JobInv' /\ (\A d : Done(d)' = Done(d)) /\ (\A d : Subject(d)' = Subject(d))
<1>1. \A d : Done(d)' = Done(d) /\ Subject(d)' = Subject(d)
  BY DEF NoJob, Done, Subject
<1>2. job'[c] = "none" /\ \A d \in CRs \ {c} : job'[d] = job[d] /\ target'[d] = target[d]
  BY DEF NoJob, TypeOK
<1>3. loaded' = loaded
  BY DEF NoJob
<1> QED
  BY <1>1, <1>2, <1>3, Names DEF JobInv

(* A CR is deleted, and its Job with it.                                   *)
LEMMA RemovalKeepsWork ==
    ASSUME TypeOK, WorkInv, NEW c \in CRs, obj[c].exists, Remove(c), source' = source
    PROVE  WorkInv'
<1> USE DEF WorkInv
<1> DEFINE o == [obj[c] EXCEPT !.exists = FALSE]
<1>0. o \in CrType /\ o.made = obj[c].made /\ o.phase = obj[c].phase /\ obj[c].made /\ Put(c, o)
  BY DEF TypeOK, CrType, CopyInv, Remove
<1> HIDE DEF o
<1>1. CopyInv'
  BY <1>0, PutKeepsCopies
<1>2. \A d \in CRs : obj'[d].made = obj[d].made /\ obj'[d].phase = obj[d].phase
  BY <1>0, PutEffect
<1>3. JobInv' /\ (\A d : Done(d)' = Done(d)) /\ (\A d : Subject(d)' = Subject(d))
  BY <1>2, NoJobKeepsWork DEF Remove
<1>4. \A w \in Controllers :
         /\ pass'[w].step = pass[w].step /\ pass'[w].cr = pass[w].cr
         /\ pass'[w].phase = pass[w].phase /\ pass'[w].at = pass[w].at
         /\ pass[w].stale => pass'[w].stale
  <2> SUFFICES ASSUME NEW w \in Controllers
               PROVE  /\ pass'[w].step = pass[w].step /\ pass'[w].cr = pass[w].cr
                      /\ pass'[w].phase = pass[w].phase /\ pass'[w].at = pass[w].at
                      /\ pass[w].stale => pass'[w].stale
    OBVIOUS
  <2>1. PICK s : s = (pass[w].stale \/ (pass[w].step # "idle" /\ pass[w].cr = c))
    OBVIOUS
  <2>2. pass'[w] = [pass[w] EXCEPT !.stale = s]
    BY <2>1, Zenon DEF Remove
  <2>3. pass[w] \in PassType
    BY DEF TypeOK
  <2>4. pass'[w].stale = s
    BY <2>2, <2>3 DEF PassType
  <2>5. pass[w].stale => pass'[w].stale
    BY <2>1, <2>4, Zenon
  <2> QED
    BY <2>2, <2>3, <2>5 DEF PassType
<1>5. PassInv'
  <2> SUFFICES ASSUME NEW w \in Controllers, pass'[w].step # "idle", NEW d, d = pass'[w].cr
               PROVE  /\ d \in Of(w) /\ obj'[d].made
                      /\ ~pass'[w].stale => obj'[d].phase \notin Terminal
                      /\ pass'[w].step = "create" =>
                           pass'[w].at \in Locations /\ pass'[w].at[2] = Subject(d)'
                      /\ pass'[w].phase = "Completed" => Done(d)'
    BY Zenon DEF PassInv, PassSound
  <2>1. d = pass[w].cr /\ pass[w].step # "idle"
    BY <1>4
  <2>2. /\ d \in Of(w) /\ obj[d].made
        /\ ~pass[w].stale => obj[d].phase \notin Terminal
        /\ pass[w].step = "create" => pass[w].at \in Locations /\ pass[w].at[2] = Subject(d)
        /\ pass[w].phase = "Completed" => Done(d)
    BY <2>1, Zenon DEF PassInv, PassSound
  <2>3. d \in CRs
    BY <2>2, Names
  <2>4. obj'[d].made /\ (~pass'[w].stale => obj'[d].phase \notin Terminal)
    BY <1>2, <1>4, <2>2, <2>3
  <2>5. pass'[w].step = "create" => pass'[w].at \in Locations /\ pass'[w].at[2] = Subject(d)'
    BY <1>3, <1>4, <2>2
  <2>6. pass'[w].phase = "Completed" => Done(d)'
    BY <1>3, <1>4, <2>2
  <2> QED
    BY <2>2, <2>4, <2>5, <2>6
<1>6. OutcomeInv'
  BY <1>2, <1>3 DEF OutcomeInv
<1> QED
  BY <1>1, <1>3, <1>5, <1>6

(* The head of a pass: what it concludes from a finished Job is true, and  *)
(* if its copy is not stale the CR is still open.                          *)
LEMMA BeginKeepsWork ==
    ASSUME TypeOK, WorkInv, NEW w \in Controllers, NEW c \in Of(w), NEW at \in Locations,
           at[2] = Subject(c), Begin(w, c, at)
    PROVE  WorkInv'
<1> USE DEF WorkInv
<1>1. /\ UNCHANGED <<obj, seen, lag, source, job, target, files, loaded>>
      /\ seen[c].exists /\ seen[c].phase \notin Terminal
  BY DEF Begin, Queued, crVars, jobVars
<1>2. c \in CRs /\ obj[c].made
  BY <1>1, Names DEF CopyInv, Absent
<1>3. pass' = [pass EXCEPT ![w] =
                 [step  |-> IF Resolved(w) /\ job[c] = "none" THEN "create" ELSE "status",
                  cr    |-> c,
                  stale |-> c \in lag,
                  phase |-> IF Resolved(w) THEN Reflection(c) ELSE "Pending",
                  at    |-> IF Resolved(w) /\ job[c] = "none" THEN at ELSE NoLocation]]
  BY DEF Begin
<1>4. /\ pass'[w].cr = c /\ (~pass'[w].stale => c \notin lag)
      /\ pass'[w].step = "create" => pass'[w].at = at
      /\ pass'[w].phase = "Completed" => job[c] = "complete"
  BY <1>3 DEF TypeOK, Reflection
<1>5. \A v \in Controllers \ {w} : pass'[v] = pass[v]
  BY <1>3 DEF TypeOK
<1>6. CopyInv' /\ JobInv' /\ OutcomeInv' /\ (\A d : Done(d)' = Done(d)) /\ (\A d : Subject(d)' = Subject(d))
  BY <1>1 DEF CopyInv, JobInv, OutcomeInv, Done, Subject
<1>7. PassInv'
  <2>1. ~pass'[w].stale => obj[c].phase \notin Terminal
    BY <1>1, <1>2, <1>4 DEF CopyInv
  <2>2. pass'[w].phase = "Completed" => Done(c)
    BY <1>2, <1>4 DEF JobInv
  <2> QED
    BY <1>1, <1>2, <1>4, <1>5, <1>6, <2>1, <2>2 DEF PassInv, PassSound
<1> QED
  BY <1>6, <1>7

(* A pass is not disturbed by what happens to other CRs, by more work that *)
(* is done, or by ending.                                                  *)
LEMMA PassFrame ==
    ASSUME PassInv, source' = source, NEW w \in Controllers,
           pass'[w].step = "idle" \/ pass'[w] = pass[w],
           \A d \in Of(w) : obj'[d] = obj[d] /\ (Done(d) => Done(d)')
    PROVE  PassSound(w)'
<1> SUFFICES ASSUME pass'[w].step # "idle", NEW d, d = pass'[w].cr
             PROVE  /\ d \in Of(w) /\ obj'[d].made
                    /\ ~pass'[w].stale => obj'[d].phase \notin Terminal
                    /\ pass'[w].step = "create" =>
                         pass'[w].at \in Locations /\ pass'[w].at[2] = Subject(d)'
                    /\ pass'[w].phase = "Completed" => Done(d)'
  BY Zenon DEF PassSound
<1>1. /\ d \in Of(w) /\ obj[d].made
      /\ ~pass[w].stale => obj[d].phase \notin Terminal
      /\ pass[w].step = "create" => pass[w].at \in Locations /\ pass[w].at[2] = Subject(d)
      /\ pass[w].phase = "Completed" => Done(d)
  BY Zenon DEF PassInv, PassSound
<1>2. Subject(d)' = Subject(d)
  BY DEF Subject
<1> QED
  BY <1>1, <1>2

(* The Job is created for the location that the pass has worked out.       *)
LEMMA CreateJobKeepsWork ==
    ASSUME TypeOK, WorkInv, NEW w \in Controllers, CreateJob(w)
    PROVE  WorkInv'
<1> USE DEF WorkInv
<1> DEFINE c == pass[w].cr
<1>1. UNCHANGED <<obj, seen, lag, source, files, loaded>> /\ pass[w].step = "create"
  BY DEF CreateJob, crVars
<1>2. /\ c \in Of(w) /\ c \in CRs /\ obj[c].made
      /\ ~pass[w].stale => obj[c].phase \notin Terminal
      /\ pass[w].at \in Locations /\ pass[w].at[2] = Subject(c)
      /\ pass[w].phase = "Completed" => Done(c)
  BY <1>1, Names DEF PassInv, PassSound
<1>3. /\ pass'[w].step = "status" /\ pass'[w].cr = c /\ pass'[w].stale = pass[w].stale
      /\ pass'[w].phase = pass[w].phase
      /\ \A v \in Controllers \ {w} : pass'[v] = pass[v]
  BY DEF CreateJob, TypeOK, PassType
<1>4. /\ \A d \in CRs \ {c} : job'[d] = job[d] /\ target'[d] = target[d]
      /\ \/ job'[c] = "active" /\ target'[c] = pass[w].at
         \/ job'[c] = job[c] /\ target'[c] = target[c]
  BY <1>2 DEF CreateJob, TypeOK
<1> HIDE DEF c
<1>5. (\A d : Done(d)' = Done(d)) /\ (\A d : Subject(d)' = Subject(d))
  BY <1>1 DEF Done, Subject
<1>6. CopyInv' /\ OutcomeInv'
  BY <1>1, <1>5 DEF CopyInv, OutcomeInv
<1>7. JobInv'
  BY <1>1, <1>2, <1>4, <1>5, Names DEF JobInv
<1>8. PassSound(w)'
  BY <1>1, <1>2, <1>3, <1>5 DEF PassSound
<1>9. \A v \in Controllers \ {w} : PassSound(v)'
  BY <1>1, <1>3, <1>5, PassFrame
<1> QED
  BY <1>6, <1>7, <1>8, <1>9 DEF PassInv

(* The status is written, or rejected because the copy is old. What is     *)
(* written has happened, and no outcome is overwritten.                    *)
LEMMA WriteStatusKeepsWork ==
    ASSUME TypeOK, WorkInv, NEW w \in Controllers, WriteStatus(w)
    PROVE  WorkInv'
<1> USE DEF WorkInv
<1> DEFINE c == pass[w].cr
           o == [obj[c] EXCEPT !.phase = pass[w].phase]
<1>1. /\ UNCHANGED <<source, job, target, files, loaded>> /\ pass[w].step = "status"
      /\ pass'[w].step = "idle" /\ \A v \in Controllers \ {w} : pass'[v] = pass[v]
  BY DEF WriteStatus, jobVars, Idle, TypeOK
<1>2. /\ c \in Of(w) /\ c \in CRs /\ obj[c].made
      /\ ~pass[w].stale => obj[c].phase \notin Terminal
      /\ pass[w].phase = "Completed" => Done(c)
  BY <1>1, Names DEF PassInv, PassSound
<1>3. o \in CrType /\ o.made /\ o.phase = pass[w].phase
  BY <1>2 DEF TypeOK, CrType, PassType
<1>4. (\A d : Done(d)' = Done(d)) /\ (\A d : Subject(d)' = Subject(d))
  BY <1>1 DEF Done, Subject
<1>5. CASE pass[w].stale
  <2>1. UNCHANGED <<obj, seen, lag>>
    BY <1>5 DEF WriteStatus, crVars
  <2>2. CopyInv' /\ OutcomeInv' /\ JobInv'
    BY <1>1, <1>4, <2>1 DEF CopyInv, OutcomeInv, JobInv
  <2>3. \A v \in Controllers : PassSound(v)'
    BY <1>1, <1>4, <2>1, PassFrame
  <2> QED
    BY <2>2, <2>3 DEF PassInv
<1>6. CASE ~pass[w].stale
  <2>1. Put(c, o)
    BY <1>6 DEF WriteStatus
  <2> HIDE DEF o, c
  <2>2. obj'[c] = o /\ \A d \in CRs \ {c} : obj'[d] = obj[d]
    BY <1>2, <1>3, <2>1, PutEffect
  <2>3. CopyInv'
    BY <1>2, <1>3, <1>6, <2>1, PutKeepsCopies
  <2>4. JobInv'
    BY <1>1, <1>2, <1>3, <1>4, <2>2, Names DEF JobInv
  <2>5. OutcomeInv'
    BY <1>2, <1>3, <1>4, <2>2 DEF OutcomeInv
  <2>6. PassSound(w)'
    BY <1>1 DEF PassSound
  <2>7. ASSUME NEW v \in Controllers \ {w} PROVE PassSound(v)'
    <3>1. \A d \in Of(v) : d \in CRs /\ d # c
      BY <1>2, Names
    <3> QED
      BY <1>1, <1>4, <2>2, <3>1, PassFrame
  <2> QED
    BY <2>3, <2>4, <2>5, <2>6, <2>7 DEF PassInv
<1> QED
  BY <1>5, <1>6

(* A Job that ends well has done the work of its CR.                       *)
LEMMA JobEndsKeepsWork ==
    ASSUME TypeOK, WorkInv, NEW c \in CRs, JobEnds(c)
    PROVE  WorkInv' /\ files' \subseteq Locations /\ loaded' \in Locations \cup {NoLocation}
           /\ job' \in [CRs -> {"none", "active", "complete", "failed"}]
<1> USE DEF WorkInv
<1>1. UNCHANGED <<obj, seen, lag, source, target, pass>> /\ job[c] = "active"
  BY DEF JobEnds, crVars
<1>2. obj[c].made /\ target[c] \in Locations /\ target[c][2] = Subject(c)
  BY <1>1 DEF JobInv
<1>3. \A d \in CRs \ {c} : job'[d] = job[d]
  BY DEF JobEnds, TypeOK
<1>4. /\ files \subseteq files' /\ files' \subseteq files \cup {target[c]}
      /\ loaded' = loaded \/ (c = Restore /\ loaded' = target[c] /\ target[c] \in files)
      /\ \/ job'[c] = "failed"
         \/ c \in Backup /\ job'[c] = "complete" /\ target[c] \in files'
         \/ c = Restore /\ job'[c] = "complete" /\ loaded' = target[c] /\ target[c] \in files'
  BY DEF JobEnds, TypeOK
<1>5. \A d : Subject(d)' = Subject(d)
  BY <1>1 DEF Subject
<1>6. \A d : Done(d) => Done(d)'
  BY <1>1, <1>2, <1>4 DEF Done, Subject
<1>7. job'[c] = "complete" => Done(c)'
  BY <1>1, <1>2, <1>4, Names DEF Done, Subject
<1>8. CopyInv'
  BY <1>1 DEF CopyInv
<1>9. JobInv'
  <2>1. \A d \in CRs : job'[d] # "none" => job[d] # "none"
    BY <1>1, <1>3
  <2>2. \A d \in CRs : job'[d] = "complete" => Done(d)'
    BY <1>3, <1>6, <1>7 DEF JobInv
  <2>3. loaded' # NoLocation => obj[Restore].made
    BY <1>2, <1>4 DEF JobInv
  <2> QED
    BY <1>1, <1>5, <2>1, <2>2, <2>3 DEF JobInv
<1>10. PassInv'
  BY <1>1, <1>6, PassFrame DEF PassInv
<1>11. OutcomeInv'
  BY <1>1, <1>6 DEF OutcomeInv
<1>12. job' \in [CRs -> {"none", "active", "complete", "failed"}]
  BY DEF JobEnds, TypeOK
<1>13. files' \subseteq Locations /\ loaded' \in Locations \cup {NoLocation}
  BY <1>2, <1>4 DEF TypeOK
<1> QED
  BY <1>8, <1>9, <1>10, <1>11, <1>12, <1>13

(* The cache catches up with one CR.                                       *)
LEMMA CacheSyncKeepsWork ==
    ASSUME TypeOK, WorkInv, NEW c \in CRs, CacheSync(c)
    PROVE  WorkInv'
<1> USE DEF WorkInv
<1>1. UNCHANGED <<obj, source, job, target, files, loaded, pass>>
  BY DEF CacheSync, jobVars
<1>2. seen'[c] = obj[c] /\ \A d \in CRs \ {c} : seen'[d] = seen[d] /\ (d \in lag' <=> d \in lag)
  BY DEF CacheSync, TypeOK
<1>3. CopyInv'
  BY <1>1, <1>2 DEF CopyInv
<1>4. (\A d : Done(d)' = Done(d)) /\ (\A d : Subject(d)' = Subject(d))
  BY <1>1 DEF Done, Subject
<1>5. JobInv' /\ OutcomeInv'
  BY <1>1, <1>4 DEF JobInv, OutcomeInv
<1>6. PassInv'
  BY <1>1, <1>4, PassFrame DEF PassInv
<1> QED
  BY <1>3, <1>5, <1>6

(* Passes that end leave nothing behind.                                   *)
LEMMA PassEndsKeepsWork ==
    ASSUME WorkInv, UNCHANGED <<crVars, source, jobVars>>,
           \A w \in Controllers : pass'[w].step = "idle" \/ pass'[w] = pass[w]
    PROVE  WorkInv'
<1> USE DEF WorkInv, crVars, jobVars
<1>1. (\A d : Done(d)' = Done(d)) /\ (\A d : Subject(d)' = Subject(d))
  BY DEF Done, Subject
<1>2. CopyInv' /\ JobInv' /\ OutcomeInv'
  BY <1>1 DEF CopyInv, JobInv, OutcomeInv
<1>3. PassInv'
  BY <1>1, PassFrame DEF PassInv
<1> QED
  BY <1>2, <1>3

(* A Job vanishes that a controller still looks at.                        *)
LEMMA JobVanishesKeepsWork ==
    ASSUME TypeOK, WorkInv, NEW c \in CRs, JobVanishes(c)
    PROVE  WorkInv'
<1> USE DEF WorkInv
<1>1. UNCHANGED <<obj, seen, lag, source, pass>> /\ NoJob(c)
  BY DEF JobVanishes, crVars
<1>2. JobInv' /\ (\A d : Done(d)' = Done(d)) /\ (\A d : Subject(d)' = Subject(d))
  BY <1>1, NoJobKeepsWork
<1>3. CopyInv' /\ OutcomeInv'
  BY <1>1, <1>2 DEF CopyInv, OutcomeInv
<1>4. PassInv'
  BY <1>1, <1>2, PassFrame DEF PassInv
<1> QED
  BY <1>2, <1>3, <1>4

(* Every step keeps what CRs, Jobs and passes know of each other.          *)
LEMMA WorkInv_Inductive ==
    ASSUME TypeOK, WorkInv, [Next]_vars
    PROVE  WorkInv'
<1>1. CASE Tick
  <2>1. UNCHANGED <<source, jobVars, pass>>
    BY <1>1 DEF Tick
  <2>2. UNCHANGED crVars \/ (~obj[clock].made /\ Put(clock, New))
    BY <1>1 DEF Tick, Create, New
  <2>3. clock \in CRs /\ clock # Restore
    BY Names DEF TypeOK
  <2> QED
    BY <2>1, <2>2, <2>3, WorkFrame, CreationKeepsWork
<1>2. CASE TickFails \/ PruneFails \/ Advance \/ ClusterChanges \/ UNCHANGED vars
  BY <1>2, WorkFrame DEF TickFails, PruneFails, Advance, ClusterChanges, vars
<1>3. CASE Prune
  <2>1. Max(victims) \in CRs /\ source' = source
    BY <1>3, MaxSlot, Names DEF Prune, TypeOK
  <2>2. CASE obj[Max(victims)].exists
    BY <1>3, <2>1, <2>2, RemovalKeepsWork DEF Prune
  <2>3. CASE ~obj[Max(victims)].exists
    BY <1>3, <2>1, <2>3, WorkFrame DEF Prune
  <2> QED
    BY <2>2, <2>3
<1>4. ASSUME NEW b \in Backup, BackupReconcile(b) PROVE WorkInv'
  BY <1>4, Scripts, BeginKeepsWork, Names DEF BackupReconcile, Subject, Of
<1>5. CASE RestoreReconcile
  BY <1>5, Scripts, BeginKeepsWork, Names DEF RestoreReconcile, Subject, Of
<1>6. ASSUME NEW w \in Controllers, CreateJob(w) \/ WriteStatus(w) PROVE WorkInv'
  BY <1>6, CreateJobKeepsWork, WriteStatusKeepsWork
<1>7. ASSUME NEW w \in Controllers, PassFails(w) PROVE WorkInv'
  BY <1>7, PassEndsKeepsWork DEF PassFails, TypeOK, Idle
<1>8. CASE Restart
  BY <1>8, PassEndsKeepsWork DEF Restart, Idle
<1>9. ASSUME NEW c \in CRs, JobEnds(c) \/ CacheSync(c) PROVE WorkInv'
  BY <1>9, JobEndsKeepsWork, CacheSyncKeepsWork
<1>10. CASE UserBacksUp
  BY <1>10, CreationKeepsWork, Names DEF UserBacksUp, New
<1>11. ASSUME NEW b \in Backup, NEW by \in {"backup", "path"}, UserRestores(b, by) PROVE WorkInv'
  BY <1>11, CreationKeepsWork, Names DEF UserRestores, New
<1>12. ASSUME NEW c \in CRs, UserDeletes(c) \/ JobVanishes(c) PROVE WorkInv'
  BY <1>12, RemovalKeepsWork, JobVanishesKeepsWork DEF UserDeletes
<1> QED
  BY <1>1, <1>2, <1>3, <1>4, <1>5, <1>6, <1>7, <1>8, <1>9, <1>10, <1>11, <1>12
     DEF Next, Scheduler, Reconciler, Surroundings, People
-----------------------------------------------------------------------------
(* The types that deleting a CR touches.                                   *)
LEMMA RemovalTypes ==
    ASSUME TypeOK, NEW c \in CRs, Remove(c)
    PROVE  /\ obj' \in [CRs -> CrType] /\ seen' \in [CRs -> CrType] /\ lag' \subseteq CRs
           /\ job' \in [CRs -> {"none", "active", "complete", "failed"}]
           /\ target' \in [CRs -> Locations \cup {NoLocation}]
           /\ UNCHANGED <<files, loaded>> /\ pass' \in [Controllers -> PassType]
<1>1. [obj[c] EXCEPT !.exists = FALSE] \in CrType
  <2>1. obj[c] \in CrType
    BY DEF TypeOK
  <2> QED
    BY <2>1 DEF CrType
<1>2. obj' \in [CRs -> CrType] /\ seen' \in [CRs -> CrType] /\ lag' \subseteq CRs
  BY <1>1, PutEffect DEF Remove
<1>3. /\ job' \in [CRs -> {"none", "active", "complete", "failed"}]
      /\ target' \in [CRs -> Locations \cup {NoLocation}] /\ UNCHANGED <<files, loaded>>
  BY DEF Remove, NoJob, TypeOK
<1>4. ASSUME NEW w \in Controllers
      PROVE  [pass[w] EXCEPT !.stale = @ \/ (pass[w].step # "idle" /\ pass[w].cr = c)] \in PassType
  <2>1. PICK s \in BOOLEAN : s = (pass[w].stale \/ (pass[w].step # "idle" /\ pass[w].cr = c))
    OBVIOUS
  <2>2. [pass[w] EXCEPT !.stale = s] \in PassType
    BY DEF TypeOK, PassType
  <2> QED
    BY <2>1, <2>2, Zenon
<1>5. pass' \in [Controllers -> PassType]
  BY <1>4, Zenon DEF Remove
<1> QED
  BY <1>2, <1>3, <1>5

(* The outcome a Job stands for is a phase.                                *)
LEMMA BeginTypes ==
    ASSUME TypeOK, NEW w \in Controllers, NEW c \in CRs, NEW at \in Locations, Begin(w, c, at)
    PROVE  TypeOK'
<1>1. pass' \in [Controllers -> PassType]
  BY DEF TypeOK, Begin, PassType, Reflection, Phases
<1> QED
  BY <1>1 DEF TypeOK, Begin, crVars, jobVars, schedVars

(* The variables keep their types; a Job writes to a location of its CR.   *)
LEMMA TypeOK_Inductive ==
    ASSUME TypeOK, WorkInv, [Next]_vars
    PROVE  TypeOK'
<1> USE DEF crVars, jobVars, schedVars
<1>0. New \in CrType /\ Idle \in PassType
  BY Names DEF New, CrType, Phases, Idle, PassType
<1>1. LastRun \in 1 .. MaxClock /\ Prunable(listScheduleBackups) \subseteq Slots
  <2>1. listScheduleBackups \subseteq Slots /\ Prunable(listScheduleBackups) \subseteq listScheduleBackups
    BY DEF listScheduleBackups, Prunable
  <2>2. listScheduleBackups # {} => Max(listScheduleBackups) \in Slots
    BY <2>1, MaxSlot
  <2>3. clock \in Slots /\ (anchor # 0 => anchor \in Slots)
    BY TimeAssumption DEF TypeOK, Slots
  <2>4. LastRun \in Slots
    BY <2>2, <2>3 DEF LastRun
  <2> QED
    BY <2>1, <2>4 DEF Slots
<1>2. CASE Tick
  <2>1. obj' \in [CRs -> CrType] /\ seen' \in [CRs -> CrType] /\ lag' \subseteq CRs
    <3>1. UNCHANGED <<obj, seen, lag>> \/ Put(clock, New)
      BY <1>2 DEF Tick, Create, New
    <3>2. clock \in CRs
      BY Names DEF TypeOK
    <3> QED
      BY <1>0, <3>1, <3>2, PutEffect DEF TypeOK
  <2>2. anchor' \in 0 .. MaxClock /\ victims' \subseteq Slots /\ forgotten' \subseteq Slots
    BY <1>1, <1>2, TimeAssumption DEF Tick, TypeOK, Missed
  <2> QED
    BY <1>2, <2>1, <2>2 DEF Tick, TypeOK
<1>3. CASE TickFails
  <2>1. anchor' \in 0 .. MaxClock /\ faults' \in 0 .. MaxFaults
    BY <1>1, <1>3, TimeAssumption, BoundsAssumption DEF TickFails, Fault, TypeOK
  <2> QED
    BY <1>3, <2>1 DEF TickFails, TypeOK
<1>4. CASE Prune
  <2>1. Max(victims) \in CRs
    BY <1>4, MaxSlot, Names DEF Prune, TypeOK
  <2>2. CASE obj[Max(victims)].exists
    BY <1>4, <2>1, <2>2, RemovalTypes DEF Prune, TypeOK
  <2>3. CASE ~obj[Max(victims)].exists
    BY <1>4, <2>3 DEF Prune, TypeOK
  <2> QED
    BY <2>2, <2>3
<1>5. CASE PruneFails
  BY <1>5, BoundsAssumption DEF PruneFails, Fault, TypeOK
<1>6. ASSUME NEW b \in Backup, BackupReconcile(b) PROVE TypeOK'
  BY <1>6, Scripts, BeginTypes, Names DEF BackupReconcile
<1>7. CASE RestoreReconcile
  BY <1>7, Scripts, BeginTypes, Names DEF RestoreReconcile
<1>8. ASSUME NEW w \in Controllers, CreateJob(w) PROVE TypeOK'
  <2>1. pass[w] \in PassType
    BY DEF TypeOK
  <2>2. pass' \in [Controllers -> PassType]
    <3>1. [pass[w] EXCEPT !.step = "status", !.at = NoLocation] \in PassType
      BY <2>1 DEF PassType
    <3>2. pass' = [pass EXCEPT ![w] = [pass[w] EXCEPT !.step = "status", !.at = NoLocation]]
      BY <1>8, <2>1 DEF CreateJob, TypeOK, PassType
    <3> QED
      BY <3>1, <3>2 DEF TypeOK
  <2>3. /\ job' \in [CRs -> {"none", "active", "complete", "failed"}]
        /\ target' \in [CRs -> Locations \cup {NoLocation}]
    BY <1>8, <2>1 DEF CreateJob, TypeOK, PassType
  <2> QED
    BY <1>8, <2>2, <2>3 DEF CreateJob, TypeOK
<1>9. ASSUME NEW w \in Controllers, WriteStatus(w) PROVE TypeOK'
  <2>1. pass[w] \in PassType /\ pass[w].cr \in CRs /\ pass[w].phase \in Phases
    BY DEF TypeOK, PassType
  <2>2. [obj[pass[w].cr] EXCEPT !.phase = pass[w].phase] \in CrType
    BY <2>1 DEF TypeOK, CrType
  <2>3. obj' \in [CRs -> CrType] /\ seen' \in [CRs -> CrType] /\ lag' \subseteq CRs
    BY <1>9, <2>1, <2>2, PutEffect DEF WriteStatus, TypeOK
  <2>4. pass' \in [Controllers -> PassType]
    BY <1>0, <1>9 DEF WriteStatus, TypeOK
  <2> QED
    BY <1>9, <2>3, <2>4 DEF WriteStatus, TypeOK
<1>10. ASSUME NEW w \in Controllers, PassFails(w) PROVE TypeOK'
  BY <1>0, <1>10, BoundsAssumption DEF PassFails, Fault, TypeOK
<1>11. CASE Advance
  BY <1>11, TimeAssumption DEF Advance, TypeOK, Slots
<1>12. CASE Restart
  BY <1>0, <1>12, BoundsAssumption, TimeAssumption DEF Restart, Fault, TypeOK
<1>13. ASSUME NEW c \in CRs, JobEnds(c) PROVE TypeOK'
  BY <1>13, JobEndsKeepsWork DEF JobEnds, TypeOK
<1>14. ASSUME NEW c \in CRs, CacheSync(c) PROVE TypeOK'
  BY <1>14 DEF CacheSync, TypeOK
<1>15. CASE ClusterChanges
  <2>1. cluster' \in [exists : BOOLEAN, storage : Storages, sched : {"suspended", "on"}]
    BY <1>15 DEF ClusterChanges, TypeOK
  <2> QED
    BY <1>15, <2>1, BoundsAssumption DEF ClusterChanges, Edit, TypeOK
<1>16. CASE UserBacksUp
  <2>1. obj' \in [CRs -> CrType] /\ seen' \in [CRs -> CrType] /\ lag' \subseteq CRs
    BY <1>0, <1>16, PutEffect, Names DEF UserBacksUp, New
  <2> QED
    BY <1>16, <2>1, BoundsAssumption DEF UserBacksUp, Edit, TypeOK
<1>17. ASSUME NEW b \in Backup, NEW by \in {"backup", "path"}, UserRestores(b, by) PROVE TypeOK'
  <2>1. obj' \in [CRs -> CrType] /\ seen' \in [CRs -> CrType] /\ lag' \subseteq CRs
    BY <1>0, <1>17, PutEffect, Names DEF UserRestores, New
  <2> QED
    BY <1>17, <2>1, BoundsAssumption DEF UserRestores, Edit, TypeOK
<1>18. ASSUME NEW c \in CRs, UserDeletes(c) PROVE TypeOK'
  BY <1>18, RemovalTypes, BoundsAssumption DEF UserDeletes, Edit, TypeOK
<1>19. ASSUME NEW c \in CRs, JobVanishes(c) PROVE TypeOK'
  BY <1>19, BoundsAssumption DEF JobVanishes, NoJob, Edit, TypeOK
<1>20. CASE UNCHANGED vars
  BY <1>20 DEF vars, TypeOK
<1> QED
  BY <1>2, <1>3, <1>4, <1>5, <1>6, <1>7, <1>8, <1>9, <1>10, <1>11, <1>12, <1>13, <1>14,
     <1>15, <1>16, <1>17, <1>18, <1>19, <1>20
     DEF Next, Scheduler, Reconciler, Surroundings, People

(* The schedule starts without history, or with one backup that has ended. *)
LEMMA InitialHistory ==
    ASSUME Init
    PROVE  \E old \in SUBSET Slots :
              /\ History(old) /\ \A b, c \in old : b = c
              /\ \A b \in old : b = clock
<1>1. 1 \in Slots /\ clock = 1
  BY TimeAssumption DEF Init, Slots
<1>2. CASE History({})
  BY <1>2
<1>3. CASE History({1})
  BY <1>1, <1>3
<1> QED
  BY <1>2, <1>3 DEF Init

(* Where the CRs stand at the start.                                       *)
LEMMA InitialCRs ==
    ASSUME NEW old \in SUBSET Slots, History(old)
    PROVE  /\ obj \in [CRs -> CrType] /\ job \in [CRs -> {"none", "active", "complete", "failed"}]
           /\ target \in [CRs -> Locations \cup {NoLocation}] /\ files \subseteq Locations
           /\ \A c \in old : /\ obj[c].made /\ obj[c].exists /\ obj[c].phase = "Completed"
                              /\ target[c] = <<"pvc", c>> /\ <<"pvc", c>> \in files
                              /\ <<"pvc", c>> \in Locations
           /\ \A c \in CRs \ old : /\ obj[c] = Absent /\ job[c] = "none" /\ ~obj[c].made
                                   /\ ~obj[c].exists /\ obj[c].phase = "none"
           /\ files = {"pvc"} \X old
<1>1. old \subseteq CRs /\ old \subseteq Backup
  BY Names DEF Backup
<1>2. Absent \in CrType /\ [made |-> TRUE, exists |-> TRUE, phase |-> "Completed"] \in CrType
  BY DEF Absent, CrType, Phases
<1>3. \A c \in old : <<"pvc", c>> \in Locations
  BY <1>1 DEF Locations
<1>4. ~Absent.made /\ ~Absent.exists /\ Absent.phase = "none"
  BY DEF Absent
<1> QED
  BY <1>1, <1>2, <1>3, <1>4 DEF History

LEMMA InitialWork == Init => TypeOK /\ WorkInv
<1> SUFFICES ASSUME Init PROVE TypeOK /\ WorkInv
  OBVIOUS
<1>1. /\ Idle \in PassType /\ Absent.phase = "none" /\ ~Absent.made /\ ~Absent.exists
      /\ Idle.step = "idle"
  BY Names DEF Absent, CrType, Phases, Idle, PassType
<1>2. PICK old \in SUBSET Slots : History(old)
  BY InitialHistory
<1>3. Slots \subseteq CRs /\ Restore \notin old /\ Restore \in CRs
  BY <1>2, Names
<1>4. TypeOK
  BY <1>1, <1>2, InitialCRs, TimeAssumption, BoundsAssumption DEF Init, TypeOK, Slots, Storages, Backup
<1>5. \A c \in CRs : obj[c].phase \in Terminal => c \in old
  BY <1>1, <1>2, InitialCRs DEF Terminal
<1>6. \A c \in old : Done(c) /\ Subject(c) = c /\ target[c][2] = c
  <2> SUFFICES ASSUME NEW c \in old PROVE Done(c) /\ Subject(c) = c /\ target[c][2] = c
    OBVIOUS
  <2>1. target[c] = <<"pvc", c>> /\ <<"pvc", c>> \in files /\ <<"pvc", c>>[2] = c /\ c # Restore
    BY <1>2, <1>3, InitialCRs
  <2> QED
    BY <2>1 DEF Done, Subject
<1>7. CopyInv
  <2> SUFFICES ASSUME NEW c \in CRs
               PROVE  /\ obj[c].exists => obj[c].made
                      /\ ~obj[c].made => obj[c] = Absent
    BY DEF Init, CopyInv
  <2>1. CASE c \in old
    BY <1>2, <2>1, InitialCRs
  <2>2. CASE c \notin old
    BY <1>2, <2>2, InitialCRs
  <2> QED
    BY <2>1, <2>2
<1>8. JobInv
  <2>1. ASSUME NEW c \in CRs, job[c] # "none"
        PROVE  c \in old /\ obj[c].made /\ target[c] \in Locations
    <3>1. c \in old
      BY <1>2, <2>1, InitialCRs
    <3>2. target[c] = <<"pvc", c>> /\ <<"pvc", c>> \in Locations
      BY <1>2, <3>1, InitialCRs
    <3>3. obj[c].made
      BY <1>2, <3>1, InitialCRs
    <3> QED
      BY <3>1, <3>2, <3>3
  <2> QED
    BY <1>6, <2>1 DEF Init, JobInv
<1>9. PassInv
  BY <1>1 DEF Init, PassInv, PassSound
<1>10. OutcomeInv
  BY <1>5, <1>6 DEF OutcomeInv, Terminal
<1> QED
  BY <1>4, <1>7, <1>8, <1>9, <1>10 DEF WorkInv

LEMMA WorkAlways == Spec => [](TypeOK /\ WorkInv)
<1>1. TypeOK /\ WorkInv /\ [Next]_vars => (TypeOK /\ WorkInv)'
  BY TypeOK_Inductive, WorkInv_Inductive
<1> QED
  BY <1>1, InitialWork, PTL DEF Spec

(* The state of backups is well typed: no pass, Job or tick ever works on a*)
(* CR, a phase or a location that does not exist, for any number of        *)
(* intervals, any cron period and retention.                               *)
THEOREM BackupsTypeCorrect == Spec => []TypeOK
BY WorkAlways, PTL

(* A Completed backup has left its snapshot and a Completed restore has    *)
(* loaded one of the backup it names, whatever Jobs vanish, storages change*)
(* and passes work from an old copy.                                       *)
THEOREM CompletedMeansDone == Spec => []CompletedIsTrue
<1>1. TypeOK /\ WorkInv => CompletedIsTrue
  BY Names DEF WorkInv, OutcomeInv, Done, CompletedIsTrue
<1> QED
  BY <1>1, WorkAlways, PTL
-----------------------------------------------------------------------------
(***************************************************************************)
(* One backup per cron time. The history that a tick decides by is the     *)
(* cached one, and pruning shortens it; but a backup that is not forgotten *)
(* is there, or there is a newer one: the newest is only lost to a user or *)
(* to a late cache, and both are written down.                             *)
(***************************************************************************)
SlotInv == HistoryInv /\ OncePerSlot

(* Steps that create and delete no scheduled backup.                       *)
LEMMA HistoryFrame ==
    ASSUME SlotInv, clock' = clock, victims' \subseteq victims, forgotten' = forgotten,
           \A b \in Slots : obj'[b].made = obj[b].made /\ obj'[b].exists = obj[b].exists
    PROVE  SlotInv'
BY DEF SlotInv, HistoryInv, OncePerSlot, NextSlot

(* A deleted backup has a newer one or is written down.                    *)
LEMMA RemovalKeepsHistory ==
    ASSUME TypeOK, SlotInv, NEW c \in CRs, Remove(c), clock' = clock, victims' \subseteq victims,
           forgotten \subseteq forgotten',
           c \in Slots => c \in forgotten' \/ \E d \in Slots : d > c /\ obj[d].made
    PROVE  SlotInv'
<1> USE DEF SlotInv
<1> DEFINE o == [obj[c] EXCEPT !.exists = FALSE]
<1>1. obj[c] \in CrType
  BY DEF TypeOK
<1>2. o \in CrType /\ o.made = obj[c].made /\ Put(c, o)
  BY <1>1 DEF CrType, Remove
<1> HIDE DEF o
<1>3. /\ \A b \in CRs : obj'[b].made = obj[b].made
      /\ \A b \in CRs \ {c} : obj'[b] = obj[b]
  BY <1>2, PutEffect
<1>4. Slots \subseteq CRs /\ Slots \subseteq Int
  BY Names DEF Slots
<1>5. HistoryInv'
  BY <1>3, <1>4 DEF HistoryInv
<1>6. OncePerSlot'
  BY <1>3, <1>4 DEF OncePerSlot, NextSlot
<1> QED
  BY <1>5, <1>6

(* A tick that fires has a cron time between the last backup and now.      *)
LEMMA TickKeepsHistory ==
    ASSUME TypeOK, WorkInv, SlotInv, Tick
    PROVE  SlotInv'
<1> USE DEF SlotInv
<1>1. clock \in Slots /\ clock \in CRs /\ clock' = clock /\ Slots \subseteq CRs /\ Slots \subseteq Nat
  BY Names, TimeAssumption DEF TypeOK, Tick, Slots
<1>2. \A b \in Slots : seen[b].exists => obj[b].made
  BY <1>1 DEF WorkInv, CopyInv, Absent
<1>3. \A b \in Prunable(listScheduleBackups) : \E c \in Slots : c > b /\ obj[c].made
  <2> SUFFICES ASSUME NEW b \in Prunable(listScheduleBackups)
               PROVE  \E c \in Slots : c > b /\ obj[c].made
    OBVIOUS
  <2> DEFINE N == {c \in listScheduleBackups : c > b /\ seen[c].phase \in Terminal}
  <2>1. Keep # 0 /\ Cardinality(N) >= Keep
    BY DEF Prunable
  <2>2. N # {}
    <3> SUFFICES ASSUME N = {} PROVE FALSE
      OBVIOUS
    <3>1. Cardinality(N) = 0
      BY FS_EmptySet
    <3> QED
      BY <2>1, <3>1, TimeAssumption
  <2> QED
    BY <1>2, <2>2 DEF listScheduleBackups
<1>4. victims' = Prunable(listScheduleBackups)
  BY DEF Tick
<1>0. forgotten \subseteq forgotten'
  BY DEF Tick
<1>5. CASE UNCHANGED crVars
  BY <1>0, <1>1, <1>3, <1>4, <1>5 DEF crVars, HistoryInv, OncePerSlot, NextSlot
<1>6. CASE NextSlot(LastRun) <= clock /\ ~obj[clock].made /\ Put(clock, New)
  <2>1. New \in CrType /\ New.made /\ New.exists
    BY DEF New, CrType, Phases
  <2>2. /\ obj'[clock] = New
        /\ \A b \in Slots \ {clock} : obj'[b] = obj[b] /\ seen'[b] = seen[b]
    BY <1>1, <1>6, <2>1, PutEffect
  <2>4. \A b \in Slots : obj[b].made => b <= clock /\ b # clock
    BY <1>6 DEF HistoryInv
  <2>3. ASSUME NEW b \in Slots, obj[b].made, b \notin forgotten' PROVE NextSlot(b) <= clock
    <3>1. b \in Nat /\ clock \in Nat /\ b < clock /\ b \notin forgotten
      BY <1>0, <1>1, <2>3, <2>4
    <3>2. CASE obj[b].exists
      <4>1. forgotten' = forgotten \cup Missed
        BY <1>6 DEF Tick
      <4>2. seen[b].exists
        BY <2>3, <3>1, <3>2, <4>1 DEF Missed
      <4>3. listScheduleBackups \in SUBSET Slots /\ b \in listScheduleBackups
        BY <4>2 DEF listScheduleBackups
      <4>4. LastRun \in Slots /\ b <= LastRun
        BY <4>3, MaxSlot DEF LastRun
      <4>5. NextSlot(b) <= NextSlot(LastRun) /\ NextSlot(b) \in Nat /\ NextSlot(LastRun) \in Nat
        BY <1>1, <3>1, <4>4, NextSlotMonotone
      <4> QED
        BY <1>6, <3>1, <4>5
    <3>3. CASE \E c \in Slots : c > b /\ obj[c].made
      <4>1. PICK c \in Slots : c > b /\ obj[c].made
        BY <3>3
      <4>2. NextSlot(b) <= c /\ c <= clock
        BY <1>1, <2>3, <2>4, <3>1, <4>1 DEF OncePerSlot
      <4>3. NextSlot(b) \in Nat
        BY <3>1, NextSlotMonotone
      <4> QED
        BY <1>1, <3>1, <4>2, <4>3
    <3> QED
      BY <2>3, <3>1, <3>2, <3>3 DEF HistoryInv
  <2>5. OncePerSlot'
    <3> SUFFICES ASSUME NEW b \in Slots, NEW c \in Slots, obj'[b].made, obj'[c].made, b < c,
                        b \notin forgotten'
                 PROVE  NextSlot(b) <= c
      BY DEF OncePerSlot, NextSlot
    <3>1. CASE b = clock
      BY <1>1, <2>2, <2>4, <3>1
    <3>2. CASE b # clock /\ c = clock
      BY <2>2, <2>3, <3>2
    <3>3. CASE b # clock /\ c # clock
      BY <1>0, <2>2, <3>3 DEF OncePerSlot
    <3> QED
      BY <3>1, <3>2, <3>3
  <2>6. HistoryInv'
    <3>1. \A b \in Slots : obj'[b].made => b <= clock'
      BY <1>1, <2>2, <2>4
    <3>3. ASSUME NEW b \in Slots, obj'[b].made, b \notin forgotten'
          PROVE  obj'[b].exists \/ \E c \in Slots : c > b /\ obj'[c].made
      <4>1. CASE b = clock
        BY <2>1, <2>2, <4>1
      <4>2. CASE b # clock
        BY <1>0, <2>1, <2>2, <3>3, <4>2 DEF HistoryInv
      <4> QED
        BY <4>1, <4>2
    <3>4. \A b \in victims' : \E c \in Slots : c > b /\ obj'[c].made
      BY <1>3, <1>4, <2>1, <2>2
    <3> QED
      BY <3>1, <3>3, <3>4 DEF HistoryInv
  <2> QED
    BY <2>5, <2>6
<1> QED
  BY <1>5, <1>6 DEF Tick, Create, New

LEMMA SlotInv_Inductive ==
    ASSUME TypeOK, WorkInv, SlotInv, [Next]_vars
    PROVE  SlotInv'
<1>0. Slots \subseteq CRs /\ Slots \subseteq Nat /\ OnDemand \notin Slots /\ Restore \notin Slots
  BY Names
<1>1. CASE Tick
  BY <1>1, TickKeepsHistory
<1>2. CASE TickFails \/ ClusterChanges \/ UNCHANGED vars
  BY <1>2, HistoryFrame DEF TickFails, ClusterChanges, vars, crVars, schedVars
<1>3. CASE Prune
  <2>1. /\ Max(victims) \in victims /\ Max(victims) \in Slots /\ clock' = clock
        /\ victims' \subseteq victims
    BY <1>3, MaxSlot DEF Prune, TypeOK
  <2>2. CASE obj[Max(victims)].exists
    <3>1. \E c \in Slots : c > Max(victims) /\ obj[c].made
      BY <2>1 DEF SlotInv, HistoryInv
    <3> QED
      BY <1>0, <1>3, <2>1, <2>2, <3>1, RemovalKeepsHistory DEF Prune
  <2>3. CASE ~obj[Max(victims)].exists
    BY <1>3, <2>1, <2>3, HistoryFrame DEF Prune, crVars
  <2> QED
    BY <2>2, <2>3
<1>4. CASE PruneFails \/ Restart
  BY <1>4, HistoryFrame DEF PruneFails, Restart, crVars
<1>5. ASSUME NEW w \in Controllers, NEW c, NEW at, Begin(w, c, at) PROVE SlotInv'
  BY <1>5, HistoryFrame DEF Begin, crVars, schedVars
<1>6. ASSUME NEW w \in Controllers, CreateJob(w) \/ PassFails(w) PROVE SlotInv'
  BY <1>6, HistoryFrame DEF CreateJob, PassFails, crVars, schedVars
<1>7. ASSUME NEW w \in Controllers, WriteStatus(w) PROVE SlotInv'
  <2> DEFINE c == pass[w].cr
             o == [obj[c] EXCEPT !.phase = pass[w].phase]
  <2>1. c \in CRs /\ obj[c] \in CrType /\ pass[w].phase \in Phases
    BY DEF TypeOK, PassType
  <2>2. o \in CrType /\ o.made = obj[c].made /\ o.exists = obj[c].exists
    BY <2>1 DEF CrType
  <2>3. UNCHANGED <<clock, victims, forgotten>> /\ (UNCHANGED crVars \/ Put(c, o))
    BY <1>7 DEF WriteStatus, schedVars
  <2> HIDE DEF c, o
  <2>4. CASE UNCHANGED crVars
    BY <2>3, <2>4, HistoryFrame DEF crVars
  <2>5. CASE Put(c, o)
    <3>1. \A b \in CRs : obj'[b].made = obj[b].made /\ obj'[b].exists = obj[b].exists
      BY <2>1, <2>2, <2>5, PutEffect
    <3> QED
      BY <1>0, <2>3, <3>1, HistoryFrame
  <2> QED
    BY <2>3, <2>4, <2>5
<1>8. CASE Advance
  <2>1. clock' = clock + 1 /\ UNCHANGED <<obj, victims, forgotten>> /\ clock \in Nat
    BY <1>0, <1>8 DEF Advance, crVars, schedVars, TypeOK
  <2>2. HistoryInv'
    BY <1>0, <2>1 DEF SlotInv, HistoryInv
  <2>3. OncePerSlot'
    BY <2>1 DEF SlotInv, OncePerSlot, NextSlot
  <2> QED
    BY <2>2, <2>3 DEF SlotInv
<1>9. ASSUME NEW c \in CRs, JobEnds(c) \/ JobVanishes(c) PROVE SlotInv'
  BY <1>9, HistoryFrame DEF JobEnds, JobVanishes, crVars, schedVars
<1>10. ASSUME NEW c \in CRs, CacheSync(c) PROVE SlotInv'
  BY <1>10, HistoryFrame DEF CacheSync, schedVars
<1>11. ASSUME NEW c \in {OnDemand, Restore}, Put(c, New), UNCHANGED <<clock, schedVars>>
       PROVE  SlotInv'
  <2>1. New \in CrType /\ c \in CRs
    BY Names DEF New, CrType, Phases
  <2>2. \A b \in Slots : obj'[b] = obj[b] /\ seen'[b] = seen[b]
    BY <1>0, <1>11, <2>1, PutEffect
  <2> QED
    BY <1>11, <2>2, HistoryFrame DEF schedVars
<1>12. CASE UserBacksUp
  BY <1>11, <1>12 DEF UserBacksUp, New
<1>13. ASSUME NEW b \in Backup, NEW by \in {"backup", "path"}, UserRestores(b, by) PROVE SlotInv'
  BY <1>11, <1>13 DEF UserRestores, New
<1>14. ASSUME NEW c \in CRs, UserDeletes(c) PROVE SlotInv'
  <2>1. c \in Slots => c \in forgotten' \/ \E d \in Slots : d > c /\ obj[d].made
    BY <1>14 DEF UserDeletes
  <2> QED
    BY <1>14, <2>1, RemovalKeepsHistory DEF UserDeletes
<1> QED
  BY <1>1, <1>2, <1>3, <1>4, <1>5, <1>6, <1>7, <1>8, <1>9, <1>10, <1>12, <1>13, <1>14
     DEF Next, Scheduler, Reconciler, Surroundings, People, BackupReconcile, RestoreReconcile,
         Controllers

(* No cron time is backed up twice, however the history is pruned, the     *)
(* schedule suspended, a creation retried or the operator restarted, unless*)
(* its backup was deleted by a user while it was the newest, or missed by  *)
(* the list of the tick that fired.                                        *)
THEOREM SlotsBackedUpOnce == Spec => []OncePerSlot
<1>1. Init => SlotInv
  <2> SUFFICES ASSUME Init PROVE SlotInv
    OBVIOUS
  <2>1. PICK old \in SUBSET Slots :
           /\ History(old) /\ \A b, c \in old : b = c
           /\ \A b \in old : b = clock
    BY InitialHistory
  <2>2. \A b \in Slots : obj[b].made => b \in old /\ obj[b].exists
    <3> SUFFICES ASSUME NEW b \in Slots, obj[b].made PROVE b \in old /\ obj[b].exists
      OBVIOUS
    <3>1. b \in old
      BY <2>1, Names, InitialCRs
    <3> QED
      BY <2>1, <3>1, InitialCRs
  <2>3. clock \in Nat /\ Slots \subseteq Nat /\ victims = {}
    BY Names DEF Init
  <2>4. HistoryInv
    BY <2>1, <2>2, <2>3 DEF HistoryInv
  <2>5. OncePerSlot
    BY <2>1, <2>2, <2>3 DEF OncePerSlot
  <2> QED
    BY <2>4, <2>5 DEF SlotInv
<1>2. TypeOK /\ WorkInv /\ SlotInv /\ [Next]_vars => SlotInv'
  BY SlotInv_Inductive
<1>3. SlotInv => OncePerSlot
  BY DEF SlotInv
<1> QED
  BY <1>1, <1>2, <1>3, WorkAlways, PTL DEF Spec
-----------------------------------------------------------------------------
(* What a step may do to a CR: no outcome is taken back, and only a user or*)
(* the pruning deletes.                                                    *)
LEMMA StepOnCRs ==
    ASSUME TypeOK, WorkInv, [Next]_vars
    PROVE  \A c \in CRs :
              /\ obj[c].phase \in Terminal => obj'[c].phase = obj[c].phase
              /\ obj[c].exists /\ ~obj'[c].exists =>
                    edits' = edits + 1 \/ (Prune /\ c = Max(victims))
<1> DEFINE Kept == \A c \in CRs :
              /\ obj[c].phase \in Terminal => obj'[c].phase = obj[c].phase
              /\ obj[c].exists /\ ~obj'[c].exists =>
                    edits' = edits + 1 \/ (Prune /\ c = Max(victims))
<1> SUFFICES Kept
  OBVIOUS
<1>1. CASE obj' = obj
  BY <1>1
<1>2. ASSUME NEW c \in CRs, Put(c, New), ~obj[c].made PROVE Kept
  <2>1. New \in CrType /\ New.exists /\ obj[c].phase \notin Terminal
    BY <1>2 DEF New, CrType, Phases, WorkInv, CopyInv, Absent, Terminal
  <2> QED
    BY <1>2, <2>1, PutEffect
<1>3. ASSUME NEW c \in CRs, Remove(c) PROVE
        \A d \in CRs : obj'[d].phase = obj[d].phase /\ (d # c => obj'[d] = obj[d])
  <2>1. obj[c] \in CrType
    BY DEF TypeOK
  <2>2. [obj[c] EXCEPT !.exists = FALSE] \in CrType /\ [obj[c] EXCEPT !.exists = FALSE].phase = obj[c].phase
    BY <2>1 DEF CrType
  <2> QED
    BY <1>3, <2>2, PutEffect DEF Remove
<1>4. CASE Prune
  <2>1. Max(victims) \in CRs
    BY <1>4, MaxSlot, Names DEF Prune, TypeOK
  <2>2. obj' = obj \/ Remove(Max(victims))
    BY <1>4 DEF Prune, crVars
  <2> QED
    BY <1>3, <1>4, <2>1, <2>2
<1>5. ASSUME NEW c \in CRs, UserDeletes(c) PROVE Kept
  BY <1>3, <1>5 DEF UserDeletes, Edit
<1>6. ASSUME NEW w \in Controllers, WriteStatus(w) PROVE Kept
  <2> DEFINE c == pass[w].cr
             o == [obj[c] EXCEPT !.phase = pass[w].phase]
  <2>1. c \in CRs /\ obj[c] \in CrType /\ pass[w].phase \in Phases
    BY DEF TypeOK, PassType
  <2>2. o \in CrType /\ o.exists = obj[c].exists
    BY <2>1 DEF CrType
  <2>3. obj' = obj \/ (~pass[w].stale /\ Put(c, o))
    BY <1>6 DEF WriteStatus, crVars
  <2>4. pass[w].step # "idle"
    BY <1>6 DEF WriteStatus
  <2>5. ~pass[w].stale => obj[c].phase \notin Terminal
    BY <2>4 DEF WorkInv, PassInv, PassSound
  <2> HIDE DEF c, o
  <2> QED
    BY <1>1, <2>1, <2>2, <2>3, <2>5, PutEffect
<1>7. CASE Tick
  <2>1. obj' = obj \/ (~obj[clock].made /\ Put(clock, New))
    BY <1>7 DEF Tick, Create, New, crVars
  <2>2. clock \in CRs
    BY Names DEF TypeOK
  <2> QED
    BY <1>1, <1>2, <2>1, <2>2
<1>8. CASE UserBacksUp
  BY <1>2, <1>8, Names DEF UserBacksUp, New
<1>9. ASSUME NEW b \in Backup, NEW by \in {"backup", "path"}, UserRestores(b, by) PROVE Kept
  BY <1>2, <1>9, Names DEF UserRestores, New
<1>10. ASSUME NEW w, NEW c, NEW at, Begin(w, c, at) PROVE obj' = obj
  BY <1>10 DEF Begin, crVars
<1>11. ASSUME NEW w, CreateJob(w) \/ PassFails(w) PROVE obj' = obj
  BY <1>11 DEF CreateJob, PassFails, crVars
<1>12. ASSUME NEW c, JobEnds(c) \/ CacheSync(c) \/ JobVanishes(c) PROVE obj' = obj
  BY <1>12 DEF JobEnds, CacheSync, JobVanishes, crVars
<1>13. CASE TickFails \/ PruneFails \/ Advance \/ Restart \/ ClusterChanges \/ UNCHANGED vars
  BY <1>13 DEF TickFails, PruneFails, Advance, Restart, ClusterChanges, vars, crVars
<1> HIDE DEF Kept
<1> QED
  BY <1>1, <1>4, <1>5, <1>6, <1>7, <1>8, <1>9, <1>10, <1>11, <1>12, <1>13
     DEF Next, Scheduler, Reconciler, Surroundings, People, BackupReconcile, RestoreReconcile

(***************************************************************************)
(* Retention. What a tick has seen as ended has ended, and goes on being   *)
(* so until the last victim is gone.                                       *)
(***************************************************************************)
LEMMA NewerFinite ==
    ASSUME NEW b
    PROVE  LET E == {c \in Ended : c > b} IN IsFiniteSet(E) /\ Cardinality(E) \in Nat
<1>1. IsFiniteSet(Slots)
  BY TimeAssumption, FS_Interval DEF Slots
<1>2. {c \in Ended : c > b} \subseteq Slots
  BY DEF Ended
<1> QED
  BY <1>1, <1>2, FS_Subset, FS_CardinalityType

(* A larger set of ended backups has as many newer ones.                   *)
LEMMA NewerGrow ==
    ASSUME NEW b, Ended \subseteq Ended'
    PROVE  Cardinality({c \in Ended : c > b}) <= Cardinality({c \in Ended' : c > b})
<1>1. IsFiniteSet({c \in Ended' : c > b})
  <2>1. IsFiniteSet(Slots)
    BY TimeAssumption, FS_Interval DEF Slots
  <2>2. {c \in Ended' : c > b} \subseteq Slots
    BY DEF Ended
  <2> QED
    BY <2>1, <2>2, FS_Subset
<1>2. {c \in Ended : c > b} \subseteq {c \in Ended' : c > b}
  OBVIOUS
<1> QED
  BY <1>1, <1>2, FS_Subset

LEMMA VictimInv_Inductive ==
    ASSUME TypeOK, WorkInv, VictimInv, [Next]_vars
    PROVE  VictimInv'
<1>1. Ended \subseteq Ended'
  BY StepOnCRs, Names DEF Ended, Terminal
<1>2. ASSUME NEW b, b \in Ended, Cardinality({c \in Ended : c > b}) >= Keep
      PROVE  b \in Ended' /\ Cardinality({c \in Ended' : c > b}) >= Keep
  <2>1. Cardinality({c \in Ended : c > b}) \in Nat
    BY NewerFinite
  <2>2. Cardinality({c \in Ended' : c > b}) \in Nat
    <3>1. IsFiniteSet(Slots)
      BY TimeAssumption, FS_Interval DEF Slots
    <3>2. {c \in Ended' : c > b} \subseteq Slots
      BY DEF Ended
    <3> QED
      BY <3>1, <3>2, FS_Subset, FS_CardinalityType
  <2> QED
    BY <1>1, <1>2, <2>1, <2>2, NewerGrow, TimeAssumption
<1>3. CASE Tick
  <2> SUFFICES ASSUME NEW b \in victims'
               PROVE  b \in Ended' /\ Cardinality({c \in Ended' : c > b}) >= Keep
    BY DEF VictimInv
  <2> DEFINE N == {c \in listScheduleBackups : c > b /\ seen[c].phase \in Terminal}
  <2>1. b \in listScheduleBackups /\ seen[b].phase \in Terminal /\ Cardinality(N) >= Keep
    BY <1>3 DEF Tick, Prunable
  <2>2. \A c \in listScheduleBackups : seen[c].phase \in Terminal => c \in Ended
    BY Names DEF listScheduleBackups, WorkInv, CopyInv, Ended
  <2>3. N \subseteq {c \in Ended : c > b}
    BY <2>2
  <2>4. Cardinality(N) <= Cardinality({c \in Ended : c > b}) /\ Cardinality(N) \in Nat
    BY <2>3, NewerFinite, FS_Subset, FS_CardinalityType
  <2>5. Cardinality({c \in Ended : c > b}) >= Keep
    <3> HIDE DEF N
    <3> QED
      BY <2>1, <2>4, NewerFinite, TimeAssumption
  <2> QED
    BY <1>2, <2>1, <2>2, <2>5
<1>4. CASE victims' \subseteq victims
  BY <1>2, <1>4 DEF VictimInv
<1>5. Tick \/ victims' \subseteq victims
  BY DEF Next, Scheduler, Reconciler, Surroundings, People, TickFails, Prune, PruneFails,
         BackupReconcile, RestoreReconcile, Begin, CreateJob, WriteStatus, PassFails, Advance,
         Restart, JobEnds, CacheSync, ClusterChanges, UserBacksUp, UserRestores, UserDeletes,
         JobVanishes, schedVars, vars
<1> QED
  BY <1>3, <1>4, <1>5

(* The scheduler deletes a backup only after it has ended and Keep newer   *)
(* ones have, although it chooses from a cached list and deletes long      *)
(* after it chose.                                                         *)
THEOREM RetentionHolds == Spec => RetentionKept
<1>1. Init => VictimInv
  BY DEF Init, VictimInv
<1>2. TypeOK /\ WorkInv /\ VictimInv /\ [Next]_vars => VictimInv'
  BY VictimInv_Inductive
<1>3. ASSUME TypeOK, WorkInv, VictimInv, [Next]_vars
      PROVE  [\A b \in Slots :
                obj[b].exists /\ ~obj'[b].exists /\ edits' = edits =>
                    b \in Ended /\ Cardinality({c \in Ended : c > b}) >= Keep]_vars
  <2> SUFFICES ASSUME NEW b \in Slots, obj[b].exists, ~obj'[b].exists, edits' = edits
               PROVE  b \in Ended /\ Cardinality({c \in Ended : c > b}) >= Keep
    OBVIOUS
  <2>1. b \in CRs /\ edits' # edits + 1
    BY <1>3, Names DEF TypeOK
  <2>2. Prune /\ b = Max(victims)
    BY <1>3, <2>1, StepOnCRs
  <2>3. b \in victims
    BY <1>3, <2>2, MaxSlot DEF Prune, TypeOK
  <2> QED
    BY <1>3, <2>3 DEF VictimInv
<1> QED
  BY <1>1, <1>2, <1>3, WorkAlways, PTL DEF Spec, RetentionKept
-----------------------------------------------------------------------------
(***************************************************************************)
(* The controllers implement the contract. The three variables of the      *)
(* contract, and when a step leaves each of them alone.                    *)
(***************************************************************************)
OutcomeOf(c) == IF obj[c].phase \in Terminal THEN obj[c].phase ELSE "open"
Outcomes == [c \in CRs |-> OutcomeOf(c)]
WorkDone == {l[2] : l \in files} \cup (IF loaded = NoLocation THEN {} ELSE {Restore})
AskedFor == IF obj[Restore].made THEN source.b ELSE Restore

View == <<Outcomes, WorkDone, AskedFor>>

LEMMA ContractStutter == UNCHANGED View => UNCHANGED Contract!vars
BY DEF View, Contract!vars, Outcomes, OutcomeOf, WorkDone, AskedFor

LEMMA ContractTake ==
    ASSUME NEW b \in Backup, WorkDone' = WorkDone \cup {b}, UNCHANGED <<Outcomes, AskedFor>>
    PROVE  Contract!Next
BY DEF Contract!Next, Contract!Take, Outcomes, OutcomeOf, WorkDone, AskedFor

LEMMA ContractLoad ==
    ASSUME AskedFor \in WorkDone, WorkDone' = WorkDone \cup {Restore}, UNCHANGED <<Outcomes, AskedFor>>
    PROVE  Contract!Next
BY DEF Contract!Next, Contract!Load, Outcomes, OutcomeOf, WorkDone, AskedFor

LEMMA ContractAsk ==
    ASSUME NEW b \in Backup, AskedFor = Restore, AskedFor' = b, UNCHANGED <<Outcomes, WorkDone>>
    PROVE  Contract!Next
BY DEF Contract!Next, Contract!Ask, Outcomes, OutcomeOf, WorkDone, AskedFor

LEMMA ContractConclude ==
    ASSUME NEW c \in CRs, Outcomes[c] = "open",
           \/ c \in WorkDone /\ Outcomes' = [Outcomes EXCEPT ![c] = "Completed"]
           \/ Outcomes' = [Outcomes EXCEPT ![c] = "Failed"],
           UNCHANGED <<WorkDone, AskedFor>>
    PROVE  Contract!Next
<1>1. CRs = Contract!All
  BY DEF CRs, Contract!All
<1>2. Contract!Conclude(c)
  BY DEF Contract!Conclude, Outcomes, OutcomeOf, WorkDone, AskedFor
<1> QED
  BY <1>1, <1>2 DEF Contract!Next

(* Steps that write no phase.                                              *)
LEMMA OutcomesFrame ==
    ASSUME \A c \in CRs : OutcomeOf(c)' = OutcomeOf(c)
    PROVE  Outcomes' = Outcomes
BY DEF Outcomes

(* What a CR's work being done means for the contract.                     *)
LEMMA DoneIsWorkDone ==
    ASSUME TypeOK, NEW c \in CRs, Done(c)
    PROVE  c \in WorkDone
BY NoLocationIsNone DEF Done, WorkDone, TypeOK

(* A status write concludes what was open, or changes no outcome.          *)
LEMMA WriteStatusConcludes ==
    ASSUME TypeOK, WorkInv, NEW w \in Controllers, WriteStatus(w)
    PROVE  Contract!Next \/ UNCHANGED View
<1>0. PICK c : c = pass[w].cr
  OBVIOUS
<1> DEFINE o == [obj[c] EXCEPT !.phase = pass[w].phase]
<1>1. UNCHANGED <<source, files, loaded>> /\ pass[w].step # "idle"
  BY DEF WriteStatus, jobVars
<1>2. /\ c \in CRs /\ (pass[w].phase = "Completed" => Done(c))
      /\ ~pass[w].stale => obj[c].phase \notin Terminal
  BY <1>0, <1>1, Names DEF WorkInv, PassInv, PassSound
<1>3. obj[c] \in CrType /\ pass[w].phase \in Phases
  BY <1>2 DEF TypeOK, PassType
<1>4. o \in CrType /\ o.made = obj[c].made /\ o.phase = pass[w].phase
  BY <1>3 DEF CrType
<1>5. obj' = obj \/ (~pass[w].stale /\ Put(c, o))
  BY <1>0 DEF WriteStatus, crVars
<1> HIDE DEF o
<1>6. CASE obj' = obj
  BY <1>1, <1>6 DEF View, Outcomes, OutcomeOf, WorkDone, AskedFor
<1>7. CASE ~pass[w].stale /\ Put(c, o)
  <2>1. obj'[c] = o /\ \A d \in CRs \ {c} : obj'[d] = obj[d]
    BY <1>2, <1>4, <1>7, PutEffect
  <2>2. UNCHANGED <<WorkDone, AskedFor>>
    BY <1>1, <1>4, <2>1, Names DEF WorkDone, AskedFor
  <2>3. \A d \in CRs \ {c} : OutcomeOf(d)' = OutcomeOf(d)
    BY <2>1 DEF OutcomeOf
  <2>4. OutcomeOf(c) = "open" /\ OutcomeOf(c)' = IF pass[w].phase \in Terminal THEN pass[w].phase ELSE "open"
    BY <1>2, <1>4, <1>7, <2>1 DEF OutcomeOf
  <2>5. Outcomes[c] = "open" /\ Outcomes' = [Outcomes EXCEPT ![c] = OutcomeOf(c)']
    BY <1>2, <2>3, <2>4 DEF Outcomes
  <2>6. CASE pass[w].phase \in Terminal
    <3>1. pass[w].phase = "Completed" => c \in WorkDone
      BY <1>2, DoneIsWorkDone
    <3> QED
      BY <1>2, <2>2, <2>4, <2>5, <2>6, <3>1, ContractConclude DEF Terminal
  <2>7. CASE pass[w].phase \notin Terminal
    BY <2>2, <2>3, <2>4, <2>7, OutcomesFrame DEF View
  <2> QED
    BY <2>6, <2>7
<1> QED
  BY <1>5, <1>6, <1>7

(* A Job that ends well takes its snapshot, or loads the one asked for.    *)
LEMMA JobEndsWorks ==
    ASSUME TypeOK, WorkInv, NEW c \in CRs, JobEnds(c)
    PROVE  Contract!Next \/ UNCHANGED View
<1>1. UNCHANGED <<obj, source>> /\ job[c] = "active"
  BY DEF JobEnds, crVars
<1>2. obj[c].made /\ target[c] \in Locations /\ target[c][2] = Subject(c)
  BY <1>1 DEF WorkInv, JobInv
<1>3. UNCHANGED <<Outcomes, AskedFor>>
  BY <1>1 DEF Outcomes, OutcomeOf, AskedFor
<1>4. CASE UNCHANGED <<files, loaded>>
  BY <1>3, <1>4 DEF View, WorkDone
<1>5. CASE c \in Backup /\ files' = files \cup {target[c]} /\ loaded' = loaded
  <2>1. target[c][2] = c
    BY <1>2, <1>5, Names DEF Subject
  <2>2. WorkDone' = WorkDone \cup {c}
    BY <1>5, <2>1 DEF WorkDone
  <2> QED
    BY <1>3, <1>5, <2>2, ContractTake
<1>6. CASE c = Restore /\ target[c] \in files /\ loaded' = target[c] /\ files' = files
  <2>1. target[c][2] = AskedFor
    BY <1>2, <1>6 DEF Subject, AskedFor
  <2>2. AskedFor \in WorkDone
    BY <1>6, <2>1 DEF WorkDone
  <2>3. WorkDone' = WorkDone \cup {Restore}
    BY <1>2, <1>6, NoLocationIsNone DEF WorkDone
  <2> QED
    BY <1>3, <2>2, <2>3, ContractLoad
<1> QED
  BY <1>4, <1>5, <1>6 DEF JobEnds

(* A CR is created: no outcome yet, and the work is whatever it was.       *)
LEMMA CreationStutters ==
    ASSUME TypeOK, WorkInv, NEW c \in CRs, ~obj[c].made, Put(c, New), UNCHANGED <<files, loaded>>
    PROVE  /\ UNCHANGED <<Outcomes, WorkDone>>
           /\ c = Restore => obj'[Restore].made
           /\ c # Restore => obj'[Restore] = obj[Restore]
<1>1. New \in CrType /\ New.made /\ New.phase = "none" /\ obj[c].phase = "none"
  BY DEF New, CrType, Phases, WorkInv, CopyInv, Absent
<1>2. obj'[c] = New /\ \A d \in CRs \ {c} : obj'[d] = obj[d]
  BY <1>1, PutEffect
<1>3. \A d \in CRs : OutcomeOf(d)' = OutcomeOf(d)
  BY <1>1, <1>2 DEF OutcomeOf, Terminal
<1> QED
  BY <1>1, <1>2, <1>3, OutcomesFrame, Names DEF WorkDone

LEMMA RemovalStutters ==
    ASSUME TypeOK, NEW c \in CRs, Remove(c), source' = source
    PROVE  UNCHANGED View
<1>1. obj[c] \in CrType
  BY DEF TypeOK
<1>2. /\ [obj[c] EXCEPT !.exists = FALSE] \in CrType
      /\ [obj[c] EXCEPT !.exists = FALSE].phase = obj[c].phase
      /\ [obj[c] EXCEPT !.exists = FALSE].made = obj[c].made
  BY <1>1 DEF CrType
<1>3. \A d \in CRs : obj'[d].phase = obj[d].phase /\ obj'[d].made = obj[d].made
  BY <1>2, PutEffect DEF Remove
<1>4. \A d \in CRs : OutcomeOf(d)' = OutcomeOf(d)
  BY <1>3 DEF OutcomeOf
<1> QED
  BY <1>3, <1>4, OutcomesFrame, Names DEF View, WorkDone, AskedFor, Remove, NoJob

(* Every step is a step of the contract, or one it does not see.           *)
LEMMA StepRefines ==
    ASSUME TypeOK, WorkInv, [Next]_vars
    PROVE  [Contract!Next]_(Contract!vars)
<1> SUFFICES Contract!Next \/ UNCHANGED View
  BY ContractStutter
<1>0. UNCHANGED <<obj, source, files, loaded>> => UNCHANGED View
  BY DEF View, Outcomes, OutcomeOf, WorkDone, AskedFor
<1>1. CASE Tick
  <2>1. UNCHANGED <<source, files, loaded>>
    BY <1>1 DEF Tick, jobVars
  <2>2. obj' = obj \/ (~obj[clock].made /\ Put(clock, New))
    BY <1>1 DEF Tick, Create, New, crVars
  <2>3. clock \in CRs /\ clock # Restore
    BY Names DEF TypeOK
  <2>4. CASE ~obj[clock].made /\ Put(clock, New)
    BY <2>1, <2>3, <2>4, CreationStutters DEF View, AskedFor
  <2> QED
    BY <1>0, <2>1, <2>2, <2>4
<1>2. CASE Prune
  <2>1. Max(victims) \in CRs /\ source' = source
    BY <1>2, MaxSlot, Names DEF Prune, TypeOK
  <2>2. Remove(Max(victims)) \/ UNCHANGED <<obj, files, loaded>>
    BY <1>2 DEF Prune, crVars, jobVars
  <2> QED
    BY <1>0, <2>1, <2>2, RemovalStutters
<1>3. CASE TickFails \/ PruneFails \/ Advance \/ Restart \/ ClusterChanges \/ UNCHANGED vars
  BY <1>0, <1>3 DEF TickFails, PruneFails, Advance, Restart, ClusterChanges, vars, crVars, jobVars
<1>4. ASSUME NEW w, NEW c, NEW at, Begin(w, c, at) PROVE UNCHANGED View
  BY <1>0, <1>4 DEF Begin, crVars, jobVars
<1>5. ASSUME NEW w, CreateJob(w) \/ PassFails(w) PROVE UNCHANGED View
  BY <1>0, <1>5 DEF CreateJob, PassFails, crVars, jobVars
<1>6. ASSUME NEW c, CacheSync(c) \/ JobVanishes(c) PROVE UNCHANGED View
  BY <1>0, <1>6 DEF CacheSync, JobVanishes, NoJob, crVars, jobVars
<1>7. CASE UserBacksUp
  <2>1. OnDemand \in CRs /\ OnDemand # Restore /\ UNCHANGED <<source, files, loaded>>
    BY <1>7, Names DEF UserBacksUp, jobVars
  <2> QED
    BY <1>7, <2>1, CreationStutters DEF UserBacksUp, New, View, AskedFor
<1>8. ASSUME NEW b \in Backup, NEW by \in {"backup", "path"}, UserRestores(b, by)
      PROVE  Contract!Next
  <2>1. UNCHANGED <<files, loaded>> /\ source'.b = b /\ ~obj[Restore].made
    BY <1>8 DEF UserRestores, jobVars
  <2>2. UNCHANGED <<Outcomes, WorkDone>> /\ obj'[Restore].made
    BY <1>8, <2>1, CreationStutters, Names DEF UserRestores, New
  <2> QED
    BY <2>1, <2>2, ContractAsk DEF AskedFor
<1>9. ASSUME NEW c \in CRs, UserDeletes(c) PROVE UNCHANGED View
  BY <1>9, RemovalStutters DEF UserDeletes
<1> QED
  BY <1>1, <1>2, <1>3, <1>4, <1>5, <1>6, <1>7, <1>8, <1>9, WriteStatusConcludes, JobEndsWorks
     DEF Next, Scheduler, Reconciler, Surroundings, People, BackupReconcile, RestoreReconcile

(* The backup and restore controllers implement what people are promised:  *)
(* an outcome is final, Completed stands for work that was done, and a     *)
(* restore loads the snapshot it was created for.                          *)
THEOREM ContractImplemented == Spec => KeepsContract
<1>1. Init => Contract!Init
  <2> SUFFICES ASSUME Init PROVE Contract!Init
    OBVIOUS
  <2>1. PICK old \in SUBSET Slots : History(old)
    BY InitialHistory
  <2>2. old \in SUBSET Backup /\ Restore \notin old /\ Restore \in CRs
    BY <2>1, Names DEF Backup
  <2>3. \A c \in CRs : OutcomeOf(c) = IF c \in old THEN "Completed" ELSE "open"
    <3> SUFFICES ASSUME NEW c \in CRs
                 PROVE  OutcomeOf(c) = IF c \in old THEN "Completed" ELSE "open"
      OBVIOUS
    <3>1. CASE c \in old
      BY <2>1, <3>1, InitialCRs DEF OutcomeOf, Terminal
    <3>2. CASE c \notin old
      BY <2>1, <3>2, InitialCRs DEF OutcomeOf, Terminal
    <3> QED
      BY <3>1, <3>2
  <2>4. Contract!All = CRs /\ ~obj[Restore].made /\ loaded = NoLocation
    BY <2>1, <2>2, Names, InitialCRs DEF Contract!All, CRs, Init, Absent
  <2>5. {l[2] : l \in files} = old
    <3>1. files = {"pvc"} \X old
      BY <2>1, InitialCRs
    <3>2. ASSUME NEW b \in old PROVE b \in {l[2] : l \in files}
      <4>1. <<"pvc", b>> \in files /\ <<"pvc", b>>[2] = b
        BY <3>1
      <4> QED
        BY <4>1
    <3>3. ASSUME NEW l \in files PROVE l[2] \in old
      BY <3>1
    <3> QED
      BY <3>2, <3>3
  <2> QED
    BY <2>2, <2>3, <2>4, <2>5 DEF Contract!Init, OutcomeOf
<1>2. TypeOK /\ WorkInv /\ [Next]_vars => [Contract!Next]_(Contract!vars)
  BY StepRefines
<1> QED
  BY <1>1, <1>2, WorkAlways, PTL DEF Spec, KeepsContract, Contract!Spec

(***************************************************************************)
(* AdminScripts: any number of scripts one after the other, edits, faults. *)
(***************************************************************************)
Rendered == (ScriptFeatures \ {"elsewhere"}) \cup ClusterFeatures \cup {"certs"}

(* A CronJob, as far as this controller knows: none, somebody else's, or   *)
(* one it rendered for a script, which the API server has accepted.        *)
CronJobs ==
    {c \in [owner : 0 .. MaxScripts, active : BOOLEAN,
            spec : {NoCron.spec, Foreign.spec} \cup SUBSET (Rendered \ {"badSchedule"})] :
        c.spec \in {NoCron.spec, Foreign.spec} \/ c.owner # 0}

(* A pass in progress, and what it has decided at each stage.              *)
ScriptPasses ==
    [pc : {"render", "upsert", "status"}, uid : 1 .. MaxScripts, gen : Nat,
     f : SUBSET ScriptFeatures, desired : SUBSET Rendered,
     outcome : {"none", "Pending", "Failed", "Active", "Suspended"}, active : BOOLEAN]

PassInvScript ==
    \/ scriptPass = IdlePass
    \/ /\ scriptPass \in ScriptPasses
       /\ scriptPass.pc = "upsert" => scriptPass.f \subseteq scriptPass.desired
       /\ scriptPass.pc = "status" => scriptPass.outcome # "none"

(* The script, its status and the Seaweed. A status is of a generation     *)
(* that the script has had: a pass writes only for the one it read.        *)
ScriptRecords ==
    /\ script \in [uid : 0 .. MaxScripts, exists : BOOLEAN, f : SUBSET ScriptFeatures,
                   gen : Nat]
    /\ script.exists => script.uid # 0
    /\ status \in [phase : {"none", "Pending", "Active", "Suspended"}, gen : Nat,
                   active : BOOLEAN]
    /\ status.gen <= script.gen
    /\ seaweed \in [exists : BOOLEAN, f : SUBSET ClusterFeatures, observed : BOOLEAN]

ScriptInv ==
    /\ ScriptRecords /\ PassInvScript
    /\ cron \in CronJobs /\ seenCron \in CronJobs
    /\ queued \in BOOLEAN /\ probed \in BOOLEAN

(* No CronJob, and one that is not of this controller, are CronJobs.       *)
LEMMA CronJobFacts == NoCron \in CronJobs /\ Foreign \in CronJobs
BY ScriptAssumption DEF NoCron, Foreign, CronJobs

(* What is rendered has the script's features, and nothing unknown.        *)
LEMMA RenderFacts ==
    ASSUME NEW sf \in SUBSET ScriptFeatures, NEW cf \in SUBSET ClusterFeatures, NEW known
    PROVE  /\ CronJobSpec(sf, cf, known) \subseteq Rendered
           /\ "elsewhere" \notin sf => sf \subseteq CronJobSpec(sf, cf, known)
BY DEF CronJobSpec, Rendered, tlsEffective

(* A feature put in or taken out leaves a set of features.                 *)
LEMMA ToggledType ==
    ASSUME NEW S, NEW f \in SUBSET S, NEW x \in S PROVE Toggled(f, x) \in SUBSET S
BY DEF Toggled

(* A run that starts or ends leaves a CronJob.                             *)
LEMMA RunType ==
    ASSUME NEW c \in CronJobs, NEW a \in BOOLEAN
    PROVE  [c EXCEPT !.active = a] \in CronJobs
BY DEF CronJobs

(* A pass writes a CronJob for its own script, with a schedule that parses.*)
LEMMA WrittenType ==
    ASSUME ScriptInv, scriptPass.pc = "upsert", Accepted
    PROVE  [cron EXCEPT !.owner = scriptPass.uid, !.spec = scriptPass.desired] \in CronJobs
<1>1. scriptPass \in ScriptPasses
  BY DEF ScriptInv, PassInvScript, IdlePass
<1>2. /\ scriptPass.uid \in 0 .. MaxScripts /\ scriptPass.uid # 0
      /\ scriptPass.desired \in SUBSET (Rendered \ {"badSchedule"})
  BY <1>1, ScriptAssumption DEF Accepted, ScriptPasses
<1> QED
  BY <1>2 DEF ScriptInv, CronJobs

(* Every step of the controller, Kubernetes and people keeps ScriptInv.    *)
LEMMA ScriptInvStep ==
    ASSUME ScriptInv, [ScriptNext]_scriptVars
    PROVE  ScriptInv'
<1> USE DEF ScriptInv
<1>1. CASE BeginScript
  <2>1. UNCHANGED <<script, status, seaweed, cron, seenCron, probed>> /\ queued' = FALSE
    BY <1>1 DEF BeginScript
  <2>2. PassInvScript'
    <3>1. CASE script.exists
      <4>1. scriptPass' = [pc |-> "render", uid |-> script.uid, gen |-> script.gen,
                           f |-> script.f, desired |-> {}, outcome |-> "none",
                           active |-> FALSE]
        BY <1>1, <3>1 DEF BeginScript, IdlePass
      <4>2. script.uid \in 1 .. MaxScripts
        BY <3>1, ScriptAssumption DEF ScriptRecords
      <4>3. scriptPass' \in ScriptPasses
        BY <4>1, <4>2 DEF ScriptRecords, ScriptPasses
      <4> QED
        BY <4>1, <4>3 DEF PassInvScript
    <3>2. CASE ~script.exists
      BY <1>1, <3>2 DEF BeginScript, PassInvScript
    <3> QED
      BY <3>1, <3>2
  <2> QED
    BY <2>1, <2>2 DEF ScriptRecords
<1>2. CASE buildCronJob
  <2>1. UNCHANGED <<script, status, seaweed, cron, seenCron, queued, probed>>
    BY <1>2 DEF buildCronJob
  <2>2. scriptPass \in ScriptPasses
    BY <1>2 DEF buildCronJob, PassInvScript, IdlePass
  <2>3. PassInvScript'
    <3>1. CASE seaweed.exists /\ "elsewhere" \notin scriptPass.f
      <4> DEFINE d == CronJobSpec(scriptPass.f, seaweed.f, probed)
      <4>1. d \in SUBSET Rendered /\ scriptPass.f \subseteq d
        BY <2>2, <3>1, RenderFacts DEF ScriptPasses, ScriptRecords
      <4>2. scriptPass' = [scriptPass EXCEPT !.pc = "upsert", !.desired = d]
        BY <1>2, <3>1 DEF buildCronJob
      <4> HIDE DEF d
      <4>3. /\ scriptPass' \in ScriptPasses /\ scriptPass'.pc = "upsert"
            /\ scriptPass'.f = scriptPass.f /\ scriptPass'.desired = d
        BY <2>2, <4>1, <4>2 DEF ScriptPasses
      <4> QED
        BY <4>1, <4>3 DEF PassInvScript
    <3>2. CASE ~(seaweed.exists /\ "elsewhere" \notin scriptPass.f)
      <4>1. scriptPass' = [scriptPass EXCEPT !.pc = "status", !.outcome = "Pending"]
        BY <1>2, <3>2 DEF buildCronJob
      <4>2. /\ scriptPass' \in ScriptPasses /\ scriptPass'.pc = "status"
            /\ scriptPass'.outcome = "Pending"
        BY <2>2, <4>1 DEF ScriptPasses
      <4> QED
        BY <4>2 DEF PassInvScript
    <3> QED
      BY <3>1, <3>2
  <2> QED
    BY <2>1, <2>3 DEF ScriptRecords
<1>3. CASE createOrUpdateCronJob
  <2>1. UNCHANGED <<script, status, seaweed, seenCron, queued, probed>>
        /\ scriptPass.pc = "upsert"
    BY <1>3 DEF createOrUpdateCronJob
  <2>2. cron' \in CronJobs
    BY <1>3, WrittenType DEF createOrUpdateCronJob
  <2>3. PICK o \in {"Failed", "Active", "Suspended"} :
           scriptPass' = [scriptPass EXCEPT !.pc = "status", !.outcome = o,
                                            !.active = seenCron.active]
    BY <1>3 DEF createOrUpdateCronJob, Phase
  <2>4. scriptPass \in ScriptPasses /\ seenCron.active \in BOOLEAN
    BY <2>1 DEF PassInvScript, IdlePass, CronJobs
  <2>5. scriptPass' \in ScriptPasses /\ scriptPass'.pc = "status" /\ scriptPass'.outcome = o
    BY <2>3, <2>4 DEF ScriptPasses
  <2>6. PassInvScript'
    BY <2>5 DEF PassInvScript
  <2> QED
    BY <2>1, <2>2, <2>6 DEF ScriptRecords
<1>4. CASE patchStatus
  <2> DEFINE stored == /\ script.exists
                       /\ script.uid = scriptPass.uid /\ script.gen = scriptPass.gen
  <2>1. /\ UNCHANGED <<script, seaweed, cron, seenCron, probed>> /\ scriptPass' = IdlePass
        /\ status' = IF stored THEN NewStatus ELSE status
        /\ scriptPass.pc = "status"
    BY <1>4 DEF patchStatus
  <2>2. queued' \in BOOLEAN
    BY <1>4, Zenon DEF patchStatus
  <2>3. scriptPass \in ScriptPasses /\ scriptPass.outcome # "none"
    BY <2>1 DEF PassInvScript, IdlePass
  <2>4. ScriptRecords'
    <3>1. /\ NewStatus \in [phase : {"none", "Pending", "Active", "Suspended"}, gen : Nat,
                            active : BOOLEAN]
          /\ NewStatus.gen = scriptPass.gen
      BY <2>3 DEF NewStatus, ScriptPasses, ScriptRecords
    <3>2. stored => NewStatus.gen <= script.gen
      BY <3>1 DEF ScriptRecords
    <3> HIDE DEF stored
    <3> QED
      BY <2>1, <3>1, <3>2 DEF ScriptRecords
  <2> QED
    BY <2>1, <2>2, <2>4 DEF PassInvScript
<1>5. CASE CallFails \/ OperatorRestarts
  <2>1. /\ UNCHANGED <<script, status, seaweed, cron>> /\ scriptPass' = IdlePass
        /\ queued' = TRUE /\ seenCron' \in {seenCron, cron}
    BY <1>5 DEF CallFails, OperatorRestarts
  <2>2. probed' \in BOOLEAN
    BY <1>5 DEF CallFails, OperatorRestarts
  <2> QED
    BY <2>1, <2>2 DEF PassInvScript, ScriptRecords
<1>6. CASE SeaweedPass
  <2>1. UNCHANGED <<script, status, cron, seenCron, scriptPass>>
        /\ seaweed' = [seaweed EXCEPT !.observed = TRUE]
    BY <1>6 DEF SeaweedPass
  <2>2. probed' \in BOOLEAN /\ queued' \in BOOLEAN
    BY <1>6, Zenon DEF SeaweedPass
  <2>3. ScriptRecords'
    BY <2>1 DEF ScriptRecords
  <2> QED
    BY <2>1, <2>2, <2>3 DEF PassInvScript
<1>7. CASE CronJobSync
  <2>1. UNCHANGED <<script, status, seaweed, cron, probed, scriptPass>> /\ seenCron' = cron
    BY <1>7 DEF CronJobSync
  <2>2. queued' \in BOOLEAN
    BY <1>7, Zenon DEF CronJobSync
  <2> QED
    BY <2>1, <2>2 DEF PassInvScript, ScriptRecords
<1>8. CASE RunStarts \/ RunEnds \/ Collect
  <2>1. UNCHANGED <<script, status, seaweed, seenCron, queued, probed, scriptPass>>
    BY <1>8 DEF RunStarts, RunEnds, Collect
  <2>2. cron' \in CronJobs
    BY <1>8, RunType, CronJobFacts DEF RunStarts, RunEnds, Collect
  <2> QED
    BY <2>1, <2>2 DEF PassInvScript, ScriptRecords
<1>9. CASE CreateScript
  <2>1. /\ UNCHANGED <<seaweed, cron, seenCron, probed, scriptPass>>
        /\ queued' = TRUE /\ status' = NoStatus /\ script.uid < MaxScripts
    BY <1>9 DEF CreateScript
  <2>2. PICK f \in {{}, {"suspend"}} :
           script' = [uid |-> script.uid + 1, exists |-> TRUE, f |-> f, gen |-> 1]
    BY <1>9 DEF CreateScript
  <2>3. script.uid + 1 \in 1 .. MaxScripts /\ f \in SUBSET ScriptFeatures
    BY <2>1, ScriptAssumption DEF ScriptRecords, ScriptFeatures
  <2>4. ScriptRecords'
    BY <2>1, <2>2, <2>3 DEF ScriptRecords, NoStatus
  <2> QED
    BY <2>1, <2>4 DEF PassInvScript
<1>10. CASE EditScript
  <2>1. UNCHANGED <<status, seaweed, cron, seenCron, probed, scriptPass>> /\ queued' = TRUE
        /\ script.exists
    BY <1>10 DEF EditScript
  <2>2. PICK x \in ScriptFeatures :
           script' = [script EXCEPT !.f = Toggled(script.f, x), !.gen = script.gen + 1]
    BY <1>10, Zenon DEF EditScript
  <2>3. Toggled(script.f, x) \in SUBSET ScriptFeatures
    BY ToggledType DEF ScriptRecords
  <2>4. ScriptRecords'
    <3>1. ASSUME NEW g \in SUBSET ScriptFeatures,
                 script' = [script EXCEPT !.f = g, !.gen = script.gen + 1]
          PROVE  ScriptRecords'
      <4>1. /\ script' \in [uid : 0 .. MaxScripts, exists : BOOLEAN,
                            f : SUBSET ScriptFeatures, gen : Nat]
            /\ script'.uid = script.uid /\ script'.gen = script.gen + 1
        <5>1. \A n \in Nat :
                 /\ [script EXCEPT !.f = g, !.gen = n]
                       \in [uid : 0 .. MaxScripts, exists : BOOLEAN,
                            f : SUBSET ScriptFeatures, gen : Nat]
                 /\ [script EXCEPT !.f = g, !.gen = n].uid = script.uid
                 /\ [script EXCEPT !.f = g, !.gen = n].gen = n
          BY DEF ScriptRecords
        <5>2. script.gen + 1 \in Nat
          BY DEF ScriptRecords
        <5> QED
          BY <3>1, <5>1, <5>2, Zenon
      <4>2. script.uid # 0 /\ status'.gen <= script'.gen
        BY <2>1, <4>1 DEF ScriptRecords
      <4> QED
        BY <2>1, <4>1, <4>2 DEF ScriptRecords
    <3> QED
      BY <2>2, <2>3, <3>1, Zenon
  <2> QED
    BY <2>1, <2>4 DEF PassInvScript
<1>11. CASE DeleteScript
  <2>1. UNCHANGED <<status, seaweed, cron, seenCron, probed, scriptPass>> /\ queued' = TRUE
        /\ script' = [script EXCEPT !.exists = FALSE]
    BY <1>11 DEF DeleteScript
  <2>2. ScriptRecords'
    BY <2>1 DEF ScriptRecords
  <2> QED
    BY <2>1, <2>2 DEF PassInvScript
<1>12. CASE EditCluster
  <2>1. UNCHANGED <<script, status, cron, seenCron, probed, scriptPass>>
    BY <1>12, Zenon DEF EditCluster
  <2>2. queued' \in BOOLEAN
    BY <1>12, Zenon DEF EditCluster
  <2>3. seaweed' \in [exists : BOOLEAN, f : SUBSET ClusterFeatures, observed : BOOLEAN]
    <3>1. CASE seaweed' = [seaweed EXCEPT !.exists = ~@, !.observed = FALSE]
      BY <3>1 DEF ScriptRecords
    <3>2. ASSUME NEW x \in ClusterFeatures,
                 seaweed' = [seaweed EXCEPT !.f = Toggled(@, x), !.observed = FALSE]
          PROVE  seaweed' \in [exists : BOOLEAN, f : SUBSET ClusterFeatures,
                               observed : BOOLEAN]
      <4>1. Toggled(seaweed.f, x) \in SUBSET ClusterFeatures
        BY ToggledType DEF ScriptRecords
      <4> QED
        BY <3>2, <4>1 DEF ScriptRecords
    <3> QED
      BY <1>12, <3>1, <3>2, Zenon DEF EditCluster
  <2>4. ScriptRecords'
    BY <2>1, <2>3 DEF ScriptRecords
  <2> QED
    BY <2>1, <2>2, <2>4 DEF PassInvScript
<1>13. CASE UNCHANGED scriptVars
  BY <1>13 DEF scriptVars, ScriptRecords, PassInvScript
<1> QED
  BY <1>1, <1>2, <1>3, <1>4, <1>5, <1>6, <1>7, <1>8, <1>9, <1>10, <1>11, <1>12, <1>13
     DEF ScriptNext, PassStep

(* ScriptInv holds throughout.                                             *)
LEMMA ScriptInvHolds == ScriptSpec => []ScriptInv
<1>1. ScriptInit => ScriptInv
  <2> SUFFICES ASSUME ScriptInit PROVE ScriptInv
    OBVIOUS
  <2>1. cron \in CronJobs /\ seenCron \in CronJobs
    BY CronJobFacts DEF ScriptInit
  <2>2. script = [uid |-> 0, exists |-> FALSE, f |-> {}, gen |-> 0] /\ status = NoStatus
    BY DEF ScriptInit
  <2>3. seaweed \in [exists : BOOLEAN, f : SUBSET ClusterFeatures, observed : BOOLEAN]
    BY DEF ScriptInit, ClusterFeatures
  <2>4. ScriptRecords
    BY <2>2, <2>3, ScriptAssumption DEF ScriptRecords, NoStatus
  <2> QED
    BY <2>1, <2>4 DEF ScriptInit, ScriptInv, PassInvScript
<1> QED
  BY <1>1, ScriptInvStep, PTL DEF ScriptSpec

(* Every variable keeps its type, for any number of scripts, edits and     *)
(* faults; a status is never of a generation to come, a CronJob holds only *)
(* what was there to render, with a schedule that parses, and a pass that  *)
(* is about to write has the whole spec of the script in hand.             *)
THEOREM ScriptTypeCorrect == ScriptSpec => []ScriptTypeOK
<1>1. ScriptInv => ScriptTypeOK
  <2> SUFFICES ASSUME ScriptInv PROVE ScriptTypeOK
    OBVIOUS
  <2>1. /\ script.uid \in 0 .. MaxScripts /\ script.f \subseteq ScriptFeatures
        /\ seaweed.f \subseteq ClusterFeatures
        /\ status.phase \in {"none", "Pending", "Active", "Suspended"}
    BY DEF ScriptInv, ScriptRecords
  <2>2. status.gen \in 0 .. script.gen
    BY DEF ScriptInv, ScriptRecords
  <2>3. \A c \in CronJobs :
           \/ c.spec \in {NoCron.spec, Foreign.spec}
           \/ /\ c.owner \in 1 .. MaxScripts
              /\ c.spec \subseteq (ScriptFeatures \ {"elsewhere", "badSchedule"})
                                 \cup ClusterFeatures \cup {"certs"}
    <3> TAKE c \in CronJobs
    <3>1. CASE c.spec \notin {NoCron.spec, Foreign.spec}
      <4>1. c.owner \in 1 .. MaxScripts /\ c.spec \in SUBSET (Rendered \ {"badSchedule"})
        BY <3>1, ScriptAssumption DEF CronJobs
      <4> QED
        BY <4>1 DEF Rendered
    <3> QED
      BY <3>1
  <2>4. queued \in BOOLEAN /\ probed \in BOOLEAN /\ script.exists \in BOOLEAN
        /\ seaweed.exists \in BOOLEAN
    BY DEF ScriptInv, ScriptRecords
  <2>5. /\ scriptPass.pc \in {"idle", "render", "upsert", "status"}
        /\ scriptPass.pc = "idle" <=> scriptPass = IdlePass
        /\ scriptPass.pc = "upsert" => scriptPass.f \subseteq scriptPass.desired
    BY DEF ScriptInv, PassInvScript, ScriptPasses, IdlePass
  <2>6. cron \in CronJobs /\ seenCron \in CronJobs
    BY DEF ScriptInv
  <2> QED
    BY <2>1, <2>2, <2>3, <2>4, <2>5, <2>6 DEF ScriptTypeOK
<1> QED
  BY <1>1, ScriptInvHolds, PTL

(* A CronJob stays with the AdminScript it was made for until it is        *)
(* collected, for any number of scripts of the name, restarts and edits,   *)
(* although SetControllerReference looks at a cached copy.                 *)
THEOREM OwnerStays == ScriptSpec => KeepsOwner
<1>1. ScriptInv /\ [ScriptNext]_scriptVars =>
         [cron.owner # 0 /\ cron'.owner # 0 => cron'.owner = cron.owner]_scriptVars
  <2> SUFFICES ASSUME ScriptInv, ScriptNext, cron.owner # 0, cron'.owner # 0
               PROVE  cron'.owner = cron.owner
    OBVIOUS
  <2>1. CASE createOrUpdateCronJob
    <3>1. CASE cron' = cron
      BY <3>1
    <3>2. CASE cron' # cron
      <4>1. /\ Ownable /\ Accepted
            /\ cron' = [cron EXCEPT !.owner = scriptPass.uid, !.spec = scriptPass.desired]
        BY <2>1, <3>2 DEF createOrUpdateCronJob
      <4>2. cron'.owner = scriptPass.uid
        BY <4>1 DEF ScriptInv, CronJobs
      <4> QED
        BY <4>1, <4>2 DEF Ownable, Accepted
    <3> QED
      BY <3>1, <3>2
  <2>2. CASE RunStarts \/ RunEnds
    BY <2>2 DEF RunStarts, RunEnds, ScriptInv, CronJobs
  <2>3. CASE Collect
    BY <2>3 DEF Collect, NoCron
  <2>4. CASE ~(createOrUpdateCronJob \/ RunStarts \/ RunEnds \/ Collect)
    <3>1. cron' = cron
      BY <2>4, Zenon DEF ScriptNext, PassStep, BeginScript, buildCronJob, patchStatus,
         CallFails, OperatorRestarts, SeaweedPass, CronJobSync, CreateScript, EditScript,
         DeleteScript, EditCluster
    <3> QED
      BY <3>1
  <2> QED
    BY <2>1, <2>2, <2>3, <2>4
<1> QED
  BY <1>1, ScriptInvHolds, PTL DEF ScriptSpec, KeepsOwner
==============================================================================
