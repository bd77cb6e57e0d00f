---------------------------- MODULE BackupContract ----------------------------
(***************************************************************************)
(* What SeaweedBackup and SeaweedRestore promise to the people who create  *)
(* them, whatever the operator goes through: a backup or restore has at    *)
(* most one outcome, which stays; it is Completed only after the work was  *)
(* done; and a restore works on the snapshot it was created for, which was *)
(* taken before. How passes, Jobs, caches and retries bring this about is  *)
(* the business of Backups, which implements this specification.           *)
(***************************************************************************)
CONSTANTS
    Backup,     \* the backups
    Restore     \* the restore

VARIABLES
    outcome,    \* of each of them: open, Completed or Failed
    done,       \* those whose work has been done
    from        \* the backup that the restore is for, or the restore itself: none yet

vars == <<outcome, done, from>>
All == Backup \cup {Restore}

TypeOK ==
    /\ outcome \in [All -> {"open", "Completed", "Failed"}]
    /\ done \subseteq All /\ from \in All

(* Backups of the past may be there.                                       *)
Init ==
    /\ \E past \in SUBSET Backup :
         /\ outcome = [c \in All |-> IF c \in past THEN "Completed" ELSE "open"]
         /\ done = past
    /\ from = Restore

(* A snapshot is in place.                                                 *)
Take(b) == done' = done \cup {b} /\ UNCHANGED <<outcome, from>>

(* The restore is asked for.                                               *)
Ask(b) == from = Restore /\ from' = b /\ UNCHANGED <<outcome, done>>

(* The snapshot is loaded.                                                 *)
Load == from \in done /\ done' = done \cup {Restore} /\ UNCHANGED <<outcome, from>>

Conclude(c) ==
    /\ outcome[c] = "open"
    /\ \/ c \in done /\ outcome' = [outcome EXCEPT ![c] = "Completed"]
       \/ outcome' = [outcome EXCEPT ![c] = "Failed"]
    /\ UNCHANGED <<done, from>>

Next ==
    \/ \E b \in Backup : Take(b) \/ Ask(b)
    \/ Load
    \/ \E c \in All : Conclude(c)

Spec == Init /\ [][Next]_vars
===============================================================================
