------------------------- MODULE MCBucketReconcile -------------------------
(* TLC instance of BucketReconcile: the specs the user picks from.         *)
EXTENDS BucketReconcile

(* Three specs of the default name: without any setting, with those a pass *)
(* takes back from its records alone (owner, quota, grants), and with the  *)
(* lock. One of another name, with a slip in its quota.                    *)
Plain ==
    [name |-> "photos", adopt |-> TRUE, reclaim |-> "Delete", versioning |-> "Off",
     lock |-> FALSE, quota |-> "none", owner |-> None, access |-> {},
     placement |-> FALSE]
Varied ==
    {Plain,
     [Plain EXCEPT !.adopt = FALSE, !.reclaim = "Retain", !.quota = "set",
                   !.owner = "ann", !.access = {"ann"}],
     [Plain EXCEPT !.versioning = "Enabled", !.lock = TRUE, !.quota = "zero",
                   !.placement = TRUE],
     [Plain EXCEPT !.name = "videos", !.adopt = FALSE, !.quota = "invalid"]}
=============================================================================
