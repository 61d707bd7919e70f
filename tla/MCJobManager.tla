--------------------------- MODULE MCJobManager ---------------------------
(* Small instances of JobManager: the constants the configurations share.  *)
EXTENDS JobManager, TLC

\* Two users: everybody but "last" is the first one's job.
CONSTANT last

MCOwner == [j \in Jobs |-> IF j = last THEN "other" ELSE "first"]
MCUsers == {"first", "other"}

\* The owners matter only where the bound of a user is on.
Symmetry == Permutations(Jobs)
=============================================================================
