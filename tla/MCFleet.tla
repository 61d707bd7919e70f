------------------------------ MODULE MCFleet ------------------------------
(* Two analyses under two settings of JobManager, in one run: on two places, *)
(* whose load changes, with no bound on a user's analyses and no pause; and  *)
(* on one place with a bound of one, pauses, their lifetime and a crash.     *)
EXTENDS MCJobManager

VARIABLE setting

TwoPlaces == INSTANCE JobManager WITH
    MaxActivePerUser <- 0, HasLifetime <- FALSE, MaxPauses <- 0, MaxStops <- 0
\* Taken with its theorems, for MCFleet_proofs.
OneAtATime == INSTANCE JobManager_proofs WITH MaxParallel <- 1

FleetInit ==
    \/ setting = "two places" /\ TwoPlaces!Init
    \/ setting = "one at a time" /\ OneAtATime!Init
FleetNext ==
    /\ setting' = setting
    /\ \/ setting = "two places" /\ TwoPlaces!Next
       \/ setting = "one at a time" /\ OneAtATime!Next
FleetSpec == FleetInit /\ [][FleetNext]_<<vars, setting>>

\* Where a user may have one analysis active, no order of submits, pauses,
\* resumes, crashes and failed writes gives two (JobManager's ActivePerUser).
UserIsBounded == setting = "one at a time" => ActivePerUser
=============================================================================
