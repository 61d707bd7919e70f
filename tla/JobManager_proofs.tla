-------------------------- MODULE JobManager_proofs --------------------------
(***************************************************************************)
(* What holds of the job manager for every set of jobs, every load, limit  *)
(* and bound: the inductive invariant IInv of JobManager, the invariants   *)
(* and action properties that follow from it, and that the manager         *)
(* implements JobLifecycle.                                                *)
(*                                                                         *)
(* One lemma per part of IInv shows that a step preserves that part, by the*)
(* kinds of step of Next; a kind is split into its actions where the part  *)
(* depends on what the action does.                                        *)
(***************************************************************************)
EXTENDS JobManager, FiniteSetTheorems, TLAPS

USE DEF record, process, run, maps, expiry, bounds

---------------------------------------------------------------------------
(* Counting *)

\* A submitted job is given an ordinal, whatever was submitted before.
LEMMA CreatedCount == Cardinality({k \in Jobs : created[k] > 0}) \in Nat
BY FS_CardinalityType, FS_Subset, JobsAssumption

\* The runs of this process are finitely many.
LEMMA Counts == IsFiniteSet(InFlight) /\ Cardinality(InFlight) \in Nat
BY FS_CardinalityType, FS_Subset, JobsAssumption DEF InFlight

\* A claim adds one run.
LEMMA RunEnters ==
    ASSUME TypeOK, NEW j \in Jobs, j \notin InFlight, phase' = [phase EXCEPT ![j] = "claimed"]
    PROVE  Cardinality(InFlight') = Cardinality(InFlight) + 1
<1>1. InFlight' = InFlight \cup {j}
      BY DEF InFlight, TypeOK
<1> QED
      BY <1>1, Counts, FS_AddElement

\* The end of a run takes one away.
LEMMA RunLeaves ==
    ASSUME TypeOK, NEW j \in InFlight, phase' = [phase EXCEPT ![j] = "idle"]
    PROVE  Cardinality(InFlight') = Cardinality(InFlight) - 1
<1>1. InFlight' = InFlight \ {j}
      BY DEF InFlight, TypeOK
<1> QED
      BY <1>1, Counts, FS_RemoveElement

\* A run that goes on, and a rescue, leave the runs as they are.
LEMMA Continues ==
    ASSUME TypeOK, NEW j \in Jobs, NEW p, NEW q, Goes(j, p, q),
           p \in {"idle", "rescuing"} <=> q \in {"idle", "rescuing"}
    PROVE  InFlight' = InFlight
BY DEF Goes, InFlight, TypeOK

---------------------------------------------------------------------------
(* The parts of the inductive invariant *)

\* The end of a run writes a record of the right shape.
LEMMA EndsType ==
    ASSUME TypeOK, NEW j \in Jobs, NEW s \in Known, NEW r \in Reason, Ends(j, s, r),
           linked' \subseteq Jobs, faults' \in Nat,
           UNCHANGED <<created, reports, files, expiry, stops, pauses>>
    PROVE  TypeOK'
BY DEF Ends, Dropped, Ended, TypeOK, Outcome, Phase

\* A worker's own steps leave a directory it may leave.
LEMMA WritesType ==
    ASSUME TypeOK, NEW j \in Jobs, WorkerWrites(j)
    PROVE  /\ files' \in [Jobs -> SUBSET {"work", "capture", "report"}]
           /\ files'[j] \cap {"work", "report"} # {} \/ files[j] \cap {"work", "report"} = {}
BY DEF WorkerWrites, Grown, TypeOK

\* Types; a place is only given back by somebody who holds one.
LEMMA TypeStep ==
    ASSUME IInv, [Next]_vars
    PROVE  TypeOK'
<1> USE DEF IInv, TypeOK, Status, Terminal, Known, Reason, Outcome, Phase
<1>1. ASSUME NEW j \in Jobs, Request(j) PROVE TypeOK'
      BY <1>1, CreatedCount DEF Request, Submit, CancelQueued, CancelPaused, CancelRunning,
         PauseQueued, PauseRunning, Resume, BeginRescue, Goes, Rescuable
<1>2. ASSUME NEW j \in Jobs, StartWorker(j) \/ StartSpent(j) \/ StartFails(j) PROVE TypeOK'
      BY <1>2 DEF StartWorker, StartSpent, Goes, StartFails
<1>3. ASSUME NEW j \in Jobs, WorkerWrites(j) \/ WorkerExits(j) \/ WorkerKilled(j) PROVE TypeOK'
      BY <1>3, WritesType DEF WorkerWrites, WorkerExits, Goes, WorkerKilled
<1>4. ASSUME NEW j \in Jobs, ReadPauseMark(j) PROVE TypeOK'
      BY <1>4 DEF ReadPauseMark, Goes
<1>5. ASSUME NEW j \in Jobs, Prune(j) PROVE TypeOK'
      BY <1>5 DEF Prune, Goes, Pruned
<1>6. ASSUME NEW j \in Jobs, LogFails(j) \/ FinishStopped(j) PROVE TypeOK'
      BY <1>6, EndsType DEF LogFails, FinishStopped
<1>7. ASSUME NEW j \in Jobs, FinishFailed(j) PROVE TypeOK'
      BY <1>7, EndsType DEF FinishFailed, FilesOfRun, Verdict
<1>8. ASSUME NEW j \in Jobs, InsertReport(j) PROVE TypeOK'
      BY <1>8 DEF InsertReport, Goes
<1>9. ASSUME NEW j \in Jobs, FinishRecorded(j) PROVE TypeOK'
      BY <1>9, EndsType DEF FinishRecorded
<1>10. ASSUME NEW j \in Jobs, Unlocked(j) PROVE TypeOK'
      BY <1>10 DEF Unlocked, Signal, ExpireOne, StillPaused, Discard, EndRescue, Goes
<1>11. ASSUME NEW j \in Jobs, DeadlinePasses(j) \/ ClaimFails(j) PROVE TypeOK'
      BY <1>11 DEF DeadlinePasses, ClaimFails, StillQueued
<1>12. ASSUME NEW j \in Jobs, InsertFails(j) PROVE TypeOK'
      BY <1>12, EndsType DEF InsertFails
<1>13. ASSUME NEW j \in Jobs, FinishUnwritten(j) PROVE TypeOK'
      BY <1>13 DEF FinishUnwritten, Dropped, Ended
<1>14. ASSUME NEW j \in Jobs, RescueUnwritten(j) PROVE TypeOK'
      BY <1>14 DEF RescueUnwritten, Goes
<1>15. ASSUME NEW j \in Jobs, LifetimePasses(j) PROVE TypeOK'
      BY <1>15 DEF LifetimePasses
<1>16. ASSUME NEW j \in Jobs, Pick(j) \/ Claim(j) PROVE TypeOK'
      BY <1>16 DEF Pick, Oldest, Queued, Claim, StillQueued
<1>17. CASE Acquire \/ PickNone
      BY <1>17, Counts DEF Acquire, PickNone, Queued, PlacesAreCounted
<1>18. CASE ClaimStale \/ Release
      BY <1>18, Counts DEF ClaimStale, StillQueued, Release, PlacesAreCounted
<1>19. ASSUME NEW n \in 1..MaxParallel, SetLoad(n) PROVE TypeOK'
      BY <1>19 DEF SetLoad
<1>20. CASE KeepLonger \/ ListExpired
      BY <1>20 DEF KeepLonger, ListExpired
<1>21. CASE Stop
      BY <1>21 DEF Stop
<1>22. CASE Exit
      BY <1>22 DEF Exit, Gone
<1>23. CASE Crash
      BY <1>23 DEF Crash, Gone
<1>24. CASE Start
      BY <1>24 DEF Start, Recovered
<1>25. CASE UNCHANGED vars
      BY <1>25 DEF vars
<1> QED
      BY <1>1, <1>2, <1>3, <1>4, <1>5, <1>6, <1>7, <1>8, <1>9, <1>10, <1>11, <1>12, <1>13,
         <1>14, <1>15, <1>16, <1>17, <1>18, <1>19, <1>20, <1>21, <1>22, <1>23, <1>24, <1>25 DEF
         Next, LoopStep, RunStep, Mishap

\* Places: a claim turns the place of the loop into one of a run, the end of a
\* run turns it into one about to be given back.
LEMMA PlacesStep ==
    ASSUME IInv, [Next]_vars
    PROVE  PlacesAreCounted'
<1> USE DEF IInv, PlacesAreCounted, TypeOK
<1>1. ASSUME NEW j \in Jobs, Submit(j) \/ CancelQueued(j) \/ CancelPaused(j) \/ CancelRunning(j)
      \/ PauseQueued(j) \/ PauseRunning(j) \/ Resume(j) \/ Signal(j) \/ ExpireOne(j) \/
      Discard(j) \/ DeadlinePasses(j) \/ LifetimePasses(j) \/ Pick(j) PROVE PlacesAreCounted'
      BY <1>1 DEF Submit, CancelQueued, CancelPaused, CancelRunning, PauseQueued, PauseRunning,
         Resume, Signal, ExpireOne, StillPaused, Discard, DeadlinePasses, LifetimePasses, Pick,
         InFlight
<1>2. ASSUME NEW j \in Jobs, BeginRescue(j) \/ EndRescue(j) \/ RescueUnwritten(j) \/
      StartWorker(j) \/ StartSpent(j) \/ StartFails(j) \/ WorkerWrites(j) \/ WorkerExits(j)
      \/ WorkerKilled(j) \/ ReadPauseMark(j) \/ Prune(j) \/ InsertReport(j) PROVE PlacesAreCounted'
      BY <1>2, Continues DEF BeginRescue, Rescuable, EndRescue, RescueUnwritten, StartWorker,
         StartSpent, StartFails, WorkerWrites, InFlight, WorkerExits, WorkerKilled, ReadPauseMark, Prune, InsertReport
<1>3. ASSUME NEW j \in Jobs, LogFails(j) \/ InsertFails(j) \/ FinishStopped(j) \/
      FinishFailed(j) \/ FinishRecorded(j) \/ FinishUnwritten(j) PROVE PlacesAreCounted'
      BY <1>3, RunLeaves, Counts DEF LogFails, Ends, Dropped, Ended, InsertFails, FinishStopped,
         FinishFailed, FinishRecorded, FinishUnwritten, InFlight
<1>4. ASSUME NEW j \in Jobs, Claim(j) PROVE PlacesAreCounted'
  <2>1. j \notin InFlight
        BY <1>4 DEF Claim, StillQueued, RunningIsOwned
  <2>2. Cardinality(InFlight') = Cardinality(InFlight) + 1
        BY <1>4, <2>1, RunEnters DEF Claim
  <2> QED
        BY <1>4, <2>2, Counts DEF Claim
<1>5. ASSUME NEW j \in Jobs, ClaimFails(j) PROVE PlacesAreCounted'
      BY <1>5, Counts DEF ClaimFails, StillQueued, InFlight
<1>6. CASE Acquire
      BY <1>6, LimitsAssumption, Counts DEF Acquire, InFlight
<1>7. CASE PickNone
      BY <1>7, LimitsAssumption, Counts DEF PickNone, InFlight
<1>8. CASE ClaimStale
      BY <1>8, LimitsAssumption, Counts DEF ClaimStale, StillQueued, InFlight
<1>9. CASE Release
      BY <1>9, LimitsAssumption, Counts DEF Release, InFlight
<1>10. ASSUME NEW n \in 1..MaxParallel, SetLoad(n) PROVE PlacesAreCounted'
      BY <1>10, Counts DEF SetLoad, InFlight
<1>11. CASE KeepLonger \/ ListExpired \/ Stop \/ Start
      BY <1>11 DEF KeepLonger, ListExpired, Stop, Start, Recovered, InFlight
<1>12. CASE Exit \/ Crash
  <2>1. InFlight' = {}
        BY <1>12 DEF Exit, Crash, Gone, InFlight
  <2> QED
        BY <1>12, <2>1, FS_EmptySet, LimitsAssumption DEF Exit, Crash, Gone
<1>13. CASE UNCHANGED vars
      BY <1>13 DEF vars, InFlight
<1> QED
      BY <1>1, <1>2, <1>3, <1>4, <1>5, <1>6, <1>7, <1>8, <1>9, <1>10, <1>11, <1>12, <1>13 DEF
         Next, LoopStep, Request, RunStep, Unlocked, Mishap

\* A service that is down holds nothing; the loop claims a job.
LEMMA MemoryStep ==
    ASSUME IInv, [Next]_vars
    PROVE  (DownIsEmpty /\ PickIsJob)'
<1> USE DEF IInv, DownIsEmpty, PickIsJob, InFlight, RunningIsOwned, TypeOK, Alive, Up, LockFree
<1>1. ASSUME NEW j \in Jobs, Request(j) PROVE (DownIsEmpty /\ PickIsJob)'
      BY <1>1 DEF Request, Submit, CancelQueued, CancelPaused, CancelRunning, PauseQueued,
         PauseRunning, Resume, BeginRescue, Goes, Rescuable
<1>2. ASSUME NEW j \in Jobs, RunStep(j) PROVE (DownIsEmpty /\ PickIsJob)'
      BY <1>2 DEF RunStep, StartWorker, StartSpent, Goes, StartFails, WorkerWrites, WorkerExits,
         WorkerKilled, ReadPauseMark, Prune, Pruned, KeepsFiles, LogFails, Ends, Dropped, Ended,
         FinishStopped, Verdict, FinishFailed, InsertReport, FinishRecorded
<1>3. ASSUME NEW j \in Jobs, Unlocked(j) PROVE (DownIsEmpty /\ PickIsJob)'
      BY <1>3 DEF Unlocked, Signal, ExpireOne, StillPaused, Discard, EndRescue, Goes
<1>4. ASSUME NEW j \in Jobs, Mishap(j) PROVE (DownIsEmpty /\ PickIsJob)'
      BY <1>4 DEF Mishap, DeadlinePasses, ClaimFails, StillQueued, InsertFails, Ends, Dropped,
         Ended, Verdict, FinishUnwritten, RescueUnwritten, Goes
<1>5. ASSUME NEW j \in Jobs, LifetimePasses(j) PROVE (DownIsEmpty /\ PickIsJob)'
      BY <1>5 DEF LifetimePasses
<1>6. ASSUME NEW j \in Jobs, Pick(j) \/ Claim(j) PROVE (DownIsEmpty /\ PickIsJob)'
      BY <1>6 DEF Pick, Oldest, Queued, Claim, StillQueued
<1>7. CASE Acquire \/ PickNone \/ ClaimStale \/ Release
      BY <1>7 DEF Acquire, PickNone, Queued, ClaimStale, StillQueued, Release
<1>8. ASSUME NEW n \in 1..MaxParallel, SetLoad(n) PROVE (DownIsEmpty /\ PickIsJob)'
      BY <1>8 DEF SetLoad
<1>9. CASE KeepLonger \/ ListExpired
      BY <1>9 DEF KeepLonger, ListExpired
<1>10. CASE Stop
      BY <1>10 DEF Stop
<1>11. CASE Exit \/ Crash
      BY <1>11 DEF Exit, Gone, Crash
<1>12. CASE Start
      BY <1>12 DEF Start, Recovered
<1>13. CASE UNCHANGED vars
      BY <1>13 DEF vars
<1> QED
      BY <1>1, <1>2, <1>3, <1>4, <1>5, <1>6, <1>7, <1>8, <1>9, <1>10, <1>11, <1>12, <1>13 DEF
         Next, LoopStep

\* The records, the handles and the runs agree; a restart finds no run of its own.
LEMMA OwnedStep ==
    ASSUME IInv, [Next]_vars
    PROVE  RunningIsOwned'
<1> USE DEF IInv, RunningIsOwned, InFlight, TypeOK, Alive, Up, LockFree
<1>1. ASSUME NEW j \in Jobs, Request(j) PROVE RunningIsOwned'
      BY <1>1 DEF Request, Submit, CancelQueued, CancelPaused, CancelRunning, PauseQueued,
         PauseRunning, Resume, BeginRescue, Goes, Rescuable, RowIsDue
<1>2. ASSUME NEW j \in Jobs, RunStep(j) PROVE RunningIsOwned'
      BY <1>2 DEF RunStep, StartWorker, StartSpent, Goes, StartFails, WorkerWrites, WorkerExits,
         WorkerKilled, ReadPauseMark, Prune, Pruned, KeepsFiles, LogFails, Ends, Dropped, Ended,
         FinishStopped, Verdict, FinishFailed, InsertReport, FinishRecorded
<1>3. ASSUME NEW j \in Jobs, Unlocked(j) PROVE RunningIsOwned'
      BY <1>3 DEF Unlocked, Signal, ExpireOne, StillPaused, Discard, EndRescue, Goes, RowIsDue,
         Rescuable
<1>4. ASSUME NEW j \in Jobs, Mishap(j) PROVE RunningIsOwned'
      BY <1>4, BoundsAssumption DEF Mishap, DeadlinePasses, ClaimFails, StillQueued,
         InsertFails, Ends, Dropped, Ended, Verdict, FinishUnwritten, RescueUnwritten, Goes,
         RowIsDue, Rescuable
<1>5. ASSUME NEW j \in Jobs, LifetimePasses(j) PROVE RunningIsOwned'
      BY <1>5 DEF LifetimePasses
<1>6. ASSUME NEW j \in Jobs, Pick(j) \/ Claim(j) PROVE RunningIsOwned'
      BY <1>6 DEF Pick, Oldest, Queued, Claim, StillQueued
<1>7. CASE Acquire \/ PickNone \/ ClaimStale \/ Release
      BY <1>7 DEF Acquire, PickNone, Queued, ClaimStale, StillQueued, Release
<1>8. ASSUME NEW n \in 1..MaxParallel, SetLoad(n) PROVE RunningIsOwned'
      BY <1>8 DEF SetLoad
<1>9. CASE KeepLonger \/ ListExpired
      BY <1>9 DEF KeepLonger, ListExpired
<1>10. CASE Stop
      BY <1>10 DEF Stop
<1>11. CASE Exit \/ Crash
      BY <1>11 DEF Exit, Gone, Crash
<1>12. CASE Start
      BY <1>12 DEF Start, Recovered, DownIsEmpty
<1>13. CASE UNCHANGED vars
      BY <1>13 DEF vars
<1> QED
      BY <1>1, <1>2, <1>3, <1>4, <1>5, <1>6, <1>7, <1>8, <1>9, <1>10, <1>11, <1>12, <1>13 DEF
         Next, LoopStep

\* A stop that was not asked for comes from the service or the deadline.
LEMMA AskedStep ==
    ASSUME IInv, [Next]_vars
    PROVE  StopIsAsked'
<1> USE DEF IInv, StopIsAsked, InFlight, RunningIsOwned, DownIsEmpty, TypeOK, LockFree, Up
<1>1. ASSUME NEW j \in Jobs, Request(j) PROVE StopIsAsked'
  <2>1. CASE Submit(j) \/ CancelQueued(j) \/ CancelPaused(j) \/ PauseQueued(j) \/ Resume(j)
        BY <2>1 DEF Submit, CancelQueued, CancelPaused, PauseQueued, Resume
  <2>2. CASE CancelRunning(j) \/ PauseRunning(j)
        BY <2>2 DEF CancelRunning, PauseRunning
  <2>3. CASE BeginRescue(j)
        BY <2>3 DEF BeginRescue, Goes, Rescuable
  <2> QED
        BY <1>1, <2>1, <2>2, <2>3 DEF Request
<1>2. ASSUME NEW j \in Jobs, RunStep(j) PROVE StopIsAsked'
  <2>1. CASE StartWorker(j) \/ StartSpent(j) \/ StartFails(j) \/ WorkerExits(j) \/ WorkerKilled(j)
        BY <2>1 DEF StartWorker, StartSpent, Goes, StartFails, WorkerExits, WorkerKilled
  <2>2. CASE WorkerWrites(j)
        BY <2>2 DEF WorkerWrites
  <2>3. CASE ReadPauseMark(j) \/ Prune(j) \/ InsertReport(j)
        BY <2>3 DEF ReadPauseMark, Goes, Prune, Pruned, KeepsFiles, InsertReport
  <2>4. CASE LogFails(j) \/ FinishStopped(j) \/ FinishFailed(j) \/ FinishRecorded(j)
        BY <2>4 DEF LogFails, Ends, Dropped, Ended, FinishStopped, FinishFailed, FinishRecorded
  <2> QED
        BY <1>2, <2>1, <2>2, <2>3, <2>4 DEF RunStep
<1>3. ASSUME NEW j \in Jobs, Unlocked(j) PROVE StopIsAsked'
      BY <1>3 DEF Unlocked, Signal, ExpireOne, StillPaused, Discard, EndRescue, Goes
<1>4. ASSUME NEW j \in Jobs, Mishap(j) PROVE StopIsAsked'
      BY <1>4 DEF Mishap, DeadlinePasses, ClaimFails, StillQueued, InsertFails, Ends, Dropped,
         Ended, Verdict, FinishUnwritten, RescueUnwritten, Goes
<1>5. ASSUME NEW j \in Jobs, LifetimePasses(j) PROVE StopIsAsked'
      BY <1>5 DEF LifetimePasses
<1>6. ASSUME NEW j \in Jobs, Pick(j) \/ Claim(j) PROVE StopIsAsked'
      BY <1>6 DEF Pick, Oldest, Queued, Claim, StillQueued
<1>7. CASE Acquire \/ PickNone \/ ClaimStale \/ Release
      BY <1>7 DEF Acquire, PickNone, Queued, ClaimStale, StillQueued, Release
<1>8. ASSUME NEW n \in 1..MaxParallel, SetLoad(n) PROVE StopIsAsked'
      BY <1>8 DEF SetLoad
<1>9. CASE KeepLonger \/ ListExpired
      BY <1>9 DEF KeepLonger, ListExpired
<1>10. CASE Stop
      BY <1>10 DEF Stop
<1>11. CASE Exit \/ Crash
      BY <1>11 DEF Exit, Gone, Crash
<1>12. CASE Start
      BY <1>12 DEF Start, Recovered
<1>13. CASE UNCHANGED vars
      BY <1>13 DEF vars
<1> QED
      BY <1>1, <1>2, <1>3, <1>4, <1>5, <1>6, <1>7, <1>8, <1>9, <1>10, <1>11, <1>12, <1>13 DEF
         Next, LoopStep

\* A job given up stays so: nothing takes it while its files are being deleted.
LEMMA DiscardStep ==
    ASSUME IInv, [Next]_vars
    PROVE  DiscardIsSafe'
<1> USE DEF IInv, DiscardIsSafe, InFlight, RunningIsOwned, RowIsDue, DownIsEmpty, TypeOK,
   LockFree
<1>1. ASSUME NEW j \in Jobs, Request(j) PROVE DiscardIsSafe'
      BY <1>1 DEF Request, Submit, CancelQueued, CancelPaused, CancelRunning, PauseQueued,
         PauseRunning, Resume, BeginRescue, Goes, Rescuable
<1>2. ASSUME NEW j \in Jobs, RunStep(j) PROVE DiscardIsSafe'
      BY <1>2 DEF RunStep, StartWorker, StartSpent, Goes, StartFails, WorkerWrites, WorkerExits,
         WorkerKilled, ReadPauseMark, Prune, Pruned, KeepsFiles, LogFails, Ends, Dropped, Ended,
         FinishStopped, Verdict, FinishFailed, InsertReport, FinishRecorded
<1>3. ASSUME NEW j \in Jobs, Unlocked(j) PROVE DiscardIsSafe'
      BY <1>3 DEF Unlocked, Signal, ExpireOne, StillPaused, Discard, EndRescue, Goes
<1>4. ASSUME NEW j \in Jobs, Mishap(j) PROVE DiscardIsSafe'
      BY <1>4 DEF Mishap, DeadlinePasses, ClaimFails, StillQueued, InsertFails, Ends, Dropped,
         Ended, Verdict, FinishUnwritten, RescueUnwritten, Goes
<1>5. ASSUME NEW j \in Jobs, LifetimePasses(j) PROVE DiscardIsSafe'
      BY <1>5 DEF LifetimePasses
<1>6. ASSUME NEW j \in Jobs, Pick(j) \/ Claim(j) PROVE DiscardIsSafe'
      BY <1>6 DEF Pick, Oldest, Queued, Claim, StillQueued
<1>7. CASE Acquire \/ PickNone \/ ClaimStale \/ Release
      BY <1>7 DEF Acquire, PickNone, Queued, ClaimStale, StillQueued, Release
<1>8. ASSUME NEW n \in 1..MaxParallel, SetLoad(n) PROVE DiscardIsSafe'
      BY <1>8 DEF SetLoad
<1>9. CASE KeepLonger \/ ListExpired
      BY <1>9 DEF KeepLonger, ListExpired
<1>10. CASE Stop
      BY <1>10 DEF Stop
<1>11. CASE Exit \/ Crash
      BY <1>11 DEF Exit, Gone, Crash
<1>12. CASE Start
      BY <1>12 DEF Start, Recovered
<1>13. CASE UNCHANGED vars
      BY <1>13 DEF vars
<1> QED
      BY <1>1, <1>2, <1>3, <1>4, <1>5, <1>6, <1>7, <1>8, <1>9, <1>10, <1>11, <1>12, <1>13 DEF
         Next, LoopStep

\* What a run finds on disk, phase by phase.
LEMMA FilesStep ==
    ASSUME IInv, [Next]_vars
    PROVE  FilesOfRun'
<1> USE DEF IInv, FilesOfRun, DiscardIsSafe, StopIsAsked, InFlight, TypeOK, LockFree, Outcome
<1>1. ASSUME NEW j \in Jobs, Request(j) PROVE FilesOfRun'
      BY <1>1 DEF Request, Submit, CancelQueued, CancelPaused, CancelRunning, PauseQueued,
         PauseRunning, Resume, BeginRescue, Goes, Rescuable
<1>2. ASSUME NEW j \in Jobs, StartWorker(j) \/ StartSpent(j) \/ StartFails(j) PROVE FilesOfRun'
      BY <1>2 DEF StartWorker, StartSpent, Goes, StartFails
<1>3. ASSUME NEW j \in Jobs, WorkerExits(j) \/ WorkerKilled(j) PROVE FilesOfRun'
      BY <1>3 DEF WorkerExits, WorkerKilled, Goes
<1>4. ASSUME NEW j \in Jobs, WorkerWrites(j) PROVE FilesOfRun'
  <2>1. \A k \in Jobs \ {j} : files'[k] = files[k]
        BY <1>4 DEF WorkerWrites
  <2>2. UNCHANGED <<phase, ctx, saw, result>> /\ phase[j] = "working"
        BY <1>4 DEF WorkerWrites
  <2>3. files'[j] \cap {"work", "report"} # {}
        BY <1>4, <2>2, WritesType
  <2> QED
        BY <2>1, <2>2, <2>3
<1>5. ASSUME NEW j \in Jobs, ReadPauseMark(j) PROVE FilesOfRun'
      BY <1>5 DEF ReadPauseMark, Goes
<1>6. ASSUME NEW j \in Jobs, Prune(j) PROVE FilesOfRun'
      BY <1>6 DEF Prune, Goes, Pruned, KeepsFiles
<1>7. ASSUME NEW j \in Jobs, LogFails(j) \/ FinishStopped(j) \/ FinishFailed(j) \/
      InsertReport(j) \/ FinishRecorded(j) PROVE FilesOfRun'
      BY <1>7 DEF LogFails, Ends, Dropped, Ended, FinishStopped, Verdict, FinishFailed,
         InsertReport, Goes, FinishRecorded
<1>8. ASSUME NEW j \in Jobs, Unlocked(j) PROVE FilesOfRun'
      BY <1>8 DEF Unlocked, Signal, ExpireOne, StillPaused, Discard, EndRescue, Goes
<1>9. ASSUME NEW j \in Jobs, Mishap(j) PROVE FilesOfRun'
      BY <1>9 DEF Mishap, DeadlinePasses, ClaimFails, StillQueued, InsertFails, Ends, Dropped,
         Ended, Verdict, FinishUnwritten, RescueUnwritten, Goes
<1>10. ASSUME NEW j \in Jobs, LifetimePasses(j) PROVE FilesOfRun'
      BY <1>10 DEF LifetimePasses
<1>11. ASSUME NEW j \in Jobs, Pick(j) PROVE FilesOfRun'
      BY <1>11 DEF Pick, Oldest, Queued
<1>12. ASSUME NEW j \in Jobs, Claim(j) PROVE FilesOfRun'
      BY <1>12 DEF Claim, StillQueued, RunningIsOwned
<1>13. CASE Acquire \/ PickNone \/ ClaimStale \/ Release
      BY <1>13 DEF Acquire, PickNone, Queued, ClaimStale, StillQueued, Release
<1>14. ASSUME NEW n \in 1..MaxParallel, SetLoad(n) PROVE FilesOfRun'
      BY <1>14 DEF SetLoad
<1>15. CASE KeepLonger \/ ListExpired
      BY <1>15 DEF KeepLonger, ListExpired
<1>16. CASE Stop
      BY <1>16 DEF Stop
<1>17. CASE Exit \/ Crash
      BY <1>17 DEF Exit, Gone, Crash
<1>18. CASE Start
      BY <1>18 DEF Start, Recovered
<1>19. CASE UNCHANGED vars
      BY <1>19 DEF vars
<1> QED
      BY <1>1, <1>2, <1>3, <1>4, <1>5, <1>6, <1>7, <1>8, <1>9, <1>10, <1>11, <1>12, <1>13,
         <1>14, <1>15, <1>16, <1>17, <1>18, <1>19 DEF Next, LoopStep, RunStep

\* Between a report row and its record the job stays where it was.
LEMMA RowStep ==
    ASSUME IInv, [Next]_vars
    PROVE  RowIsDue'
<1> USE DEF IInv, RowIsDue, DiscardIsSafe, FilesOfRun, RunningIsOwned, Rescuable, InFlight,
   TypeOK, LockFree, DownIsEmpty
<1>1. ASSUME NEW j \in Jobs, Request(j) PROVE RowIsDue'
      BY <1>1 DEF Request, Submit, CancelQueued, CancelPaused, CancelRunning, PauseQueued,
         PauseRunning, Resume, BeginRescue, Goes
<1>2. ASSUME NEW j \in Jobs, RunStep(j) PROVE RowIsDue'
      BY <1>2 DEF RunStep, StartWorker, StartSpent, Goes, StartFails, WorkerWrites, WorkerExits,
         WorkerKilled, ReadPauseMark, Prune, Pruned, KeepsFiles, LogFails, Ends, Dropped, Ended,
         FinishStopped, Verdict, FinishFailed, InsertReport, FinishRecorded
<1>3. ASSUME NEW j \in Jobs, Unlocked(j) PROVE RowIsDue'
      BY <1>3 DEF Unlocked, Signal, ExpireOne, StillPaused, Discard, EndRescue, Goes
<1>4. ASSUME NEW j \in Jobs, Mishap(j) PROVE RowIsDue'
      BY <1>4 DEF Mishap, DeadlinePasses, ClaimFails, StillQueued, InsertFails, Ends, Dropped,
         Ended, Verdict, FinishUnwritten, RescueUnwritten, Goes
<1>5. ASSUME NEW j \in Jobs, LifetimePasses(j) PROVE RowIsDue'
      BY <1>5 DEF LifetimePasses
<1>6. ASSUME NEW j \in Jobs, Pick(j) \/ Claim(j) PROVE RowIsDue'
      BY <1>6 DEF Pick, Oldest, Queued, Claim, StillQueued
<1>7. CASE Acquire \/ PickNone \/ ClaimStale \/ Release
      BY <1>7 DEF Acquire, PickNone, Queued, ClaimStale, StillQueued, Release
<1>8. ASSUME NEW n \in 1..MaxParallel, SetLoad(n) PROVE RowIsDue'
      BY <1>8 DEF SetLoad
<1>9. CASE KeepLonger \/ ListExpired
      BY <1>9 DEF KeepLonger, ListExpired
<1>10. CASE Stop
      BY <1>10 DEF Stop
<1>11. CASE Exit \/ Crash
      BY <1>11 DEF Exit, Gone, Crash
<1>12. CASE Start
      BY <1>12 DEF Start, Recovered
<1>13. CASE UNCHANGED vars
      BY <1>13 DEF vars
<1> QED
      BY <1>1, <1>2, <1>3, <1>4, <1>5, <1>6, <1>7, <1>8, <1>9, <1>10, <1>11, <1>12, <1>13 DEF
         Next, LoopStep

\* A completed job keeps its report.
LEMMA ReportStep ==
    ASSUME IInv, [Next]_vars
    PROVE  ReportIsThere'
<1> USE DEF IInv, ReportIsThere, FilesOfRun, DiscardIsSafe, RowIsDue, InFlight, RunningIsOwned,
   TypeOK, LockFree
<1>1. ASSUME NEW j \in Jobs, Request(j) PROVE ReportIsThere'
      BY <1>1 DEF Request, Submit, CancelQueued, CancelPaused, CancelRunning, PauseQueued,
         PauseRunning, Resume, BeginRescue, Goes, Rescuable
<1>2. ASSUME NEW j \in Jobs, RunStep(j) PROVE ReportIsThere'
      BY <1>2 DEF RunStep, StartWorker, StartSpent, Goes, StartFails, WorkerWrites, WorkerExits,
         WorkerKilled, ReadPauseMark, Prune, Pruned, KeepsFiles, LogFails, Ends, Dropped, Ended,
         FinishStopped, Verdict, FinishFailed, InsertReport, FinishRecorded
<1>3. ASSUME NEW j \in Jobs, Unlocked(j) PROVE ReportIsThere'
      BY <1>3 DEF Unlocked, Signal, ExpireOne, StillPaused, Discard, EndRescue, Goes
<1>4. ASSUME NEW j \in Jobs, Mishap(j) PROVE ReportIsThere'
      BY <1>4 DEF Mishap, DeadlinePasses, ClaimFails, StillQueued, InsertFails, Ends, Dropped,
         Ended, Verdict, FinishUnwritten, RescueUnwritten, Goes
<1>5. ASSUME NEW j \in Jobs, LifetimePasses(j) PROVE ReportIsThere'
      BY <1>5 DEF LifetimePasses
<1>6. ASSUME NEW j \in Jobs, Pick(j) \/ Claim(j) PROVE ReportIsThere'
      BY <1>6 DEF Pick, Oldest, Queued, Claim, StillQueued
<1>7. CASE Acquire \/ PickNone \/ ClaimStale \/ Release
      BY <1>7 DEF Acquire, PickNone, Queued, ClaimStale, StillQueued, Release
<1>8. ASSUME NEW n \in 1..MaxParallel, SetLoad(n) PROVE ReportIsThere'
      BY <1>8 DEF SetLoad
<1>9. CASE KeepLonger \/ ListExpired
      BY <1>9 DEF KeepLonger, ListExpired
<1>10. CASE Stop
      BY <1>10 DEF Stop
<1>11. CASE Exit \/ Crash
      BY <1>11 DEF Exit, Gone, Crash
<1>12. CASE Start
      BY <1>12 DEF Start, Recovered
<1>13. CASE UNCHANGED vars
      BY <1>13 DEF vars
<1> QED
      BY <1>1, <1>2, <1>3, <1>4, <1>5, <1>6, <1>7, <1>8, <1>9, <1>10, <1>11, <1>12, <1>13 DEF
         Next, LoopStep

---------------------------------------------------------------------------
(* The invariants *)

\* Before the first start nothing is held, and old records are settled.
LEMMA InitIsInductive == Init => IInv
<1> SUFFICES ASSUME Init PROVE IInv
      OBVIOUS
<1> USE DEF Init
<1>1. InFlight = {}
      BY DEF InFlight
<1>2. TypeOK
      BY JobsAssumption, LimitsAssumption 
         DEF TypeOK, Status, Terminal, Known, Reason, Outcome, Phase
<1>3. PlacesAreCounted
      BY <1>1, FS_EmptySet, LimitsAssumption DEF PlacesAreCounted
<1>4. DownIsEmpty /\ PickIsJob /\ RunningIsOwned /\ StopIsAsked /\ DiscardIsSafe
      BY <1>1 DEF DownIsEmpty, PickIsJob, RunningIsOwned, StopIsAsked, DiscardIsSafe, Alive
<1>5. FilesOfRun /\ RowIsDue /\ ReportIsThere
      BY DEF FilesOfRun, RowIsDue, ReportIsThere
<1> QED
      BY <1>2, <1>3, <1>4, <1>5 DEF IInv

\* Every step keeps every part.
LEMMA StepIsInductive == IInv /\ [Next]_vars => IInv'
<1> SUFFICES ASSUME IInv, [Next]_vars PROVE IInv'
      OBVIOUS
<1>1. TypeOK' /\ PlacesAreCounted' /\ DownIsEmpty' /\ PickIsJob'
      BY TypeStep, PlacesStep, MemoryStep
<1>2. RunningIsOwned' /\ StopIsAsked' /\ DiscardIsSafe'
      BY OwnedStep, AskedStep, DiscardStep
<1>3. FilesOfRun' /\ RowIsDue' /\ ReportIsThere'
      BY FilesStep, RowStep, ReportStep
<1> QED
      BY <1>1, <1>2, <1>3 DEF IInv

\* The inductive invariant holds in every state the service and its database
\* can reach, through any number of stops, crashes and failed writes.
THEOREM Invariance == Spec => []IInv
<1>1. Init => IInv
      BY InitIsInductive
<1>2. IInv /\ [Next]_vars => IInv'
      BY StepIsInductive
<1> QED
      BY <1>1, <1>2, PTL DEF Spec

\* The records, the maps and the places keep their types; a counter of places
\* never goes below zero (manager.go, free).
THEOREM TypeCorrect == Spec => []TypeOK
<1>1. IInv => TypeOK
      BY DEF IInv
<1> QED
      BY <1>1, Invariance, PTL

\* No place among the running analyses is lost or given back twice.
THEOREM PlacesCorrect == Spec => []PlacesAreCounted
<1>1. IInv => PlacesAreCounted
      BY DEF IInv
<1> QED
      BY <1>1, Invariance, PTL

\* The job records, the handles of Cancel and Pause, and the runs agree.
THEOREM OwnershipCorrect == Spec => []RunningIsOwned
<1>1. IInv => RunningIsOwned
      BY DEF IInv
<1> QED
      BY <1>1, Invariance, PTL

\* The unlocked deletion of a run directory never meets an analysis.
THEOREM DiscardCorrect == Spec => []DiscardIsSafe
<1>1. IInv => DiscardIsSafe
      BY DEF IInv
<1> QED
      BY <1>1, Invariance, PTL

\* A completed job links a recorded report whose file is on disk.
THEOREM ReportCorrect == Spec => []ReportIsThere
<1>1. IInv => ReportIsThere
      BY DEF IInv
<1> QED
      BY <1>1, Invariance, PTL

---------------------------------------------------------------------------
(* The bound of one user, where no older version left interrupted jobs: a  *)
(* resume puts back a job that was counted all along, and only a submit    *)
(* adds one.                                                               *)

NoneInterrupted == \A j \in Jobs : status[j] # "interrupted"
Counted(j) == status[j] \in {"queued", "running", "paused"}

\* A step that is no submit makes no job count that did not.
LEMMA CountedStep ==
    ASSUME IInv, NoneInterrupted, [Next]_vars
    PROVE  /\ NoneInterrupted'
           /\ \A j \in Jobs : Counted(j)' => Counted(j) \/ Submit(j)
<1> USE DEF IInv, TypeOK, Status, Known, Terminal, Reason, RunningIsOwned, InFlight, RowIsDue,
    NoneInterrupted, Counted
<1> DEFINE Good == NoneInterrupted' /\ \A j \in Jobs : Counted(j)' => Counted(j) \/ Submit(j)
<1>1. ASSUME NEW k \in Jobs, Request(k) PROVE Good
  <2>1. CASE Submit(k)
    <3>1. \A j \in Jobs : status'[j] = IF j = k THEN "queued" ELSE status[j]
          BY <2>1 DEF Submit
    <3> QED
        BY <2>1, <3>1
  <2>2. CASE CancelQueued(k) \/ CancelPaused(k) \/ CancelRunning(k) \/ PauseQueued(k) \/ PauseRunning(k)
        BY <2>2 DEF CancelQueued, CancelPaused, CancelRunning, PauseQueued, PauseRunning
  <2>3. CASE Resume(k) \/ BeginRescue(k)
        BY <2>3 DEF Resume, BeginRescue
  <2> QED
      BY <1>1, <2>1, <2>2, <2>3 DEF Request
<1>2. ASSUME NEW k \in Jobs, RunStep(k) PROVE Good
  BY <1>2 DEF RunStep, StartWorker, StartSpent, StartFails, WorkerWrites, WorkerExits, WorkerKilled, ReadPauseMark, Prune,
     LogFails, FinishStopped, FinishFailed, InsertReport, FinishRecorded, Ends
<1>3. ASSUME NEW k \in Jobs, Unlocked(k) PROVE Good
  BY <1>3 DEF Unlocked, Signal, ExpireOne, StillPaused, Discard, EndRescue, Goes
<1>4. ASSUME NEW k \in Jobs, Mishap(k) \/ LifetimePasses(k) \/ Pick(k) \/ Claim(k) PROVE Good
  BY <1>4 DEF Mishap, DeadlinePasses, ClaimFails, InsertFails, Ends, FinishUnwritten,
     RescueUnwritten, LifetimePasses, Pick, Claim, StillQueued
<1>5. CASE \/ Acquire \/ PickNone \/ ClaimStale \/ Release \/ KeepLonger \/ ListExpired
           \/ Stop \/ Exit \/ Crash
      BY <1>5 DEF Acquire, PickNone, ClaimStale, Release, KeepLonger, ListExpired, Stop, Exit,
         Crash, Gone
<1>6. ASSUME NEW n \in 1..MaxParallel, SetLoad(n) PROVE Good
      BY <1>6 DEF SetLoad
<1>7. CASE Start
      BY <1>7 DEF Start, Recovered
<1>8. CASE UNCHANGED vars
      BY <1>8 DEF vars
<1> QED BY <1>1, <1>2, <1>3, <1>4, <1>5, <1>6, <1>7, <1>8 DEF Next, LoopStep

\* A submit counts one job more of its own user, who was below the bound.
LEMMA ActiveStep ==
    ASSUME IInv, NoneInterrupted, ActivePerUser, [Next]_vars
    PROVE  ActivePerUser'
<1> SUFFICES ASSUME MaxActivePerUser > 0, NEW u \in Users
             PROVE  Cardinality(ActiveFor(u)') <= MaxActivePerUser
    BY DEF ActivePerUser
<1>1. /\ IsFiniteSet(ActiveFor(u)) /\ Cardinality(ActiveFor(u)) \in Nat
      /\ IsFiniteSet(ActiveFor(u)') /\ Cardinality(ActiveFor(u)') \in Nat
      BY FS_CardinalityType, FS_Subset, JobsAssumption DEF ActiveFor
<1>2. Cardinality(ActiveFor(u)) <= MaxActivePerUser
      BY DEF ActivePerUser
<1>3. ASSUME NEW j \in Jobs, Submit(j), Owner[j] = u
      PROVE  Cardinality(ActiveFor(u)') <= MaxActivePerUser
  <2>1. ActiveFor(u)' = ActiveFor(u) \cup {j} /\ j \notin ActiveFor(u)
        BY <1>3 DEF Submit, ActiveFor, IInv, TypeOK
  <2>2. Cardinality(ActiveFor(u)) < MaxActivePerUser
        BY <1>3 DEF Submit, UnderLimits
  <2> QED
      BY <2>1, <2>2, <1>1, FS_AddElement, LimitsAssumption
<1>4. ASSUME \A j \in Jobs : Submit(j) => Owner[j] # u
      PROVE  Cardinality(ActiveFor(u)') <= MaxActivePerUser
  <2>1. ActiveFor(u)' \subseteq ActiveFor(u)
        BY <1>4, CountedStep DEF ActiveFor, Counted
  <2> QED
      BY <2>1, <1>1, <1>2, FS_Subset, LimitsAssumption
<1> QED
    BY <1>3, <1>4

LEMMA ActiveInit ==
    ASSUME Legacy = {}, Init
    PROVE  NoneInterrupted /\ ActivePerUser
<1>1. \A u \in Users : ActiveFor(u) = {}
      BY DEF Init, ActiveFor
<1> QED
    BY <1>1, FS_EmptySet, LimitsAssumption DEF Init, NoneInterrupted, ActivePerUser

\* No user ever holds more jobs than the bound, whatever is paused, resumed,
\* rescued or recovered, by any number of users at once (manager.go, withinLimits).
THEOREM ActiveCorrect == ASSUME Legacy = {} PROVE Spec => []ActivePerUser
<1>1. Init => NoneInterrupted /\ ActivePerUser
      BY ActiveInit
<1>2. IInv /\ NoneInterrupted /\ ActivePerUser /\ [Next]_vars => (NoneInterrupted /\ ActivePerUser)'
      BY CountedStep, ActiveStep
<1> QED
    BY <1>1, <1>2, Invariance, PTL DEF Spec

---------------------------------------------------------------------------
(* What a step may not do *)

\* A settled job is changed by a rescue, or when it is an old interruption.
LEMMA SettledStep ==
    ASSUME IInv, [Next]_vars, NEW j \in Jobs, status[j] \in Terminal, status'[j] # status[j]
    PROVE  \/ status[j] = "interrupted" /\ status'[j] \in {"queued", "cancelled"}
           \/ Rescuable(j) /\ status'[j] = "completed"
<1> USE DEF Terminal, IInv, TypeOK, RunningIsOwned, InFlight, RowIsDue
<1>1. ASSUME NEW k \in Jobs, Request(k)
      PROVE status[j] = "interrupted" /\ status'[j] \in {"queued", "cancelled"}
  BY <1>1 DEF Request, Submit, CancelQueued, CancelPaused, CancelRunning, PauseQueued, PauseRunning,
     Resume, BeginRescue
<1>2. ASSUME NEW k \in Jobs, RunStep(k) PROVE FALSE
  BY <1>2 DEF RunStep, StartWorker, StartSpent, StartFails, WorkerWrites, WorkerExits, WorkerKilled, ReadPauseMark, Prune,
     LogFails, FinishStopped, FinishFailed, InsertReport, FinishRecorded, Ends
<1>3. ASSUME NEW k \in Jobs, Unlocked(k) PROVE Rescuable(j) /\ status'[j] = "completed"
  BY <1>3 DEF Unlocked, Signal, ExpireOne, StillPaused, Discard, EndRescue, Goes
<1>4. ASSUME NEW k \in Jobs, Mishap(k) \/ LifetimePasses(k) \/ Pick(k) \/ Claim(k) PROVE FALSE
  BY <1>4 DEF Mishap, DeadlinePasses, ClaimFails, InsertFails, Ends, FinishUnwritten,
     RescueUnwritten, LifetimePasses, Pick, Claim, StillQueued
<1>5. CASE \/ Acquire \/ PickNone \/ ClaimStale \/ Release \/ KeepLonger \/ ListExpired
           \/ Stop \/ Exit \/ Crash
      BY <1>5 DEF Acquire, PickNone, ClaimStale, Release, KeepLonger, ListExpired, Stop, Exit,
         Crash, Gone
<1>6. ASSUME NEW n \in 1..MaxParallel, SetLoad(n) PROVE FALSE
      BY <1>6 DEF SetLoad
<1>7. CASE Start
      BY <1>7 DEF Start, Recovered
<1>8. CASE UNCHANGED vars
      BY <1>8 DEF vars
<1> QED BY <1>1, <1>2, <1>3, <1>4, <1>5, <1>6, <1>7, <1>8 DEF Next, LoopStep

\* A settled job stays settled, but for a rescue or an old interruption.
THEOREM SettledCorrect == Spec => SettledStays
<1>1. IInv /\ [Next]_vars =>
        [\A j \in Jobs : status[j] \in Terminal /\ status'[j] # status[j] =>
            \/ status[j] = "interrupted" /\ status'[j] \in {"queued", "cancelled"}
            \/ Rescuable(j) /\ status'[j] = "completed"]_vars
      BY SettledStep
<1> QED
      BY <1>1, Invariance, PTL DEF Spec, SettledStays

\* The steps that end a running job as cancelled, or as paused by a request,
\* are those of its finish.
LEMMA StoppedBy ==
    ASSUME IInv, [Next]_vars, NEW j \in Jobs,
           status[j] = "running", status'[j] \in {"cancelled", "paused"}, reason'[j] # "interrupted"
    PROVE  /\ FinishStopped(j) /\ ctx[j] = "cancelled" /\ service # "stopping"
           /\ status'[j] = (IF saw[j] THEN "paused" ELSE "cancelled")
<1> USE DEF IInv, TypeOK
<1>1. ASSUME NEW k \in Jobs, Request(k) PROVE FALSE
      BY <1>1 DEF Request, Submit, CancelQueued, CancelPaused, CancelRunning, PauseQueued,
                  PauseRunning, Resume, BeginRescue
<1>2. ASSUME NEW k \in Jobs, RunStep(k) PROVE k = j /\ FinishStopped(j)
      BY <1>2 DEF RunStep, StartWorker, StartSpent, StartFails, WorkerWrites, WorkerExits, WorkerKilled, ReadPauseMark, Prune,
                  LogFails, FinishStopped, FinishFailed, InsertReport, FinishRecorded, Ends
<1>3. ASSUME NEW k \in Jobs, Unlocked(k) PROVE FALSE
      BY <1>3 DEF Unlocked, Signal, ExpireOne, StillPaused, Discard, EndRescue
<1>4. ASSUME NEW k \in Jobs, Mishap(k) \/ LifetimePasses(k) \/ Pick(k) \/ Claim(k) PROVE FALSE
      BY <1>4 DEF Mishap, DeadlinePasses, ClaimFails, InsertFails, Ends, FinishUnwritten,
         RescueUnwritten,
                  LifetimePasses, Pick, Claim, StillQueued
<1>5. CASE \/ Acquire \/ PickNone \/ ClaimStale \/ Release \/ KeepLonger \/ ListExpired
           \/ Stop \/ Exit \/ Crash
      BY <1>5 DEF Acquire, PickNone, ClaimStale, Release, KeepLonger, ListExpired, Stop, Exit,
                  Crash, Gone
<1>6. ASSUME NEW n \in 1..MaxParallel, SetLoad(n) PROVE FALSE
      BY <1>6 DEF SetLoad
<1>7. CASE Start
      BY <1>7 DEF Start, Recovered
<1>8. CASE UNCHANGED vars
      BY <1>8 DEF vars
<1>9. FinishStopped(j)
      BY <1>1, <1>2, <1>3, <1>4, <1>5, <1>6, <1>7, <1>8 DEF Next, LoopStep
<1> QED
      BY <1>9 DEF FinishStopped, Ends, Verdict

\* No analysis is cancelled or paused that nobody asked to stop in this run.
THEOREM StopsCorrect == Spec => StopsWhenAsked
<1>1. ASSUME IInv, [Next]_vars, NEW j \in Jobs,
             status[j] = "running", status'[j] \in {"cancelled", "paused"}, reason'[j] # "interrupted"
      PROVE  asked[j] # {}
  <2>1. FinishStopped(j) /\ ctx[j] = "cancelled" /\ service # "stopping"
        BY <1>1, StoppedBy
  <2>2. j \in InFlight
        BY <2>1 DEF FinishStopped, InFlight
  <2>3. service = "up"
        BY <1>1, <2>1, <2>2 DEF IInv, RunningIsOwned, Alive, TypeOK
  <2> QED
        BY <1>1, <2>1, <2>3 DEF IInv, StopIsAsked
<1>2. IInv /\ [Next]_vars =>
        [\A j \in Jobs :
            status[j] = "running" /\ status'[j] \in {"cancelled", "paused"} /\ reason'[j] # "interrupted"
               => asked[j] # {}]_vars
      BY <1>1
<1> QED
      BY <1>2, Invariance, PTL DEF Spec, StopsWhenAsked

\* A worker killed for a pause leaves something to resume from.
THEOREM PauseKeeps == Spec => KilledPauseKeepsWork
<1>1. ASSUME IInv, [Next]_vars, NEW j \in Jobs,
             status[j] = "running", status'[j] = "paused", reason'[j] = "none", result[j] = "killed"
      PROVE  files'[j] \cap {"work", "report"} # {}
  <2>1. FinishStopped(j) /\ saw[j]
        BY <1>1, StoppedBy
  <2> QED
        BY <1>1, <2>1 DEF FinishStopped, IInv, FilesOfRun
<1>2. IInv /\ [Next]_vars =>
        [\A j \in Jobs :
            status[j] = "running" /\ status'[j] = "paused" /\ reason'[j] = "none" /\ result[j] = "killed"
               => files'[j] \cap {"work", "report"} # {}]_vars
      BY <1>1
<1> QED
      BY <1>2, Invariance, PTL DEF Spec, KilledPauseKeepsWork

---------------------------------------------------------------------------
(* Refinement *)

\* The databases the service may start on are those JobLifecycle starts from.
LEMMA RefineInit == Init => Life!Init
BY DEF Init, Life!Init, Life!Content

\* Every step is one of JobLifecycle, or changes nothing it can see.
LEMMA RefineStep ==
    ASSUME IInv, [Next]_vars
    PROVE  [Life!Next]_(Life!vars)
<1> USE DEF Life!Moves
<1>1. ASSUME NEW j \in Jobs, Request(j) PROVE [Life!Next]_(Life!vars)
  <2>1. CASE Submit(j)
        <3>1. Life!Submit(j) BY <2>1 DEF Submit, Life!Submit
        <3> QED BY <3>1 DEF Life!Next
  <2>2. CASE CancelQueued(j) \/ CancelPaused(j)
        <3>1. Life!Cancel(j) BY <2>2 DEF CancelQueued, CancelPaused, Life!Cancel
        <3> QED BY <3>1 DEF Life!Next
  <2>3. CASE PauseQueued(j)
        <3>1. Life!Pause(j) BY <2>3 DEF PauseQueued, Life!Pause
        <3> QED BY <3>1 DEF Life!Next
  <2>4. CASE Resume(j)
        <3>1. Life!Resume(j) BY <2>4 DEF Resume, Life!Resume
        <3> QED BY <3>1 DEF Life!Next
  <2>5. CASE BeginRescue(j)
        <3>1. Life!RecordReport(j) BY <2>5 DEF BeginRescue, Rescuable, Life!RecordReport
        <3> QED BY <3>1 DEF Life!Next
  <2>6. CASE CancelRunning(j) \/ PauseRunning(j)
        BY <2>6 DEF CancelRunning, PauseRunning, Life!vars
  <2> QED BY <1>1, <2>1, <2>2, <2>3, <2>4, <2>5, <2>6 DEF Request
<1>2. ASSUME NEW j \in Jobs, RunStep(j) PROVE [Life!Next]_(Life!vars)
  <2>0. phase[j] \notin {"idle", "rescuing"} => status[j] = "running"
        BY DEF IInv, RunningIsOwned, InFlight
  <2>1. CASE StartWorker(j) \/ WorkerWrites(j) \/ Prune(j)
        <3>1. \E f \in SUBSET {"work", "capture", "report"} : files' = [files EXCEPT ![j] = f]
              BY <2>1 DEF StartWorker, WorkerWrites, Grown, Prune, Pruned, IInv, TypeOK
        <3>2. Life!Touch(j)
              BY <2>0, <2>1, <3>1 DEF StartWorker, WorkerWrites, Prune, Goes, Life!Touch, Life!Content
        <3> QED BY <3>2 DEF Life!Next
  <2>2. CASE LogFails(j)
        <3>1. Life!Fail(j) BY <2>0, <2>2 DEF LogFails, Ends, Life!Fail
        <3> QED BY <3>1 DEF Life!Next
  <2>3. CASE FinishStopped(j)
        <3>1. Life!Fail(j) \/ Life!Pause(j) \/ Life!Cancel(j)
              BY <2>0, <2>3 DEF FinishStopped, Ends, Life!Fail, Life!Pause, Life!Cancel
        <3> QED BY <3>1 DEF Life!Next
  <2>4. CASE FinishFailed(j)
        <3>1. Life!Fail(j) BY <2>0, <2>4 DEF FinishFailed, Ends, Life!Fail
        <3> QED BY <3>1 DEF Life!Next
  <2>5. CASE InsertReport(j)
        <3>1. Life!RecordReport(j)
              BY <2>0, <2>5 DEF InsertReport, Goes, Life!RecordReport, IInv, FilesOfRun
        <3> QED BY <3>1 DEF Life!Next
  <2>6. CASE FinishRecorded(j)
        <3>1. Life!Complete(j)
              BY <2>0, <2>6 DEF FinishRecorded, Ends, Life!Complete, IInv, RowIsDue, FilesOfRun
        <3> QED BY <3>1 DEF Life!Next
  <2>7. CASE StartSpent(j) \/ StartFails(j) \/ WorkerExits(j) \/ WorkerKilled(j) \/ ReadPauseMark(j)
        BY <2>7 DEF StartSpent, StartFails, WorkerExits, WorkerKilled, ReadPauseMark, Life!vars
  <2> QED BY <1>2, <2>1, <2>2, <2>3, <2>4, <2>5, <2>6, <2>7 DEF RunStep
<1>3. ASSUME NEW j \in Jobs, Unlocked(j) PROVE [Life!Next]_(Life!vars)
  <2>1. CASE Discard(j)
        <3>1. Life!Delete(j) BY <2>1 DEF Discard, Life!Delete, IInv, DiscardIsSafe
        <3> QED BY <3>1 DEF Life!Next
  <2>2. CASE ExpireOne(j)
        <3>1. Life!Cancel(j) \/ UNCHANGED Life!vars
              BY <2>2 DEF ExpireOne, StillPaused, Life!Cancel, Life!vars
        <3> QED BY <3>1 DEF Life!Next
  <2>3. CASE EndRescue(j)
        <3>1. Life!Complete(j)
              BY <2>3 DEF EndRescue, Goes, Rescuable, Life!Complete, IInv, RowIsDue
        <3> QED BY <3>1 DEF Life!Next
  <2>4. CASE Signal(j)
        BY <2>4 DEF Signal, Life!vars
  <2> QED BY <1>3, <2>1, <2>2, <2>3, <2>4 DEF Unlocked
<1>4. ASSUME NEW j \in Jobs, Mishap(j) \/ LifetimePasses(j) \/ Pick(j)
      PROVE  [Life!Next]_(Life!vars)
  <2>1. CASE InsertFails(j)
        <3>1. Life!Fail(j)
              BY <2>1 DEF InsertFails, Ends, Life!Fail, IInv, RunningIsOwned, InFlight
        <3> QED BY <3>1 DEF Life!Next
  <2>2. CASE ~InsertFails(j)
        BY <1>4, <2>2 DEF Mishap, DeadlinePasses, ClaimFails, FinishUnwritten, RescueUnwritten,
                          LifetimePasses, Pick, Life!vars
  <2> QED BY <2>1, <2>2
<1>5. ASSUME NEW j \in Jobs, Claim(j) PROVE [Life!Next]_(Life!vars)
  <2>1. Life!Take(j) BY <1>5 DEF Claim, StillQueued, Life!Take
  <2> QED BY <2>1 DEF Life!Next
<1>6. CASE \/ Acquire \/ PickNone \/ ClaimStale \/ Release \/ KeepLonger \/ ListExpired
           \/ Stop \/ Exit \/ Crash
      BY <1>6 DEF Acquire, PickNone, ClaimStale, Release, KeepLonger, ListExpired, Stop, Exit,
         Crash, Gone,
                  Life!vars
<1>7. ASSUME NEW n \in 1..MaxParallel, SetLoad(n) PROVE UNCHANGED Life!vars
      BY <1>7 DEF SetLoad, Life!vars
<1>8. CASE Start
  <2> DEFINE some == {j \in Jobs : status[j] = "running"}
  <2>1. Life!PauseAll(some)
        BY <1>8 DEF Start, Recovered, Life!PauseAll
  <2> QED BY <2>1 DEF Life!Next
<1>9. CASE UNCHANGED vars
      BY <1>9 DEF vars, Life!vars
<1> QED BY <1>1, <1>2, <1>3, <1>4, <1>5, <1>6, <1>7, <1>8, <1>9 DEF Next, LoopStep

\* The manager implements the lifecycle the package promises.
THEOREM Refinement == Spec => KeepsPromise
<1>1. Init => Life!Init
      BY RefineInit
<1>2. IInv /\ [Next]_vars => [Life!Next]_(Life!vars)
      BY RefineStep
<1> QED
      BY <1>1, <1>2, Invariance, PTL DEF Spec, KeepsPromise, Life!Spec
=============================================================================
