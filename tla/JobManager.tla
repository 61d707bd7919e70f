---------------------------- MODULE JobManager ----------------------------
(***************************************************************************)
(* The job manager of one service process (internal/jobs, without a shared *)
(* queue): the durable job records and report rows, the run directories on *)
(* disk, the loop that starts analyses, one goroutine per analysis, the    *)
(* requests of the API, and the stop, crash and restart of the service.    *)
(*                                                                         *)
(* Every read-modify-write of a job record happens under Manager.mu, so it *)
(* is one action here.  What happens outside the lock is a step of its     *)
(* own: the loop's look at the queue, the call of a cancel function, the   *)
(* worker process, the reading of the pause mark, the pruning, the deletion*)
(* of a given-up job's files.  The report row is inserted with the lock    *)
(* held and before the job record is written: between the two only a crash *)
(* can come, so "recording" and "rescuing" are phases that hold the lock.  *)
(*                                                                         *)
(* The 24-hour and 30-day bounds are off here, as the desktop application  *)
(* configures the manager.                                                 *)
(***************************************************************************)
EXTENDS Naturals, FiniteSets

CONSTANTS
    Jobs,             \* the ids that may be given out
    NoJob,            \* "no job picked"
    Users,
    Owner,            \* the user each id would be given to
    Legacy,           \* jobs an older version left as interrupted
    QueueLimit,
    MaxActivePerUser, \* zero: off
    MaxParallel,      \* the largest load the settings may ask for
    HasDeadline,      \* Config.MaxDuration is set
    HasLifetime,      \* Config.PausedLifetime is set
    KeepWorkingData,
    MaxStops,         \* bounds the model: stops and crashes of the service
    MaxPauses,        \* bounds the model: accepted pauses
    MaxFaults         \* bounds the model: writes to the database that fail

ASSUME JobsAssumption == IsFiniteSet(Jobs) /\ NoJob \notin Jobs /\ Legacy \subseteq Jobs
ASSUME OwnerAssumption == Owner \in [Jobs -> Users]
ASSUME LimitsAssumption ==
    /\ QueueLimit \in Nat \ {0}
    /\ MaxActivePerUser \in Nat
    /\ MaxParallel \in Nat \ {0}
ASSUME SwitchAssumption ==
    /\ HasDeadline \in BOOLEAN
    /\ HasLifetime \in BOOLEAN
    /\ KeepWorkingData \in BOOLEAN
ASSUME BoundsAssumption == MaxStops \in Nat /\ MaxPauses \in Nat /\ MaxFaults \in Nat

VARIABLES
    \* the database: one record per job, one row per report
    status, created, reason, linked, reports,
    \* the run directories: the frames sampled from the recording with the
    \* caches of what they show, the record of the capture, the report
    files,
    \* the service process: its life, the load, the loop and its places
    service, parallel, loop, pick, active, leaving,
    \* one run per job: where its goroutine is, its context, what it knows
    phase, ctx, saw, result,
    \* Manager.cancels, Manager.pausing, and cancel calls not made yet
    cancels, pausing, signalling,
    \* the paused lifetime: who is past it, and two unlocked lists
    overdue, listed, discarding,
    \* history: what was asked of the current run; and the model's bounds
    asked, stops, pauses, faults

record  == <<status, created, reason, linked, reports>>
process == <<service, parallel, loop, pick, active, leaving>>
run     == <<phase, ctx, saw, result>>
maps    == <<cancels, pausing, signalling>>
expiry  == <<overdue, listed, discarding>>
bounds  == <<stops, pauses, faults>>
vars    == <<record, files, process, run, maps, expiry, asked, bounds>>

---------------------------------------------------------------------------
(* Types *)

\* "completed" is Succeeded or CompletedWithStageFailures (Status.Completed).
Terminal == {"completed", "failed", "cancelled", "interrupted"}
Status   == Terminal \cup {"queued", "running", "paused"}
Known    == Status \cup {"absent"}

Reason == {"none", "cancelled", "interrupted", "pause_expired", "timed_out", "log_unwritable",
           "worker_start_failed", "worker_failed", "bad_terminal_output", "report_record_failed"}

\* What runner.Run brings back, as conclude will read it.
Outcome == {"completed", "worker_failed", "bad_terminal_output", "worker_start_failed", "killed"}

Phase == {"idle", "claimed", "working", "exited", "judged", "pruned", "recording", "rescuing"}
InFlight == {j \in Jobs : phase[j] \notin {"idle", "rescuing"}}
LockFree == \A j \in Jobs : phase[j] \notin {"recording", "rescuing"}
Up       == service = "up"
Alive    == service # "down"

TypeOK ==
    /\ status \in [Jobs -> Known]
    /\ created \in [Jobs -> Nat]
    /\ reason \in [Jobs -> Reason]
    /\ linked \subseteq Jobs
    /\ reports \subseteq Jobs
    /\ files \in [Jobs -> SUBSET {"work", "capture", "report"}]
    /\ service \in {"down", "up", "stopping"}
    /\ parallel \in 1..MaxParallel
    /\ loop \in {"top", "placed", "claiming"}
    /\ pick \in Jobs \cup {NoJob}
    /\ active \in Nat
    /\ leaving \in Nat
    /\ phase \in [Jobs -> Phase]
    /\ ctx \in [Jobs -> {"live", "cancelled", "deadline"}]
    /\ saw \in [Jobs -> BOOLEAN]
    /\ result \in [Jobs -> Outcome \cup {"none"}]
    /\ cancels \subseteq Jobs
    /\ pausing \subseteq Jobs
    /\ signalling \subseteq Jobs
    /\ overdue \subseteq Jobs
    /\ listed \subseteq Jobs
    /\ discarding \subseteq Jobs
    /\ asked \in [Jobs -> SUBSET {"pause", "cancel"}]
    /\ stops \in Nat
    /\ pauses \in Nat
    /\ faults \in Nat

\* The database of a service that never paused may hold interrupted jobs.
Init ==
    /\ status = [j \in Jobs |-> IF j \in Legacy THEN "interrupted" ELSE "absent"]
    /\ created = [j \in Jobs |-> 0]
    /\ reason = [j \in Jobs |-> IF j \in Legacy THEN "interrupted" ELSE "none"]
    /\ linked = {}
    /\ reports = {}
    /\ files = [j \in Jobs |-> IF j \in Legacy THEN {"work"} ELSE {}]
    /\ service = "down"
    /\ parallel = 1
    /\ loop = "top"
    /\ pick = NoJob
    /\ active = 0
    /\ leaving = 0
    /\ phase = [j \in Jobs |-> "idle"]
    /\ ctx = [j \in Jobs |-> "live"]
    /\ saw = [j \in Jobs |-> FALSE]
    /\ result = [j \in Jobs |-> "none"]
    /\ cancels = {}
    /\ pausing = {}
    /\ signalling = {}
    /\ overdue = {}
    /\ listed = {}
    /\ discarding = {}
    /\ asked = [j \in Jobs |-> {}]
    /\ stops = 0
    /\ pauses = 0
    /\ faults = 0

Queued == {j \in Jobs : status[j] = "queued"}

\* Mutant: a paused analysis is not counted.
ActiveForUnpaused(u) == {j \in Jobs : Owner[j] = u /\ status[j] \in {"queued", "running"}}

ActiveFor(u) == {j \in Jobs : Owner[j] = u /\ status[j] \in {"queued", "running", "paused"}}

---------------------------------------------------------------------------
(* Requests of the API and of the settings *)

\* Submit, after the recording was resolved: the count of queued jobs and
\* the user's own bound, then the record.
UnderLimits(j) ==
    /\ Cardinality(Queued) < QueueLimit
    /\ MaxActivePerUser > 0 => Cardinality(ActiveFor(Owner[j])) < MaxActivePerUser

Submit(j) ==
    /\ Alive /\ LockFree
    /\ status[j] = "absent"
    /\ UnderLimits(j)
    /\ status' = [status EXCEPT ![j] = "queued"]
    /\ created' = [created EXCEPT ![j] = 1 + Cardinality({k \in Jobs : created[k] > 0})]
    /\ UNCHANGED <<reason, linked, reports, files, process, run, maps, expiry, asked, bounds>>

CancelQueued(j) ==
    /\ Alive /\ LockFree
    /\ status[j] = "queued"
    /\ status' = [status EXCEPT ![j] = "cancelled"]
    /\ reason' = [reason EXCEPT ![j] = "cancelled"]
    /\ UNCHANGED <<created, linked, reports, files, process, run, maps, expiry, asked, bounds>>

\* A job given up while paused: its files go once the lock is released.
CancelPaused(j) ==
    /\ Alive /\ LockFree
    /\ status[j] \in {"paused", "interrupted"}
    /\ status' = [status EXCEPT ![j] = "cancelled"]
    /\ reason' = [reason EXCEPT ![j] = "cancelled"]
    /\ overdue' = overdue \ {j}
    /\ discarding' = discarding \cup {j}
    /\ UNCHANGED <<created, linked, reports, files, process, run, maps, listed, asked, bounds>>

\* The handle is taken under the lock and called after it.
CancelRunning(j) ==
    /\ Alive /\ LockFree
    /\ status[j] = "running" /\ j \in cancels
    /\ signalling' = signalling \cup {j}
    /\ asked' = [asked EXCEPT ![j] = @ \cup {"cancel"}]
    /\ UNCHANGED <<record, files, process, run, cancels, pausing, expiry, bounds>>

PauseQueued(j) ==
    /\ Alive /\ LockFree
    /\ pauses < MaxPauses
    /\ status[j] = "queued"
    /\ status' = [status EXCEPT ![j] = "paused"]
    /\ pauses' = pauses + 1
    /\ UNCHANGED <<created, reason, linked, reports, files, process, run, maps, expiry, asked, stops, faults>>

PauseRunning(j) ==
    /\ Alive /\ LockFree
    /\ pauses < MaxPauses
    /\ status[j] = "running" /\ j \in cancels
    /\ pausing' = pausing \cup {j}
    /\ signalling' = signalling \cup {j}
    /\ asked' = [asked EXCEPT ![j] = @ \cup {"pause"}]
    /\ pauses' = pauses + 1
    /\ UNCHANGED <<record, files, process, run, cancels, expiry, stops, faults>>

\* cancel(): the first cause a context ends for is the one it keeps.
Signal(j) ==
    /\ Alive
    /\ j \in signalling
    /\ ctx' = [ctx EXCEPT ![j] = IF @ = "live" THEN "cancelled" ELSE @]
    /\ signalling' = signalling \ {j}
    /\ UNCHANGED <<record, files, process, phase, saw, result, cancels, pausing, expiry, asked, bounds>>

\* Past the lifetime Resume refuses and runs the expiry (ListExpired).
Resume(j) ==
    /\ Alive /\ LockFree
    /\ status[j] \in {"paused", "interrupted"}
    /\ j \notin overdue
    /\ status' = [status EXCEPT ![j] = "queued"]
    /\ reason' = [reason EXCEPT ![j] = "none"]
    /\ UNCHANGED <<created, linked, reports, files, process, run, maps, expiry, asked, bounds>>

\* SetLoad
SetLoad(n) ==
    /\ Alive /\ LockFree
    /\ n # parallel
    /\ parallel' = n
    /\ UNCHANGED <<record, files, service, loop, pick, active, leaving, run, maps, expiry, asked, bounds>>

---------------------------------------------------------------------------
(* The paused lifetime *)

LifetimePasses(j) ==
    /\ HasLifetime
    /\ status[j] = "paused" /\ j \notin overdue
    /\ overdue' = overdue \cup {j}
    /\ UNCHANGED <<record, files, process, run, maps, listed, discarding, asked, bounds>>

\* SetPausedLifetime to a longer time, or to none: nobody is past it.
KeepLonger ==
    /\ Alive /\ LockFree
    /\ overdue # {}
    /\ overdue' = {}
    /\ UNCHANGED <<record, files, process, run, maps, listed, discarding, asked, bounds>>

\* ExpirePaused reads the paused jobs, and judges their age, without the lock.
ListExpired ==
    /\ Alive
    /\ ~(overdue \subseteq listed)
    /\ listed' = listed \cup overdue
    /\ UNCHANGED <<record, files, process, run, maps, overdue, discarding, asked, bounds>>

\* Mutants: the status is not read again; what is read is never paused.
StillPausedAsListed(j) == j \in listed
StillPausedNever(j)    == status[j] = "interrupted"

StillPaused(j) == status[j] = "paused"

\* Then takes them one at a time, under the lock; only the status is read again.
ExpireOne(j) ==
    /\ Alive /\ LockFree
    /\ j \in listed
    /\ listed' = listed \ {j}
    /\ IF StillPaused(j)
       THEN /\ status' = [status EXCEPT ![j] = "cancelled"]
            /\ reason' = [reason EXCEPT ![j] = "pause_expired"]
            /\ overdue' = overdue \ {j}
            /\ discarding' = discarding \cup {j}
       ELSE UNCHANGED <<status, reason, overdue, discarding>>
    /\ UNCHANGED <<created, linked, reports, files, process, run, maps, asked, bounds>>

\* discard: the run directory goes, outside the lock.
Discard(j) ==
    /\ Alive
    /\ j \in discarding
    /\ files' = [files EXCEPT ![j] = {}]
    /\ discarding' = discarding \ {j}
    /\ UNCHANGED <<record, process, run, maps, overdue, listed, asked, bounds>>

---------------------------------------------------------------------------
(* The loop *)

Acquire ==
    /\ Up /\ LockFree
    /\ loop = "top" /\ active < parallel
    /\ loop' = "placed"
    /\ active' = active + 1
    /\ UNCHANGED <<record, files, service, parallel, pick, leaving, run, maps, expiry, asked, bounds>>

\* Mutant: the place is not given back.
PickNoneKeepsPlace ==
    /\ LockFree
    /\ loop = "placed" /\ (Queued = {} \/ service = "stopping")
    /\ loop' = "top"
    /\ UNCHANGED <<record, files, service, parallel, pick, active, leaving, run, maps, expiry, asked, bounds>>

\* NextQueued finds nothing, or its context has ended: the place goes back.
PickNone ==
    /\ LockFree
    /\ loop = "placed" /\ (Queued = {} \/ service = "stopping")
    /\ loop' = "top"
    /\ active' = active - 1
    /\ UNCHANGED <<record, files, service, parallel, pick, leaving, run, maps, expiry, asked, bounds>>

\* The oldest queued job, read without the lock.
Oldest(j) == j \in Queued /\ \A k \in Queued : created[j] <= created[k]

Pick(j) ==
    /\ Up
    /\ loop = "placed" /\ Oldest(j)
    /\ loop' = "claiming"
    /\ pick' = j
    /\ UNCHANGED <<record, files, service, parallel, active, leaving, run, maps, expiry, asked, bounds>>

\* Mutant: the job is taken as it was picked.
StillQueuedAsPicked(j) == pick = j

StillQueued(j) == status[j] = "queued"

\* runOne reads the record again under the lock before it takes it.
Claim(j) ==
    /\ Up /\ LockFree
    /\ loop = "claiming" /\ pick = j
    /\ StillQueued(j)
    /\ status' = [status EXCEPT ![j] = "running"]
    /\ phase' = [phase EXCEPT ![j] = "claimed"]
    /\ cancels' = cancels \cup {j}
    /\ loop' = "top" /\ pick' = NoJob
    /\ UNCHANGED <<created, reason, linked, reports, files, service, parallel, active, leaving,
                   ctx, saw, result, pausing, signalling, expiry, asked, bounds>>

\* Mutant: the place is given back at once, and again when the goroutine ends.
ClaimStaleFreesTwice ==
    /\ LockFree
    /\ loop = "claiming"
    /\ ~StillQueued(pick) \/ service = "stopping"
    /\ loop' = "top" /\ pick' = NoJob
    /\ leaving' = leaving + 1
    /\ active' = active - 1
    /\ UNCHANGED <<record, files, service, parallel, run, maps, expiry, asked, bounds>>

\* Not queued any more, or not readable because the service is stopping.
ClaimStale ==
    /\ LockFree
    /\ loop = "claiming"
    /\ ~StillQueued(pick) \/ service = "stopping"
    /\ loop' = "top" /\ pick' = NoJob
    /\ leaving' = leaving + 1
    /\ UNCHANGED <<record, files, service, parallel, active, run, maps, expiry, asked, bounds>>

\* The record cannot be written: the handle stays in Manager.cancels.
ClaimFails(j) ==
    /\ Up /\ LockFree
    /\ faults < MaxFaults
    /\ loop = "claiming" /\ pick = j
    /\ StillQueued(j)
    /\ cancels' = cancels \cup {j}
    /\ loop' = "top" /\ pick' = NoJob
    /\ leaving' = leaving + 1
    /\ faults' = faults + 1
    /\ UNCHANGED <<record, files, service, parallel, active, run, pausing, signalling, expiry, asked,
                   stops, pauses>>

\* The goroutine of a run is over: its place goes back.
Release ==
    /\ Alive /\ LockFree
    /\ leaving > 0
    /\ leaving' = leaving - 1
    /\ active' = active - 1
    /\ UNCHANGED <<record, files, service, parallel, loop, pick, run, maps, expiry, asked, bounds>>

---------------------------------------------------------------------------
(* One analysis: runOne and the worker process it starts *)

Goes(j, p, q) == phase[j] = p /\ phase' = [phase EXCEPT ![j] = q]

\* A capture without its frames: nothing can go on from it.
Spent(f) == "capture" \in f /\ "work" \notin f

\* The worker finds what an earlier start left and adds to it.
StartWorker(j) ==
    /\ ~Spent(files[j])
    /\ Goes(j, "claimed", "working")
    /\ files' = [files EXCEPT ![j] = @ \cup {"work"}]
    /\ UNCHANGED <<record, process, ctx, saw, result, maps, expiry, asked, bounds>>

\* The frames of a capture are missing: the worker ends at once, and whether
\* it was also killed nobody asks.
StartSpent(j) ==
    /\ Spent(files[j])
    /\ Goes(j, "claimed", "exited")
    /\ \E o \in Outcome \ {"completed", "killed"} : result' = [result EXCEPT ![j] = o]
    /\ UNCHANGED <<record, files, process, ctx, saw, maps, expiry, asked, bounds>>

StartFails(j) ==
    /\ Goes(j, "claimed", "exited")
    /\ result' = [result EXCEPT ![j] = "worker_start_failed"]
    /\ UNCHANGED <<record, files, process, ctx, saw, maps, expiry, asked, bounds>>

\* The worker's own steps: the capture, the report, and last, whatever is
\* kept of its caches, the frames of a finished analysis go.
Grown(f) == {f \cup {"capture"}}
            \cup (IF "capture" \in f THEN {f \cup {"report"}} ELSE {})
            \cup (IF "report" \in f THEN {f \ {"work"}} ELSE {})
WorkerWrites(j) ==
    /\ phase[j] = "working"
    /\ \E f \in Grown(files[j]) \ {files[j]} : files' = [files EXCEPT ![j] = f]
    /\ UNCHANGED <<record, process, run, maps, expiry, asked, bounds>>

\* The worker may also fail, or fail to announce its report, or print more
\* than the runner takes (reported as a failed start), wherever it is.
WorkerExits(j) ==
    /\ Goes(j, "working", "exited")
    /\ \E o \in Outcome \ {"killed"} :
          /\ o = "completed" => "report" \in files[j] /\ "work" \notin files[j]
          /\ result' = [result EXCEPT ![j] = o]
    /\ UNCHANGED <<record, files, process, ctx, saw, maps, expiry, asked, bounds>>

\* The context ended first: the process tree is killed wherever it was.
WorkerKilled(j) ==
    /\ ctx[j] # "live"
    /\ Goes(j, "working", "exited")
    /\ result' = [result EXCEPT ![j] = "killed"]
    /\ UNCHANGED <<record, files, process, ctx, saw, maps, expiry, asked, bounds>>

DeadlinePasses(j) ==
    /\ HasDeadline
    /\ phase[j] \in {"claimed", "working", "exited", "judged", "pruned"}
    /\ ctx[j] = "live"
    /\ ctx' = [ctx EXCEPT ![j] = "deadline"]
    /\ UNCHANGED <<record, files, process, phase, saw, result, maps, expiry, asked, bounds>>

\* wasPaused: reads the mark, once.
ReadPauseMark(j) ==
    /\ LockFree
    /\ Goes(j, "exited", "judged")
    /\ saw' = [saw EXCEPT ![j] = j \in pausing]
    /\ pausing' = pausing \ {j}
    /\ UNCHANGED <<record, files, process, ctx, result, cancels, signalling, expiry, asked, bounds>>

\* Mutant: a pause is forgotten.
KeepsFilesOnStopOnly(j) == service = "stopping"

\* A run that stops for a pause, or with the service, keeps its files.
KeepsFiles(j) == service = "stopping" \/ (saw[j] /\ ctx[j] # "live")

\* Mutant: the whole run directory goes.
PrunedWhole(f) == {}

\* pruneWorkingDirectories: the directories go, the files stay.
Pruned(f) == f \ {"work"}

Prune(j) ==
    /\ Goes(j, "judged", "pruned")
    /\ files' = IF KeepsFiles(j) \/ KeepWorkingData
                THEN files ELSE [files EXCEPT ![j] = Pruned(@)]
    /\ UNCHANGED <<record, process, ctx, saw, result, maps, expiry, asked, bounds>>

\* The switch of finish's callback, on what holds when the lock is taken.
Verdict(j) ==
    IF service = "stopping" THEN "interrupted"
    ELSE CASE ctx[j] = "deadline"               -> "timed_out"
           [] ctx[j] = "cancelled" /\ saw[j]    -> "paused"
           [] ctx[j] = "cancelled" /\ ~saw[j]   -> "cancelled"
           [] OTHER                             -> "conclude"

\* What the goroutine of a run knew goes with it.
Ended(j) ==
    /\ phase' = [phase EXCEPT ![j] = "idle"]
    /\ ctx' = [ctx EXCEPT ![j] = "live"]
    /\ saw' = [saw EXCEPT ![j] = FALSE]
    /\ result' = [result EXCEPT ![j] = "none"]
    /\ asked' = [asked EXCEPT ![j] = {}]

\* Mutant: a handle taken for this run reaches the next one.
DroppedSharingHandles(j) ==
    /\ Ended(j)
    /\ cancels' = cancels \ {j}
    /\ leaving' = leaving + 1
    /\ UNCHANGED <<pausing, signalling, service, parallel, loop, pick, active>>

\* finish, past the record: the bookkeeping of the run is dropped.  A cancel
\* function called after it ends a context nobody uses any more.
Dropped(j) ==
    /\ Ended(j)
    /\ cancels' = cancels \ {j}
    /\ signalling' = signalling \ {j}
    /\ leaving' = leaving + 1
    /\ UNCHANGED <<pausing, service, parallel, loop, pick, active>>

Ends(j, s, r) ==
    /\ status' = [status EXCEPT ![j] = s]
    /\ reason' = [reason EXCEPT ![j] = r]
    /\ Dropped(j)

\* The log cannot be opened: neither the pause mark nor the context is read.
LogFails(j) ==
    /\ LockFree
    /\ phase[j] = "claimed"
    /\ Ends(j, "failed", "log_unwritable")
    /\ UNCHANGED <<created, linked, reports, files, expiry, bounds>>

FinishStopped(j) ==
    /\ LockFree
    /\ phase[j] = "pruned"
    /\ \/ Verdict(j) = "interrupted" /\ Ends(j, "paused", "interrupted")
       \/ Verdict(j) = "timed_out"   /\ Ends(j, "failed", "timed_out")
       \/ Verdict(j) = "paused"      /\ Ends(j, "paused", "none")
       \/ Verdict(j) = "cancelled"   /\ Ends(j, "cancelled", "cancelled")
    /\ UNCHANGED <<created, linked, reports, files, expiry, bounds>>

\* The worker did not start, failed, or its output does not pass.
FinishFailed(j) ==
    /\ LockFree
    /\ phase[j] = "pruned" /\ Verdict(j) = "conclude"
    /\ \/ result[j] # "completed" /\ Ends(j, "failed", result[j])
       \/ result[j] = "completed" /\ Ends(j, "failed", "worker_failed")
    /\ UNCHANGED <<created, linked, reports, files, expiry, bounds>>

\* CreateReport, with the lock held.
InsertReport(j) ==
    /\ LockFree
    /\ Verdict(j) = "conclude" /\ result[j] = "completed"
    /\ j \notin reports
    /\ Goes(j, "pruned", "recording")
    /\ reports' = reports \cup {j}
    /\ UNCHANGED <<status, created, reason, linked, files, process, ctx, saw, result, maps, expiry,
                   asked, bounds>>

\* The row cannot be inserted, its id is taken or the database fails: the
\* analysis is over without its report.
InsertFails(j) ==
    /\ LockFree
    /\ j \in reports \/ faults < MaxFaults
    /\ phase[j] = "pruned" /\ Verdict(j) = "conclude" /\ result[j] = "completed"
    /\ Ends(j, "failed", "report_record_failed")
    /\ faults' = faults + 1
    /\ UNCHANGED <<created, linked, reports, files, expiry, stops, pauses>>

FinishRecorded(j) ==
    /\ phase[j] = "recording"
    /\ linked' = linked \cup {j}
    /\ Ends(j, "completed", "none")
    /\ UNCHANGED <<created, reports, files, expiry, bounds>>

\* The outcome cannot be written: it is logged, and the record stays running.
FinishUnwritten(j) ==
    /\ faults < MaxFaults
    /\ phase[j] = "recording" \/ (phase[j] = "pruned" /\ LockFree)
    /\ Dropped(j)
    /\ faults' = faults + 1
    /\ UNCHANGED <<record, files, expiry, stops, pauses>>

---------------------------------------------------------------------------
(* Rescue: a finished analysis whose result was lost on its way *)

Rescuable(j) == status[j] = "failed" /\ reason[j] = "bad_terminal_output"

BeginRescue(j) ==
    /\ Alive /\ LockFree
    /\ Rescuable(j) /\ "report" \in files[j] /\ j \notin reports
    /\ Goes(j, "idle", "rescuing")
    /\ reports' = reports \cup {j}
    /\ UNCHANGED <<status, created, reason, linked, files, process, ctx, saw, result, maps, expiry,
                   asked, bounds>>

EndRescue(j) ==
    /\ Goes(j, "rescuing", "idle")
    /\ status' = [status EXCEPT ![j] = "completed"]
    /\ reason' = [reason EXCEPT ![j] = "none"]
    /\ linked' = linked \cup {j}
    /\ UNCHANGED <<created, reports, files, process, ctx, saw, result, maps, expiry, asked, bounds>>

RescueUnwritten(j) ==
    /\ faults < MaxFaults
    /\ Goes(j, "rescuing", "idle")
    /\ faults' = faults + 1
    /\ UNCHANGED <<record, files, process, ctx, saw, result, maps, expiry, asked, stops, pauses>>

---------------------------------------------------------------------------
(* The service: stop, end, crash, start *)

\* The service's context ends, and every run's context with it.
Stop ==
    /\ Up
    /\ stops < MaxStops
    /\ service' = "stopping"
    /\ ctx' = [j \in Jobs |-> IF j \in InFlight /\ ctx[j] = "live" THEN "cancelled" ELSE ctx[j]]
    /\ stops' = stops + 1
    /\ UNCHANGED <<record, files, parallel, loop, pick, active, leaving, phase, saw, result, maps,
                   expiry, asked, pauses, faults>>

\* What a process holds in memory is gone, its workers with it.
Gone ==
    /\ service' = "down"
    /\ loop' = "top" /\ pick' = NoJob
    /\ active' = 0 /\ leaving' = 0
    /\ phase' = [j \in Jobs |-> "idle"]
    /\ ctx' = [j \in Jobs |-> "live"]
    /\ saw' = [j \in Jobs |-> FALSE]
    /\ result' = [j \in Jobs |-> "none"]
    /\ asked' = [j \in Jobs |-> {}]
    /\ cancels' = {} /\ pausing' = {} /\ signalling' = {}
    /\ listed' = {} /\ discarding' = {}
    /\ UNCHANGED <<record, files, parallel, overdue, pauses, faults>>

Exit ==
    /\ service = "stopping"
    /\ loop = "top" /\ leaving = 0 /\ \A j \in Jobs : phase[j] = "idle"
    /\ Gone
    /\ UNCHANGED stops

Crash ==
    /\ Alive
    /\ stops < MaxStops
    /\ Gone
    /\ stops' = stops + 1

\* Mutant: nothing is recovered.
RecoveredNever(j) == FALSE

Recovered(j) == status[j] = "running"

\* Recover: every job left running is paused, with the reason on its record.
Start ==
    /\ service = "down"
    /\ service' = "up"
    /\ parallel' \in 1..MaxParallel
    /\ status' = [j \in Jobs |-> IF Recovered(j) THEN "paused" ELSE status[j]]
    /\ reason' = [j \in Jobs |-> IF Recovered(j) THEN "interrupted" ELSE reason[j]]
    /\ UNCHANGED <<created, linked, reports, files, loop, pick, active, leaving, run, maps, expiry,
                   asked, bounds>>

---------------------------------------------------------------------------
Request(j) ==
    \/ Submit(j) \/ CancelQueued(j) \/ CancelPaused(j) \/ CancelRunning(j)
    \/ PauseQueued(j) \/ PauseRunning(j) \/ Resume(j) \/ BeginRescue(j)

LoopStep == Acquire \/ PickNone \/ ClaimStale \/ Release \/ (\E j \in Jobs : Pick(j) \/ Claim(j))

RunStep(j) ==
    \/ StartWorker(j) \/ StartSpent(j) \/ StartFails(j)
    \/ WorkerWrites(j) \/ WorkerExits(j) \/ WorkerKilled(j)
    \/ ReadPauseMark(j) \/ Prune(j) \/ LogFails(j)
    \/ FinishStopped(j) \/ FinishFailed(j) \/ InsertReport(j) \/ FinishRecorded(j)

Unlocked(j) == Signal(j) \/ ExpireOne(j) \/ Discard(j) \/ EndRescue(j)

Mishap(j) ==
    \/ DeadlinePasses(j) \/ ClaimFails(j) \/ InsertFails(j) \/ FinishUnwritten(j) \/ RescueUnwritten(j)

Next ==
    \/ \E j \in Jobs : Request(j) \/ RunStep(j) \/ Unlocked(j) \/ Mishap(j) \/ LifetimePasses(j)
    \/ LoopStep
    \/ \E n \in 1..MaxParallel : SetLoad(n)
    \/ KeepLonger \/ ListExpired
    \/ Stop \/ Exit \/ Crash \/ Start

Spec == Init /\ [][Next]_vars

\* Every goroutine that can run is run, an analysis ends, the expiry ticker
\* fires, and a service that is down is started again.  Users and the
\* environment owe nothing.
Fairness ==
    /\ WF_vars(Start) /\ WF_vars(Exit)
    /\ WF_vars(Acquire) /\ WF_vars(PickNone) /\ WF_vars(ClaimStale) /\ WF_vars(Release)
    /\ WF_vars(\E j \in Jobs : Pick(j))
    /\ WF_vars(\E j \in Jobs : Claim(j))
    /\ WF_vars(ListExpired)
    /\ \A j \in Jobs :
          /\ WF_vars(RunStep(j)) /\ WF_vars(EndRescue(j))
          /\ WF_vars(Signal(j)) /\ WF_vars(ExpireOne(j)) /\ WF_vars(Discard(j))

FairSpec == Spec /\ Fairness

---------------------------------------------------------------------------
(* What holds *)

\* Every place taken from the load is held by an analysis, by a goroutine
\* about to give it back, or by the loop between its look at the queue and
\* the claim: no place is lost or given back twice, whatever was cancelled
\* or paused in between, and never more run than the largest load allows
\* (acquire, free, release).
PlacesAreCounted ==
    /\ active = Cardinality(InFlight) + leaving + (IF loop = "top" THEN 0 ELSE 1)
    /\ active <= MaxParallel

\* An analysis this process runs is recorded as running and can be reached
\* by Cancel and Pause, and a handle they find for a running job is that of
\* its own run; unless a record write failed, every job recorded as running
\* in a live service is one this process runs, and no handle outlives its
\* run (Manager.cancels against the job records).
RunningIsOwned ==
    /\ \A j \in InFlight : Alive /\ status[j] = "running" /\ j \in cancels
    /\ \A j \in cancels : status[j] = "running" => j \in InFlight
    /\ faults = 0 /\ Alive => /\ cancels \subseteq InFlight
                              /\ \A j \in Jobs : status[j] = "running" => j \in InFlight

\* The deletion of a run directory, made without the lock, never meets an
\* analysis: the job is given up for good and nothing works on it (discard).
DiscardIsSafe ==
    \A j \in discarding : status[j] = "cancelled" /\ phase[j] = "idle"

\* A job shown as completed links a report that is recorded, and the
\* report's file is still on disk, whatever was pruned, discarded or rescued
\* (conclude, Rescue, pruneWorkingDirectories, discard).
ReportIsThere ==
    \A j \in Jobs : status[j] = "completed" => j \in linked \cap reports /\ "report" \in files[j]

\* No user holds more waiting, running and paused analyses than the bound,
\* through any order of submits, pauses, resumes and restarts.
ActivePerUser ==
    MaxActivePerUser > 0 => \A u \in Users : Cardinality(ActiveFor(u)) <= MaxActivePerUser

\* A settled job changes only by a rescue, or, when an older version left it
\* as interrupted, by its resume or its cancellation; neither the loop's old
\* pick nor a finish nor an expiry takes it back.
SettledStays ==
    [][\A j \in Jobs : status[j] \in Terminal /\ status'[j] # status[j] =>
          \/ status[j] = "interrupted" /\ status'[j] \in {"queued", "cancelled"}
          \/ Rescuable(j) /\ status'[j] = "completed"]_vars

\* A running analysis is ended as cancelled, or paused with nothing wrong,
\* only when somebody asked this very run to stop: a cancel function taken
\* for an earlier run of the same job cannot reach it.
StopsWhenAsked ==
    [][\A j \in Jobs :
          status[j] = "running" /\ status'[j] \in {"cancelled", "paused"} /\ reason'[j] # "interrupted"
             => asked[j] # {}]_vars

\* A worker that was killed at its work for a pause leaves its working files,
\* or the report it had just finished (whether a later start can go on from
\* that is another question: ResumeContinues).
KilledPauseKeepsWork ==
    [][\A j \in Jobs :
          status[j] = "running" /\ status'[j] = "paused" /\ reason'[j] = "none" /\ result[j] = "killed"
             => files'[j] \cap {"work", "report"} # {}]_vars

\* A queued job is taken, or somebody cancels or pauses it.
QueuedIsTaken == \A j \in Jobs : (status[j] = "queued") ~> (status[j] # "queued")

\* A job recorded as running does not stay so, through stops and crashes of
\* the service too.
RunEnds == \A j \in Jobs : (status[j] = "running") ~> (status[j] # "running")

\* A paused job past its lifetime is cancelled, unless the lifetime is made
\* longer or the user gives it up first.
PausedExpires == \A j \in Jobs : (j \in overdue) ~> (j \notin overdue)

\* The manager keeps the promise of JobLifecycle: every step of the loop, of
\* a run, of a request and of a restart is one of its transitions or changes
\* nothing it can see; the files of a job are touched only under it.
Life == INSTANCE JobLifecycle WITH state <- status, rows <- reports, work <- files

KeepsPromise == Life!Spec

---------------------------------------------------------------------------
(* The inductive invariant the theorems rest on (JobManager_proofs) *)

\* A service that is down holds nothing in memory.
DownIsEmpty ==
    service = "down" =>
        /\ loop = "top" /\ active = 0 /\ leaving = 0
        /\ cancels = {} /\ signalling = {} /\ discarding = {}
        /\ \A j \in Jobs : phase[j] = "idle"

\* A job is picked while the loop waits for the claim.
PickIsJob == loop = "claiming" => pick \in Jobs

\* A run asked to stop, or whose context was ended by something other than
\* the service or the deadline, was asked; a run that is over knows nothing.
StopIsAsked ==
    \A j \in Jobs :
        /\ j \in signalling => j \in InFlight /\ asked[j] # {}
        /\ ctx[j] = "cancelled" /\ service = "up" => asked[j] # {}
        /\ j \notin InFlight => ctx[j] = "live" /\ result[j] = "none"

\* What a run may rely on finding on disk, phase by phase.
FilesOfRun ==
    \A j \in Jobs :
        /\ phase[j] \in {"claimed", "working"} => result[j] = "none"
        /\ phase[j] = "working" => files[j] \cap {"work", "report"} # {}
        /\ result[j] = "completed" => "report" \in files[j]
        /\ result[j] = "killed" =>
             /\ ctx[j] # "live"
             /\ phase[j] = "pruned" /\ saw[j] => files[j] \cap {"work", "report"} # {}
             /\ phase[j] \in {"exited", "judged"} => files[j] \cap {"work", "report"} # {}

\* Between the report's row and the job's record.
RowIsDue ==
    \A j \in Jobs :
        /\ phase[j] = "recording" => result[j] = "completed" /\ j \in reports
        /\ phase[j] = "rescuing" => Rescuable(j) /\ j \in reports /\ "report" \in files[j]

IInv ==
    /\ TypeOK
    /\ PlacesAreCounted
    /\ DownIsEmpty
    /\ PickIsJob
    /\ RunningIsOwned
    /\ StopIsAsked
    /\ DiscardIsSafe
    /\ FilesOfRun
    /\ RowIsDue
    /\ ReportIsThere

---------------------------------------------------------------------------
(* What the documentation says and the code does not hold *)

\* pause.go:120: wasPaused reports whether the run that just ended was
\* stopped by a pause.
MarkIsOfThisRun == \A j \in Jobs : saw[j] => "pause" \in asked[j]

\* pause.go:46: Pause stops a running job and keeps what it has done; a run
\* nobody cancelled does not end as cancelled.
CancelledOnlyIfCancelled ==
    [][\A j \in Jobs : status[j] = "running" /\ status'[j] = "cancelled" => "cancel" \in asked[j]]_vars

\* architecture.md:113: a run that fails or is cancelled has its working
\* directories deleted by the manager.
CancelledLeavesNoWork ==
    \A j \in Jobs : status[j] = "cancelled" /\ j \notin discarding => "work" \notin files[j]

\* job.go:33: a paused analysis has its working files kept, and resumed it
\* picks those files up; an analysis whose worker has finished and pruned is
\* not paused over a capture whose frames are gone, where every start ends.
ResumeContinues ==
    [][\A j \in Jobs :
          status[j] = "running" /\ status'[j] = "paused" /\ result[j] = "completed"
             => ~Spent(files'[j])]_vars

=============================================================================
