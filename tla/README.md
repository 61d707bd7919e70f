# Verification of Tracen Replay

Tracen Replay analyses screen recordings of training sessions. A Go service takes uploads and
requests over HTTP, keeps records of recordings, jobs and reports, and runs one Python analyzer
process per analysis, directly or in a container, in its own process or on worker machines fed by a
queue. The analyzer is a sequential program over video frames. Four things are hard to get right, and
are what these modules are about:

- the service: analyses that take hours, may be paused, resumed, cancelled, timed out or killed by a
  restart at any point, and must neither be lost nor run twice nor be shown with a report that is not there;
- its recordings: a row in the database and bytes in up to three places, written and deleted one after the other
  by requests, a sweep and workers that hold no lock in common;
- the analyzer's working directory: a run killed between any two writes must go on from what it finds,
  and must end with the report it would have written had nobody stopped it;
- the analyzer's readers: what was bought, what it cost and what a turn was spent on is inferred from frames
  of which any may have been missed or misread, and must be what the player did, or be left unsaid.

Paths below are relative to `src/internal` unless they start with `src/`.

## Inventory

| Component | Code | State | Operations | What makes it correct |
|---|---|---|---|---|
| Job manager of one process | `jobs/manager.go`, `pause.go`, `rescue.go` | job records and report rows (store), run directories, `active`, `parallel`, `cancels`, `pausing`, the paused lifetime | Submit, Cancel, Pause, Resume, Rescue, SetLoad, SetPausedLifetime, ExpirePaused, Recover, Run/runOne/finish | places neither lost nor given back twice; records, handles and runs agree; a settled job stays settled; files are deleted only of a job nobody works on; a completed job has its report; a queued job is taken |
| Shared queue and workers | `jobs/remote.go`, `queue/` | messages and their holds, heartbeats, scratch directories, objects | Work, takeable, watch, Follow, fetch, upload, dropSettled, sweepScratch | one worker per job, no job without a message, scratch data of a job kept while it may be resumed |
| Admission budgets | `jobs/manager.go` (withinLimits), `store/store.go` | counts of jobs by owner, hours in sliding windows | Submit | a user never holds more than the bound; minutes in a window are bounded |
| Job store | `store/store.go`, `store/postgres.go` | tables | CreateJob, UpdateJob, NextQueued, PauseRunning, CreateReport, counts, listings | each write is one statement; UpdateJob rewrites every column |
| Job events | `jobs/hub.go`, event stream in `api/api.go` | subscribers and their buffers | Publish, Subscribe, stream | a stream shows the end of its job and then ends |
| Worker runner | `runner/` | process tree, pipes, container | Run, kill | nothing of a tree survives its job |
| Worker contract | `worker/result.go`, `verify.go`, `describe.go` | none | Interpret, Verify, Describe | a completed outcome only with verified objects; stages only move forward |
| Analysis job of the analyzer | `src/analyzer/tracen_replay/analysis_job.py` | output directory, owner's process id | main, prune, watchdog | a report of an earlier run is never taken for this one's; the inputs of a resume outlive the run; no analyzer outlives its owner |
| Analyzer pipeline: the run | `src/analyzer/tracen_replay/full_recording.py`, `pipeline.py`, the stages they call | parts and images, OCR rows, sidecars, dense windows and their index, the hint-card cache, the report | capture, OCR, refinements, windows, publication | a resumed run reports what a straight run reports; a lost stage is named |
| Analyzer pipeline: the readers | `transactions.py`, `skill_chains.py`, `lesson_offer_costs.py`, `rest_actions.py`, `infirmary_actions.py`, `turn_boundary.py`, `turn_ledger.py` there | none: functions of the readings | what was bought, what it cost, what each turn was spent on | what is said is what the player did, whichever frame was missed |
| Recordings, uploads, quotas | `api/uploads.go`, `api/direct.go`, `api/api.go` | recordings table, files, objects under `originals/` and `kept/` | upload; begin, put, complete; delete | quotas hold, a row has its bytes, no bytes without a row, a recording in use is not deleted |
| Housekeeping | `maintenance/maintenance.go` | none of its own | one sweep an hour | never deletes what is in use; what nobody needs goes in the end |
| Accounts and sessions | `auth/`, `api/account.go` | users, sessions, limiter windows | sign-in, sign-out, deletion | attempts are bounded; nothing of a deleted user remains |
| Reports and corrections | `api/api.go`, `api/corrections.go`, `store/corrections.go` | reports, corrections | verify, delete | a correction fits the turn it corrects |
| Timeline document | `timeline/timeline.go` | none | read and sum | pure |
| Load plan | `loadplan/loadplan.go` | none | Fit, Recommend | inside cores and memory, at least one reader |
| Desktop settings, shutdown | `src/cmd/tracen-desktop/main.go` | settings and their lock | change settings, quit | no cycle with the manager's lock; the records are written before the database closes |
| Service entry point | `src/cmd/tracen/main.go` | process | Recover, Run, shutdown | recovery comes before the loop |
| Frame cache | `artifacts/` | files | extract, copy, probe | one complete file per frame |
| Object store, update checker, web client | `objectstore/`, `updates/`, `src/web/` | | | not modelled, see below |

### How the parts interact

- The API calls the manager's methods from one goroutine per request. `Manager.mu` is held over each
  read-modify-write of a job record, and over `finish`, which includes the insertion of the report.
- The loop (`Run`) takes a place (`acquire`), looks for the oldest queued job **without** the lock,
  and hands it to a new goroutine (`runOne`), which reads the record again **with** the lock before
  it takes the job.
- `Cancel` and `Pause` of a running job leave a mark and take its cancel function under the lock,
  and **call** it after the lock is released. The run reads the pause mark once, after its worker is
  gone, prunes its directories without the lock, and decides the record in `finish`, which looks at
  the contexts again.
- A job given up while paused has its record written under the lock and its directory deleted after
  it. `ExpirePaused` judges the age of jobs without the lock and takes them one at a time with it.
- A restart runs `Recover` before the loop: every job left as running becomes paused.
- On a shared queue the API process and the worker processes share a database, a message queue and a scratch
  space, and no lock: `Manager.mu` is the lock of one process. `UpdateJob` writes every column of the record, as
  read earlier. A worker learns of a cancel or a pause from the record (`watch`), and of another worker's
  taking its message when it renews its hold. The API process pauses a running job whose heartbeat is old
  (`Follow`); a worker pauses one whose message came back (`takeable`).
- Uploads, deletions and the sweep share the database and the object store, and no lock. The quota is read, and the row is
  written later; whether a recording is in use is read, and the row is deleted later; `Submit` finds a recording before
  it takes the manager's lock, and creates the job after. A deletion by a user takes the row first and the bytes after it, the
  sweep and the deletion of an account take the bytes first. A worker that has completed an analysis stores a
  copy for playback, and its recording is told of it when the report is recorded (`learned`).
- A worker program runs the analyzer over one directory. It only stops by ending or by the kill of its
  process tree; the directory is all that one start tells the next.
- In the analyzer the stages write what each frame shows; the readers are applied to all rows at the end, each on its
  own, and the ledger puts the actions they found into the turns the calendars show.

The hard behaviours are therefore: requests between any two of those steps; a deadline, a pause, a
cancel and a stop of the service ending one context; a crash between two writes; a database write
that fails in the middle; on a shared queue, messages delivered twice, workers that are only slow, and records
written over one another; two uploads, an upload and a sweep, a deletion and a submit, a deletion of an account and anything at
all; in the analyzer, a kill between two files, a file torn in the middle, a newer reader
between two starts; and in its readers, frames missed, numbers hidden, cut or stale, menus opened and
left again, one kind of receipt that looks like another, and a next turn that comes late. `PROJECT.json` lists
them line by line as hazards.

## Modules

| Module | What it is |
|---|---|
| `JobLifecycle` | The abstract specification: the transitions an analysis may make, its report row, and when its files may be touched. |
| `JobLifecycle_proofs` | A completed job keeps its report, from those transitions alone. |
| `JobManager` | The manager of one process in detail: every request, the loop, each run, the paused lifetime, stop, exit, crash and restart. |
| `JobManager_proofs` | The inductive invariant, the safety properties and the refinement. |
| `JobLease` | The abstract specification of the shared-queue mode: who may analyze a job, when its status may change, and when what a run has on disk may go. |
| `SharedQueue` | The shared-queue mode: one API process and worker processes over one record, its messages and its scratch directory. |
| `SharedQueue_proofs` | Its inductive invariant and safety properties. |
| `SharedQueueMessages_proofs` | Three more: who is declared dead and that a queued job stays within reach, which need an account of the messages, and the refinement. |
| `Recordings` | Uploads, quotas, deletions, the deletion of an account, the sweep, and what of an analysis concerns recordings. |
| `Recordings_proofs` | Types and the bound on a user's recordings. |
| `RecordingsKept_proofs` | That rows and analyses have their bytes, and that nothing is left behind. |
| `AnalysisRun` | One analysis directory of the Python analyzer over any number of starts. |
| `AnalysisRun_proofs` | Its inductive invariant, what a resumed run promises, and what `JobManager` takes for granted of its worker. |
| `Recording` | What the readers work on: rows in the order of their time, the history of the player, elapsed time. |
| `SkillPurchases`, `SkillMenu` | The reader of skill purchases, and the player and sampler it is checked against. |
| `LessonReceipts`, `LessonMenu` | The reader of lesson costs, and its player and sampler. |
| `TurnBoundary`, `RecoveryActions`, `TurnLedger` | When a turn ended, which turns were spent on what, and which turn an action belongs to. |
| `CareerMenu` | The player who takes turns, and the sampler. |
| `MCJobManager`, `MCFleet`, `MCSharedQueue`, `MCRecordings`, `MCAnalysisRun`, `MCReaders` | Values of the constants for model checking; `MCFleet` also checks two settings of `JobManager` side by side, and `MCReaders` plays one of the three games at a time. |
| `MCFleet_proofs` | The bound on a user's analyses under the second of those settings. |

`JobManager` implements `JobLifecycle`, and `SharedQueue` implements `JobLease`, each as a `PROPERTY` of a run and as a
theorem. `SharedQueue` does not implement `JobLifecycle`: it has no report rows and no discarding of working data of its
own, and a message taken too often has its job failed while queued, which the manager of one process never does. `SharedQueue` stands beside `JobManager`: it has the branches of the same
functions for a shared queue, and takes from `JobManager` what a run's end means for reports. `Recordings` sees of a job
its record's status, its recording, and whether a worker is at it; what happens to the job is theirs. `AnalysisRun` is what
`JobManager` calls the working data of a job. Each menu module EXTENDS the readers it is
the environment of, and all readers EXTEND `Recording`.

### `JobManager` and the code

| State | Code |
|---|---|
| `status`, `created`, `reason`, `linked` | `store.Job`: Status, CreatedAt as an ordinal, FailureCategory, ReportID |
| `reports` | the reports table (its id is `job-<id>`) |
| `files` | the run directory: the frames sampled from the recording with their caches (`work`), the record of the capture, the report; a capture without its frames (`Spent`) ends every start |
| `service` | the process and its context: down, up, stopping |
| `parallel`, `active` | `Manager.parallel`, `Manager.active` |
| `loop`, `pick` | where `Run` stands, and the job it hands to `runOne` |
| `leaving` | goroutines of runs that are over and have not given their place back |
| `phase`, `ctx`, `saw`, `result` | per run: the position in `runOne`, the cause its context ended for, `wasPaused`'s answer, what the worker brought back |
| `cancels`, `pausing` | `Manager.cancels`, `Manager.pausing` |
| `signalling` | cancel functions taken and not yet called |
| `overdue`, `listed` | jobs past the paused lifetime; the list `ExpirePaused` is working through |
| `discarding` | jobs given up whose directory is still to be deleted |
| `asked` | history: what this run was asked to do |
| `stops`, `pauses`, `faults` | bounds of the model |

How steps were cut:

- **One critical section is one action.** Everything between `m.mu.Lock` and `Unlock` is one step,
  with its store writes. The exception is a section with two writes (`CreateReport`, then
  `UpdateJob`): the phases `recording` and `rescuing` hold the lock, no other locked action is enabled,
  and a crash may come between.
- **What is outside the lock is a step of its own**: the look at the queue, the cancel call, the
  worker, the pause mark's reading, the pruning, the deletion of files, the listing of overdue jobs. The worker
  too: it writes its capture and its report, prunes its own frames and announces the report in steps of their own
  (`WorkerWrites`, `WorkerExits`), and may be killed between any two.
- **Failed writes**: a claim, a report row, the outcome of a run and the record of a rescue may fail
  (`ClaimFails`, `InsertFails`, `FinishUnwritten`, `RescueUnwritten`); the code goes on in a changed
  state in each. A failed write of a request changes nothing and returns an error, so it needs no action.
- **Statuses**: `completed` stands for Succeeded and CompletedWithStageFailures, which the manager
  treats alike. `interrupted` is what older versions recorded and nothing records now; `Legacy` jobs
  start with it.
- **A run that is over** has its local state reset (`Ended`), which only keeps the state space small.

Left out of this module, and why it does not matter to its properties: the hub's events and the
wake-up channel (the loop's wake-up is subsumed by the fairness of `Acquire` and `Pick`, because the code
also looks again on a timer); progress lines; read errors of the store (the loop retries; a
request returns an error); the 24-hour and 30-day bounds (zero in the desktop configuration); deletion
of reports by the API, and of recordings, which is `Recordings`; an analyzer that outlives
a crash of the service, which its own watchdog ends within two seconds. `Recover` writes one row per
job and is taken as one step, since nothing else runs before it returns. The service's shutdown waits a
limited time for its runs (`src/cmd/tracen/main.go`): within it is `Exit`, beyond it is `Crash`.

### `SharedQueue` and the code

| State | Code |
|---|---|
| `record`, `fresh` | the row of the job, which is new or was left interrupted by an older version: its status, the requests `CancelRequested` and `PauseRequested`; whether its heartbeat is younger than `staleAfter` |
| `messages` | the messages of the job: how often each was taken, and whether it is held (hidden); a receipt is the number of the take |
| `scratch` | the job's scratch directory with the recording and what the run has done |
| `section` | per process, the critical section it is in: the record it read and will write back, and whether another process wrote since |
| `work` | per worker: where `Work` and `runOne` stand ("unsaid": a run is over and its outcome could not be recorded), the message and receipt, whether its `watch` runs, its context, the pause mark, whether it keeps the directory, whether it stalls |
| `suspect` | `Follow` listed the job as running with an old heartbeat |
| `sent`, `asked`, `scars`, `spent` | history: message ids, whether a cancel or an expiry was asked for, what has gone wrong, the bounds used up |

A section under `Manager.mu` is two steps, `Enter` (the read) and `Write` (the whole record), since the lock is one
process's and another may write in between: then `Write` is the lost update of the code and leaves the scar
"overwritten". A write may also fail (`WriteFails`, `ClaimFails`), and so may the read of a claim and of a run's end
(`FinishUnread`); the code goes on, and so does the model: a run whose outcome could not be recorded still removes its scratch
directory and its message, and the record goes on saying "running". A worker's `watch` begins when its message is
found to be a job to run, before the claim; one that finds its hold lost before the claim ends without a run to stop, and the run
that then begins has no watch. The one job stands for all: jobs share nothing but the places of a worker, and a worker has one. The
scars name the code's own weak points, so that a property can say exactly which of them it needs; a property without an
exception for a scar holds in spite of it.

### `Recordings` and the code

| State | Code |
|---|---|
| `objects` | `s.cfg.Objects # nil`: whether uploads live in an object store |
| `accounts`, `rows` | the users table; the recordings table, of a row whether it is past the retention and whether it names a kept copy |
| `place` | where the bytes of an id lie: on the disk, under `originals/`, under `kept/` |
| `used`, `signed`, `aged` | ids given out; those with a signed upload URL; those whose object is older than `orphanAge` |
| `jobs` | per job its status, its recording, and whether a worker is at it and has stored a copy |
| `request` | per request, the handler it is in, where it stands, and what it has read |
| `sweep` | where the sweeper stands, and the lists it has read |
| `scars`, `spent` | history: which of the code's own weak points were met; the bounds used up |

Each call to the database or to the object store is one action, because another request, the sweep or a worker may come
between any two; a statement, and the transaction of `DeleteUser`, is atomic. Checks that only look at the request come
with the first action of its handler. A refusal that deletes something is an action of its own. Both modes of the
service are one model: `objects` is chosen in `Init`. A client that goes away (`GoesAway`) cancels the context of
its request, and what the handler still wants of the database or the store fails; files on the disk are removed in any case.
`Crash` takes every request and the sweep at once. Names, sizes, hashes and types of files are left out, so
the quotas of bytes are not told apart from the quota of the count, which is read in the same
statement and refused at the same points. `OriginalLifetime`, which refuses submits of old recordings, is off; a
retention of zero is a recording that never ages. The object store does not fail by itself.

### `AnalysisRun` and the code

| State | Code |
|---|---|
| `content` | what the recording shows: lesson offers, weak states, hint cards |
| `images`, `manifest`, `capture` | the decoded parts, their `frames.json`, and `capture.json` with the layout |
| `neural`, `offer`, `weak`, `currency` | per frame: the reader (OCR fingerprint) of its row and of its three sidecars |
| `prepared`, `recorded`, `bare` | per dense window: its frame caches, and its entry in the index; the windows whose images are gone |
| `cards`, `report` | `hint-card-recovery.json`, and what the report was made from |
| `outcome`, `stage`, `ocr`, `budget`, `losses`, `reader` | the run: where it stands, what it has lost, its frame budget and its reader |
| `scars`, `stops` | history: which kill tore what, and how many |

A file written through a temporary name and a rename appears in one step. The lesson-offer sidecar and the hint-card
cache are created in place, and so are first torn and then whole. Every file is a step, because a kill may come
between any two; `Stop` is that kill (pause, shutdown, crash, and the watchdog of an owner that is gone). `Start`
is the next run, with any budget; `Upgrade` brings another reader between two runs. A finished run deletes images from the
deepest directories up, so those of the windows (`PruneWindow`) before those of the parts (`PruneImages`). A window whose images are
gone is refused, as is one of another reader (`Refused`). The stages come in the order of
`_run` and `main`, with their guards on what is found.

### The readers and the code

A reader is an operator over `rows`, translated function by function; a row has the fields the functions look at and
nothing else. A player (a menu module) makes the recording step by step and keeps `truth`, which no reader sees; a property compares
what the readers say of `rows` with `truth`, in every state, so of every recording within the bounds and of every
prefix of one. Times are sampling steps of 250 ms. The limits of the code (2 to 30 s and more) are constants given
smaller values, so that a recording of a few dozen frames can pass them: in the same order, though some that differ in the
code are equal here. `Elapsed` counts frames, as
`source_clock.py` does, where the code uses it, and plain time elsewhere.

- `SkillPurchases` (`SkillTransactions`): batches of committed receipts, the five ways to a charge, the cart's
  changes, the list of names, chains of batches. Not modelled: spellings of a name, variants of one skill. The code also
  hands it the stable totals of the training screens (`reconcile.py`); this player's screens show none, so `states` is empty here.
- `LessonReceipts` (`LessonPurchases`): a purchase for each receipt that a request dialog asked for, its opening
  balance with its fills, the five ways to a cost, the window of its debit. Not modelled: spellings and partial song titles, the
  stats a receipt awards.
- `TurnBoundary`: the next date, or the next countdown of a phase. `RecoveryActions`: receipts as outcomes, trainings,
  rests (with or without a prompt seen), infirmary visits, outings. `TurnLedger`: calendar groups, misread transitions, the turns and
  the stretches that may hold an unseen turn, the owner of an action. Not modelled: the windows of the finale, which its
  races separate; races as actions; the event ids that join a receipt to its event.

## Properties and runs

| Run | Instance | Checks |
|---|---|---|
| `lifecycle` | 1 job, 2 places, deadline and lifetime on, 2 stops or crashes, 2 pauses, 1 failed write | the inductive invariant `IInv`, which has the types; `DiscardIsSafe`, `ReportIsThere`, `KilledPauseKeepsWork`, `StopsWhenAsked`; refinement of `JobLifecycle` (`KeepsPromise`) |
| `fleet` | 2 jobs of one user, symmetry, 1 failed write, no deadline; either 2 places under a changing load, no bound, no lifetime, no pause and no stop, or 1 place, bound 1, lifetime on, 1 stop, 1 pause | `PlacesAreCounted`, `RunningIsOwned`, `UserIsBounded`, `SettledStays` |
| `progress` | 2 jobs, one an old interruption, 1 place, lifetime on, 1 stop, under `FairSpec` | `QueuedIsTaken`, `RunEnds`, `PausedExpires` |
| `stale_mark` | 1 job, 2 pauses | refutes `MarkIsOfThisRun` |
| `late_pause` | 1 job, 1 pause | refutes `CancelledOnlyIfCancelled` |
| `cancelled_files` | 1 job, 1 pause | refutes `CancelledLeavesNoWork` |
| `lost_report` | 1 job, 1 pause | refutes `ResumeContinues` |
| `shared_queue` | the API process, 2 workers, 1 job, new or left interrupted, 2 requests, 1 fault | `IInv`, with the types; `OneAnalysis`, `DeadIsDead`, `CancelIsAsked`, `QueuedIsReachable`; `RemovalIsSafe`; refinement of `JobLease` (`KeepsLease`); `DeadIsPaused`, `RequestIsMet` |
| `analysis_run` | 2 parts, 3 frames, 3 windows of which 2 fit, 2 budgets, 2 readers, 3 kinds of content, 2 kills | `IInv`, with the types; `ResumeContinues`, `ReportsAlike`, `LossIsNamed`, `InputsOutliveTheRun`; `RunEnds` |
| `recordings` | 2 uploads of one user, bound 1, 1 job, 2 requests at one time, 3 calls, 1 fault, both modes | `QuotaHolds`, `RecordingIsThere`, `InputIsThere`, `NothingIsLeft`; `SweptInTheEnd` |
| `prune_stop` | the same as `analysis_run`, plain content, 1 reader, 1 kill | refutes `StopIsAPause` |
| `readers` | a player at the skill menu, at the lesson menu, or over a career of turns | `ChargeIsTrue`, `ListIsWhole`; `LessonCostIsTrue`, `DebitIsDated`; `ActionIsTrue`, `ActionIsDated`, `ActionIsFound` |

What the newer runs show:

- `shared_queue`: whatever comes between, two workers never analyze the job at one time (`OneAnalysis`), unless a
  worker alive was declared dead or a record was written over another's; a worker is declared dead alive only
  after a stall, a redelivered message or an old listing (`DeadIsDead`); a job is cancelled only if somebody cancelled it
  or it expired, with two exceptions the code has (`CancelIsAsked`: a hold that was lost, a pause seen after the run had
  ended); a queued job has a message that is not about to be deleted, short of an error or a crash
  (`QueuedIsReachable`); scratch data goes only with a settled job or one an older version left interrupted, or with a run whose
  outcome could not be recorded (`RemovalIsSafe`). All in all the processes keep a lease (`KeepsLease`): a job is taken when it is
  queued and nobody is at it, the step that records how a run ended is the step that ends it, unless it cannot be recorded, a run that has
  succeeded had its data, a job is rescued only once nobody is on it, and a settled job stays settled. From the first live worker
  declared dead, record written over, or scratch directory deleted by such an unrecorded run under the next one, nothing more is
  promised. A job whose worker died is paused in the end (`DeadIsPaused`), and a request of a running job ends its run
  (`RequestIsMet`), unless its worker had lost its hold before it claimed the job, so that nothing watches for requests.
- `recordings`: a user passes the bound only with uploads checked at one time, and by fewer than there are requests
  (`QuotaHolds`); a row has its bytes (`RecordingIsThere`) and an analysis that may run has its recording
  (`InputIsThere`), whatever is uploaded, deleted and swept, short of the runs that are named ("raced", "cut", "busy"); bytes without a row are swept or being worked on
  (`NothingIsLeft`); an upload nobody completes and an expired recording nobody analyzes go in the end
  (`SweptInTheEnd`). Each property but the last names the cases in which the code does otherwise, below; each of these was
  taken out of its property once, by hand, and the property was then violated.
- `analysis_run`: an analysis started again fails only over a torn file, an interrupted pruning or another reader
  (`ResumeContinues`); without those, and without a kill among the images of the dense windows, however often it was killed and
  with whatever budgets, its report is that of a straight run (`ReportsAlike`); a report that lacks something says so in
  every case (`LossIsNamed`).
- `readers`: a charge, a list said to be complete, a cost and its window, and an action and its turn are what the player
  did, and when every frame is read no action is lost. Each exception a property makes is a case in which the code is wrong or
  silent, written as a condition on `truth` and explained above the property.

**Bounds.** `MaxStops`, `MaxPauses` and `MaxFaults` are guards of the actions they bound. Nothing
bounds submits (there are as many as job ids), resumes, cancels, changes of the load or expiries. One job with
two pauses and two stops is enough for anything in which one run of a job meets a leftover of the run
before; two jobs with two places are enough for the count of places, since every action touches one
job and the loop is shared; two jobs of one user and a bound of one give every way of passing the
bound. `KeepWorkingData` is off in every run, so that files are pruned; the theorems hold for both values,
and without any of these bounds. `CHECK_DEADLOCK` is off because a system whose
jobs are all settled and whose bounds are used up rightly stops. `fleet` (899,422 states) has its two settings in one run
because they ask one question, of two jobs that share a loop; symmetry is used there only, where no property
is a liveness property and all jobs belong to one user.

`shared_queue` (498,136 states): two requests and one fault are enough for a pause and a resume
with a message of the first run still on the queue, for two workers with a message each, and for each scar on its own.
One fault is also one failed read or write; the scar "robbed" takes two, an unrecorded end and a stall of its worker, and is left to the proofs. Messages, takes of a message and runs are not bounded but by those. The model ends with a record overwritten, and a worker declared dead alive
uses up the budgets, because nothing is promised of most of what follows.

`recordings` (752,682 states): a call is a request of a client, of any kind. Three calls, two of them at one time, are two uploads and a
deletion, an upload, a submit and the deletion of the account, or an upload completed twice; two requests at the quota's check
are enough to pass it. Transfers to a signed URL, the ageing of rows and objects, sweeps and what a job does are not bounded. Beyond the
run and by hand, the four invariants hold with four calls (2,859,827 states), and so do `TypeOK` and `Counted` of the proofs on
the run's own instance.

`analysis_run` (185,230 states): two parts and three frames give a part decoded before another, a frame within and beyond a
budget; the second of three windows does not fit where the third does; two kills allow a resume of a resume, and a kill
in the pruning of a directory that was resumed.

`readers` (373,849 states: 180,126 of skills, 165,089 of lessons, 28,634 of careers). Every screen stays until one frame of it was
read whole; that much is asked of the sampler. Skills: two skills, a recording taken up at the hub, at the menu or after a first purchase, seven
more frames, of which the hub may take three; one missed frame, one training or story, two changes of the cart, three of these in all.
That is enough for two purchases and the hub within `Leave`, and for a cart that is swapped. Lessons: two lessons in two
currencies, six more frames of which one is missed or damaged, four turns of a screen. Careers: five screens, or four with
one frame damaged, at home after an action too. A turn opens with six frames at home (`HomeStay`), so that `RestReach` does not reach from a
turn's prompt to the next turn's receipt, as it does not in the game. That is enough for a turn, its end, and the next turn's action
with a false start in either. Beyond the run and by hand, the same properties hold of careers of six screens (137,951 states). The
three games are one run because they share constants and `Recording`; they do not mix.

**Fairness** (`Fairness`, used by `progress`). Weak fairness of the start of a service that is down
(its supervisor), of its exit once nothing runs, of the loop's steps and each run's steps (the Go
scheduler runs a goroutine that can run, the mutex is handed on, an analysis ends by itself), of a
cancel call and a deletion already begun, and of the expiry (its ticker fires every minute). Nothing is assumed of users,
of the deadline, of failed writes, or of a stop or a crash. `progress` sets `MaxFaults` to zero: a
run whose outcome cannot be written stays recorded as running until the next restart
(`manager.go`, finish), so `RunEnds` is a property of a database that answers.

In `shared_queue`: weak fairness of the API's `Follow` and of each section's write, of an enqueue, of the ageing of a
heartbeat nobody renews, and of a stalled worker's waking; strong fairness of what a worker's goroutines do by themselves (`Go`), because the
lock they need is taken by others again and again, and `sync.Mutex` does not starve a waiter. That a run ends by itself, that a user asks
for anything, that a message is delivered is not assumed. In `recordings`: weak fairness of the sweep, which is one goroutine that looks
every hour and goes through its lists; nothing is assumed of requests, clients and jobs. In `analysis_run`: weak fairness of the run's own
steps; nobody has to start it again. `readers` has no fairness, since it has no liveness property.

## Where the code and its documentation disagree

Each is a run whose counterexample is a behaviour of the code; the quoted sentences are in
`PROJECT.json`.

1. `stale_mark` (`jobs/pause.go:80`): a second `Pause` between a run's reading of its pause mark and
   its `finish` leaves a mark behind. After a `Resume` the next run finds it, and a `Cancel` of that run
   is recorded as a pause.
2. `late_pause` (`jobs/manager.go:708`): a `Pause` that arrives after the mark was read ends the run
   as cancelled; if the analysis had just completed, its result is dropped.
3. `cancelled_files` (`jobs/manager.go:444`): a job that ran, was paused and resumed, and is cancelled
   while queued keeps its working files for good.
4. `lost_report` (`jobs/manager.go:705`): a `Pause` that meets a worker which has just finished, and has pruned its own frames,
   has the run recorded as paused. Its result is dropped, no report row is made, and every resumed run
   ends with "Captured source frames are missing." (`full_recording.py:64`), though the report is on disk.
5. `prune_stop` (`src/analyzer/tracen_replay/full_recording.py:64`): a stop between the first image `prune_frames`
   deletes and the terminal object leaves a directory whose capture is recorded and whose images are gone. Every
   later run of it fails, where `docs/architecture.md` says that a stop is a pause.

Seen while modelling, and not made runs of their own. Where a property has an exception for one of these, the
exception is named.

In the manager: a crash between the report row and the job's record leaves a paused job with a report row and no frames,
whose later runs fail as in 4; the number of queued jobs may pass `QueueLimit` through `Resume`; a stop or a late pause
after the pruning pauses a job without its working files; a crash between a cancellation's record and the deletion
leaves files; an expiry may be judged on a lifetime that has since been switched off; a failed claim leaves
its handle, which `load` counts; and the comment on `MaxActivePerUser` says "queued plus running" where paused
jobs are counted too.

On a shared queue: a request of the API and a claim or finish of a worker overwrite each other's records (scar
"overwritten"); a message delivered again while its worker lives has the job paused under it ("redelivered"), as has a
listing made before a claim ("latelist"); a worker that stops between its look at the record and its claim, or whose
claim is not written, has its message deleted and strands the queued job ("crash", "error"); a pause that is seen after the
run's end, and a hold that was lost, end the job as cancelled with its scratch data removed ("latepause", "lost"). When the outcome of a run cannot be read or written
in `finish`, the scratch directory and the message go all the same (`manager.go:601`, `remote.go:124`): a run that was to be paused loses
its data, the record says "running" until `Follow` pauses it, and if that, a resume and the next claim come first, the directory is
removed under the new run ("robbed"). No sweep knows an interrupted job. A watch that finds its hold lost before the claim ends without
a run to stop, and the run that then begins sees no request.

Of recordings: two uploads checked at one time pass the bound ("overlap"), and the bound on all bytes is not looked at again after
an upload whose length was not announced. An upload completed twice at one time, at the bound: the second is refused and
deletes the object of the row the first has made; an upload completed a day after it came may be swept as an orphan
under its new row; a submit, or a completion, between the look at a recording and its deletion ("raced"). The
deletion of an account reads its analyses and recordings once: a paused job resumed meanwhile goes on
running, and a recording added meanwhile loses its row and keeps its bytes ("busy"); one cut off by a crash or
by its client leaves rows without bytes, one that cut a deletion or an upload leaves bytes that no sweep looks for, on the disk or under
`kept/` ("cut"). A copy for playback is left when its run then ends without a report, or when its recording was read for a
deletion before it was told of the copy ("untold"). The comment above `deleteAccount` (`api/account.go`) says that "nothing is
left that no record names", which is true but for these.

In an analysis directory: the lesson-offer sidecars and the hint-card cache are written in place, and a kill in
the middle makes the next run fail, or lose that stage ("offer", "cards"); another reader between a pause and its resume
fails the run ("reader"); a kill in the pruning, after images of a dense window and before one of the base capture went, lets the next run
go on, lose that window's stage and write the report that was whole again without it ("bare"); two windows with the same frames are prepared in one directory at once;
sidecars of frames beyond a smaller budget are read before they are deleted.

In the readers, each an exception of a property, explained above it:

- Skills: the number of a completion hub within `Leave` of a receipt is taken without a look at what comes between, so
  that a purchase made there and then is charged to the first one too (`transactions.py:506-514`); a skill put back and
  another taken, seen as one change of the price of a third, are entered as that third (`transactions.py:579-589`), and the list is called
  complete; a list found by its price can be called complete with a skill missing when the changes that were read do
  not make up that price (`transactions.py:281`).
- Lessons: a hidden counter filled from a panel before a training, or from the menu's stale first
  frame after a purchase, gives a wrong cost; a currency spent to nothing whose counter was hidden counts as none
  before; a cost whose digits are cut on every frame is wrong when no balance after it is seen.
- Turns: a story event for which the home screen was left is taken for a rest when the turn's action was no training
  or race, or when a calendar of that turn was missed or misread, since `_turn_already_acted` looks for nothing else and no further
  (`rest_actions.py:278-291`); a receipt within `NextReach` of a menu of outings that was left, or that led to an outing whose
  receipt was not taken, is claimed as an outing; an action ends at the very frame whose date was misread as the next
  turn's, and is entered there if nothing contradicts it. Not found are an infirmary visit with lessons before
  the next date, a rest whose prompt was not seen, an outing whose receipt shows no energy or that comes soon after another, and the
  turns before the debut if it comes soon after. An action is entered under no turn when a missed or misread calendar may hide one.

## Proofs

`JobManager_proofs` holds for any finite set of jobs, any users and owners, any limits and any number of stops,
pauses and failed writes. The assumptions are those named in `JobManager` (`JobsAssumption`,
`OwnerAssumption`, `LimitsAssumption`, `SwitchAssumption`, `BoundsAssumption`): they only say what kind of value
each constant is.

The inductive invariant `IInv` is a conjunction of named parts, each kept by a lemma of its own:

| Part | Why it is there |
|---|---|
| `TypeOK` | shapes; the places are a natural number because `PlacesAreCounted` leaves one to give back |
| `PlacesAreCounted` | the count itself: a claim turns the loop's place into a run's, an end turns it into one about to be given back |
| `DownIsEmpty` | a start finds nothing in memory, so a job recorded as running then is nobody's |
| `PickIsJob` | the loop claims a job, not `NoJob` |
| `RunningIsOwned` | a run belongs to a live service, a running record and a handle; a handle found for a running job belongs to its own run |
| `StopIsAsked` | a context that ended without the service or the deadline was asked for in this run; needs `RunningIsOwned` at the moment the handle is taken |
| `DiscardIsSafe` | a job whose files are being deleted is cancelled and idle; needs that no step leaves "cancelled", hence the re-read of the status in the claim and in the expiry |
| `FilesOfRun` | what each phase finds on disk: a completed result has its report, a worker killed at its work leaves its frames or a report |
| `RowIsDue` | between the report row and the record, the job waits where it was |
| `ReportIsThere` | follows each completing step from the two parts above |

`Invariance` is `Spec => []IInv`. From it: `TypeCorrect`, `PlacesCorrect`, `OwnershipCorrect`,
`DiscardCorrect`, `ReportCorrect` as corollaries, and the action properties `SettledCorrect`, `StopsCorrect` and
`PauseKeeps`, which look at one step from a state that satisfies `IInv`.

`Refinement` proves `Spec => KeepsPromise`: with `state <- status`, `rows <- reports` and
`work <- files`, the initial states map to initial states, and under `IInv` every step is a step of
`JobLifecycle` or changes nothing it sees. A claim needs the re-read of the status, a completion needs
`RowIsDue` and `FilesOfRun`, a deletion needs `DiscardIsSafe`, and a start is `PauseAll` of the jobs
left running. `DeliveredCorrect` then says of `JobLifecycle` that a completed job keeps its report.

`ActiveCorrect` says that without `Legacy` jobs no user ever has more active jobs than the bound: only a submit
makes a job count, and it looks at the bound under the same lock (`CountedStep`, `ActiveStep`).
`fleet` checks the bound at the second of its settings (`UserIsBounded`), and `UserBounded` (`MCFleet_proofs`) proves it there: the
setting is an instance of `JobManager_proofs`, whose lemmas are cited with its constants once these satisfy the
assumptions (`Assumed`), and the instance counts as `JobManager` does (`SameBound`). With a job that an older
version recorded as interrupted the bound can be passed, since a resume looks at nothing; so the assumption is needed.

`SharedQueue_proofs` holds for any number of worker processes, takes, requests and faults, from
`ProcessesAssumption`, `BoundsAssumption` and `NoneAssumption`. Its `IInv` has the types and:

| Part | Why it is there |
|---|---|
| `SectionsFit` | what an open section is about to write fits the record it read, which is still the record unless another process wrote in between |
| `WorkersFit`, `WatchesFit` | a worker's section belongs to the place its goroutine is at, and its watch to a claim or a run |
| `JobIsFirst` | nothing is written and nobody works before the job is there |
| `OnItIsRunning` | a worker on the job has a record that says running; a second claim then finds it not queued, which is `OneAnalysis` |
| `DoneIsSettled` | a run that is over and keeps nothing has settled its job; one whose outcome could not be recorded ("unsaid") has not, and keeps nothing even where it was to be paused |
| `CancelsAreAsked` | wherever a cancel waits (in the record, a section, a context) somebody asked, or the code mistook something for it |

From it follow `TypeCorrect`, `OneAnalysisCorrect`, `CancelCorrect`, and of single steps `SettledCorrect` (a settled job
stays settled) and `RemovalCorrect`: a directory goes with a settled or an interrupted job, or with an unsaid run (`Ousts`), short of `Harmed` (a live worker
declared dead, a record written over).

`SharedQueueMessages_proofs` proves two more invariants, each inductive beside `IInv`. `Watched` is `DeadIsDead` with, as long as no
scar excuses a wrong verdict:

| Part | Why it is there |
|---|---|
| `BusyHolds` | a worker at a message holds it, it is hidden, and nobody else is at it: hence a message that comes back has no worker, and the receiver of one is on no job |
| `RunIsFresh` | a worker that is about to claim the job or is on it has its watch, and while it is on the job its heartbeat is fresh: hence `Follow`, which read an old one, has found nobody |
| `DeadFoundNobody` | a verdict not yet written found nobody on the job; a worker that claims it in between makes the verdict late, and its write is then the scar "overwritten" |

`Reached` is `QueuedIsReachable` with `OnlyResumes` (the only sections about to write "queued" are a resume's, which enqueues under the
same lock, and a heartbeat's, which writes what it read) and `TakenIsSent` (a worker's message is one that was sent and was taken no
oftener than the queue says; a worker that has not claimed has a context that is open or is being stopped). The last two are needed for the
worker that turns from looking at a message to deleting it: by then the record does not say queued, or an error was met (`Dooms`). Two
conjuncts of `TakenIsSent`, the bound on takes and that an idle worker has no message, were found missing by the proof. From the
two follow `DeadCorrect` and `ReachableCorrect`. TLC checks both invariants on the instance of `shared_queue`, beyond the run and by hand.

`LeaseKept` in the same module proves `Spec => KeepsLease`. The mapping takes the status of the record for the state of the lease, the workers
on the job (`OnIt`) for its runners, and the scratch directory for what is kept. Most of what the processes do (messages, holds,
heartbeats, requests, the reading half of every section) is not seen through it; what is seen is a step of one kind each:

| Step of `SharedQueue` | Step of `JobLease` |
|---|---|
| a claim is written | `Take` |
| the outcome of a run is written | `End` |
| a rescue of a dead worker's job is written | `Rescue` |
| a request, a refusal or a submit is written | `Submit`, `Pause`, `Resume`, `Cancel`, `Refuse` |
| `Fetch` | `Store` |
| a worker's process ends (`Crash`) | `Die` |
| the outcome of a run cannot be read or written (`FinishUnread`, `WriteFails`) | `Lose` |
| such a run is cleaned up after, its scratch directory with it | `Vanish` |
| a scratch directory is removed | `Discard` |

Beside `IInv` it needs the invariant `Leased`: `SectionsSay` (what a section about to be written may make of the record it read:
a claim makes it running, a finish paused or settled, and so on), and `RunHasData` (a run past its fetch has its scratch directory, also
while its success waits to be written). `Robbed'` excuses a step, and every step after it: once a live worker was declared dead its job
may be taken by another, a record written over another's is in no order with it, and a run whose directory was removed under it has no data. `WriteLeases` and `WorkLeases` are
the two halves of the step, `RunBegins` and `Succeeds` what a take and an end need. TLC checks `Leased` on
the instance of `shared_queue`, by hand as well.

`AnalysisRun_proofs` holds for any parts, frames and windows, any recording, any budgets and readers and any number of
stops, from `FramesAssumption`, `BudgetsAssumption`, `ReadersAssumption` and `NoneAssumption`. Its `IInv` says what each stage
leaves for the ones behind it: `DirectoryFits` (images until the pruning, of the windows too, and the pruning after a report), `SidecarsFit`
(sidecars of what the recording shows, whole and of this reader unless a scar says otherwise), `RunFits` (what a run at a
stage has behind it), `LossHasCause`. From it follow `ResumeCorrect`, `ReportsCorrect`, `LossCorrect` and `InputsCorrect`.

`ContractCorrect` joins the two sides of the worker's pipe. `JobManager` abstracts the analyzer to what it leaves on disk: it says that it is
done only with its report written and its frames gone (`WorkerExits`), and on the way it records its capture, writes its report and then deletes its frames,
never a report (`Grown`). `AnalysisRun` keeps to that (`WorkerContract`): a run
that is done has its report, no image, and with `PruneData` nothing in a directory, and no step takes a report
away; `InputsCorrect` is the rest, that a run killed before its report leaves what a resume needs. The inductive form is `EndFits`, the same said of
the run that is about to be done; TLC checks both on the instance of `analysis_run`, beyond the run and by hand.

`Recordings_proofs` holds for any finite set of ids, any users and jobs, any finite number of requests at one time and any
number of calls and faults, from `UsersAssumption`, `RequestsAssumption` and `QuotaAssumption`. `QuotaHolds` is not inductive: a
request that has passed its check will make a row whatever the table holds by then. `Counted` counts these requests
(`Pending`) with the rows (`Mine`): a check that passes sees fewer rows than the bound, and the requests that have passed theirs
beside it are at most all others, so the sum stays below the bound and the number of requests; and at most the bound if
there was no other ("overlap"). A row made moves one from `Pending` to `Mine`, a deletion takes one away. `Invariance` is
`Spec => [](TypeOK /\ Counted)`, with one lemma for each kind of step; `QuotaCorrect` follows.

`RecordingsKept_proofs` proves the other three invariants of `Recordings`. They hold together or not at all: that a row has its bytes needs to
know what each request and the sweep have read, that an analysis has its recording needs the rows, and that nothing is left behind needs
both. `Keeps` is their conjunction with what makes them inductive, in groups that hold as long as their scars are not there (`Straight`,
`Quiet`, `Told`):

| Part | Why it is there |
|---|---|
| `Known` | whatever a request or the sweep has read is of a recording once uploaded, whose upload is over; an upload works on an id of its own; the deletion of an account has read recordings of that account. It holds always |
| `BytesFit` | while an upload is being completed it has no row and nobody removes it; bytes are removed after the row; an object about to get its row is there, or too old, or its user goes too |
| `Spared` | a recording about to be deleted, by a request, the sweep or with an account, has no analysis that may still run; a worker belongs to a running job |
| `CopiesFit` | a kept copy is one that its job is about to record, or every row and list read that names the recording knows of it; what has been cleared stays empty |

Each conjunct of a part has a lemma of its own (`UploadedBeforeKept` to `LeavesNothingKept`), with one step for each kind of action;
`Keeping` joins them and `Lasting` says that the scars only grow. From `KeptInvariance` follow `RecordingCorrect`, `InputCorrect` and
`LeftCorrect`. The assumptions are those above with `NoneAssumption`. The proof found `SweepTells` too weak: it has to cover
the sweep between the removal of bytes and of the row, or the next recording of its list could have a copy it does not know of. TLC
checks all parts on the instance of `recordings`, beyond the run and by hand.

Types are parts of the inductive invariants the runs check, and of their own only theorems (`TypeCorrect` of each module).

Only model-checked: the liveness properties (`QueuedIsTaken`, `RunEnds`, `PausedExpires`, `DeadIsPaused`, `RequestIsMet`,
`SweptInTheEnd`), since fairness and ENABLED are beyond the prover; the seven properties of the readers (run `readers`), which
are folds and choices over sequences of any length, so that a proof is an induction over data, and which hold of tolerances in a
certain order and a sampling that is dense enough, not of any constants; and the refuted sentences. Every other property of a
passing run is stated by a theorem.

## Plan

In order:

1. `JobEvents`: the hub's bounded buffers and the event stream.
2. `Admission`: the sliding 24-hour and 30-day windows, with submits that run at once.
3. `WorkerContract`: `Interpret`, `Verify` and the forward-only stage as operators, against a
   reference definition; the analyzer's stale-report check and owner watchdog.
4. `LoadPlan` with the desktop's settings, their lock against the manager's, and its shutdown.
5. The sign-in limiter.
6. Readers: the windows of the finale and the audit of coverage in the ledger; races, training gains.
7. One abstract specification for both modes of the service, of which `JobLifecycle` and `JobLease` are two views.

## Not modelled, and why

The analyzer's recognition of pixels, the matching of misread names, and its other readers (races,
training gains, hint cards, choices, fans): most are tables and tolerances tuned to what
recognition gets wrong, whose reference is the image. What a receipt awards, song titles, and how rows
become events. ffmpeg calls and the frame cache, the drivers of object storage and the store's SQL, password hashing, sessions and cookies, the
deletion of reports and of a job's own files, the update checker, the web client and the formatting of reports: sequential, I/O or presentation. A worker that ends when its queue
is idle, and the hub's events. The components in the plan are not modelled yet; `PROJECT.json` gives the
status of each.
