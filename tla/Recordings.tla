----------------------------- MODULE Recordings -----------------------------
(***************************************************************************)
(* The recordings a service keeps (api/uploads.go, api/direct.go,          *)
(* api/account.go, maintenance.go): uploads through the API or straight    *)
(* into an object store, the deletion of a recording and of an account,    *)
(* the hourly sweep, and the analyses that need the recordings.  Every     *)
(* handler is a request that reads and writes one thing at a time; only    *)
(* the statements of the database are atomic.                              *)
(*                                                                         *)
(* A recording has a row in the database, and bytes in up to three         *)
(* places: on the service's disk, in the object store under originals/,    *)
(* and under kept/, the copy for playback an analysis makes.               *)
(***************************************************************************)
EXTENDS Naturals, FiniteSets

CONSTANTS
    Ids,                    \* the random ids of uploads
    Users, Owner,           \* who uploads them
    Jobs,                   \* the ids of analyses
    Requests,               \* requests served at one time
    MaxRecordingsPerUser,   \* Quota.MaxRecordingsPerUser
    MaxCalls,               \* bounds: requests of clients
    MaxFaults,              \* bounds: clients that go away, and crashes
    None

ASSUME UsersAssumption == IsFiniteSet(Ids) /\ Owner \in [Ids -> Users]
ASSUME RequestsAssumption == IsFiniteSet(Requests) /\ Requests # {}
ASSUME QuotaAssumption == MaxRecordingsPerUser \in Nat \ {0} /\ MaxCalls \in Nat /\ MaxFaults \in Nat

VARIABLES
    objects,    \* s.cfg.Objects # nil: uploads live in an object store
    accounts,   \* the users table
    rows,       \* the recordings table
    place,      \* where the bytes of a recording lie
    used,       \* ids given out
    signed,     \* those of them that an upload URL was signed for
    aged,       \* those of them whose object is older than orphanAge
    jobs,       \* the jobs table, and whether a worker is at the job
    request,    \* what each request is doing
    sweep,      \* where the sweeper stands
    scars,      \* history: what has come together
    spent       \* what the bounds count

vars == <<objects, accounts, rows, place, used, signed, aged, jobs, request, sweep, scars, spent>>

Rows == [old : BOOLEAN, kept : BOOLEAN]
ASSUME NoneAssumption == None \notin Rows
Home == IF objects THEN "originals" ELSE "disk"

\* What a request that reads a row takes along of it.
Snapshot(i) == [id |-> i, kept |-> rows[i].kept]
Snapshots == [id : Ids, kept : BOOLEAN]

Idle == [op |-> "none"]
Free(r) == request[r] = Idle
At(r, op, at) == request[r].op = op /\ request[r].at = at
Set(r, new) == request' = [request EXCEPT ![r] = new]
Goes(r, at) == Set(r, [request[r] EXCEPT !.at = at])
Ends(r) == Set(r, Idle)

Uploads == [op : {"upload"}, at : {"copy", "local", "create"}, id : Ids]
Completes == [op : {"complete"}, at : {"stat", "quota", "probe", "drop", "create"}, id : Ids]
Submits == [op : {"submit"}, at : {"create"}, id : Ids]
Deletes == [op : {"delete"}, at : {"look", "row", "bytes"}, id : Ids, kept : BOOLEAN]
Closings == [op : {"account"}, at : {"cancel", "bytes"}, user : Users,
             paused : SUBSET Jobs, listed : SUBSET Snapshots, todo : SUBSET Snapshots]
Serving == {Idle} \cup Uploads \cup Completes \cup Submits \cup Deletes \cup Closings

Expiring == [at : {"pick"}, todo : SUBSET Snapshots]
            \cup [at : {"bytes", "row"}, todo : SUBSET Snapshots, now : Snapshots]
Orphaning == [at : {"names"}, stored : SUBSET Ids] \cup [at : {"orphans"}, todo : SUBSET Ids]

Active == {"queued", "running", "paused"}
InUse(i) == \E j \in Jobs : jobs[j].of = i /\ jobs[j].status \in Active
Mine(u) == {i \in Ids : Owner[i] = u /\ rows[i] # None}
WithinQuota(u) == Cardinality(Mine(u)) < MaxRecordingsPerUser

\* What the history is told: a request that has passed its quota check, a
\* process that has passed its look at whether a recording is in use, and one
\* that has read its row.
Passed(r, u) ==
    /\ request[r].op = "upload" \/ (request[r].op = "complete" /\ request[r].at \in {"probe", "create"})
    /\ Owner[request[r].id] = u
Deleting(i) ==
    \/ \E r \in Requests : request[r].op = "delete" /\ request[r].at # "look" /\ request[r].id = i
    \/ sweep.at \in {"bytes", "row"} /\ sweep.now.id = i
Closing(u) == \E r \in Requests : request[r].op = "account" /\ request[r].user = u
Completing(i) == \E r \in Requests : request[r].op = "complete" /\ request[r].id = i
HasRead(i) ==
    \/ \E r \in Requests : request[r].op = "delete" /\ request[r].id = i
    \/ \E r \in Requests : request[r].op = "account" /\ \E s \in request[r].listed : s.id = i
    \/ sweep.at \in {"pick", "bytes", "row"} /\ \E s \in sweep.todo : s.id = i
Called == spent.calls < MaxCalls /\ spent' = [spent EXCEPT !.calls = @ + 1]
Fault == spent.faults < MaxFaults /\ spent' = [spent EXCEPT !.faults = @ + 1]
Marked(scar, when) == scars' = IF when THEN scars \cup {scar} ELSE scars

Init ==
    /\ objects \in BOOLEAN /\ accounts = Users
    /\ rows = [i \in Ids |-> None] /\ place = [i \in Ids |-> {}]
    /\ used = {} /\ signed = {} /\ aged = {}
    /\ jobs = [j \in Jobs |-> [status |-> "none", of |-> None, worker |-> "no"]]
    /\ request = [r \in Requests |-> Idle]
    /\ sweep = [at |-> "idle"]
    /\ scars = {} /\ spent = [calls |-> 0, faults |-> 0]

---------------------------------------------------------------------------
(* Uploads through the API (uploadRecording).                              *)

\* The quota is read, then a file is opened and the bytes come.
Upload(r, i) ==
    /\ Called /\ Free(r) /\ i \notin used /\ Owner[i] \in accounts /\ WithinQuota(Owner[i])
    /\ Set(r, [op |-> "upload", at |-> "copy", id |-> i])
    /\ used' = used \cup {i} /\ place' = [place EXCEPT ![i] = {"disk"}]
    /\ Marked("overlap", \E q \in Requests : Passed(q, Owner[i]))
    /\ UNCHANGED <<objects, accounts, rows, signed, aged, jobs, sweep>>

\* Cut off, empty, too large, no recording, or not stored: the file goes.
UploadRefused(r) ==
    /\ At(r, "upload", "copy") /\ Ends(r)
    /\ place' = [place EXCEPT ![request[r].id] = @ \ {"disk"}]
    /\ UNCHANGED <<objects, accounts, rows, used, signed, aged, jobs, sweep, scars, spent>>

UploadStored(r) ==
    /\ objects /\ At(r, "upload", "copy") /\ Goes(r, "local")
    /\ place' = [place EXCEPT ![request[r].id] = @ \cup {"originals"}]
    /\ UNCHANGED <<objects, accounts, rows, used, signed, aged, jobs, sweep, scars, spent>>

DropLocal(r) ==
    /\ At(r, "upload", "local") /\ Goes(r, "create")
    /\ place' = [place EXCEPT ![request[r].id] = @ \ {"disk"}]
    /\ UNCHANGED <<objects, accounts, rows, used, signed, aged, jobs, sweep, scars, spent>>

\* The row; the bytes go again when there is no such user any more.
UploadCreate(r) ==
    LET i == request[r].id
    IN  /\ At(r, "upload", "create") \/ (~objects /\ At(r, "upload", "copy"))
        /\ Ends(r)
        /\ \/ /\ Owner[i] \in accounts
              /\ rows' = [rows EXCEPT ![i] = [old |-> FALSE, kept |-> FALSE]]
              /\ Marked("raced", i \in aged)
              /\ UNCHANGED place
           \/ /\ Owner[i] \notin accounts
              /\ place' = [place EXCEPT ![i] = @ \ {Home}]
              /\ UNCHANGED <<rows, scars>>
        /\ UNCHANGED <<objects, accounts, used, signed, aged, jobs, sweep, spent>>

---------------------------------------------------------------------------
(* Uploads straight into the object store (direct.go).                     *)

\* A URL is signed for an id of the service's choosing; nothing is recorded.
BeginUpload(i) ==
    /\ Called /\ objects /\ i \notin used /\ Owner[i] \in accounts /\ WithinQuota(Owner[i])
    /\ used' = used \cup {i} /\ signed' = signed \cup {i}
    /\ UNCHANGED <<objects, accounts, rows, place, aged, jobs, request, sweep, scars>>

\* The client's transfer, and every retry of it while the URL is valid.
Put(i) ==
    /\ i \in signed \ aged
    /\ place' = [place EXCEPT ![i] = @ \cup {"originals"}]
    /\ UNCHANGED <<objects, accounts, rows, used, signed, aged, jobs, request, sweep, scars, spent>>

\* The URL runs out (uploadTTL) before the object is of orphanAge.
ObjectAges(i) ==
    /\ "originals" \in place[i] /\ i \notin aged
    /\ aged' = aged \cup {i}
    /\ UNCHANGED <<objects, accounts, rows, place, used, signed, jobs, request, sweep, scars, spent>>

\* A client, or its retry, reports an upload complete that has no row yet.
CompleteUpload(r, i) ==
    /\ Called /\ Free(r) /\ i \in signed /\ Owner[i] \in accounts /\ rows[i] = None
    /\ Set(r, [op |-> "complete", at |-> "stat", id |-> i])
    /\ Marked("raced", Completing(i) \/ Deleting(i))
    /\ UNCHANGED <<objects, accounts, rows, place, used, signed, aged, jobs, sweep>>

\* Nothing has arrived; or an object, of an acceptable size or not.
CompleteStat(r) ==
    /\ At(r, "complete", "stat")
    /\ \/ "originals" \notin place[request[r].id] /\ Ends(r)
       \/ "originals" \in place[request[r].id] /\ \E to \in {"quota", "drop"} : Goes(r, to)
    /\ UNCHANGED <<objects, accounts, rows, place, used, signed, aged, jobs, sweep, scars, spent>>

\* Mutant: the quota is not read again.
CompleteUncounted(r) ==
    /\ At(r, "complete", "quota") /\ Goes(r, "probe")
    /\ Marked("overlap", \E q \in Requests : Passed(q, Owner[request[r].id]))
    /\ UNCHANGED <<objects, accounts, rows, place, used, signed, aged, jobs, sweep, spent>>

\* The object goes when the quota is passed, in number or in bytes, and when
\* it cannot be read.
CompleteQuota(r) ==
    LET u == Owner[request[r].id]
    IN  /\ At(r, "complete", "quota")
        /\ \/ WithinQuota(u) /\ Goes(r, "probe") /\ Marked("overlap", \E q \in Requests : Passed(q, u))
           \/ Goes(r, "drop") /\ UNCHANGED scars
        /\ UNCHANGED <<objects, accounts, rows, place, used, signed, aged, jobs, sweep, spent>>

\* The object cannot be read back, or is a recording, or is refused.
CompleteProbe(r) ==
    /\ At(r, "complete", "probe")
    /\ \/ "originals" \notin place[request[r].id] /\ Ends(r)
       \/ "originals" \in place[request[r].id] /\ \E to \in {"create", "drop"} : Goes(r, to)
    /\ UNCHANGED <<objects, accounts, rows, place, used, signed, aged, jobs, sweep, scars, spent>>

CompleteDrop(r) ==
    /\ At(r, "complete", "drop") /\ Ends(r)
    /\ place' = [place EXCEPT ![request[r].id] = @ \ {"originals"}]
    /\ UNCHANGED <<objects, accounts, rows, used, signed, aged, jobs, sweep, scars, spent>>

\* A second row of one id, or one of nobody, is refused; the object stays.
CompleteCreate(r) ==
    LET i == request[r].id
    IN  /\ At(r, "complete", "create") /\ Ends(r)
        /\ \/ /\ rows[i] = None /\ Owner[i] \in accounts
              /\ rows' = [rows EXCEPT ![i] = [old |-> FALSE, kept |-> FALSE]]
              /\ Marked("raced", i \in aged)
           \/ (rows[i] # None \/ Owner[i] \notin accounts) /\ UNCHANGED <<rows, scars>>
        /\ UNCHANGED <<objects, accounts, place, used, signed, aged, jobs, sweep, spent>>

---------------------------------------------------------------------------
(* Deletion of a recording and of an account.                              *)

Bytes(s) == {Home} \cup (IF s.kept THEN {"kept"} ELSE {})

Delete(r, i) ==
    /\ Called /\ Free(r) /\ rows[i] # None /\ Owner[i] \in accounts
    /\ Set(r, [op |-> "delete", at |-> "look", id |-> i, kept |-> rows[i].kept])
    /\ UNCHANGED <<objects, accounts, rows, place, used, signed, aged, jobs, sweep, scars>>

\* Mutant: no look at the analyses.
DeleteUnlooked(r) ==
    /\ At(r, "delete", "look") /\ Goes(r, "row")
    /\ UNCHANGED <<objects, accounts, rows, place, used, signed, aged, jobs, sweep, scars, spent>>

DeleteLook(r) ==
    /\ At(r, "delete", "look")
    /\ IF InUse(request[r].id) THEN Ends(r) ELSE Goes(r, "row")
    /\ UNCHANGED <<objects, accounts, rows, place, used, signed, aged, jobs, sweep, scars, spent>>

\* The row goes first, unless it is gone.
DeleteRow(r) ==
    /\ At(r, "delete", "row")
    /\ IF rows[request[r].id] = None THEN Ends(r) ELSE Goes(r, "bytes")
    /\ rows' = [rows EXCEPT ![request[r].id] = None]
    /\ UNCHANGED <<objects, accounts, place, used, signed, aged, jobs, sweep, scars, spent>>

DeleteBytes(r) ==
    /\ At(r, "delete", "bytes") /\ Ends(r)
    /\ place' = [place EXCEPT ![request[r].id] = @ \ Bytes(request[r])]
    /\ UNCHANGED <<objects, accounts, rows, used, signed, aged, jobs, sweep, scars, spent>>

OwnedBy(u) == {j \in Jobs : jobs[j].status # "none" /\ Owner[jobs[j].of] = u}

\* No account goes with an analysis queued or running.
DeleteAccount(r, u) ==
    /\ Called /\ Free(r) /\ u \in accounts /\ \A j \in OwnedBy(u) : jobs[j].status \notin {"queued", "running"}
    /\ Set(r, [op |-> "account", at |-> "cancel", user |-> u, listed |-> {}, todo |-> {},
               paused |-> {j \in OwnedBy(u) : jobs[j].status = "paused"}])
    /\ UNCHANGED <<objects, accounts, rows, place, used, signed, aged, jobs, sweep, scars>>

\* A job listed as paused is cancelled, whatever it is by now; one that a
\* worker has taken in between ends in its own time.
CancelPaused(r) ==
    /\ At(r, "account", "cancel")
    /\ \E j \in request[r].paused :
        /\ Set(r, [request[r] EXCEPT !.paused = @ \ {j}])
        /\ jobs' = IF jobs[j].status \in {"queued", "paused"} THEN [jobs EXCEPT ![j].status = "ended"] ELSE jobs
        /\ Marked("busy", jobs[j].status = "running")
    /\ UNCHANGED <<objects, accounts, rows, place, used, signed, aged, sweep, spent>>

ListRecordings(r) ==
    LET mine == {Snapshot(i) : i \in Mine(request[r].user)}
    IN  /\ At(r, "account", "cancel") /\ request[r].paused = {}
        /\ Set(r, [request[r] EXCEPT !.at = "bytes", !.listed = mine, !.todo = mine])
        /\ UNCHANGED <<objects, accounts, rows, place, used, signed, aged, jobs, sweep, scars, spent>>

AccountBytes(r) ==
    /\ At(r, "account", "bytes")
    /\ \E s \in request[r].todo :
        /\ Set(r, [request[r] EXCEPT !.todo = @ \ {s}])
        /\ place' = [place EXCEPT ![s.id] = @ \ Bytes(s)]
    /\ UNCHANGED <<objects, accounts, rows, used, signed, aged, jobs, sweep, scars, spent>>

\* One transaction takes the user and every record (DeleteUser).
DeleteUser(r) ==
    LET u == request[r].user
    IN  /\ At(r, "account", "bytes") /\ request[r].todo = {} /\ Ends(r)
        /\ accounts' = accounts \ {u}
        /\ rows' = [i \in Ids |-> IF Owner[i] = u THEN None ELSE rows[i]]
        /\ jobs' = [j \in Jobs |-> IF j \in OwnedBy(u) THEN [jobs[j] EXCEPT !.status = "gone"] ELSE jobs[j]]
        /\ Marked("busy", \E i \in Mine(u) : \A s \in request[r].listed : s.id # i)
        /\ UNCHANGED <<objects, place, used, signed, aged, sweep, spent>>

---------------------------------------------------------------------------
(* The sweep (maintenance.go).                                             *)

Sweeps(new) ==
    /\ sweep' = new
    /\ UNCHANGED <<objects, accounts, used, signed, aged, jobs, request, spent>>

SweepList ==
    /\ sweep.at = "idle"
    /\ Sweeps([at |-> "pick", todo |-> {Snapshot(i) : i \in {k \in Ids : rows[k] # None /\ rows[k].old}}])
    /\ UNCHANGED <<rows, place, scars>>

\* The next expired upload, unless an analysis uses it.
SweepPick ==
    /\ sweep.at = "pick"
    /\ \E s \in sweep.todo :
        /\ Sweeps(IF InUse(s.id) THEN [sweep EXCEPT !.todo = @ \ {s}]
               ELSE [at |-> "bytes", todo |-> sweep.todo, now |-> s])
        /\ Marked("raced", ~InUse(s.id) /\ Completing(s.id))
    /\ UNCHANGED <<rows, place>>

\* Mutant: the copy for playback is forgotten.
SweepOriginal ==
    /\ sweep.at = "bytes" /\ Sweeps([sweep EXCEPT !.at = "row"])
    /\ place' = [place EXCEPT ![sweep.now.id] = @ \ {Home}]
    /\ UNCHANGED <<rows, scars>>

SweepBytes ==
    /\ sweep.at = "bytes" /\ Sweeps([sweep EXCEPT !.at = "row"])
    /\ place' = [place EXCEPT ![sweep.now.id] = @ \ Bytes(sweep.now)]
    /\ UNCHANGED <<rows, scars>>

SweepRow ==
    /\ sweep.at = "row" /\ Sweeps([at |-> "pick", todo |-> sweep.todo \ {sweep.now}])
    /\ rows' = [rows EXCEPT ![sweep.now.id] = None]
    /\ UNCHANGED <<place, scars>>

\* Mutant: the age is compared the wrong way round.
ListYoung ==
    /\ sweep.at = "pick" /\ sweep.todo = {}
    /\ Sweeps(IF objects THEN [at |-> "names", stored |-> {i \in Ids : "originals" \in place[i] /\ i \notin aged}]
              ELSE [at |-> "idle"])
    /\ UNCHANGED <<rows, place, scars>>

\* sweepOrphans: first the objects, then the rows that name them.
ListObjects ==
    /\ sweep.at = "pick" /\ sweep.todo = {}
    /\ Sweeps(IF objects THEN [at |-> "names", stored |-> {i \in Ids : "originals" \in place[i] /\ i \in aged}]
              ELSE [at |-> "idle"])
    /\ UNCHANGED <<rows, place, scars>>

\* Mutant: the rows are listed with the cut-off of the retention.
ListOldNames ==
    /\ sweep.at = "names"
    /\ Sweeps([at |-> "orphans", todo |-> {i \in sweep.stored : rows[i] = None \/ ~rows[i].old}])
    /\ UNCHANGED <<rows, place, scars>>

ListNames ==
    /\ sweep.at = "names" /\ Sweeps([at |-> "orphans", todo |-> {i \in sweep.stored : rows[i] = None}])
    /\ UNCHANGED <<rows, place, scars>>

SweepOrphan ==
    /\ sweep.at = "orphans"
    /\ \E i \in sweep.todo :
        /\ Sweeps([sweep EXCEPT !.todo = @ \ {i}])
        /\ place' = [place EXCEPT ![i] = @ \ {"originals"}]
    /\ UNCHANGED <<rows, scars>>

SweepEnds ==
    /\ sweep.at = "orphans" /\ sweep.todo = {} /\ Sweeps([at |-> "idle"])
    /\ UNCHANGED <<rows, place, scars>>

Sweep == SweepList \/ SweepPick \/ SweepBytes \/ SweepRow \/ ListObjects \/ ListNames \/ SweepOrphan \/ SweepEnds

RowAges(i) ==
    /\ rows[i] # None /\ ~rows[i].old /\ rows' = [rows EXCEPT ![i].old = TRUE]
    /\ UNCHANGED <<objects, accounts, place, used, signed, aged, jobs, request, sweep, scars, spent>>

---------------------------------------------------------------------------
(* Analyses, as far as recordings see of them (jobs/manager.go, remote.go). *)

\* Submit finds the recording, and creates the job later.
Submit(r, i) ==
    /\ Called /\ Free(r) /\ rows[i] # None /\ Owner[i] \in accounts
    /\ Set(r, [op |-> "submit", at |-> "create", id |-> i])
    /\ UNCHANGED <<objects, accounts, rows, place, used, signed, aged, jobs, sweep, scars>>

CreateJob(r, j) ==
    /\ At(r, "submit", "create") /\ jobs[j].status = "none" /\ Ends(r)
    /\ jobs' = [jobs EXCEPT ![j] = [status |-> "queued", of |-> request[r].id, worker |-> "no"]]
    /\ Marked("raced", rows[request[r].id] = None \/ Deleting(request[r].id) \/ Closing(Owner[request[r].id]))
    /\ UNCHANGED <<objects, accounts, rows, place, used, signed, aged, sweep, spent>>

\* Or refuses: the queue or a limit is reached.
SubmitRefused(r) ==
    /\ At(r, "submit", "create") /\ Ends(r)
    /\ UNCHANGED <<objects, accounts, rows, place, used, signed, aged, jobs, sweep, scars, spent>>

\* A waiting job is paused, resumed, cancelled or taken by a worker.
Waits(j, from, to) ==
    /\ jobs[j].status = from /\ jobs' = [jobs EXCEPT ![j].status = to]
    /\ UNCHANGED <<objects, accounts, rows, place, used, signed, aged, request, sweep, scars, spent>>
Take(j) ==
    /\ jobs[j].status = "queued" /\ jobs' = [jobs EXCEPT ![j].status = "running", ![j].worker = "on"]
    /\ UNCHANGED <<objects, accounts, rows, place, used, signed, aged, request, sweep, scars, spent>>

\* An analysis is complete, and its worker stores a copy for playback.
KeepCopy(j) ==
    /\ objects /\ jobs[j].worker = "on" /\ jobs' = [jobs EXCEPT ![j].worker = "copied"]
    /\ place' = [place EXCEPT ![jobs[j].of] = @ \cup {"kept"}]
    /\ UNCHANGED <<objects, accounts, rows, used, signed, aged, request, sweep, scars, spent>>

\* Its report is recorded, and the recording told of the copy (learned).
Succeed(j) ==
    LET i == jobs[j].of
        tell == jobs[j].worker = "copied" /\ rows[i] # None
    IN  /\ jobs[j].worker # "no" /\ jobs[j].status = "running"
        /\ jobs' = [jobs EXCEPT ![j].status = "ended", ![j].worker = "no"]
        /\ rows' = IF tell THEN [rows EXCEPT ![i].kept = TRUE] ELSE rows
        /\ Marked("untold", tell /\ HasRead(i))
        /\ UNCHANGED <<objects, accounts, place, used, signed, aged, request, sweep, spent>>

\* It ends otherwise, or is paused; of a job that is gone nothing is recorded.
Stop(j) ==
    /\ jobs[j].worker # "no"
    /\ \E to \in IF jobs[j].status = "running" THEN {"ended", "paused"} ELSE {jobs[j].status} :
        jobs' = [jobs EXCEPT ![j].status = to, ![j].worker = "no"]
    /\ Marked("untold", jobs[j].worker = "copied")
    /\ UNCHANGED <<objects, accounts, rows, place, used, signed, aged, request, sweep, spent>>

---------------------------------------------------------------------------
(* Faults.                                                                 *)

\* A client goes away: what its request still wants of the database or of the
\* object store fails.  Files on the disk are removed in any case.
GoesAway(r) ==
    /\ ~Free(r) /\ Fault /\ Ends(r)
    /\ request[r].op = "upload" => request[r].at = "create"
    /\ request[r].at = "bytes" => objects \/ (request[r].op = "account" /\ request[r].todo = {})
    /\ Marked("cut", request[r].at = "bytes")
    /\ UNCHANGED <<objects, accounts, rows, place, used, signed, aged, jobs, sweep>>

Crash ==
    /\ Fault
    /\ request' = [r \in Requests |-> Idle] /\ sweep' = [at |-> "idle"]
    /\ Marked("cut", sweep.at # "idle" \/ \E r \in Requests : ~Free(r))
    /\ UNCHANGED <<objects, accounts, rows, place, used, signed, aged, jobs>>

---------------------------------------------------------------------------
Serve(r) ==
    \/ UploadRefused(r) \/ UploadStored(r) \/ DropLocal(r) \/ UploadCreate(r)
    \/ CompleteStat(r) \/ CompleteQuota(r) \/ CompleteProbe(r) \/ CompleteDrop(r) \/ CompleteCreate(r)
    \/ DeleteLook(r) \/ DeleteRow(r) \/ DeleteBytes(r)
    \/ CancelPaused(r) \/ ListRecordings(r) \/ AccountBytes(r) \/ DeleteUser(r)
    \/ SubmitRefused(r) \/ \E j \in Jobs : CreateJob(r, j)
    \/ \E u \in Users : DeleteAccount(r, u)
    \/ \E i \in Ids : Upload(r, i) \/ CompleteUpload(r, i) \/ Delete(r, i) \/ Submit(r, i)
Job(j) ==
    \/ Waits(j, "queued", "paused") \/ Waits(j, "paused", "queued")
    \/ Waits(j, "queued", "ended") \/ Waits(j, "paused", "ended")
    \/ Take(j) \/ KeepCopy(j) \/ Succeed(j) \/ Stop(j)
Next ==
    \/ \E r \in Requests : Serve(r) \/ GoesAway(r)
    \/ \E i \in Ids : BeginUpload(i) \/ Put(i) \/ ObjectAges(i) \/ RowAges(i)
    \/ \E j \in Jobs : Job(j)
    \/ Sweep \/ Crash

\* The sweeper's goroutine goes on, and sweeps every hour.
Spec == Init /\ [][Next]_vars /\ WF_vars(Sweep)

---------------------------------------------------------------------------
(* Properties.                                                             *)

TypeOK ==
    /\ objects \in BOOLEAN /\ accounts \subseteq Users
    /\ rows \in [Ids -> Rows \cup {None}]
    /\ place \in [Ids -> SUBSET {"disk", "originals", "kept"}]
    /\ used \subseteq Ids /\ signed \subseteq used /\ aged \subseteq Ids
    /\ jobs \in [Jobs -> [status : Active \cup {"none", "ended", "gone"}, of : Ids \cup {None}, worker : {"no", "on", "copied"}]]
    /\ request \in [Requests -> Serving]
    /\ sweep \in {[at |-> "idle"]} \cup Expiring \cup Orphaning
    /\ scars \subseteq {"overlap", "raced", "busy", "untold", "cut"}
    /\ spent \in [calls : 0..MaxCalls, faults : 0..MaxFaults]

\* A user passes the bound on recordings only with uploads that were checked
\* at one time, and by no more than those requests.
QuotaHolds ==
    \A u \in Users :
        /\ Cardinality(Mine(u)) < MaxRecordingsPerUser + Cardinality(Requests)
        /\ "overlap" \notin scars => Cardinality(Mine(u)) <= MaxRecordingsPerUser

\* The inductive form: an upload that has passed its check counts as well.
Pending(u) == {r \in Requests : Passed(r, u)}
Kept(u) == Cardinality(Mine(u)) + Cardinality(Pending(u))
Counted ==
    \A u \in Users :
        /\ Kept(u) < MaxRecordingsPerUser + Cardinality(Requests)
        /\ "overlap" \notin scars => Kept(u) <= MaxRecordingsPerUser

\* The runs something is promised of, by what they have not met so far.
Straight == scars \cap {"raced", "cut"} = {}
Quiet == Straight /\ "busy" \notin scars
Told == Quiet /\ "untold" \notin scars

RowGoesToo(i) ==
    \/ sweep.at = "row" /\ sweep.now.id = i
    \/ \E r \in Requests : At(r, "account", "bytes") /\ \E s \in request[r].listed \ request[r].todo : s.id = i
RowsHaveBytes == \A i \in Ids : rows[i] # None => Home \in place[i] \/ RowGoesToo(i)

\* A recording that has a row has its bytes, unless the row is about to go:
\* whatever was deleted, swept, uploaded or completed at one time.  Except
\* that an upload was completed twice at one time, or a day after it came, or
\* while the same id was deleted, and that a deletion was cut off.
RecordingIsThere == Straight => RowsHaveBytes

JobsHaveInput == \A i \in Ids : InUse(i) => rows[i] # None /\ Home \in place[i]

\* An analysis that may still run has its recording: no deletion and no sweep
\* takes one in use.  Except in these runs (Quiet).  Raced: the job was created
\* while its recording or the account was being deleted, or an upload was
\* completed twice at one time, while its row was going, or a day after it
\* came, so that its row names an object already swept.  Cut: a crash or a
\* client that left came between the bytes and the row of a sweep or of the
\* deletion of an account, and what is submitted for that row later has no
\* input.  Busy: a paused job was resumed and taken, or a recording added,
\* while its account was deleted.
InputIsThere == Quiet => JobsHaveInput

InHand(i) == \E r \in Requests : (request[r].op = "upload" \/ At(r, "delete", "bytes")) /\ request[r].id = i
Emptied(i) == place[i] \subseteq {"originals"}
LeavesNothing == \A i \in Ids : rows[i] = None /\ ~InHand(i) => Emptied(i)

\* Nothing is left behind that no row names and no sweep finds, a file or a
\* copy for playback.  Except that a deletion or an upload was cut off, that a
\* recording or a job came while its account was deleted, and that a copy was
\* never told of or told of after its recording was read for the deletion.
NothingIsLeft == Told => LeavesNothing

\* The inductive form of the other three.  Who may meet whom: an id has a row
\* or a reader only after its upload, uploads and completions have ids of
\* their own, and a request or the sweep works on what it has listed.
Uploading(i) == \E r \in Requests : request[r].op = "upload" /\ request[r].id = i
Alone(op) ==
    \A r, q \in Requests : request[r].op = op /\ request[q].op = op /\ request[q].id = request[r].id => q = r
UploadedBefore == \A i \in Ids : rows[i] # None \/ HasRead(i) => i \in used /\ ~Uploading(i)
UploadsOwn ==
    \A r \in Requests : request[r].op = "upload" =>
        request[r].id \in used \ signed /\ (request[r].at # "copy" => objects)
CompletesOwn ==
    /\ signed # {} => objects
    /\ \A r \in Requests : request[r].op = "complete" => request[r].id \in signed
AccountsOwn ==
    \A r \in Requests : request[r].op = "account" =>
        request[r].todo \subseteq request[r].listed /\ \A s \in request[r].listed : Owner[s.id] = request[r].user
SweepOwn ==
    /\ sweep.at \in {"bytes", "row"} => sweep.now \in sweep.todo
    /\ sweep.at = "names" => sweep.stored \subseteq aged
    /\ sweep.at = "orphans" => sweep.todo \subseteq aged
Known == UploadedBefore /\ UploadsOwn /\ Alone("upload") /\ CompletesOwn /\ AccountsOwn /\ SweepOwn

\* What a row still to be made will find, and what a deletion has left.
Expired(i) == sweep.at \in {"bytes", "row"} /\ sweep.now.id = i
Leaving(i) == \E r \in Requests : At(r, "delete", "bytes") /\ request[r].id = i
CompletesApart == \A i \in Ids : Completing(i) => rows[i] = None /\ ~Expired(i) /\ ~Leaving(i)
RowsGoFirst == \A i \in Ids : Leaving(i) => rows[i] = None
CompletesFit ==
    \A r \in Requests : At(r, "complete", "create") =>
        LET i == request[r].id
        IN  "originals" \in place[i] \/ i \in aged \/ Owner[i] \notin accounts \/ RowGoesToo(i)
UploadsFit ==
    \A r \in Requests : request[r].op = "upload" =>
        LET i == request[r].id
        IN  IF request[r].at = "copy" THEN "disk" \in place[i] ELSE "originals" \in place[i] \/ i \in aged
OrphansFit == sweep.at = "orphans" => \A i \in sweep.todo : rows[i] = None
BytesFit ==
    Straight => CompletesApart /\ RowsGoFirst /\ Alone("complete") /\ CompletesFit /\ UploadsFit /\ OrphansFit

\* Whoever is about to take a recording has found no analysis of it, and none
\* has come since.
DeletesSpare == \A r \in Requests : request[r].op = "delete" /\ request[r].at # "look" => ~InUse(request[r].id)
SweepSpares == \A i \in Ids : Expired(i) => ~InUse(i)
AccountsSpare ==
    \A r \in Requests : request[r].op = "account" =>
        \A j \in OwnedBy(request[r].user) :
            jobs[j].status \in Active => request[r].at = "cancel" /\ j \in request[r].paused
WorkersRun == \A j \in Jobs : jobs[j].worker # "no" => jobs[j].status = "running"
Spared == Quiet => DeletesSpare /\ SweepSpares /\ AccountsSpare /\ WorkersRun

\* Whoever will delete a recording knows of its copy, or an analysis that has
\* just stored it will tell; and what was deleted has not come back.
Copied(i) == \E j \in Jobs : jobs[j].of = i /\ jobs[j].worker = "copied"
FilesFit ==
    \A i \in Ids : objects /\ "disk" \in place[i] =>
        \E r \in Requests : request[r].op = "upload" /\ request[r].at # "create" /\ request[r].id = i
UploadsPlain == \A i \in Ids : Uploading(i) => "kept" \notin place[i]
RowTells(i) == rows[i] # None => rows[i].kept
DeletesTell(i) == \A r \in Requests : request[r].op = "delete" /\ request[r].id = i => request[r].kept
AccountsTell(i) ==
    \A r \in Requests : request[r].op = "account" => \A s \in request[r].todo : s.id = i => s.kept
SweepTells(i) == sweep.at \in {"pick", "bytes", "row"} => \A s \in sweep.todo : s.id = i => s.kept
CopiesTold ==
    \A i \in Ids : "kept" \in place[i] =>
        Copied(i) \/ (RowTells(i) /\ DeletesTell(i) /\ AccountsTell(i) /\ SweepTells(i))
AccountsEmpty ==
    \A r \in Requests : At(r, "account", "bytes") => \A s \in request[r].listed \ request[r].todo : Emptied(s.id)
SweepEmpties == sweep.at = "row" => Emptied(sweep.now.id)
CopiesFit == Told => FilesFit /\ UploadsPlain /\ CopiesTold /\ AccountsEmpty /\ SweepEmpties

\* An upload that nobody completed goes, and so does an expired recording
\* that no analysis uses: neither is there for ever, and nor is what the one
\* becomes when its row or its bytes go first.
Unwanted(i) ==
    \/ rows[i] = None /\ "originals" \in place[i] /\ i \in aged
    \/ rows[i] # None /\ rows[i].old /\ ~InUse(i)
SweptInTheEnd == \A i \in Ids : Unwanted(i) ~> ~Unwanted(i)
=============================================================================
