---------------------------- MODULE SharedQueue ----------------------------
(***************************************************************************)
(* The shared-queue mode (remote.go, with the remote branches of           *)
(* manager.go and pause.go, and queue/): one API process and worker        *)
(* processes over one database, one message queue and one scratch space.   *)
(* One job: jobs share only the places a worker has, and here every worker *)
(* has one (Parallel = 1).                                                 *)
(*                                                                         *)
(* Manager.mu is the lock of one process.  Each section under it reads the *)
(* whole record and writes it back whole (UpdateJob rewrites every         *)
(* column): two steps here, so that another process may write in between.  *)
(* A failed read, write or enqueue, a crash, a stop and a stall may come   *)
(* where the code can meet them and go on.  Reports, admission and the     *)
(* local mode are JobManager's.                                            *)
(***************************************************************************)
EXTENDS Integers, FiniteSets

CONSTANTS
    Workers,
    Api,            \* the API process
    None,
    MaxTakes,       \* maxTakes: how often a message may come back
    \* bounds of the model
    MaxRequests,    \* cancels, pauses and resumes
    MaxFaults       \* processes killed or stopped, stalls, and database errors

ASSUME ProcessesAssumption == Api \notin Workers /\ None \notin Workers \cup {Api}
ASSUME BoundsAssumption == {MaxTakes, MaxRequests, MaxFaults} \subseteq Nat

VARIABLES
    record,     \* [status, cancel, pause]: the row of the job, with its requests
    fresh,      \* its heartbeat is younger than staleAfter
    messages,   \* messages of the job on the queue: id -> [takes, hidden]
    scratch,    \* the job's scratch directory holds the recording and the run
    section,    \* per process: the record it read and is about to write
    work,       \* per worker process
    suspect,    \* Follow's listing showed the job running with a stale heartbeat
    \* history and bounds
    sent, asked, scars, spent

vars == <<record, fresh, messages, scratch, section, work, suspect, sent, asked, scars, spent>>

Processes == Workers \cup {Api}
Settled == {"cancelled", "failed", "succeeded"}
\* "interrupted" is left from an older version: no job becomes it any more.
Statuses == {"none", "interrupted", "queued", "running", "paused"} \cup Settled
Limit == [request |-> MaxRequests, fault |-> MaxFaults]

Records == [status : Statuses, cancel : BOOLEAN, pause : BOOLEAN]
Sections == [op : {"enqueue", "unqueue", "write", "discard", "resume", "dead", "refuse", "claim", "beat", "finish"},
             new : Records, late : BOOLEAN]
Works == [at : {"off", "idle", "took", "drop", "claim", "fetch", "run", "end", "done", "unsaid"}, id : Nat, takes : Nat,
          watch : BOOLEAN, handle : BOOLEAN, ctx : {"open", "cancelled", "quit"}, mark : BOOLEAN,
          pausing : BOOLEAN, keep : BOOLEAN, stalled : BOOLEAN]
Scars == {"overwritten", "misjudged", "stalled", "redelivered", "latelist", "latepause", "lost", "robbed", "error", "crash"}
ASSUME NoneAssumption == None \notin Sections
Off == [at |-> "off", id |-> 0, takes |-> 0, watch |-> FALSE, handle |-> FALSE, ctx |-> "open", mark |-> FALSE,
        pausing |-> FALSE, keep |-> FALSE, stalled |-> FALSE]

\* A worker has the job's run: its cancel function is there.
OnIt(w) == work[w].at \in {"fetch", "run", "end"}
\* Its run is over; its outcome is recorded, or could not be.
Over(w) == work[w].at \in {"done", "unsaid"}
\* It can act: it is there and not stalled.
Acts(w) == work[w].at # "off" /\ ~work[w].stalled
\* Its watch goes from before the claim until the run has cleaned up.
Watching(w) == Acts(w) /\ work[w].watch
Free(p) == section[p] = None
\* It holds a message: nobody has taken it since.
Holds(w) == work[w].id \in DOMAIN messages /\ messages[work[w].id].takes = work[w].takes

Spend(kind) ==
    /\ spent[kind] < Limit[kind]
    /\ spent' = [spent EXCEPT ![kind] = @ + 1]
Set(w, new) == work' = [work EXCEPT ![w] = new]
\* The process reads the record and will write it back changed; what others
\* write in between it does not see, and undoes.
Enter(p, op, new) == section' = [section EXCEPT ![p] = [op |-> op, new |-> new, late |-> FALSE]]
Leave(p, next) == section' = [q \in Processes |->
    IF q = p THEN next
    ELSE IF section[q] # None /\ section[p].new # record THEN [section[q] EXCEPT !.late = TRUE] ELSE section[q]]
\* Mutant: every message of a job has its id.
AddSame == /\ UNCHANGED sent
           /\ messages' = [i \in DOMAIN messages \cup {sent + 1} |-> [takes |-> 0, hidden |-> FALSE]]

Add == /\ sent' = sent + 1
       /\ messages' = [i \in DOMAIN messages \cup {sent + 1} |->
                          IF i = sent + 1 THEN [takes |-> 0, hidden |-> FALSE] ELSE messages[i]]
Remove(w) == messages' = IF Holds(w) THEN [i \in DOMAIN messages \ {work[w].id} |-> messages[i]] ELSE messages
\* markPaused
Paused(r) == [r EXCEPT !.status = "paused", !.pause = FALSE]

TypeOK ==
    /\ record \in Records /\ fresh \in BOOLEAN /\ scratch \in BOOLEAN /\ suspect \in BOOLEAN /\ asked \in BOOLEAN
    /\ sent \in Nat /\ DOMAIN messages \subseteq 1..sent
    /\ messages \in [DOMAIN messages -> [takes : Nat, hidden : BOOLEAN]]
    /\ section \in [Processes -> Sections \cup {None}]
    /\ work \in [Workers -> Works]
    /\ scars \subseteq Scars
    /\ spent \in [DOMAIN Limit -> Nat] /\ \A f \in DOMAIN Limit : spent[f] <= Limit[f]

---------------------------------------------------------------------------
(* The API process.                                                        *)

\* No job yet, or one that an older version left interrupted with its scratch.
Init ==
    /\ \E status \in {"none", "interrupted"} :
        /\ record = [status |-> status, cancel |-> FALSE, pause |-> FALSE]
        /\ scratch = (status = "interrupted")
    /\ fresh = FALSE /\ messages = <<>> /\ suspect = FALSE
    /\ section = [p \in Processes |-> None]
    /\ work = [w \in Workers |-> Off]
    /\ sent = 0 /\ asked = FALSE /\ scars = {} /\ spent = [f \in DOMAIN Limit |-> 0]

\* Submit: the record is inserted, and its message enqueued under the same lock.
Submit ==
    /\ Free(Api) /\ record.status = "none"
    /\ record' = [record EXCEPT !.status = "queued"]
    /\ Enter(Api, "enqueue", [record EXCEPT !.status = "failed"])
    /\ UNCHANGED <<fresh, messages, scratch, work, suspect, sent, asked, scars, spent>>

\* A queued or paused job is given up at once, a running one by its worker.
Cancel ==
    /\ Free(Api) /\ Spend("request")
    /\ \/ record.status = "queued" /\ Enter(Api, "write", [record EXCEPT !.status = "cancelled"])
       \/ record.status \in {"paused", "interrupted"} /\ Enter(Api, "discard", [record EXCEPT !.status = "cancelled"])
       \/ record.status = "running" /\ Enter(Api, "write", [record EXCEPT !.cancel = TRUE])
    /\ asked' = TRUE
    /\ UNCHANGED <<record, fresh, messages, scratch, work, suspect, sent, scars>>

Pause ==
    /\ Free(Api) /\ Spend("request")
    /\ \/ record.status = "queued" /\ Enter(Api, "write", [record EXCEPT !.status = "paused"])
       \/ record.status = "running" /\ Enter(Api, "write", [record EXCEPT !.pause = TRUE])
    /\ UNCHANGED <<record, fresh, messages, scratch, work, suspect, sent, asked, scars>>

\* Mutant: a resumed job is not put on the queue again.
ResumeUnsent ==
    /\ Free(Api) /\ record.status \in {"paused", "interrupted"} /\ Spend("request")
    /\ Enter(Api, "write", [status |-> "queued", cancel |-> FALSE, pause |-> FALSE])
    /\ UNCHANGED <<record, fresh, messages, scratch, work, suspect, sent, asked, scars>>

Resume ==
    /\ Free(Api) /\ record.status \in {"paused", "interrupted"} /\ Spend("request")
    /\ Enter(Api, "resume", [status |-> "queued", cancel |-> FALSE, pause |-> FALSE])
    /\ UNCHANGED <<record, fresh, messages, scratch, work, suspect, sent, asked, scars>>

\* ExpirePaused: a job paused past its lifetime.
Expire ==
    /\ Free(Api) /\ record.status = "paused" /\ Spend("request")
    /\ Enter(Api, "discard", [record EXCEPT !.status = "cancelled"])
    /\ asked' = TRUE
    /\ UNCHANGED <<record, fresh, messages, scratch, work, suspect, sent, scars>>

\* Mutant: the age of the heartbeat is compared the wrong way.
ListFresh ==
    /\ record.status = "running" /\ fresh
    /\ suspect' = TRUE
    /\ UNCHANGED <<record, fresh, messages, scratch, section, work, sent, asked, scars, spent>>

\* Follow: the listing, without the lock; then the record again, with it.
List ==
    /\ record.status = "running" /\ ~fresh
    /\ suspect' = TRUE
    /\ UNCHANGED <<record, fresh, messages, scratch, section, work, sent, asked, scars, spent>>

\* Mutant: a listed job is paused whatever its record says by now.
JudgeListed ==
    /\ suspect /\ Free(Api)
    /\ suspect' = FALSE
    /\ Enter(Api, "dead", Paused(record))
    /\ scars' = IF fresh THEN scars \cup {"latelist"} ELSE scars
    /\ UNCHANGED <<record, fresh, messages, scratch, work, sent, asked, spent>>

Judge ==
    /\ suspect /\ Free(Api)
    /\ suspect' = FALSE
    /\ IF record.status = "running" THEN Enter(Api, "dead", Paused(record)) ELSE UNCHANGED section
    /\ scars' = IF fresh THEN scars \cup {"latelist"} ELSE scars
    /\ UNCHANGED <<record, fresh, messages, scratch, work, sent, asked, spent>>

\* A section that gave up a job queues its clean-up after the lock; one that
\* resumed it enqueues it under the lock.  Enqueue may fail.
Enqueue ==
    /\ ~Free(Api) /\ section[Api].op = "enqueue"
    /\ \/ Add /\ section' = [section EXCEPT ![Api] = None]
       \/ section' = [section EXCEPT ![Api].op = "unqueue"] /\ UNCHANGED <<messages, sent>>
    /\ UNCHANGED <<record, fresh, scratch, work, suspect, asked, scars, spent>>

---------------------------------------------------------------------------
(* A worker's message.                                                     *)

\* What the scratch directory of a job is deleted for that "will not run again".
Unneeded == record.status \notin {"queued", "running", "paused"}

\* Work begins: the sweep of scratch directories.
Begin(w) ==
    /\ work[w].at = "off"
    /\ Set(w, [Off EXCEPT !.at = "idle"])
    /\ scratch' = (scratch /\ ~Unneeded)
    /\ UNCHANGED <<record, fresh, messages, section, suspect, sent, asked, scars, spent>>

Receive(w) ==
    /\ Acts(w) /\ work[w].at = "idle" /\ work[w].ctx = "open"
    /\ \E i \in DOMAIN messages :
         /\ ~messages[i].hidden
         /\ messages' = [messages EXCEPT ![i] = [takes |-> @.takes + 1, hidden |-> TRUE]]
         /\ Set(w, [work[w] EXCEPT !.at = "took", !.id = i, !.takes = messages[i].takes + 1])
    /\ UNCHANGED <<record, fresh, scratch, section, suspect, sent, asked, scars, spent>>

\* Mutant: the first message found of a running job is taken for one that came back.
LeftRunningAtAll(w) == record.status = "running"
\* A running job's message that came back: its worker died.
LeftRunning(w) == record.status = "running" /\ work[w].takes > 1

\* takeable: is the message a job to run now?  If so, its watch begins.
Takeable(w) ==
    /\ Acts(w) /\ work[w].at = "took" /\ Free(w)
    /\ \/ /\ LeftRunning(w)
          /\ Enter(w, "dead", Paused(record))
          /\ scars' = IF work[w].takes > 1 /\ DOMAIN messages # {work[w].id} THEN scars \cup {"redelivered"} ELSE scars
          /\ UNCHANGED <<work, spent>>
       \/ /\ record.status # "queued" /\ ~LeftRunning(w)
          /\ Set(w, [work[w] EXCEPT !.at = "drop"]) /\ UNCHANGED <<section, scars, spent>>
       \/ /\ record.status = "queued" /\ work[w].takes > MaxTakes
          /\ Enter(w, "refuse", [record EXCEPT !.status = "failed"]) /\ UNCHANGED <<work, scars, spent>>
       \/ /\ record.status = "queued" /\ work[w].takes <= MaxTakes
          /\ Set(w, [work[w] EXCEPT !.at = "claim", !.watch = TRUE]) /\ UNCHANGED <<section, scars, spent>>
       \/ /\ Spend("fault") /\ scars' = scars \cup {"error"}      \* the record cannot be read
          /\ Set(w, [work[w] EXCEPT !.at = "drop"]) /\ UNCHANGED section
    /\ UNCHANGED <<record, fresh, messages, scratch, suspect, sent, asked>>

\* The message is not run: it goes, and dropSettled the scratch of a settled job.
Drop(w) ==
    /\ Acts(w) /\ work[w].at = "drop" /\ Free(w)
    /\ Remove(w)
    /\ scratch' = (scratch /\ ~Unneeded)
    /\ Set(w, [work[w] EXCEPT !.at = "idle", !.id = 0, !.takes = 0])
    /\ UNCHANGED <<record, fresh, section, suspect, sent, asked, scars, spent>>

---------------------------------------------------------------------------
(* A worker's run.                                                         *)

\* Mutant: the record is not looked at again.
ClaimAny(w) ==
    /\ Acts(w) /\ work[w].at = "claim" /\ Free(w)
    /\ Enter(w, "claim", [record EXCEPT !.status = "running"])
    /\ UNCHANGED <<record, fresh, messages, scratch, work, suspect, sent, asked, scars, spent>>

\* runOne takes the job, if it can read the record and it still says queued.
Claim(w) ==
    /\ Acts(w) /\ work[w].at = "claim" /\ Free(w)
    /\ IF record.status = "queued" /\ work[w].ctx = "open"
       THEN Enter(w, "claim", [record EXCEPT !.status = "running"]) /\ UNCHANGED <<work, scars>>
       ELSE /\ Set(w, [work[w] EXCEPT !.at = "done", !.keep = TRUE])
            /\ scars' = IF work[w].ctx = "quit" THEN scars \cup {"error"} ELSE scars
            /\ UNCHANGED section
    /\ UNCHANGED <<record, fresh, messages, scratch, suspect, sent, asked, spent>>

\* The record cannot be read for the claim; or the claim cannot be written, as
\* when the process is stopping, and the run's handle stays.  The message is
\* deleted all the same.
ClaimFails(w) ==
    /\ Acts(w) /\ work[w].at = "claim" /\ (~Free(w) => section[w].op = "claim")
    /\ IF work[w].ctx = "quit" THEN UNCHANGED spent ELSE Spend("fault")
    /\ section' = [section EXCEPT ![w] = None]
    /\ Set(w, [work[w] EXCEPT !.at = "done", !.keep = TRUE, !.handle = @ \/ ~Free(w)])
    /\ scars' = scars \cup {"error"}
    /\ UNCHANGED <<record, fresh, messages, scratch, suspect, sent, asked>>

\* A progress line or a new stage of the run, or its watch's heartbeat: the
\* record as it was read, with the time.
Beat(w) ==
    /\ Free(w)
    /\ \/ Acts(w) /\ work[w].at \in {"fetch", "run"} /\ work[w].ctx # "quit"
       \/ Watching(w) /\ record.status = "running"
    /\ Enter(w, "beat", record)
    /\ UNCHANGED <<record, fresh, messages, scratch, work, suspect, sent, asked, scars, spent>>

\* fetch: a directory with the whole recording is used as it is.
Fetch(w) ==
    /\ Acts(w) /\ work[w].at = "fetch" /\ Free(w)
    /\ scratch \/ work[w].ctx = "open"
    /\ scratch' = TRUE
    /\ Set(w, [work[w] EXCEPT !.at = "run"])
    /\ UNCHANGED <<record, fresh, messages, section, suspect, sent, asked, scars, spent>>

\* Otherwise it may fail, and does when the run is stopped: what was there is
\* deleted, and the run ends as paused or as failed, never as cancelled.
FetchFails(w) ==
    /\ Acts(w) /\ work[w].at = "fetch" /\ Free(w) /\ ~scratch
    /\ Enter(w, "finish", IF work[w].ctx = "quit" \/ work[w].pausing THEN Paused(record)
                          ELSE [record EXCEPT !.status = "failed"])
    /\ Set(w, [work[w] EXCEPT !.pausing = FALSE, !.keep = TRUE])
    /\ UNCHANGED <<record, fresh, messages, scratch, suspect, sent, asked, scars, spent>>

\* Mutant: the mark is not read.
EndRunUnmarked(w) ==
    /\ Acts(w) /\ work[w].at = "run" /\ Free(w)
    /\ Set(w, [work[w] EXCEPT !.at = "end", !.pausing = FALSE])
    /\ UNCHANGED <<record, fresh, messages, scratch, section, suspect, sent, asked, scars, spent>>

\* The worker program is gone, killed or by itself; the pause mark is read once.
EndRun(w) ==
    /\ Acts(w) /\ work[w].at = "run" /\ Free(w)
    /\ Set(w, [work[w] EXCEPT !.at = "end", !.mark = work[w].pausing, !.pausing = FALSE])
    /\ UNCHANGED <<record, fresh, messages, scratch, section, suspect, sent, asked, scars, spent>>

\* Mutant: a pause ends the run and its files.
FinishForgetful(w) ==
    /\ Acts(w) /\ work[w].at = "end" /\ Free(w)
    /\ \/ work[w].ctx # "open" /\ Enter(w, "finish", Paused(record))
       \/ work[w].ctx = "open" /\ \E s \in {"succeeded", "failed"} : Enter(w, "finish", [record EXCEPT !.status = s])
    /\ Set(w, [work[w] EXCEPT !.keep = FALSE])
    /\ UNCHANGED <<record, fresh, messages, scratch, suspect, sent, asked, scars, spent>>

\* finish: whatever the record says by then, it says how this run ended.
Finish(w) ==
    /\ Acts(w) /\ work[w].at = "end" /\ Free(w)
    /\ \/ /\ work[w].ctx = "quit" \/ (work[w].ctx = "cancelled" /\ work[w].mark)
          /\ Enter(w, "finish", Paused(record)) /\ Set(w, [work[w] EXCEPT !.keep = TRUE])
       \/ /\ work[w].ctx = "cancelled" /\ ~work[w].mark
          /\ Enter(w, "finish", [record EXCEPT !.status = "cancelled"]) /\ UNCHANGED work
       \/ /\ work[w].ctx = "open"
          /\ \E s \in {"succeeded", "failed"} : Enter(w, "finish", [record EXCEPT !.status = s])
          /\ UNCHANGED work
    /\ UNCHANGED <<record, fresh, messages, scratch, suspect, sent, asked, scars, spent>>

\* The record cannot be read for it: nothing is written, and a pause does not
\* come to keep the scratch.  (Written it is in Write, or not in WriteFails.)
FinishUnread(w) ==
    /\ Acts(w) /\ Free(w) /\ Spend("fault")
    /\ \/ work[w].at = "end" /\ Set(w, [work[w] EXCEPT !.at = "unsaid", !.handle = FALSE])
       \/ /\ work[w].at = "fetch" /\ ~scratch
          /\ Set(w, [work[w] EXCEPT !.at = "unsaid", !.handle = FALSE, !.pausing = FALSE, !.keep = TRUE])
    /\ UNCHANGED <<record, fresh, messages, scratch, section, suspect, sent, asked, scars>>

\* The scratch directory goes, unless a pause keeps it, whether the outcome is
\* recorded or not; the watch ends, with a heartbeat it is at; and the message
\* goes with the receipt of its latest renewal.
Done(w) ==
    /\ Acts(w) /\ Over(w) /\ (~Free(w) => section[w].op = "beat")
    /\ scratch' = (scratch /\ work[w].keep)
    /\ Remove(w)
    /\ section' = [section EXCEPT ![w] = None]
    /\ Set(w, IF work[w].ctx = "quit" THEN Off
              ELSE [Off EXCEPT !.at = "idle", !.pausing = work[w].pausing, !.handle = work[w].handle])
    /\ scars' = IF scratch /\ ~work[w].keep /\ \E v \in Workers : OnIt(v) THEN scars \cup {"robbed"} ELSE scars
    /\ UNCHANGED <<record, fresh, suspect, sent, asked, spent>>

---------------------------------------------------------------------------
(* The write at the end of a section, and what it means for its process.   *)

After(p) ==
    CASE section[p].op = "claim" -> Set(p, [work[p] EXCEPT !.at = "fetch", !.handle = TRUE])
      [] section[p].op = "finish" -> Set(p, [work[p] EXCEPT !.at = "done", !.handle = FALSE])
      [] section[p].op \in {"dead", "refuse"} /\ p # Api -> Set(p, [work[p] EXCEPT !.at = "drop"])
      [] OTHER -> UNCHANGED work

\* The write undoes another's, or declares a worker dead that is on the job.
\* What follows the first is excused, and most of what follows the second: the
\* model ends with the one, its budget with the other, bounds like the numbers.
Harm(p) ==
    LET by == (IF section[p].late THEN {"overwritten"} ELSE {})
              \cup (IF section[p].op = "dead" /\ \E w \in Workers : OnIt(w) THEN {"misjudged"} ELSE {})
    IN  IF by = {} THEN UNCHANGED <<scars, spent>>
        ELSE scars' = scars \cup by /\ spent' = Limit

Write(p) ==
    /\ ~Free(p) /\ section[p].op # "enqueue"
    /\ p # Api => Acts(p) /\ (section[p].op = "claim" => work[p].ctx = "open")
    /\ record' = section[p].new
    /\ fresh' = (fresh \/ section[p].op \in {"beat", "claim"})
    /\ After(p)
    /\ Leave(p, IF section[p].op # "resume" THEN None
                ELSE [op |-> "enqueue", new |-> Paused(section[p].new), late |-> FALSE])
    /\ \/ section[p].op = "discard" /\ Add
       \/ UNCHANGED <<messages, sent>>
    /\ Harm(p)
    /\ UNCHANGED <<scratch, suspect, asked>>

\* The write fails, and what follows in the code follows: a run is over with
\* its outcome unsaid, a message goes though its job was not failed or paused,
\* a job that could not be enqueued stays queued.
WriteFails(p) ==
    /\ ~Free(p) /\ section[p].op \notin {"enqueue", "claim"} /\ (p # Api => Acts(p))
    /\ Spend("fault")
    /\ section' = [section EXCEPT ![p] = None]
    /\ IF section[p].op = "finish" THEN Set(p, [work[p] EXCEPT !.at = "unsaid", !.handle = FALSE]) ELSE After(p)
    /\ scars' = IF section[p].op \in {"dead", "refuse", "unqueue"} THEN scars \cup {"error"} ELSE scars
    /\ UNCHANGED <<record, fresh, messages, scratch, suspect, sent, asked>>

---------------------------------------------------------------------------
(* watch: the hold, the requests, a stop of the process.                   *)

\* A renewed hold, or one that is lost: somebody else took the message.  Then
\* the run is stopped, if it has begun, and the watch ends in any case.
Renew(w) ==
    /\ Watching(w) /\ (Holds(w) \/ Free(w))
    /\ IF Holds(w)
       THEN /\ ~messages[work[w].id].hidden
            /\ messages' = [messages EXCEPT ![work[w].id].hidden = TRUE]
            /\ UNCHANGED <<work, scars>>
       ELSE /\ Set(w, [work[w] EXCEPT !.watch = FALSE, !.ctx = IF @ = "open" /\ OnIt(w) THEN "cancelled" ELSE @])
            /\ scars' = IF OnIt(w) THEN scars \cup {"lost"} ELSE scars
            /\ UNCHANGED messages
    /\ UNCHANGED <<record, fresh, scratch, section, suspect, sent, asked, spent>>

\* Mutant: the watch does not look for a pause.
LookForCancel(w) ==
    /\ Watching(w) /\ Free(w) /\ OnIt(w)
    /\ record.cancel /\ work[w].ctx = "open"
    /\ Set(w, [work[w] EXCEPT !.ctx = "cancelled"])
    /\ UNCHANGED <<record, fresh, messages, scratch, section, suspect, sent, asked, scars, spent>>

\* A request for a cancel, or for a pause (pauseLocal), ends the context of
\* the run; a pause also leaves its mark where it finds a handle, though the
\* run may have looked for it already, or the handle be left of a failed claim.
Look(w) ==
    /\ Watching(w) /\ Free(w) /\ work[w].handle
    /\ \/ /\ record.cancel /\ OnIt(w) /\ work[w].ctx = "open"
          /\ Set(w, [work[w] EXCEPT !.ctx = "cancelled"]) /\ UNCHANGED scars
       \/ /\ ~record.cancel /\ record.pause /\ (~work[w].pausing \/ (OnIt(w) /\ work[w].ctx = "open"))
          /\ Set(w, [work[w] EXCEPT !.pausing = TRUE, !.ctx = IF @ = "open" /\ OnIt(w) THEN "cancelled" ELSE @])
          /\ scars' = IF work[w].at = "end" THEN scars \cup {"latepause"} ELSE scars
    /\ UNCHANGED <<record, fresh, messages, scratch, section, suspect, sent, asked, spent>>

\* The process is asked to stop: its context ends.  Before a run is claimed
\* nothing it still tries succeeds, the deletion of the message neither.
Quit(w) ==
    /\ Acts(w) /\ work[w].ctx # "quit" /\ Spend("fault")
    /\ IF work[w].at \in {"idle", "took", "drop"}
       THEN Set(w, Off) /\ section' = [section EXCEPT ![w] = None]
       ELSE Set(w, [work[w] EXCEPT !.ctx = "quit"]) /\ UNCHANGED section
    /\ UNCHANGED <<record, fresh, messages, scratch, suspect, sent, asked, scars>>

---------------------------------------------------------------------------
(* Crashes, stalls and time.                                               *)

Crash(w) ==
    /\ work[w].at # "off" /\ Spend("fault")
    /\ Set(w, Off)
    /\ section' = [section EXCEPT ![w] = None]
    /\ UNCHANGED <<record, fresh, messages, scratch, suspect, sent, asked, scars>>

\* The API process is killed and started again; its Recover does nothing here.
CrashApi ==
    /\ ~Free(Api) \/ suspect
    /\ Spend("fault")
    /\ section' = [section EXCEPT ![Api] = None] /\ suspect' = FALSE
    /\ scars' = IF ~Free(Api) /\ section[Api].op \in {"enqueue", "unqueue"} THEN scars \cup {"crash"} ELSE scars
    /\ UNCHANGED <<record, fresh, messages, scratch, work, sent, asked>>

Stall(w) ==
    /\ Acts(w) /\ work[w].at # "idle" /\ Spend("fault")
    /\ Set(w, [work[w] EXCEPT !.stalled = TRUE])
    /\ UNCHANGED <<record, fresh, messages, scratch, section, suspect, sent, asked, scars>>

Wake(w) ==
    /\ work[w].stalled
    /\ Set(w, [work[w] EXCEPT !.stalled = FALSE])
    /\ UNCHANGED <<record, fresh, messages, scratch, section, suspect, sent, asked, scars, spent>>

\* A hold lapses that no worker renews.
Lapse(i) ==
    /\ messages[i].hidden
    /\ \A w \in Workers : work[w].id = i /\ Holds(w) => ~Acts(w)
    /\ messages' = [messages EXCEPT ![i].hidden = FALSE]
    /\ scars' = IF \E w \in Workers : work[w].id = i /\ work[w].stalled THEN scars \cup {"stalled"} ELSE scars
    /\ UNCHANGED <<record, fresh, scratch, section, work, suspect, sent, asked, spent>>

\* A heartbeat gets old that no worker writes.
Age ==
    /\ fresh /\ \A w \in Workers : ~Watching(w)
    /\ fresh' = FALSE
    /\ scars' = IF \E w \in Workers : OnIt(w) /\ work[w].stalled THEN scars \cup {"stalled"} ELSE scars
    /\ UNCHANGED <<record, messages, scratch, section, work, suspect, sent, asked, spent>>

Follow == List \/ Judge
Serve == Submit \/ Cancel \/ Pause \/ Resume \/ Expire \/ Enqueue
\* What a worker's goroutines do by themselves: a run ends only when told to.
Go(w) ==
    \/ Drop(w) \/ Claim(w) \/ Fetch(w) \/ FetchFails(w) \/ Look(w) \/ Finish(w) \/ Done(w)
    \/ work[w].ctx # "open" /\ EndRun(w)
Next ==
    /\ "overwritten" \notin scars
    /\ \/ Serve \/ Follow \/ Write(Api) \/ WriteFails(Api) \/ CrashApi \/ Age
       \/ \E w \in Workers :
            \/ Begin(w) \/ Receive(w) \/ Takeable(w) \/ Drop(w)
            \/ Claim(w) \/ ClaimFails(w) \/ Beat(w) \/ Fetch(w) \/ FetchFails(w) \/ EndRun(w) \/ Finish(w) \/ FinishUnread(w) \/ Done(w)
            \/ Write(w) \/ WriteFails(w) \/ Renew(w) \/ Look(w) \/ Quit(w) \/ Crash(w) \/ Stall(w) \/ Wake(w)
       \/ \E i \in DOMAIN messages : Lapse(i)

\* The API's loop and sections go on, time passes, and a worker's goroutines
\* are not kept from the lock for ever (sync.Mutex).  That a run ends by itself
\* is not assumed.
Fairness ==
    /\ WF_vars(Follow) /\ WF_vars(Write(Api)) /\ WF_vars(Enqueue) /\ WF_vars(Age)
    /\ \A w \in Workers : SF_vars(Go(w)) /\ WF_vars(Write(w)) /\ WF_vars(Wake(w))

Spec == Init /\ [][Next]_vars /\ Fairness

---------------------------------------------------------------------------
(* Properties.                                                             *)

\* What the promises below have to except.
Harmed == scars \cap {"misjudged", "overwritten"} # {}
Robbed == Harmed \/ "robbed" \in scars

\* Two workers never analyze the job at one time, over pauses, resumes, crashes
\* and messages that come back: unless a worker on it was declared dead, or a
\* record was written over what another process had written since it was read.
OneAnalysis ==
    \/ scars \cap {"misjudged", "overwritten"} # {}
    \/ \A v, w \in Workers : OnIt(v) /\ OnIt(w) => v = w

\* A worker that is on the job is declared dead only when it was silent for
\* longer than its hold, when another message of the job came back while it
\* ran, when the listing was old, or after a lost write.
DeadIsDead == "misjudged" \in scars => scars \cap {"stalled", "redelivered", "latelist", "overwritten"} # {}

\* A job is cancelled only if someone cancelled it or its pause expired: a
\* crash, a stop, a pause or a message that comes back never cancels, unless
\* the hold was lost or the pause came when the run had just ended.
CancelIsAsked ==
    record.status = "cancelled" => asked \/ scars \cap {"lost", "latepause", "overwritten"} # {}

\* A queued job can be taken: some message of it is not about to be deleted.
Doomed(i) == \E w \in Workers : work[w].id = i /\ Holds(w) /\ work[w].at \notin {"took", "claim"}
QueuedIsReachable ==
    record.status = "queued" =>
        \/ \E i \in DOMAIN messages : ~Doomed(i)
        \/ ~Free(Api) /\ section[Api].op \in {"enqueue", "unqueue"}
        \/ scars \cap {"error", "crash", "overwritten", "misjudged"} # {}

\* What a run has done is deleted only once its job is settled, over pauses,
\* stops, messages that come back and every worker's sweep.  Except by a run
\* whose outcome could not be recorded: its scratch goes all the same, though
\* it was stopped for a pause, and though the job will be paused and resumed.
\* And except that no sweep knows an interrupted job, which could be resumed
\* as well; and once a worker was misjudged or a record written over.
Ousts(w) == work[w].at = "unsaid" /\ work'[w].at # "unsaid"
RemovalIsSafe ==
    [][scratch /\ ~scratch' =>
          record.status \in Settled \cup {"interrupted"} \/ Harmed \/ \E w \in Workers : Ousts(w)]_vars

\* A settled record does not change any more.
SettledStays ==
    [][record.status \in Settled => record'.status = record.status
                                    \/ scars' \cap {"misjudged", "overwritten"} # {}]_vars

\* The shared queue keeps the promise of JobLease: every step of the processes,
\* the messages and the faults is one of its moves, or changes nothing it sees.
\* Except from where a live worker is declared dead, a record is written over,
\* or a run that could not record its outcome deletes the scratch directory
\* under the next one (Robbed).
Lease == INSTANCE JobLease WITH
    state <- record.status, runners <- {w \in Workers : OnIt(w)},
    unsaid <- {w \in Workers : work[w].at = "unsaid"}, kept <- scratch
KeepsLease == Lease!Init /\ [][Lease!Next \/ Robbed']_(Lease!vars)

\* A job whose worker died does not stay running for ever.
DeadIsPaused ==
    (record.status = "running" /\ \A w \in Workers : ~OnIt(w))
        ~> (record.status # "running" \/ (\E w \in Workers : OnIt(w)) \/ "overwritten" \in scars)

\* A cancel or a pause asked of a running job ends its run.  Except that of a
\* worker that lost its hold before it claimed the job: its watch has ended
\* without a run to stop, and the run that begins then has none.
Unwatched(w) == OnIt(w) /\ ~work[w].watch /\ work[w].ctx = "open"
RequestIsMet ==
    (record.status = "running" /\ (record.cancel \/ record.pause))
        ~> (record.status # "running" \/ "overwritten" \in scars \/ \E w \in Workers : Unwatched(w))

---------------------------------------------------------------------------
(* The inductive invariant.  What a section is about to write fits the     *)
(* record it read, and so the record as it is unless another wrote in      *)
(* between; what it says of its worker holds in any case.                  *)

Pending(p, ops) == ~Free(p) /\ section[p].op \in ops

\* A section that nobody outran may still be written: its record is as read.
Fits(s) ==
    s # None =>
        /\ s.op = "resume" => s.new.status = "queued"
        /\ s.op = "claim" => s.new.status = "running"
        /\ ~s.late =>
             /\ s.op \in {"claim", "refuse", "enqueue", "unqueue"} => record.status = "queued"
             /\ s.op = "dead" => record.status = "running"
             /\ s.op \in {"discard", "resume"} => record.status \in {"paused", "interrupted"}
             /\ s.op = "write" => \/ record.status \in {"queued", "paused"}
                                  \/ record.status = "running" /\ s.new.status = "running"
             /\ s.op = "beat" => s.new = record
SectionsFit == \A p \in Processes : Fits(section[p])

\* A worker is where its section began.
FromClaim == {"claim", "fetch", "run", "end", "done", "unsaid"}
WorkersFit ==
    /\ Pending(Api, {"claim", "refuse", "beat", "finish"}) => FALSE
    /\ \A w \in Workers :
        /\ Pending(w, {"enqueue", "unqueue", "write", "discard", "resume"}) => FALSE
        /\ Pending(w, {"dead", "refuse"}) => work[w].at = "took"
        /\ Pending(w, {"claim"}) => work[w].at = "claim"
        /\ Pending(w, {"beat"}) => work[w].at \in FromClaim
        /\ Pending(w, {"finish"}) => work[w].at \in {"fetch", "end"}

\* Its watch begins with the claim and ends with the run at the latest.
WatchesFit == \A w \in Workers : work[w].watch => work[w].at \in FromClaim

\* Before the job there is nothing to write or on disk, and no worker on it.
JobIsFirst ==
    /\ record.status = "none" =>
         (\A p \in Processes : Free(p)) /\ (\A w \in Workers : ~OnIt(w)) /\ ~scratch
    /\ \A p \in Processes : ~Free(p) => section[p].new.status # "none"

\* A worker is on a job that its record says is running.
OnItIsRunning == Harmed \/ \A w \in Workers : OnIt(w) => record.status = "running"

\* A run that keeps nothing has settled its job.
DoneIsSettled ==
    \A w \in Workers :
        /\ Pending(w, {"finish"}) /\ ~work[w].keep => section[w].new.status \in Settled
        /\ work[w].at = "done" /\ ~work[w].keep => record.status \in Settled \/ Harmed

\* Whatever will cancel the job comes of a request, or of what the code takes
\* for one: it is in a record to be written, or in a context that has ended
\* and that no pause has marked.
Excused == asked \/ scars \cap {"lost", "latepause", "overwritten"} # {}
CancelsAreAsked ==
    /\ record.cancel => asked
    /\ \A p \in Processes : ~Free(p) =>
         (section[p].new.cancel => asked) /\ (section[p].new.status = "cancelled" => Excused)
    /\ \A w \in Workers :
         /\ work[w].at \in {"fetch", "run"} /\ work[w].ctx = "cancelled"
                => Excused \/ work[w].pausing \/ Pending(w, {"finish"})
         /\ work[w].at = "end" /\ work[w].ctx = "cancelled" => Excused \/ work[w].mark

IInv ==
    /\ TypeOK /\ SectionsFit /\ WorkersFit /\ WatchesFit /\ JobIsFirst
    /\ OnItIsRunning /\ OneAnalysis /\ DoneIsSettled /\ CancelIsAsked /\ CancelsAreAsked

---------------------------------------------------------------------------
(* The inductive form of DeadIsDead.  A worker at a message holds it, and  *)
(* no other worker is at it; a run has a fresh heartbeat; and what is to   *)
(* declare a worker dead has found nobody on the job, or is late.          *)

Excusable == scars \cap {"stalled", "redelivered", "latelist", "overwritten"} # {}
Busy(w) == work[w].at \notin {"off", "idle"}
BusyHolds ==
    \A w \in Workers : Busy(w) =>
        /\ Holds(w) /\ messages[work[w].id].hidden
        /\ \A v \in Workers : Busy(v) /\ work[v].id = work[w].id => v = w
RunIsFresh ==
    \A w \in Workers :
        /\ OnIt(w) => fresh
        /\ work[w].at = "claim" \/ OnIt(w) => work[w].watch
DeadFoundNobody ==
    \A p \in Processes : Pending(p, {"dead"}) /\ ~section[p].late => \A w \in Workers : ~OnIt(w)
Watched == DeadIsDead /\ (Excusable \/ (BusyHolds /\ RunIsFresh /\ DeadFoundNobody))

\* The inductive form of QueuedIsReachable.  Only a resume puts a job on the
\* queue again; a message is taken after it was sent, and no oftener than it
\* says; and until its run begins only a stop of the process ends a context.
OnlyResumes ==
    \A p \in Processes : ~Free(p) /\ section[p].new.status = "queued" => section[p].op \in {"resume", "beat"}
TakenIsSent ==
    \A w \in Workers :
        /\ work[w].id <= sent
        /\ ~Busy(w) => work[w].id = 0
        /\ work[w].id \in DOMAIN messages => work[w].takes <= messages[work[w].id].takes
        /\ work[w].at \in {"took", "claim"} => work[w].ctx # "cancelled"
Reached == QueuedIsReachable /\ OnlyResumes /\ TakenIsSent

\* What KeepsLease needs beside IInv: how a section may leave the record, and
\* that a run which is past its fetch has its data.
Says(s) ==
    s # None =>
        /\ s.op \in {"enqueue", "unqueue"} => s.new.status \in {"failed", "paused"}
        /\ s.op = "write" /\ ~s.late =>
             \/ record.status = "queued" /\ s.new.status \in {"cancelled", "paused"}
             \/ record.status = "running" /\ s.new.status = "running"
        /\ s.op = "discard" => s.new.status = "cancelled"
        /\ s.op = "dead" => s.new.status = "paused"
        /\ s.op = "refuse" => s.new.status = "failed"
        /\ s.op = "finish" => s.new.status \in {"paused"} \cup Settled
SectionsSay == \A p \in Processes : Says(section[p])
HasRun(w) ==
    \/ work[w].at \in {"run", "end"}
    \/ Pending(w, {"finish"}) /\ section[w].new.status = "succeeded"
RunHasData == \A w \in Workers : HasRun(w) => scratch \/ Robbed
Leased == SectionsSay /\ RunHasData
=============================================================================
