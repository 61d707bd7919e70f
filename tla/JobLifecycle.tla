--------------------------- MODULE JobLifecycle ---------------------------
(***************************************************************************)
(* What the job package promises of an analysis (the comment on jobs.Status*)
(* and Completed): the transitions a job may make, that a completed job has*)
(* a viewable report, and that the files of a job are touched only while it*)
(* runs or once it has been given up.  Who holds which lock, the loop, the *)
(* worker processes and the pause marks are not seen here.                 *)
(***************************************************************************)
CONSTANTS Jobs, Legacy

VARIABLES
    state,   \* the status of each job, "absent" before it is submitted
    rows,    \* the jobs whose report is recorded
    work     \* what the run directory of each job holds

vars == <<state, rows, work>>

\* "completed" is Succeeded or CompletedWithStageFailures (Status.Completed).
Status  == {"queued", "running", "paused", "completed", "failed", "cancelled", "interrupted"}
Content == {"work", "capture", "report"}

TypeOK ==
    /\ state \in [Jobs -> Status \cup {"absent"}]
    /\ rows \subseteq Jobs
    /\ work \in [Jobs -> SUBSET Content]

\* Interrupted is what older versions recorded; nothing is recorded so now.
Init ==
    /\ state = [j \in Jobs |-> IF j \in Legacy THEN "interrupted" ELSE "absent"]
    /\ rows = {}
    /\ work \in [Jobs -> SUBSET Content]

Moves(j, from, to) ==
    /\ state[j] \in from
    /\ state' = [state EXCEPT ![j] = to]
    /\ UNCHANGED <<rows, work>>

Submit(j) == Moves(j, {"absent"}, "queued")
Take(j)   == Moves(j, {"queued"}, "running")
Resume(j) == Moves(j, {"paused", "interrupted"}, "queued")
Fail(j)   == Moves(j, {"running"}, "failed")
Pause(j)  == Moves(j, {"queued", "running"}, "paused")
Cancel(j) == Moves(j, {"queued", "running", "paused", "interrupted"}, "cancelled")

\* A restart of the service pauses the runs it finds.
PauseAll(some) ==
    /\ \A j \in some : state[j] = "running"
    /\ state' = [j \in Jobs |-> IF j \in some THEN "paused" ELSE state[j]]
    /\ UNCHANGED <<rows, work>>

\* The analysis writes and prunes; the files of one given up are deleted.
Touch(j) ==
    /\ state[j] = "running"
    /\ \E content \in SUBSET Content : work' = [work EXCEPT ![j] = content]
    /\ UNCHANGED <<state, rows>>

Delete(j) ==
    /\ state[j] = "cancelled"
    /\ work' = [work EXCEPT ![j] = {}]
    /\ UNCHANGED <<state, rows>>

\* A report is recorded once, by a run or by the rescue of a failed one; the
\* job is completed after that.
RecordReport(j) ==
    /\ state[j] \in {"running", "failed"}
    /\ "report" \in work[j] /\ j \notin rows
    /\ rows' = rows \cup {j}
    /\ UNCHANGED <<state, work>>

Complete(j) ==
    /\ j \in rows /\ "report" \in work[j]
    /\ Moves(j, {"running", "failed"}, "completed")

Next ==
    \/ \E j \in Jobs :
          \/ Submit(j) \/ Take(j) \/ Resume(j) \/ Fail(j) \/ Pause(j) \/ Cancel(j)
          \/ Touch(j) \/ Delete(j) \/ RecordReport(j) \/ Complete(j)
    \/ \E some \in SUBSET Jobs : PauseAll(some)

Spec == Init /\ [][Next]_vars

\* Status.Completed: the job produced a viewable report, and keeps it.
Delivered == \A j \in Jobs : state[j] = "completed" => j \in rows /\ "report" \in work[j]
=============================================================================
