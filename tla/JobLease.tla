------------------------------ MODULE JobLease ------------------------------
(***************************************************************************)
(* What the shared queue promises of one job: its record is a lease.  One  *)
(* worker at most analyzes it, and only while the record says running; the *)
(* step that records how a run ended also ends it; a run without a worker  *)
(* is only ever paused; and what a run has on disk is kept until the job   *)
(* is settled, unless the end of a run could not be recorded: then it may  *)
(* go with that run.  Messages, holds, heartbeats, requests and the two    *)
(* steps of every write are not seen here.                                 *)
(***************************************************************************)
CONSTANT Workers

VARIABLES
    state,     \* the status of the job, "none" before it is submitted
    runners,   \* the workers that analyze it
    unsaid,    \* the workers whose run is over with its end not recorded
    kept       \* its recording and what was made of it are on disk

vars == <<state, runners, unsaid, kept>>

Settled == {"cancelled", "failed", "succeeded"}

\* An interrupted job is of an older version: it can be taken up as a paused
\* one can, but what it has on disk is not promised.
Init ==
    /\ state \in {"none", "interrupted"} /\ kept = (state = "interrupted")
    /\ runners = {} /\ unsaid = {}

Moves(from, to) ==
    /\ state \in from /\ runners = {}
    /\ state' = to
    /\ UNCHANGED <<runners, unsaid, kept>>

Submit == Moves({"none"}, "queued")
Pause  == Moves({"queued"}, "paused")
Resume == Moves({"paused", "interrupted"}, "queued")
Cancel == Moves({"queued", "paused", "interrupted"}, "cancelled")
Refuse == Moves({"queued"}, "failed")

\* The worker died: the job is paused only once nobody is on it.
Rescue == Moves({"running"}, "paused")

Take(w) ==
    /\ state = "queued" /\ runners = {}
    /\ state' = "running" /\ runners' = {w}
    /\ UNCHANGED <<unsaid, kept>>

Store(w) ==
    /\ state = "running" /\ w \in runners
    /\ kept' = TRUE
    /\ UNCHANGED <<state, runners, unsaid>>

\* A run that succeeds has what it analyzed; any other may end without.
End(w) ==
    /\ state = "running" /\ w \in runners
    /\ runners' = runners \ {w}
    /\ \/ state' \in {"paused", "cancelled", "failed"}
       \/ state' = "succeeded" /\ kept
    /\ UNCHANGED <<unsaid, kept>>

Die(w) ==
    /\ w \in runners
    /\ runners' = runners \ {w}
    /\ UNCHANGED <<state, unsaid, kept>>

\* The end of a run cannot be recorded; later its worker is gone, and what was
\* on disk perhaps with it, but not under the next run.
Lose(w) ==
    /\ w \in runners
    /\ runners' = runners \ {w} /\ unsaid' = unsaid \cup {w}
    /\ UNCHANGED <<state, kept>>
Vanish(w) ==
    /\ w \in unsaid
    /\ unsaid' = unsaid \ {w}
    /\ kept' = kept \/ (kept' = FALSE /\ runners = {})
    /\ UNCHANGED <<state, runners>>

Discard ==
    /\ state \in Settled \cup {"interrupted"}
    /\ kept' = FALSE
    /\ UNCHANGED <<state, runners, unsaid>>

Next ==
    \/ Submit \/ Pause \/ Resume \/ Cancel \/ Refuse \/ Rescue \/ Discard
    \/ \E w \in Workers : Take(w) \/ Store(w) \/ End(w) \/ Die(w) \/ Lose(w) \/ Vanish(w)

Spec == Init /\ [][Next]_vars
=============================================================================
