---------------------- MODULE SharedQueueMessages_proofs ----------------------
(***************************************************************************)
(* What the messages of the shared queue are good for, for any number of   *)
(* worker processes, of requests and of faults: a worker is not declared   *)
(* dead while it is on the job (DeadIsDead, by the invariant Watched), and *)
(* a queued job stays within reach of a worker (QueuedIsReachable, by the  *)
(* invariant Reached).  And what both come to: the shared queue implements *)
(* JobLease (KeepsLease, by the invariant Leased).  All three invariants   *)
(* are inductive relative to IInv.                                         *)
(***************************************************************************)
EXTENDS SharedQueue_proofs

---------------------------------------------------------------------------
(* Workers at their messages.                                              *)

\* A step of a worker, but for taking a message: it lets go of its message, or
\* goes on at it.
GoesOn(v) ==
    /\ work'[v].id = work[v].id /\ work'[v].takes = work[v].takes /\ (Busy(v)' <=> Busy(v))
    /\ work'[v].at \in {"took", "claim"} =>
         work[v].at \in {"took", "claim"} /\ work'[v].ctx \in {work[v].ctx, "quit"}
LetsGo(v) == work'[v].at \in {"off", "idle"} /\ work'[v].id = 0

\* What a worker does by itself turns that worker only.
LEMMA Turns ==
    ASSUME IInv, NEW v \in Workers,
           \/ Begin(v) \/ Takeable(v) \/ Drop(v) \/ Claim(v) \/ ClaimFails(v) \/ Beat(v) \/ Fetch(v)
           \/ FetchFails(v) \/ EndRun(v) \/ Finish(v) \/ FinishUnread(v) \/ Done(v) \/ Renew(v)
           \/ Look(v) \/ Quit(v) \/ Crash(v) \/ Stall(v) \/ Wake(v)
    PROVE  (\A w \in Workers : w # v => work'[w] = work[w]) /\ (LetsGo(v) \/ GoesOn(v))
<1>0. WorkType /\ work[v] \in Works /\ WorkersFit /\ WatchesFit
      BY DEF IInv, TypeOK, WorkType
<1>1. CASE UNCHANGED work
      BY <1>1 DEF GoesOn, Busy
<1>3. CASE Begin(v) \/ Crash(v) \/ Done(v) \/ (Quit(v) /\ work[v].at \in {"idle", "took", "drop"})
  <2>1. CASE Set(v, [Off EXCEPT !.at = "idle"]) \/ Set(v, Off)
        BY <2>1, <1>0 DEF Off, LetsGo, Set, WorkType
  <2>2. CASE Done(v)
        BY <2>2, <1>0 DEF Done, Off, LetsGo, Set, WorkType
  <2> QED
      BY <1>3, <2>1, <2>2 DEF Begin, Crash, Quit
<1>4. CASE Drop(v)
      BY <1>4, <1>0 DEF Drop, LetsGo, Works, Set, WorkType
<1>5. CASE Takeable(v)
  <2>1. work[v].at = "took"
        /\ (UNCHANGED work \/ Set(v, [work[v] EXCEPT !.at = "drop"])
                            \/ Set(v, [work[v] EXCEPT !.at = "claim", !.watch = TRUE]))
        BY <1>5 DEF Takeable
  <2>2. CASE Set(v, [work[v] EXCEPT !.at = "drop"])
        BY <2>1, <2>2, <1>0 DEF GoesOn, Busy, Works, Set, WorkType
  <2>3. CASE Set(v, [work[v] EXCEPT !.at = "claim", !.watch = TRUE])
        BY <2>1, <2>3, <1>0 DEF GoesOn, Busy, Works, Set, WorkType
  <2> QED
      BY <2>1, <2>2, <2>3, <1>1
<1>6. CASE Claim(v) \/ ClaimFails(v)
  <2>1. work[v].at = "claim"
        /\ \/ UNCHANGED work
           \/ Set(v, [work[v] EXCEPT !.at = "done", !.keep = TRUE])
           \/ Set(v, [work[v] EXCEPT !.at = "done", !.keep = TRUE, !.handle = @ \/ ~Free(v)])
        BY <1>6, <1>0 DEF Claim, ClaimFails, WorkersFit, Pending
  <2>2. CASE Set(v, [work[v] EXCEPT !.at = "done", !.keep = TRUE])
        BY <2>1, <2>2, <1>0 DEF GoesOn, Busy, Works, Set, WorkType
  <2>3. CASE Set(v, [work[v] EXCEPT !.at = "done", !.keep = TRUE, !.handle = @ \/ ~Free(v)])
        BY <2>1, <2>3, <1>0 DEF GoesOn, Busy, Works, Set, WorkType
  <2> QED
      BY <2>1, <2>2, <2>3, <1>1
<1>7. CASE Fetch(v)
      BY <1>7, <1>0 DEF Fetch, GoesOn, Busy, Works, Set, WorkType
<1>8. CASE EndRun(v)
      BY <1>8, <1>0 DEF EndRun, GoesOn, Busy, Works, Set, WorkType
<1>9. CASE FetchFails(v)
      BY <1>9, <1>0 DEF FetchFails, GoesOn, Busy, Works, Set, WorkType
<1>10. CASE Finish(v)
  <2>1. work[v].at = "end" /\ (UNCHANGED work \/ Set(v, [work[v] EXCEPT !.keep = TRUE]))
        BY <1>10 DEF Finish
  <2> QED
      BY <2>1, <1>0, <1>1 DEF GoesOn, Busy, Works, Set, WorkType
<1>11. CASE Renew(v) \/ Look(v)
  <2>1. work[v].at \in FromClaim
        BY <1>11, <1>0 DEF Renew, Look, Watching, WatchesFit
  <2>2. CASE Set(v, [work[v] EXCEPT !.watch = FALSE, !.ctx = IF @ = "open" /\ OnIt(v) THEN "cancelled" ELSE @])
        BY <2>1, <2>2, <1>0 DEF GoesOn, Busy, Works, Set, WorkType, FromClaim, OnIt
  <2>3. CASE OnIt(v) /\ Set(v, [work[v] EXCEPT !.ctx = "cancelled"])
        BY <2>3, <1>0 DEF GoesOn, Busy, Works, Set, WorkType, OnIt
  <2>4. CASE Set(v, [work[v] EXCEPT !.pausing = TRUE, !.ctx = IF @ = "open" /\ OnIt(v) THEN "cancelled" ELSE @])
        BY <2>1, <2>4, <1>0 DEF GoesOn, Busy, Works, Set, WorkType, FromClaim, OnIt
  <2> QED
      BY <1>11, <2>2, <2>3, <2>4, <1>1 DEF Renew, Look
<1>12. CASE Quit(v) /\ work[v].at \notin {"idle", "took", "drop"}
  <2>1. Set(v, [work[v] EXCEPT !.ctx = "quit"])
        BY <1>12 DEF Quit
  <2> QED
      BY <2>1, <1>0 DEF GoesOn, Busy, Works, Set, WorkType
<1>13. CASE Stall(v)
      BY <1>13, <1>0 DEF Stall, GoesOn, Busy, Works, Set, WorkType
<1>14. CASE Wake(v)
      BY <1>14, <1>0 DEF Wake, GoesOn, Busy, Works, Set, WorkType
<1>15. CASE Beat(v)
      BY <1>15, <1>1 DEF Beat
<1>16. CASE FinishUnread(v)
  <2>1. CASE work[v].at = "end" /\ Set(v, [work[v] EXCEPT !.at = "unsaid", !.handle = FALSE])
        BY <2>1, <1>0 DEF GoesOn, Busy, Works, Set, WorkType
  <2>2. CASE work[v].at = "fetch"
             /\ Set(v, [work[v] EXCEPT !.at = "unsaid", !.handle = FALSE, !.pausing = FALSE, !.keep = TRUE])
        BY <2>2, <1>0 DEF GoesOn, Busy, Works, Set, WorkType
  <2> QED
      BY <1>16, <2>1, <2>2 DEF FinishUnread
<1> QED
    BY <1>3, <1>4, <1>5, <1>6, <1>7, <1>8, <1>9, <1>10, <1>11, <1>12, <1>13, <1>14, <1>15, <1>16

\* The write at the end of a section leaves every worker at its message.
LEMMA WriteTurns ==
    ASSUME IInv, NEW p \in Processes, Write(p)
    PROVE  \A w \in Workers : GoesOn(w) /\ (w # p => work'[w] = work[w])
<1>0. WorkType /\ WorkersFit /\ (\A w \in Workers : work[w] \in Works)
      BY DEF IInv, TypeOK, WorkType
<1>1. After(p) /\ ~Free(p)
      BY DEF Write
<1>2. ASSUME NEW w \in Workers, w # p
      PROVE  GoesOn(w) /\ work'[w] = work[w]
      BY <1>0, <1>1, <1>2, AfterWorks DEF GoesOn, Busy
<1>3. ASSUME p \in Workers
      PROVE  GoesOn(p)
  <2>1. \/ work'[p] = work[p]
        \/ Busy(p) /\ \/ work'[p] = [work[p] EXCEPT !.at = "done", !.handle = FALSE]
                      \/ work'[p] = [work[p] EXCEPT !.at = "drop"]
                      \/ work'[p] = [work[p] EXCEPT !.at = "fetch", !.handle = TRUE]
    <3>1. CASE section[p].op \in {"claim", "finish"}
          BY <1>0, <1>1, <1>3, <3>1, AfterWorks DEF WorkersFit, Pending, Busy
    <3>2. CASE section[p].op \in {"dead", "refuse"}
          BY <1>0, <1>1, <1>3, <3>2, AfterWorks DEF WorkersFit, Pending, Busy
    <3>3. CASE section[p].op \notin {"claim", "finish", "dead", "refuse"}
          BY <1>1, <3>3 DEF After
    <3> QED
        BY <3>1, <3>2, <3>3
  <2> QED
      BY <2>1, <1>0, <1>3 DEF GoesOn, Busy, Works
<1> QED
    BY <1>2, <1>3

\* So does the write that fails.
LEMMA FailedTurns ==
    ASSUME IInv, NEW p \in Processes, WriteFails(p)
    PROVE  \A w \in Workers : GoesOn(w) /\ (w # p => work'[w] = work[w])
<1>0. WorkType /\ WorkersFit /\ (\A w \in Workers : work[w] \in Works) /\ ~Free(p)
      BY DEF IInv, TypeOK, WorkType, WriteFails
<1>1. ASSUME NEW w \in Workers, w # p
      PROVE  GoesOn(w) /\ work'[w] = work[w]
      BY <1>0, <1>1, FailedWrite DEF GoesOn, Busy
<1>2. ASSUME p \in Workers
      PROVE  GoesOn(p)
  <2>1. \/ work'[p] = work[p]
        \/ Busy(p) /\ \/ work'[p] = [work[p] EXCEPT !.at = "drop"]
                      \/ work'[p] = [work[p] EXCEPT !.at = "unsaid", !.handle = FALSE]
        BY <1>0, <1>2, FailedWrite DEF WorkersFit, Pending, Busy
  <2> QED
      BY <2>1, <1>0, <1>2 DEF GoesOn, Busy, Works
<1> QED
    BY <1>1, <1>2

\* Every step has a worker take a message, let go of one or go on at it.
LEMMA Places ==
    ASSUME IInv, [Next]_vars, NEW w \in Workers
    PROVE  Receive(w) \/ LetsGo(w) \/ GoesOn(w)
<1>0. WorkType
      BY DEF IInv, TypeOK, WorkType
<1>1. CASE UNCHANGED work
      BY <1>1 DEF GoesOn, Busy
<1>2. ASSUME NEW v \in Workers, Receive(v)
      PROVE  Receive(w) \/ GoesOn(w)
      BY <1>2, <1>0 DEF Receive, Set, WorkType, GoesOn, Busy
<1>3. ASSUME NEW v \in Workers,
             \/ Begin(v) \/ Takeable(v) \/ Drop(v) \/ Claim(v) \/ ClaimFails(v) \/ Beat(v) \/ Fetch(v)
             \/ FetchFails(v) \/ EndRun(v) \/ Finish(v) \/ FinishUnread(v) \/ Done(v) \/ Renew(v)
             \/ Look(v) \/ Quit(v) \/ Crash(v) \/ Stall(v) \/ Wake(v)
      PROVE  LetsGo(w) \/ GoesOn(w)
      BY <1>3, <1>1, Turns DEF GoesOn, Busy
<1>4. ASSUME NEW p \in Processes, Write(p) \/ WriteFails(p)
      PROVE  GoesOn(w)
      BY <1>4, WriteTurns, FailedTurns
<1> QED
    BY <1>1, <1>2, <1>3, <1>4 DEF Next, Serve, Follow, Submit, Cancel, Pause, Resume, Expire, Enqueue, List, Judge, CrashApi,
         Age, Lapse, vars, Processes

\* What becomes of the messages.
LEMMA Messages ==
    ASSUME [Next]_vars
    PROVE  \/ UNCHANGED <<messages, sent>>
           \/ Add
           \/ UNCHANGED sent /\ \/ \E w \in Workers : Receive(w) \/ (Drop(w) /\ Remove(w)) \/ (Done(w) /\ Remove(w)) \/ Renew(w)
                                \/ \E i \in DOMAIN messages : Lapse(i)
<1>1. ASSUME NEW p \in Processes, Write(p) \/ WriteFails(p)
      PROVE  Add \/ UNCHANGED <<messages, sent>>
      BY <1>1 DEF Write, WriteFails
<1>2. CASE Serve \/ Follow \/ CrashApi \/ Age \/ UNCHANGED vars
      BY <1>2 DEF Serve, Follow, Submit, Cancel, Pause, Resume, Expire, Enqueue, List, Judge, CrashApi, Age, vars
<1>3. ASSUME NEW w \in Workers,
             \/ Begin(w) \/ Takeable(w) \/ Claim(w) \/ ClaimFails(w) \/ Beat(w) \/ Fetch(w) \/ FetchFails(w)
             \/ EndRun(w) \/ Finish(w) \/ FinishUnread(w) \/ Look(w) \/ Quit(w) \/ Crash(w) \/ Stall(w) \/ Wake(w)
      PROVE  UNCHANGED <<messages, sent>>
      BY <1>3 DEF Begin, Takeable, Claim, ClaimFails, Beat, Fetch, FetchFails, EndRun, Finish, FinishUnread, Look, Quit,
         Crash, Stall, Wake
<1>4. ASSUME NEW w \in Workers, Receive(w) \/ Drop(w) \/ Done(w) \/ Renew(w)
      PROVE  UNCHANGED sent /\ (Receive(w) \/ (Drop(w) /\ Remove(w)) \/ (Done(w) /\ Remove(w)) \/ Renew(w))
      BY <1>4 DEF Receive, Drop, Done, Renew
<1>5. ASSUME NEW i \in DOMAIN messages, Lapse(i)
      PROVE  UNCHANGED sent
      BY <1>5 DEF Lapse
<1> QED
    BY <1>1, <1>2, <1>3, <1>4, <1>5 DEF Next, Processes

\* A worker comes to be on the job by the write of its claim.
LEMMA ComesOn ==
    ASSUME IInv, [Next]_vars, NEW w \in Workers, OnIt(w)', ~OnIt(w)
    PROVE  Write(w) /\ section[w].op = "claim"
<1>0. WorkType
      BY DEF IInv, TypeOK, WorkType
<1>1. ASSUME NEW v \in Workers,
             \/ Begin(v) \/ Receive(v) \/ Takeable(v) \/ Drop(v) \/ Claim(v) \/ ClaimFails(v) \/ Beat(v) \/ Fetch(v)
             \/ FetchFails(v) \/ EndRun(v) \/ Finish(v) \/ FinishUnread(v) \/ Done(v) \/ Renew(v)
             \/ Look(v) \/ Quit(v) \/ Crash(v) \/ Stall(v) \/ Wake(v)
      PROVE  FALSE
      BY <1>0, <1>1, OnItStep
<1>2. ~UNCHANGED work
      BY DEF OnIt
<1>4. ASSUME NEW p \in Processes, WriteFails(p)
      PROVE  FALSE
      BY <1>0, <1>4, FailedWrite
<1>3. ASSUME NEW p \in Processes, Write(p)
      PROVE  p = w /\ section[w].op = "claim"
  <2>1. After(p)
        BY <1>3 DEF Write
  <2>2. p = w
        BY <1>0, <2>1, AfterWorks DEF OnIt
  <2>3. work[w] \in Works /\ WorkersFit /\ section[w] # None
        BY <1>0, <1>3, <2>2 DEF WorkType, IInv, Write, Free
  <2> QED
      BY <1>0, <2>1, <2>2, <2>3, AfterWorks DEF OnIt, Works, WorkersFit, Pending, Free
<1> QED
    BY <1>1, <1>2, <1>3, <1>4 DEF Next, Serve, Follow, Submit, Cancel, Pause, Resume, Expire, Enqueue, List, Judge,
       CrashApi, Age, Lapse, vars, Processes

\* A worker that is at a message holds it alone: a message that is hidden is
\* not given to another, and only a worker that stalls lets the hold lapse.
LEMMA BusyStep ==
    ASSUME IInv, [Next]_vars, BusyHolds, ~Excusable'
    PROVE  BusyHolds'
<1>0. MessagesType /\ WorkType
      BY DEF IInv, TypeOK, MessagesType, WorkType
<1> SUFFICES ASSUME NEW w \in Workers, Busy(w)'
             PROVE  /\ Holds(w)' /\ messages'[work'[w].id].hidden
                    /\ \A v \in Workers : Busy(v)' /\ work'[v].id = work'[w].id => v = w
    BY DEF BusyHolds
<1>1. \A v \in Workers : Busy(v)' => Receive(v) \/ (GoesOn(v) /\ Busy(v))
      BY Places DEF LetsGo, GoesOn, Busy
<1>2. ASSUME NEW v \in Workers, Receive(v)
      PROVE  \E i \in DOMAIN messages :
               /\ ~messages[i].hidden /\ messages' = [messages EXCEPT ![i] = [takes |-> messages[i].takes + 1, hidden |-> TRUE]]
               /\ work'[v].id = i /\ work'[v].takes = messages[i].takes + 1
               /\ \A u \in Workers : u # v => work'[u] = work[u]
  <2>1. PICK i \in DOMAIN messages :
               /\ ~messages[i].hidden /\ messages' = [messages EXCEPT ![i] = [takes |-> messages[i].takes + 1, hidden |-> TRUE]]
               /\ Set(v, [work[v] EXCEPT !.at = "took", !.id = i, !.takes = messages[i].takes + 1])
        BY <1>2 DEF Receive
  <2> QED
      BY <2>1, <1>0 DEF Set, WorkType, Works
<1>3. CASE \E v \in Workers : Receive(v)
  <2>1. PICK v \in Workers : Receive(v)
        BY <1>3
  <2>2. PICK i \in DOMAIN messages :
               /\ ~messages[i].hidden /\ messages' = [messages EXCEPT ![i] = [takes |-> messages[i].takes + 1, hidden |-> TRUE]]
               /\ work'[v].id = i /\ work'[v].takes = messages[i].takes + 1
               /\ \A u \in Workers : u # v => work'[u] = work[u]
        BY <2>1, <1>2
  <2>3. \A u \in Workers : u # v /\ Busy(u)' => Busy(u) /\ work'[u] = work[u] /\ work[u].id # i
        BY <2>2 DEF BusyHolds, Busy
  <2> QED
      BY <1>0, <2>2, <2>3 DEF BusyHolds, Holds, MessagesType
<1>4. CASE \A v \in Workers : ~Receive(v)
  <2>1. \A v \in Workers : Busy(v)' => Busy(v) /\ work'[v].id = work[v].id /\ work'[v].takes = work[v].takes
        BY <1>1, <1>4 DEF GoesOn
  <2>2. Holds(w) /\ messages[work[w].id].hidden
        BY <2>1 DEF BusyHolds
  <2>3. \A v \in Workers : Busy(v)' /\ work'[v].id = work'[w].id => v = w
        BY <2>1 DEF BusyHolds
  <2>4. work[w].id \in DOMAIN messages' /\ messages'[work[w].id] = messages[work[w].id]
    <3>1. CASE UNCHANGED messages
          BY <3>1, <2>2 DEF Holds
    <3>2. CASE Add
          BY <3>2, <2>2, <1>0 DEF Add, Holds, MessagesType
    <3>3. ASSUME NEW v \in Workers, (Drop(v) \/ Done(v)) /\ Remove(v)
          PROVE  work[w].id \in DOMAIN messages' /\ messages'[work[w].id] = messages[work[w].id]
      <4>1. Busy(v) /\ LetsGo(v)
        <5>1. CASE Drop(v)
              BY <5>1, <1>0 DEF Drop, Busy, LetsGo, Set, WorkType, Works
        <5>2. CASE Done(v)
              BY <5>2, <1>0 DEF Done, Over, Busy, LetsGo, Set, Off, WorkType
        <5> QED
            BY <3>3, <5>1, <5>2
      <4>2. v # w
            BY <4>1 DEF LetsGo, Busy
      <4>3. work[v].id # work[w].id
            BY <4>1, <4>2, <2>1 DEF BusyHolds
      <4> QED
          BY <3>3, <4>3, <2>2 DEF Remove, Holds
    <3>4. ASSUME NEW v \in Workers, Renew(v)
          PROVE  work[w].id \in DOMAIN messages' /\ messages'[work[w].id] = messages[work[w].id]
      <4>1. CASE UNCHANGED messages
            BY <4>1, <2>2 DEF Holds
      <4>2. CASE Holds(v) /\ ~messages[work[v].id].hidden /\ messages' = [messages EXCEPT ![work[v].id].hidden = TRUE]
            BY <4>2, <2>2, <1>0 DEF Holds, MessagesType
      <4> QED
          BY <3>4, <4>1, <4>2 DEF Renew
    <3>5. ASSUME NEW i \in DOMAIN messages, Lapse(i)
          PROVE  work[w].id \in DOMAIN messages' /\ messages'[work[w].id] = messages[work[w].id]
      <4>1. work[w].id # i
        <5>1. work[w].id = i => ~Acts(w)
              BY <3>5, <2>2 DEF Lapse
        <5>2. work[w].id = i => work[w].stalled
              BY <5>1, <2>1 DEF Acts, Busy
        <5> QED
            BY <3>5, <5>2 DEF Lapse, Excusable
      <4> QED
          BY <3>5, <4>1, <2>2, <1>0 DEF Lapse, Holds, MessagesType
    <3> QED
        BY <3>1, <3>2, <3>3, <3>4, <3>5, <1>4, Messages
  <2> QED
      BY <2>1, <2>2, <2>3, <2>4 DEF Holds
<1> QED
    BY <1>3, <1>4

---------------------------------------------------------------------------
(* Verdicts.                                                               *)

\* What excuses a wrong verdict stays, so before it there has been none.
LEMMA ExcuseGrows ==
    ASSUME TypeOK, [Next]_vars, ~Excusable'
    PROVE  ~Excusable /\ (DeadIsDead => "misjudged" \notin scars)
BY HistoryGrows DEF Excusable, DeadIsDead

\* A run that holds its message is watched from before its claim to its end.
RunsAreWatched == \A w \in Workers : work[w].at = "claim" \/ OnIt(w) => work[w].watch
LEMMA WatchKept ==
    ASSUME IInv, [Next]_vars, BusyHolds, RunsAreWatched
    PROVE  RunsAreWatched'
<1>0. TypeOK /\ WorkType /\ WatchesFit /\ WorkersFit /\ RunsAreWatched
      BY DEF IInv, TypeOK, WorkType
<1> USE DEF WorkType, RunsAreWatched, OnIt
<1>1. CASE UNCHANGED work
      BY <1>0, <1>1
<1>2. ASSUME NEW w \in Workers, \A v \in Workers : v # w => UNCHANGED work[v], work'[w].at \in {"claim", "fetch", "run", "end"} => work'[w].watch
      PROVE  RunsAreWatched'
      BY <1>0, <1>2
<1>3. ASSUME NEW w \in Workers, NEW new, Set(w, new), new.at \in {"claim", "fetch", "run", "end"} => new.watch PROVE RunsAreWatched'
      BY <1>0, <1>2, <1>3 DEF Set
<1>w. ASSUME NEW w \in Workers
      PROVE  work[w] \in Works /\ (work[w].at \in {"claim", "fetch", "run", "end"} => work[w].watch)
      BY <1>0
<1>6. ASSUME NEW w \in Workers, Begin(w) PROVE RunsAreWatched'
      BY <1>1, <1>3, <1>6, <1>w DEF Begin, Off, Works
<1>7. ASSUME NEW w \in Workers, Drop(w) PROVE RunsAreWatched'
      BY <1>1, <1>3, <1>7, <1>w DEF Drop, Works
<1>8. ASSUME NEW w \in Workers, ClaimFails(w) PROVE RunsAreWatched'
      BY <1>1, <1>3, <1>8, <1>w DEF ClaimFails, Works
<1>9. ASSUME NEW w \in Workers, Fetch(w) PROVE RunsAreWatched'
      BY <1>1, <1>3, <1>9, <1>w DEF Fetch, Works
<1>10. ASSUME NEW w \in Workers, FetchFails(w) PROVE RunsAreWatched'
      BY <1>1, <1>3, <1>10, <1>w DEF FetchFails, Works
<1>11. ASSUME NEW w \in Workers, EndRun(w) PROVE RunsAreWatched'
      BY <1>1, <1>3, <1>11, <1>w DEF EndRun, Works
<1>12. ASSUME NEW w \in Workers, Receive(w) PROVE RunsAreWatched'
  <2>1. PICK i : Set(w, [work[w] EXCEPT !.at = "took", !.id = i, !.takes = messages[i].takes + 1])
        BY <1>12 DEF Receive
  <2> QED BY <1>3, <1>12, <1>w, <2>1 DEF Receive, Works
<1>13. ASSUME NEW w \in Workers, Takeable(w) PROVE RunsAreWatched'
      BY <1>1, <1>3, <1>13, <1>w DEF Takeable, Works
<1>14. ASSUME NEW w \in Workers, Claim(w) PROVE RunsAreWatched'
      BY <1>1, <1>3, <1>14, <1>w DEF Claim, Works
<1>15. ASSUME NEW w \in Workers, Finish(w) PROVE RunsAreWatched'
      BY <1>1, <1>3, <1>15, <1>w DEF Finish, Works
<1>16. ASSUME NEW w \in Workers, FinishUnread(w) PROVE RunsAreWatched'
      BY <1>1, <1>3, <1>16, <1>w DEF FinishUnread, Works
<1>17. ASSUME NEW w \in Workers, Done(w) PROVE RunsAreWatched'
      BY <1>1, <1>3, <1>17, <1>w DEF Done, Off, Works
<1>18. ASSUME NEW w \in Workers, Renew(w) PROVE RunsAreWatched'
  <2>1. Holds(w)
        BY <1>0, <1>18 DEF Renew, Watching, WatchesFit, FromClaim, BusyHolds, Busy
  <2> QED BY <1>1, <1>18, <2>1 DEF Renew
<1>19. ASSUME NEW w \in Workers, Look(w) PROVE RunsAreWatched'
      BY <1>1, <1>3, <1>19, <1>w DEF Look, Works
<1>20. ASSUME NEW w \in Workers, Quit(w) PROVE RunsAreWatched'
      BY <1>1, <1>3, <1>20, <1>w DEF Quit, Off, Works
<1>21. ASSUME NEW w \in Workers, Crash(w) PROVE RunsAreWatched'
      BY <1>1, <1>3, <1>21, <1>w DEF Crash, Off, Works
<1>22. ASSUME NEW w \in Workers, Stall(w) PROVE RunsAreWatched'
      BY <1>1, <1>3, <1>22, <1>w DEF Stall, Works
<1>23. ASSUME NEW w \in Workers, Wake(w) PROVE RunsAreWatched'
      BY <1>1, <1>3, <1>23, <1>w DEF Wake, Works
<1>5. ASSUME NEW p \in Processes, Write(p) \/ WriteFails(p) PROVE RunsAreWatched'
  <2>1. CASE UNCHANGED work
        BY <1>1, <2>1
  <2>2. CASE ~UNCHANGED work
    <3>1. /\ section[p] # None /\ \A v \in Workers : v # p => UNCHANGED work[v]
          /\ p \in Workers =>
               \/ UNCHANGED work[p]
               \/ section[p].op = "finish" /\ work'[p] = [work[p] EXCEPT !.at = "done", !.handle = FALSE]
               \/ section[p].op = "finish" /\ work'[p] = [work[p] EXCEPT !.at = "unsaid", !.handle = FALSE]
               \/ section[p].op = "claim" /\ work'[p] = [work[p] EXCEPT !.at = "fetch", !.handle = TRUE]
               \/ section[p].op \in {"dead", "refuse"} /\ work'[p] = [work[p] EXCEPT !.at = "drop"]
          BY <1>5, <1>0 DEF Write, WriteFails, After, Set, Free
    <3>2. CASE p \notin Workers
          BY <1>0, <2>2, <3>1, <3>2
    <3>3. CASE p \in Workers
      <4>1. work[p] \in Works /\ (work[p].at \in {"claim", "fetch", "run", "end"} => work[p].watch)
            BY <1>0, <3>3
      <4>2. section[p].op = "claim" => work[p].at = "claim"
            BY <1>0, <3>1, <3>3 DEF WorkersFit, Pending, Free
      <4>3. work'[p].at \in {"claim", "fetch", "run", "end"} => work'[p].watch
            BY <3>1, <3>3, <4>1, <4>2 DEF Works
      <4> QED BY <1>2, <3>1, <3>3, <4>3
    <3> QED BY <3>2, <3>3
  <2> QED BY <2>1, <2>2
<1> QED
      BY <1>1, <1>5, <1>6, <1>7, <1>8, <1>9, <1>10, <1>11, <1>12, <1>13, <1>14, <1>15, <1>16, <1>17, <1>18, <1>19, <1>20, <1>21, <1>22, <1>23
      DEF Next, Processes, Serve, Follow, Submit, Cancel, Pause, Resume, Expire, Enqueue, List, Judge, CrashApi, Age,
          Lapse, Beat, vars

\* A run begins with a heartbeat, and while its worker acts it has one.
LEMMA FreshStep ==
    ASSUME IInv, [Next]_vars, BusyHolds, RunIsFresh, ~Excusable'
    PROVE  RunIsFresh'
<1>w. RunsAreWatched'
      BY WatchKept DEF RunsAreWatched, RunIsFresh
<1> SUFFICES ASSUME NEW w \in Workers, OnIt(w)'
             PROVE  fresh'
    BY <1>w DEF RunIsFresh, RunsAreWatched
<1>1. CASE ~OnIt(w)
      BY <1>1, ComesOn DEF Write
<1>2. CASE OnIt(w)
  <2>1. ~Age
    <3>1. work[w].at # "off" /\ work[w].watch
          BY <1>2 DEF OnIt, RunIsFresh
    <3> QED
        BY <1>2, <3>1 DEF Age, Watching, Acts, Excusable
  <2>2. fresh => fresh'
    <3>1. CASE Serve \/ Follow \/ CrashApi \/ UNCHANGED vars
          BY <3>1 DEF Serve, Follow, Submit, Cancel, Pause, Resume, Expire, Enqueue, List, Judge, CrashApi, vars
    <3>2. ASSUME NEW v \in Workers,
                 \/ Begin(v) \/ Receive(v) \/ Takeable(v) \/ Drop(v) \/ Claim(v) \/ ClaimFails(v) \/ Beat(v) \/ Fetch(v)
                 \/ FetchFails(v) \/ EndRun(v) \/ Finish(v) \/ FinishUnread(v) \/ Done(v) \/ Renew(v)
                 \/ Look(v) \/ Quit(v) \/ Crash(v) \/ Stall(v) \/ Wake(v)
          PROVE  UNCHANGED fresh
          BY <3>2 DEF Begin, Receive, Takeable, Drop, Claim, ClaimFails, Beat, Fetch, FetchFails, EndRun, Finish,
                      FinishUnread, Done, Renew, Look, Quit, Crash, Stall, Wake
    <3>3. ASSUME NEW p \in Processes, Write(p) \/ WriteFails(p)
          PROVE  fresh => fresh'
          BY <3>3 DEF Write, WriteFails
    <3>4. ASSUME NEW i \in DOMAIN messages, Lapse(i)
          PROVE  UNCHANGED fresh
          BY <3>4 DEF Lapse
    <3> QED
        BY <2>1, <3>1, <3>2, <3>3, <3>4 DEF Next, Processes
  <2> QED
      BY <1>2, <2>2 DEF RunIsFresh
<1> QED
    BY <1>1, <1>2

\* A verdict to be written is older than this step and has not been outrun, or
\* it has just been reached.
LEMMA Verdicts ==
    ASSUME IInv, [Next]_vars, NEW p \in Processes, Pending(p, {"dead"})', ~section'[p].late
    PROVE  \/ p = Api /\ Judge
           \/ p \in Workers /\ Takeable(p) /\ LeftRunning(p) /\ ~Pending(p, {"dead"})
           \/ /\ Pending(p, {"dead"}) /\ ~section[p].late
              /\ \A q \in Processes : Write(q) => q # p /\ section[q].new = record
<1>0. SectionType /\ Api \in Processes /\ Workers \subseteq Processes
      BY DEF IInv, TypeOK, SectionType, Processes
<1> DEFINE Same == section'[p] = section[p]
<1>1. ASSUME NEW q \in Processes, Write(q)
      PROVE  Pending(p, {"dead"}) /\ ~section[p].late /\ q # p /\ section[q].new = record
  <2>1. Leave(q, IF section[q].op # "resume" THEN None
                 ELSE [op |-> "enqueue", new |-> Paused(section[q].new), late |-> FALSE])
        BY <1>1 DEF Write
  <2>2. q # p
        BY <2>1, <1>0 DEF Leave, Pending, Free
  <2>3. section'[p] = IF section[p] # None /\ section[q].new # record THEN [section[p] EXCEPT !.late = TRUE] ELSE section[p]
        BY <2>1, <2>2 DEF Leave
  <2> QED
      BY <2>2, <2>3, <1>0 DEF Pending, Free, SectionType, Sections
<1>2. ASSUME NEW op, NEW new, NEW q \in Processes, Enter(q, op, new), op # "dead"
      PROVE  Same
      BY <1>2, <1>0 DEF Enter, SectionType, Pending
<1>3. ASSUME NEW q \in Processes, section' = [section EXCEPT ![q] = None]
      PROVE  Same
      BY <1>3, <1>0 DEF SectionType, Pending, Free
<1>4. ASSUME Serve
      PROVE  Same
  <2>1. CASE Enqueue
        BY <2>1, <1>0, <1>3 DEF Enqueue, SectionType, Pending, Free, Sections
  <2>2. CASE ~Enqueue
        BY <2>2, <1>4, <1>0, <1>2 DEF Serve, Submit, Cancel, Pause, Resume, Expire
  <2> QED
      BY <2>1, <2>2
<1>5. ASSUME CrashApi
      PROVE  Same
      BY <1>5, <1>0, <1>3 DEF CrashApi
<1>6. ASSUME NEW v \in Workers, ClaimFails(v) \/ Crash(v) \/ Quit(v) \/ Done(v)
      PROVE  Same
      BY <1>6, <1>0, <1>3 DEF ClaimFails, Crash, Quit, Done
<1>13. ASSUME NEW q \in Processes, WriteFails(q)
      PROVE  Same
      BY <1>13, <1>3 DEF WriteFails
<1>7. ASSUME NEW v \in Workers, Claim(v) \/ Beat(v) \/ FetchFails(v) \/ Finish(v)
      PROVE  Same
      BY <1>7, <1>0, <1>2 DEF Claim, Beat, FetchFails, Finish
<1>8. ASSUME NEW v \in Workers, Takeable(v)
      PROVE  Same \/ (p = v /\ LeftRunning(p) /\ ~Pending(p, {"dead"}))
  <2>1. CASE LeftRunning(v) /\ Enter(v, "dead", Paused(record)) /\ Free(v)
        BY <2>1, <1>0 DEF Enter, SectionType, Pending, Free
  <2>2. CASE UNCHANGED section \/ \E new : Enter(v, "refuse", new)
        BY <2>2, <1>0, <1>2
  <2> QED
      BY <1>8, <2>1, <2>2 DEF Takeable
<1>9. ASSUME Judge
      PROVE  Same \/ p = Api
      BY <1>9, <1>0 DEF Judge, Enter, SectionType
<1>10. ASSUME \/ List \/ Age \/ UNCHANGED vars \/ (\E i \in DOMAIN messages : Lapse(i))
              \/ \E v \in Workers : \/ Begin(v) \/ Receive(v) \/ Drop(v) \/ Fetch(v) \/ EndRun(v) \/ FinishUnread(v)
                                    \/ Renew(v) \/ Look(v) \/ Stall(v) \/ Wake(v)
       PROVE  Same
  <2>1. UNCHANGED section
        BY <1>10 DEF List, Age, vars, Lapse, Begin, Receive, Drop, Fetch, EndRun, FinishUnread, Renew, Look, Stall,
          Wake
  <2> QED
      BY <2>1
<1>11. CASE Same \/ \E q \in Processes : Write(q)
  <2>1. Pending(p, {"dead"}) /\ ~section[p].late
        BY <1>1, <1>11 DEF Pending, Free
  <2> QED
      BY <2>1, <1>1
<1>12. CASE ~Same /\ \A q \in Processes : ~Write(q)
       BY <1>4, <1>5, <1>6, <1>7, <1>8, <1>9, <1>10, <1>12, <1>13 DEF Next, Follow, Processes
<1> QED
    BY <1>11, <1>12

\* Who is declared dead has let go of the job: a fresh heartbeat or the hold of
\* the message would have shown a worker on it, and one that claims it after the
\* verdict was read finds its own write outrun.
LEMMA NobodyStep ==
    ASSUME IInv, [Next]_vars, BusyHolds, RunIsFresh, DeadFoundNobody, ~Excusable'
    PROVE  DeadFoundNobody'
<1>0. SectionsFit /\ WorkersFit
      BY DEF IInv
<1> SUFFICES ASSUME NEW p \in Processes, Pending(p, {"dead"})', ~section'[p].late, NEW w \in Workers, OnIt(w)'
             PROVE  FALSE
    BY DEF DeadFoundNobody
<1>1. CASE Judge
  <2>1. ~fresh
        BY <1>1 DEF Judge, Excusable
  <2>2. OnIt(w)
        BY <1>1 DEF Judge, OnIt
  <2> QED
      BY <2>1, <2>2 DEF RunIsFresh
<1>2. CASE p \in Workers /\ Takeable(p) /\ LeftRunning(p) /\ ~Pending(p, {"dead"})
  <2>1. /\ Enter(p, "dead", Paused(record)) /\ UNCHANGED work /\ work[p].at = "took"
        /\ DOMAIN messages = {work[p].id}
        BY <1>2 DEF Takeable, LeftRunning, Excusable, Pending, Free
  <2>2. OnIt(w) /\ w # p
        BY <2>1 DEF OnIt
  <2> QED
      BY <1>2, <2>1, <2>2 DEF BusyHolds, Busy, OnIt, Holds
<1>3. CASE /\ Pending(p, {"dead"}) /\ ~section[p].late
           /\ \A q \in Processes : Write(q) => q # p /\ section[q].new = record
  <2>1. ~OnIt(w)
        BY <1>3 DEF DeadFoundNobody
  <2>2. Write(w) /\ section[w].op = "claim" /\ section[w] # None
        BY <2>1, ComesOn DEF Write, Free
  <2>3. section[w].new = record /\ ~section[w].late
        BY <1>3, <2>2 DEF Processes, Write, Harm, Excusable
  <2> QED
      BY <1>0, <2>2, <2>3 DEF SectionsFit, Fits, Processes
<1> QED
    BY <1>1, <1>2, <1>3, Verdicts

\* A step declares a worker dead that is on the job only if it is excused.
LEMMA DeadStep ==
    ASSUME IInv, [Next]_vars, Watched
    PROVE  DeadIsDead'
<1> SUFFICES ASSUME "misjudged" \in scars', ~Excusable'
             PROVE  FALSE
    BY DEF DeadIsDead, Excusable
<1>1. ~Excusable /\ "misjudged" \notin scars
      BY ExcuseGrows DEF Watched, IInv
<1>2. ASSUME NEW p \in Processes, Write(p)
      PROVE  FALSE
  <2>1. ~section[p].late /\ Pending(p, {"dead"}) /\ \E w \in Workers : OnIt(w)
        BY <1>1, <1>2 DEF Write, Harm, Excusable, Pending
  <2> QED
      BY <1>1, <2>1 DEF Watched, DeadFoundNobody
<1>3. CASE Serve \/ Follow \/ CrashApi \/ Age \/ UNCHANGED vars \/ \E i \in DOMAIN messages : Lapse(i)
      BY <1>1, <1>3 DEF Serve, Follow, Submit, Cancel, Pause, Resume, Expire, Enqueue, List, Judge, CrashApi, Age, vars, Lapse
<1>4. ASSUME NEW v \in Workers, Takeable(v) \/ Claim(v) \/ ClaimFails(v) \/ Renew(v) \/ Look(v) \/ Done(v)
      PROVE  scars' \subseteq scars \cup {"redelivered", "error", "lost", "latepause", "robbed"}
      BY <1>4 DEF Takeable, Claim, ClaimFails, Renew, Look, Done
<1>6. ASSUME NEW p \in Processes, WriteFails(p)
      PROVE  scars' \subseteq scars \cup {"error"}
      BY <1>6 DEF WriteFails
<1>5. ASSUME NEW v \in Workers,
             \/ Begin(v) \/ Receive(v) \/ Drop(v) \/ Beat(v) \/ Fetch(v) \/ FetchFails(v) \/ EndRun(v) \/ Finish(v)
             \/ FinishUnread(v) \/ Quit(v) \/ Crash(v) \/ Stall(v) \/ Wake(v)
      PROVE  UNCHANGED scars
      BY <1>5 DEF Begin, Receive, Drop, Beat, Fetch, FetchFails, EndRun, Finish, FinishUnread, Quit, Crash, Stall, Wake
<1> QED
    BY <1>1, <1>2, <1>3, <1>4, <1>5, <1>6 DEF Next, Processes

---------------------------------------------------------------------------
(* Queued jobs.                                                            *)

\* Entering a section, or leaving one unwritten, keeps OnlyResumes.
LEMMA EnterResumes ==
    ASSUME SectionType, OnlyResumes, NEW p \in Processes, NEW op, NEW new, Enter(p, op, new),
           new.status = "queued" => op \in {"resume", "beat"}
    PROVE  OnlyResumes'
BY DEF SectionType, OnlyResumes, Enter, Free

LEMMA LeaveResumes ==
    ASSUME SectionType, OnlyResumes, NEW p \in Processes, section' = [section EXCEPT ![p] = None]
    PROVE  OnlyResumes'
BY DEF SectionType, OnlyResumes, Free

\* No section but that of a resume, or of a heartbeat, will say queued.
LEMMA ResumeStep ==
    ASSUME IInv, [Next]_vars, OnlyResumes
    PROVE  OnlyResumes'
<1>0. SectionType /\ record \in Records /\ Api \in Processes /\ Workers \subseteq Processes
      BY DEF IInv, TypeOK, SectionType, Processes
<1>1. CASE UNCHANGED section
      BY <1>1 DEF OnlyResumes, Free
<1>2. CASE Submit \/ Cancel \/ Pause \/ Resume \/ Expire \/ Judge
      BY <1>0, <1>1, <1>2, EnterResumes DEF Submit, Cancel, Pause, Resume, Expire, Judge, Records, Paused
<1>3. CASE Enqueue
      BY <1>0, <1>3 DEF Enqueue, OnlyResumes, SectionType, Sections, Free
<1>4. CASE CrashApi
      BY <1>0, <1>4, LeaveResumes DEF CrashApi
<1>5. ASSUME NEW w \in Workers, ClaimFails(w) \/ Crash(w) \/ Quit(w) \/ Done(w)
      PROVE  OnlyResumes'
      BY <1>0, <1>1, <1>5, LeaveResumes DEF ClaimFails, Crash, Quit, Done
<1>11. ASSUME NEW p \in Processes, WriteFails(p)
      PROVE  OnlyResumes'
      BY <1>0, <1>11, LeaveResumes DEF WriteFails
<1>6. ASSUME NEW w \in Workers, Takeable(w)
      PROVE  OnlyResumes'
      BY <1>0, <1>1, <1>6, EnterResumes DEF Takeable, Records, Paused
<1>7. ASSUME NEW w \in Workers, Claim(w) \/ Beat(w)
      PROVE  OnlyResumes'
      BY <1>0, <1>1, <1>7, EnterResumes DEF Claim, Beat, Records
<1>8. ASSUME NEW w \in Workers, FetchFails(w) \/ Finish(w)
      PROVE  OnlyResumes'
      BY <1>0, <1>8, EnterResumes DEF FetchFails, Finish, Records, Paused
<1>9. ASSUME NEW p \in Processes, Write(p)
      PROVE  OnlyResumes'
  <2>1. /\ section[p] \in Sections
        /\ Leave(p, IF section[p].op # "resume" THEN None
                    ELSE [op |-> "enqueue", new |-> Paused(section[p].new), late |-> FALSE])
        BY <1>0, <1>9 DEF Write, SectionType, Free
  <2> SUFFICES ASSUME NEW q \in Processes, ~Free(q)', section'[q].new.status = "queued"
               PROVE  section'[q].op \in {"resume", "beat"}
      BY DEF OnlyResumes
  <2>2. CASE q = p
    <3>1. section'[p] # None => section'[p].new.status = "paused"
          BY <2>1 DEF Leave, Sections, Records, Paused
    <3> QED
        BY <2>2, <3>1 DEF Free
  <2>3. CASE q # p
    <3>1. section'[q] = IF section[q] # None /\ section[p].new # record THEN [section[q] EXCEPT !.late = TRUE]
                        ELSE section[q]
          BY <2>1, <2>3 DEF Leave
    <3>2. section[q] \in Sections /\ section'[q].op = section[q].op /\ section'[q].new = section[q].new
          BY <1>0, <3>1 DEF Free, SectionType, Sections
    <3> QED
        BY <3>2, NoneAssumption DEF OnlyResumes, Free
  <2> QED
      BY <2>2, <2>3
<1>10. CASE List \/ Age \/ UNCHANGED vars \/ (\E i \in DOMAIN messages : Lapse(i))
            \/ \E v \in Workers : \/ Begin(v) \/ Receive(v) \/ Drop(v) \/ Fetch(v) \/ EndRun(v) \/ FinishUnread(v)
                                  \/ Renew(v) \/ Look(v) \/ Stall(v) \/ Wake(v)
       BY <1>1, <1>10 DEF List, Age, vars, Lapse, Begin, Receive, Drop, Fetch, EndRun, FinishUnread, Renew, Look, Stall,
          Wake
<1> QED
    BY <1>2, <1>3, <1>4, <1>5, <1>6, <1>7, <1>8, <1>9, <1>10, <1>11 DEF Next, Serve, Follow, Processes

\* A message that stays is as it was, or has been taken once more, or hidden or
\* shown; a new one has the next number.
LEMMA MessagesStay ==
    ASSUME IInv, [Next]_vars
    PROVE  /\ sent' \in Nat /\ sent <= sent'
           /\ \A i \in DOMAIN messages' :
                \/ i = sent + 1 /\ i \notin DOMAIN messages
                \/ /\ i \in DOMAIN messages
                   /\ \/ messages'[i].takes = messages[i].takes
                      \/ /\ messages'[i].takes = messages[i].takes + 1
                         /\ \E v \in Workers : Receive(v) /\ work'[v].id = i /\ work'[v].takes = messages'[i].takes
<1>0. MessagesType /\ WorkType
      BY DEF IInv, TypeOK, MessagesType, WorkType
<1>1. ASSUME NEW v \in Workers, Receive(v)
      PROVE  \A i \in DOMAIN messages' :
                /\ i \in DOMAIN messages
                /\ \/ messages'[i].takes = messages[i].takes
                   \/ /\ messages'[i].takes = messages[i].takes + 1
                      /\ Receive(v) /\ work'[v].id = i /\ work'[v].takes = messages'[i].takes
  <2>1. PICK k \in DOMAIN messages :
               /\ messages' = [messages EXCEPT ![k] = [takes |-> messages[k].takes + 1, hidden |-> TRUE]]
               /\ Set(v, [work[v] EXCEPT !.at = "took", !.id = k, !.takes = messages[k].takes + 1])
        BY <1>1 DEF Receive
  <2>2. work'[v].id = k /\ work'[v].takes = messages[k].takes + 1
        BY <2>1, <1>0 DEF Set, WorkType, Works
  <2> QED
      BY <1>1, <2>1, <2>2, <1>0 DEF MessagesType
<1>2. ASSUME NEW v \in Workers, Remove(v) \/ Renew(v)
      PROVE  \A i \in DOMAIN messages' : i \in DOMAIN messages /\ messages'[i].takes = messages[i].takes
  <2>1. CASE Remove(v)
        BY <2>1 DEF Remove
  <2>2. CASE Renew(v)
    <3>1. UNCHANGED messages \/ (Holds(v) /\ messages' = [messages EXCEPT ![work[v].id].hidden = TRUE])
          BY <2>2 DEF Renew
    <3> QED
        BY <3>1, <1>0 DEF Holds, MessagesType
  <2> QED
      BY <1>2, <2>1, <2>2
<1>3. ASSUME NEW k \in DOMAIN messages, Lapse(k)
      PROVE  \A i \in DOMAIN messages' : i \in DOMAIN messages /\ messages'[i].takes = messages[i].takes
      BY <1>3, <1>0 DEF Lapse, MessagesType
<1>4. CASE Add
      BY <1>4, <1>0 DEF Add, MessagesType
<1>5. CASE UNCHANGED <<messages, sent>>
      BY <1>5, <1>0 DEF MessagesType
<1> QED
    BY <1>0, <1>1, <1>2, <1>3, <1>4, <1>5, Messages DEF MessagesType

\* A worker knows of its message what the queue said when it took it.
LEMMA TakenStep ==
    ASSUME IInv, [Next]_vars, TakenIsSent
    PROVE  TakenIsSent'
<1>0. MessagesType /\ WorkType
      BY DEF IInv, TypeOK, MessagesType, WorkType
<1> SUFFICES ASSUME NEW w \in Workers
             PROVE  /\ work'[w].id <= sent'
                    /\ ~Busy(w)' => work'[w].id = 0
                    /\ work'[w].id \in DOMAIN messages' => work'[w].takes <= messages'[work'[w].id].takes
                    /\ work'[w].at \in {"took", "claim"} => work'[w].ctx # "cancelled"
    BY DEF TakenIsSent
<1>s. sent \in Nat /\ sent' \in Nat /\ sent <= sent'
      BY <1>0, MessagesStay DEF MessagesType
<1>1. CASE Receive(w)
  <2>1. PICK i \in DOMAIN messages :
               /\ messages' = [messages EXCEPT ![i] = [takes |-> messages[i].takes + 1, hidden |-> TRUE]]
               /\ Set(w, [work[w] EXCEPT !.at = "took", !.id = i, !.takes = messages[i].takes + 1])
        BY <1>1 DEF Receive
  <2>2. work[w] \in Works /\ work[w].ctx = "open"
        BY <1>0, <1>1 DEF WorkType, Receive
  <2>3. work'[w].at = "took" /\ work'[w].id = i /\ work'[w].takes = messages[i].takes + 1 /\ work'[w].ctx = "open"
        BY <2>1, <2>2, <1>0 DEF Set, WorkType, Works
  <2> QED
      BY <1>s, <2>1, <2>3, <1>0 DEF MessagesType, Busy
<1>2. CASE LetsGo(w)
  <2>1. 0 \notin DOMAIN messages'
        BY <1>0, MessagesStay DEF MessagesType
  <2> QED
      BY <1>2, <2>1, <1>s DEF LetsGo, Busy
<1>3. CASE GoesOn(w)
  <2>1. work[w].id \in Nat /\ work[w].takes \in Nat
        BY <1>0 DEF WorkType, Works
  <2>2. work'[w].id <= sent' /\ (~Busy(w)' => work'[w].id = 0)
        BY <1>3, <1>s, <2>1 DEF GoesOn, TakenIsSent
  <2>3. work'[w].id \in DOMAIN messages' => work'[w].takes <= messages'[work'[w].id].takes
    <3>1. ASSUME work[w].id \in DOMAIN messages'
          PROVE  work[w].id \in DOMAIN messages /\ messages[work[w].id].takes <= messages'[work[w].id].takes
      <4>1. work[w].id # sent + 1
            BY <1>s, <2>1 DEF TakenIsSent
      <4> QED
          BY <3>1, <4>1, <1>0, MessagesStay DEF MessagesType
    <3>2. ASSUME work[w].id \in DOMAIN messages'
          PROVE  messages[work[w].id].takes \in Nat /\ messages'[work[w].id].takes \in Nat
          BY <3>1, <3>2, <1>0, MessagesStay DEF MessagesType
    <3> QED
        BY <1>3, <2>1, <3>1, <3>2 DEF GoesOn, TakenIsSent
  <2>4. work'[w].at \in {"took", "claim"} => work'[w].ctx # "cancelled"
        BY <1>3 DEF GoesOn, TakenIsSent
  <2> QED
      BY <2>2, <2>3, <2>4
<1> QED
    BY <1>1, <1>2, <1>3, Places

\* A fault that may leave a queued job without a message.
Blamed == scars \cap {"error", "crash", "overwritten", "misjudged"} # {}

\* A worker that has looked at its message and goes on to delete it has found
\* the job taken, or has made it so.
LEMMA Dooms ==
    ASSUME IInv, [Next]_vars, OnlyResumes, TakenIsSent, NEW w \in Workers,
           work[w].at \in {"took", "claim"}, Busy(w)', work'[w].at \notin {"took", "claim"}
    PROVE  record'.status # "queued" \/ Blamed'
<1>0. WorkType /\ work[w] \in Works /\ SectionsFit /\ WorkersFit
      BY DEF IInv, TypeOK, WorkType
<1>1. work'[w] # work[w]
      OBVIOUS
<1>2. ASSUME NEW v \in Workers, Receive(v)
      PROVE  v = w /\ FALSE
  <2>1. v = w
        BY <1>0, <1>1, <1>2 DEF Receive, Set, WorkType
  <2> QED
      BY <1>2, <2>1 DEF Receive
<1>3. ASSUME NEW v \in Workers,
             \/ Begin(v) \/ Takeable(v) \/ Drop(v) \/ Claim(v) \/ ClaimFails(v) \/ Beat(v) \/ Fetch(v)
             \/ FetchFails(v) \/ EndRun(v) \/ Finish(v) \/ FinishUnread(v) \/ Done(v) \/ Renew(v)
             \/ Look(v) \/ Quit(v) \/ Crash(v) \/ Stall(v) \/ Wake(v)
      PROVE  record'.status # "queued" \/ Blamed'
  <2>1. v = w /\ GoesOn(w)
        BY <1>1, <1>3, Turns DEF LetsGo, Busy
  <2>2. CASE Takeable(w)
    <3>1. CASE Set(w, [work[w] EXCEPT !.at = "drop"])
      <4>1. work'[w].at = "drop"
            BY <3>1, <1>0 DEF Set, WorkType, Works
      <4>2. Set(w, [work[w] EXCEPT !.at = "claim", !.watch = TRUE]) => work'[w].at = "claim"
            BY <1>0 DEF Set, WorkType, Works
      <4> QED
          BY <2>2, <4>1, <4>2, <1>1 DEF Takeable, Blamed
    <3>2. CASE Set(w, [work[w] EXCEPT !.at = "claim", !.watch = TRUE])
          BY <3>2, <1>0 DEF Set, WorkType, Works
    <3> QED
        BY <2>2, <3>1, <3>2, <1>1 DEF Takeable
  <2>3. CASE Claim(w)
    <3>1. ~(record.status = "queued" /\ work[w].ctx = "open")
          BY <2>3, <1>1 DEF Claim
    <3>2. work[w].ctx \in {"open", "quit"}
          BY <1>0 DEF Works, TakenIsSent
    <3>3. record' = record /\ (work[w].ctx = "quit" => "error" \in scars')
          BY <2>3, <3>1 DEF Claim
    <3> QED
        BY <3>1, <3>2, <3>3 DEF Blamed
  <2>4. CASE ClaimFails(w)
        BY <2>4 DEF ClaimFails, Blamed
  <2>5. CASE Quit(w) \/ Stall(w) \/ Wake(w)
    <3>1. work'[w].at = work[w].at \/ work'[w].at = "off"
          BY <2>5, <1>0 DEF Quit, Stall, Wake, Set, WorkType, Works, Off
    <3> QED
        BY <3>1 DEF Busy
  <2>6. CASE Crash(w)
        BY <2>6, <1>0 DEF Crash, Set, WorkType, Off, Busy
  <2>7. ~(\/ Begin(w) \/ Drop(w) \/ Fetch(w) \/ FetchFails(w) \/ EndRun(w) \/ Finish(w) \/ FinishUnread(w)
          \/ Done(w))
        BY DEF Begin, Drop, Fetch, FetchFails, EndRun, Finish, FinishUnread, Done, Over
  <2>8. ~Beat(w)
        BY <1>1 DEF Beat
  <2>9. CASE Renew(w) \/ Look(w)
    <3>1. work'[w].at = work[w].at
      <4>1. CASE Renew(w)
        <5>1. Set(w, [work[w] EXCEPT !.watch = FALSE, !.ctx = IF @ = "open" /\ OnIt(w) THEN "cancelled" ELSE @])
              BY <4>1, <1>1 DEF Renew
        <5> QED BY <5>1, <1>0 DEF Set, WorkType, Works
      <4>2. CASE Look(w)
        <5>1. CASE Set(w, [work[w] EXCEPT !.ctx = "cancelled"])
              BY <5>1, <1>0 DEF Set, WorkType, Works
        <5>2. CASE Set(w, [work[w] EXCEPT !.pausing = TRUE, !.ctx = IF @ = "open" /\ OnIt(w) THEN "cancelled" ELSE @])
              BY <5>2, <1>0 DEF Set, WorkType, Works
        <5> QED BY <4>2, <5>1, <5>2 DEF Look
      <4> QED
          BY <2>9, <4>1, <4>2
    <3> QED
        BY <3>1
  <2> QED
      BY <1>3, <2>1, <2>2, <2>3, <2>4, <2>5, <2>6, <2>7, <2>8, <2>9
<1>4. ASSUME NEW p \in Processes, Write(p)
      PROVE  record'.status # "queued" \/ Blamed'
  <2>1. p = w
        BY <1>1, <1>4, WriteTurns
  <2>4. section[w].op # "beat"
        BY <1>1, <1>4, <2>1 DEF Write, After
  <2>2. record' = section[w].new /\ ~Free(w) /\ section[w].op \notin {"beat", "finish"}
        BY <1>4, <2>1, <2>4, <1>0 DEF Write, WorkersFit, Pending
  <2>3. section[w].op # "resume"
        BY <1>0, <2>2 DEF WorkersFit, Pending
  <2> QED
      BY <2>1, <2>2, <2>3 DEF OnlyResumes
<1>6. ASSUME NEW p \in Processes, WriteFails(p)
      PROVE  Blamed'
  <2>1. p = w /\ ~Free(w)
        BY <1>1, <1>6, FailedTurns DEF WriteFails
  <2>2. section[w].op \in {"dead", "refuse"}
        BY <1>0, <1>1, <1>6, <2>1, FailedWrite DEF WorkersFit, Pending
  <2> QED
      BY <1>6, <2>1, <2>2 DEF WriteFails, Blamed
<1>5. ~UNCHANGED work
      BY <1>1
<1> QED
    BY <1>2, <1>3, <1>4, <1>5, <1>6 DEF Next, Serve, Follow, Submit, Cancel, Pause, Resume, Expire, Enqueue, List, Judge,
       CrashApi, Age, Lapse, vars, Processes

\* The API process leaves an enqueue undone by a crash only.
LEMMA ApiWaits ==
    ASSUME IInv, [Next]_vars, Pending(Api, {"enqueue", "unqueue"})
    PROVE  \/ Pending(Api, {"enqueue", "unqueue"})'
           \/ Enqueue /\ Add
           \/ CrashApi
           \/ (Write(Api) \/ WriteFails(Api)) /\ section[Api].op = "unqueue"
<1>0. SectionType /\ Api \in Processes /\ Workers \subseteq Processes /\ Api \notin Workers
      BY ProcessesAssumption DEF IInv, TypeOK, SectionType, Processes
<1> DEFINE Same == section'[Api] = section[Api]
<1>1. CASE Enqueue
      BY <1>1, <1>0, NoneAssumption DEF Enqueue, SectionType, Sections, Pending, Free
<1>2. ASSUME NEW w \in Workers, Write(w)
      PROVE  Pending(Api, {"enqueue", "unqueue"})'
  <2>1. section'[Api] = IF section[Api] # None /\ section[w].new # record THEN [section[Api] EXCEPT !.late = TRUE]
                        ELSE section[Api]
        BY <1>2, <1>0 DEF Write, Leave
  <2>2. section[Api] \in Sections /\ section'[Api] \in Sections /\ section'[Api].op = section[Api].op
        BY <1>0, <2>1 DEF Pending, Free, SectionType, Sections
  <2> QED
      BY <2>2, NoneAssumption DEF Pending, Free
<1>3. CASE Submit \/ Cancel \/ Pause \/ Resume \/ Expire \/ Judge
      BY <1>3 DEF Submit, Cancel, Pause, Resume, Expire, Judge, Pending
<1>4. ASSUME NEW w \in Workers, ClaimFails(w) \/ Crash(w) \/ Quit(w) \/ Done(w) \/ WriteFails(w)
      PROVE  Same
      BY <1>4, <1>0 DEF ClaimFails, Crash, Quit, Done, WriteFails, SectionType
<1>5. ASSUME NEW w \in Workers, Takeable(w) \/ Claim(w) \/ Beat(w) \/ FetchFails(w) \/ Finish(w)
      PROVE  Same
  <2>1. UNCHANGED section \/ \E op, new : Enter(w, op, new)
        BY <1>5 DEF Takeable, Claim, Beat, FetchFails, Finish
  <2> QED
      BY <2>1, <1>0 DEF Enter, SectionType
<1>6. CASE List \/ Age \/ UNCHANGED vars \/ (\E i \in DOMAIN messages : Lapse(i))
           \/ \E v \in Workers : \/ Begin(v) \/ Receive(v) \/ Drop(v) \/ Fetch(v) \/ EndRun(v) \/ FinishUnread(v)
                                 \/ Renew(v) \/ Look(v) \/ Stall(v) \/ Wake(v)
  <2>1. UNCHANGED section
        BY <1>6 DEF List, Age, vars, Lapse, Begin, Receive, Drop, Fetch, EndRun, FinishUnread, Renew, Look, Stall,
          Wake
  <2> QED
      BY <2>1 DEF Pending, Free
<1>7. CASE Write(Api) \/ WriteFails(Api)
      BY <1>7 DEF Write, WriteFails, Pending
<1> QED
    BY <1>1, <1>2, <1>3, <1>4, <1>5, <1>6, <1>7 DEF Next, Serve, Follow, Pending, Free

\* A message nobody is about to delete stays so while the job stays queued.
LEMMA StaysReachable ==
    ASSUME IInv, [Next]_vars, OnlyResumes, TakenIsSent, NEW i \in DOMAIN messages, ~Doomed(i),
           record'.status = "queued", ~Blamed'
    PROVE  i \in DOMAIN messages' /\ ~Doomed(i)'
<1>0. MessagesType /\ WorkType
      BY DEF IInv, TypeOK, MessagesType, WorkType
<1>1. i \in DOMAIN messages'
  <2>1. ASSUME NEW v \in Workers, Drop(v) \/ Done(v), Remove(v)
        PROVE  i \in DOMAIN messages'
        BY <2>1 DEF Remove, Doomed, Drop, Done, Over
  <2>2. CASE Add
        BY <2>2 DEF Add
  <2>3. ASSUME NEW v \in Workers, Receive(v) \/ Renew(v)
        PROVE  DOMAIN messages' = DOMAIN messages
        BY <2>3, <1>0 DEF Receive, Renew, MessagesType
  <2>4. ASSUME NEW k \in DOMAIN messages, Lapse(k)
        PROVE  DOMAIN messages' = DOMAIN messages
        BY <2>4, <1>0 DEF Lapse, MessagesType
  <2> QED
      BY <2>1, <2>2, <2>3, <2>4, Messages
<1>2. ASSUME NEW w \in Workers, work'[w].id = i, Holds(w)', work'[w].at \notin {"took", "claim"}
      PROVE  FALSE
  <2>1. ~Receive(w)
    <3>1. Receive(w) => work'[w].at = "took"
          BY <1>0 DEF Receive, Set, WorkType, Works
    <3> QED
        BY <1>2, <3>1
  <2>2. ~LetsGo(w)
        BY <1>0, <1>2 DEF LetsGo, MessagesType
  <2>3. GoesOn(w)
        BY <2>1, <2>2, Places
  <2>4. work[w].id = i /\ work[w].takes = messages'[i].takes
        BY <1>2, <2>3 DEF GoesOn, Holds
  <2>5. work[w].takes \in Nat /\ messages[i].takes \in Nat /\ messages[i].takes <= messages'[i].takes
    <3>1. work[w].takes \in Nat /\ messages[i].takes \in Nat /\ i # sent + 1
          BY <1>0 DEF WorkType, Works, MessagesType
    <3> QED
        BY <1>1, <3>1, MessagesStay
  <2>6. Holds(w)
        BY <2>4, <2>5 DEF TakenIsSent, Holds
  <2>7. work[w].at \in {"took", "claim"}
        BY <2>4, <2>6 DEF Doomed
  <2> QED
      BY <1>2, <2>3, <2>7, Dooms DEF GoesOn, Busy
<1> QED
    BY <1>1, <1>2 DEF Doomed

\* A section is not the lack of one.
LEMMA Enqueuing ==
    ASSUME NEW new \in Records
    PROVE  [op |-> "enqueue", new |-> new, late |-> FALSE] # None
<1>1. [op |-> "enqueue", new |-> new, late |-> FALSE] \in Sections
      BY DEF Sections
<1> QED
    BY <1>1, NoneAssumption

\* A job whose record says queued stays within reach of a worker.
LEMMA ReachableStep ==
    ASSUME IInv, [Next]_vars, Reached
    PROVE  QueuedIsReachable'
<1>0. /\ OnlyResumes /\ TakenIsSent /\ QueuedIsReachable /\ SectionsFit /\ WorkersFit /\ TypeOK /\ MessagesType
      /\ Api \in Processes
      BY DEF Reached, IInv, TypeOK, MessagesType, Processes
<1> SUFFICES ASSUME record'.status = "queued", ~Blamed', ~Pending(Api, {"enqueue", "unqueue"})'
             PROVE  \E i \in DOMAIN messages' : ~Doomed(i)'
    BY DEF QueuedIsReachable, Blamed, Pending
<1>1. ~Blamed
      BY <1>0, HistoryGrows DEF Blamed
<1>2. CASE record.status # "queued"
  <2>1. ~Submit
    <3>1. ASSUME Submit
          PROVE  section'[Api] = [op |-> "enqueue", new |-> [record EXCEPT !.status = "failed"], late |-> FALSE]
          BY <3>1, <1>0 DEF Submit, Enter, TypeOK
    <3>2. [record EXCEPT !.status = "failed"] \in Records
          BY <1>0, RecordEdits DEF TypeOK, Statuses, Settled
    <3> QED
        BY <3>1, <3>2, Enqueuing DEF Pending, Free
  <2>2. ASSUME NEW p \in Processes, Write(p)
        PROVE  FALSE
    <3>1. record' = section[p].new /\ ~Free(p) /\ section[p].op \in {"resume", "beat"}
          BY <2>2, <1>0 DEF Write, OnlyResumes
    <3>2. ~section[p].late
          BY <2>2 DEF Write, Harm, Blamed
    <3>3. section[p].op = "resume"
          BY <1>0, <1>2, <3>1, <3>2 DEF SectionsFit, Fits, Free
    <3>4. p = Api
          BY <1>0, <3>1, <3>3 DEF WorkersFit, Pending, Processes
    <3>5. section'[Api] = [op |-> "enqueue", new |-> Paused(section[p].new), late |-> FALSE]
          BY <1>0, <2>2, <3>3, <3>4 DEF Write, Leave
    <3>6. section'[Api] # None
      <4>1. Paused(section[p].new) \in Records
        <5>1. section[p].new \in Records
              BY <1>0, <3>1 DEF TypeOK, Free, Sections
        <5> QED
            BY <5>1, RecordEdits DEF Statuses
      <4> QED
          BY <4>1, <3>5, Enqueuing
    <3> QED
        BY <3>5, <3>6 DEF Pending, Free
  <2> QED
      BY <1>0, <1>2, <2>1, <2>2, RecordMoves
<1>3. CASE \E i \in DOMAIN messages : ~Doomed(i)
      BY <1>0, <1>3, StaysReachable
<1>4. CASE Pending(Api, {"enqueue", "unqueue"})
  <2>1. CASE Enqueue /\ Add
    <3>1. sent + 1 \in DOMAIN messages' /\ UNCHANGED work
          BY <2>1 DEF Enqueue, Add
    <3>2. \A w \in Workers : work[w].id # sent + 1
      <4>1. \A w \in Workers : work[w].id \in Nat /\ work[w].id <= sent
            BY <1>0 DEF TypeOK, Works, TakenIsSent
      <4> QED
          BY <4>1, <1>0 DEF MessagesType
    <3> QED
        BY <3>1, <3>2 DEF Doomed
  <2>2. ~CrashApi
        BY <1>4 DEF CrashApi, Pending, Blamed
  <2>3. ~((Write(Api) \/ WriteFails(Api)) /\ section[Api].op = "unqueue")
        BY <1>0 DEF Write, WriteFails, OnlyResumes, Blamed
  <2> QED
      BY <1>0, <1>4, <2>1, <2>2, <2>3, ApiWaits DEF IInv
<1> QED
    BY <1>0, <1>1, <1>2, <1>3, <1>4 DEF QueuedIsReachable, Blamed, Pending

---------------------------------------------------------------------------
(* The theorems.                                                           *)

\* Both invariants hold at the start and are kept by every step.
LEMMA InitWatched == Init => Watched /\ Reached
<1> SUFFICES ASSUME Init PROVE Watched /\ Reached
    OBVIOUS
<1>1. record.status # "queued"
      BY DEF Init
<1> QED
    BY <1>1 DEF Init, Off, Watched, DeadIsDead, BusyHolds, RunIsFresh, DeadFoundNobody, OnIt, Busy, Pending, Free, Reached,
       QueuedIsReachable, OnlyResumes, TakenIsSent, Excusable, Processes

LEMMA WatchedStep == IInv /\ Watched /\ [Next]_vars => Watched'
<1> SUFFICES ASSUME IInv, Watched, [Next]_vars PROVE Watched'
    OBVIOUS
<1>1. CASE Excusable'
      BY <1>1, DeadStep DEF Watched
<1>2. CASE ~Excusable'
      BY <1>2, DeadStep, ExcuseGrows, BusyStep, FreshStep, NobodyStep DEF Watched, IInv
<1> QED
    BY <1>1, <1>2

LEMMA ReachedStep == IInv /\ Reached /\ [Next]_vars => Reached'
BY ReachableStep, ResumeStep, TakenStep DEF Reached

\* A worker that is on the job is declared dead, by Follow or by the worker that
\* finds its message again, only after a stall, a second message, an old listing
\* or a lost write.
THEOREM DeadCorrect == Spec => []DeadIsDead
<1>1. Watched => DeadIsDead
      BY DEF Watched
<1> QED BY <1>1, InitWatched, WatchedStep, Invariance, PTL DEF Spec

\* A job whose record says queued has a message that a worker can take and will
\* not delete unlooked at, or one about to be enqueued, unless a database error
\* or a crash came in between.
THEOREM ReachableCorrect == Spec => []QueuedIsReachable
<1>1. Reached => QueuedIsReachable
      BY DEF Reached
<1> QED BY <1>1, InitWatched, ReachedStep, Invariance, PTL DEF Spec

---------------------------------------------------------------------------
(* The lease: KeepsLease.                                                  *)

\* A worker goes off the job only when it dies or its end is written, or cannot
\* be, and has a run only once it has fetched what it runs on.
LEMMA RunsOn ==
    ASSUME IInv, NEW v \in Workers,
           \/ Begin(v) \/ Receive(v) \/ Takeable(v) \/ Drop(v) \/ Claim(v) \/ ClaimFails(v) \/ Beat(v) \/ Fetch(v)
           \/ FetchFails(v) \/ EndRun(v) \/ Finish(v) \/ Done(v) \/ Renew(v)
           \/ Look(v) \/ Quit(v) \/ Stall(v) \/ Wake(v)
    PROVE  \A w \in Workers :
             /\ OnIt(w) => OnIt(w)'
             /\ work'[w].at \in {"run", "end"} => work[w].at \in {"run", "end"} \/ Fetch(v)
             /\ (work'[w].at = "unsaid" <=> work[w].at = "unsaid") \/ Done(v)
<1>0. WorkType /\ work[v] \in Works /\ WorkersFit
      BY DEF IInv, TypeOK, WorkType
<1> DEFINE Away == /\ \A w \in Workers : w # v => work'[w] = work[w]
                   /\ work[v].at \notin {"fetch", "run", "end"} /\ work'[v].at \notin {"fetch", "run", "end"}
                   /\ Done(v) \/ "unsaid" \notin {work[v].at, work'[v].at}
           Stays == \A w \in Workers : work'[w].at = work[w].at
<1>1. CASE Away
      BY <1>1 DEF OnIt
<1>2. CASE Stays
      BY <1>2 DEF OnIt
<1>3. CASE UNCHANGED work
      BY <1>2, <1>3
<1>4. CASE Receive(v)
  <2>1. PICK i : Set(v, [work[v] EXCEPT !.at = "took", !.id = i, !.takes = messages[i].takes + 1])
        BY <1>4 DEF Receive
  <2>2. work[v].at = "idle"
        BY <1>4 DEF Receive
  <2>3. Away
        BY <2>1, <2>2, <1>0 DEF Set, WorkType, Works
  <2> QED
      BY <2>3, <1>1
<1>5. CASE Begin(v) \/ Drop(v) \/ Done(v)
  <2>1. CASE Begin(v)
        BY <2>1, <1>0, <1>1 DEF Begin, Off, Set, WorkType
  <2>2. CASE Drop(v)
        BY <2>2, <1>0, <1>1 DEF Drop, Set, WorkType, Works
  <2>3. CASE Done(v)
    <3>1. work[v].at \in {"done", "unsaid"} /\ work'[v].at \in {"off", "idle"} /\ \A w \in Workers : w # v => work'[w] = work[w]
          BY <2>3, <1>0 DEF Done, Over, Off, Set, WorkType
    <3> QED
        BY <2>3, <3>1, <1>1
  <2> QED
      BY <1>5, <2>1, <2>2, <2>3
<1>6. CASE Takeable(v)
  <2>0. /\ work[v].at = "took"
        /\ \/ UNCHANGED work
           \/ Set(v, [work[v] EXCEPT !.at = "drop"])
           \/ Set(v, [work[v] EXCEPT !.at = "claim", !.watch = TRUE])
        BY <1>6 DEF Takeable
  <2>1. UNCHANGED work \/ Away
    <3>1. CASE Set(v, [work[v] EXCEPT !.at = "drop"])
      <4>1. work'[v].at \in {"drop", "claim"} /\ \A w \in Workers : w # v => work'[w] = work[w]
            BY <3>1, <1>0 DEF Set, WorkType, Works
      <4> QED BY <2>0, <4>1
    <3>2. CASE Set(v, [work[v] EXCEPT !.at = "claim", !.watch = TRUE])
      <4>1. work'[v].at \in {"drop", "claim"} /\ \A w \in Workers : w # v => work'[w] = work[w]
            BY <3>2, <1>0 DEF Set, WorkType, Works
      <4> QED BY <2>0, <4>1
    <3> QED BY <2>0, <3>1, <3>2
  <2> QED
      BY <2>1, <1>1, <1>3
<1>7. CASE Claim(v) \/ ClaimFails(v)
  <2>1. work[v].at = "claim"
        /\ \/ UNCHANGED work
           \/ Set(v, [work[v] EXCEPT !.at = "done", !.keep = TRUE])
           \/ Set(v, [work[v] EXCEPT !.at = "done", !.keep = TRUE, !.handle = @ \/ ~Free(v)])
        BY <1>7, <1>0 DEF Claim, ClaimFails, WorkersFit, Pending
  <2>2. UNCHANGED work \/ Away
    <3>1. CASE Set(v, [work[v] EXCEPT !.at = "done", !.keep = TRUE])
          BY <2>1, <3>1, <1>0 DEF Set, WorkType, Works
    <3>2. CASE Set(v, [work[v] EXCEPT !.at = "done", !.keep = TRUE, !.handle = @ \/ ~Free(v)])
          BY <2>1, <3>2, <1>0 DEF Set, WorkType, Works
    <3> QED BY <2>1, <3>1, <3>2
  <2> QED
      BY <2>2, <1>1, <1>3
<1>8. CASE Fetch(v)
      BY <1>8, <1>0 DEF Fetch, OnIt, Set, WorkType, Works
<1>9. CASE EndRun(v)
      BY <1>9, <1>0 DEF EndRun, OnIt, Set, WorkType, Works
<1>10. CASE Beat(v) \/ FetchFails(v) \/ Finish(v)
  <2>1. CASE Set(v, [work[v] EXCEPT !.pausing = FALSE, !.keep = TRUE])
        BY <2>1, <1>0, <1>2 DEF Set, WorkType, Works
  <2>2. CASE Set(v, [work[v] EXCEPT !.keep = TRUE])
        BY <2>2, <1>0, <1>2 DEF Set, WorkType, Works
  <2> QED
      BY <1>10, <2>1, <2>2, <1>3 DEF Beat, FetchFails, Finish
<1>11. CASE Stall(v) \/ Wake(v)
  <2>1. Set(v, [work[v] EXCEPT !.stalled = TRUE]) \/ Set(v, [work[v] EXCEPT !.stalled = FALSE])
        BY <1>11 DEF Stall, Wake
  <2> QED
      BY <2>1, <1>0, <1>2 DEF Set, WorkType, Works
<1>12. CASE Renew(v) \/ Look(v)
  <2>1. CASE Set(v, [work[v] EXCEPT !.watch = FALSE, !.ctx = IF @ = "open" /\ OnIt(v) THEN "cancelled" ELSE @])
        BY <2>1, <1>0, <1>2 DEF Set, WorkType, Works
  <2>2. CASE Set(v, [work[v] EXCEPT !.ctx = "cancelled"])
        BY <2>2, <1>0, <1>2 DEF Set, WorkType, Works
  <2>3. CASE Set(v, [work[v] EXCEPT !.pausing = TRUE, !.ctx = IF @ = "open" /\ OnIt(v) THEN "cancelled" ELSE @])
        BY <2>3, <1>0, <1>2 DEF Set, WorkType, Works
  <2> QED
      BY <1>12, <2>1, <2>2, <2>3, <1>3 DEF Renew, Look
<1>13. CASE Quit(v)
  <2>1. Away \/ Stays
        BY <1>13, <1>0 DEF Quit, Off, Set, WorkType, Works
  <2> QED
      BY <2>1, <1>1, <1>2
<1> QED
    BY <1>4, <1>5, <1>6, <1>7, <1>8, <1>9, <1>10, <1>11, <1>12, <1>13

\* The write of a section puts a worker on the job, or takes it off, only if it
\* is the claim of that worker, or its end.
LEMMA WriteRuns ==
    ASSUME IInv, NEW p \in Processes, Write(p)
    PROVE  /\ section[p].op = "claim" =>
                p \in Workers /\ OnIt(p)' /\ ~OnIt(p) /\ \A w \in Workers : w # p => (OnIt(w)' <=> OnIt(w))
           /\ section[p].op = "finish" =>
                p \in Workers /\ ~OnIt(p)' /\ OnIt(p) /\ \A w \in Workers : w # p => (OnIt(w)' <=> OnIt(w))
           /\ section[p].op \notin {"claim", "finish"} => \A w \in Workers : OnIt(w)' <=> OnIt(w)
           /\ \A w \in Workers : work'[w].at \in {"run", "end"} => work[w].at \in {"run", "end"}
           /\ \A w \in Workers : work'[w].at = "unsaid" <=> work[w].at = "unsaid"
<1>0. WorkType /\ WorkersFit /\ (\A w \in Workers : work[w] \in Works)
      BY DEF IInv, TypeOK, WorkType
<1>1. After(p) /\ ~Free(p)
      BY DEF Write
<1>2. ASSUME NEW w \in Workers, w # p PROVE work'[w] = work[w]
      BY <1>0, <1>1, <1>2, AfterWorks
<1>3. section[p].op \in {"claim", "finish"} => p \in Workers
      BY <1>0, <1>1 DEF WorkersFit, Pending, Processes
<1>4. CASE section[p].op = "claim"
  <2>1. work'[p] = [work[p] EXCEPT !.at = "fetch", !.handle = TRUE]
        BY <1>0, <1>1, <1>3, <1>4, AfterWorks
  <2>2. work[p].at = "claim"
        BY <1>0, <1>1, <1>3, <1>4 DEF WorkersFit, Pending
  <2>3. work'[p].at = "fetch"
        BY <1>0, <1>3, <1>4, <2>1 DEF Works
  <2> QED
      BY <1>2, <1>3, <1>4, <2>2, <2>3 DEF OnIt
<1>5. CASE section[p].op = "finish"
  <2>1. work'[p] = [work[p] EXCEPT !.at = "done", !.handle = FALSE]
        BY <1>0, <1>1, <1>3, <1>5, AfterWorks
  <2>2. work[p].at \in {"fetch", "end"}
        BY <1>0, <1>1, <1>3, <1>5 DEF WorkersFit, Pending
  <2>3. work'[p].at = "done"
        BY <1>0, <1>3, <1>5, <2>1 DEF Works
  <2> QED
      BY <1>2, <1>3, <1>5, <2>2, <2>3 DEF OnIt
<1>6. CASE section[p].op \notin {"claim", "finish"}
  <2>1. \A w \in Workers : work'[w] = work[w] \/ (work[w].at = "took" /\ work'[w].at = "drop")
    <3>1. CASE section[p].op \in {"dead", "refuse"} /\ p \in Workers
          BY <1>0, <1>1, <1>2, <3>1, ProcessesAssumption DEF WorkersFit, Pending, After, Set, WorkType, Works
    <3>2. CASE ~(section[p].op \in {"dead", "refuse"} /\ p \in Workers)
          BY <1>1, <1>6, <3>2 DEF After, Processes
    <3> QED
        BY <3>1, <3>2
  <2> QED
      BY <1>6, <2>1 DEF OnIt
<1> QED
    BY <1>4, <1>5, <1>6

\* A record that does not change leaves the other sections as they say.
LEMMA EnterSays ==
    ASSUME SectionType, SectionsSay, NEW p \in Processes, NEW op, NEW new, Enter(p, op, new), UNCHANGED record,
           Says([op |-> op, new |-> new, late |-> FALSE])
    PROVE  SectionsSay'
BY DEF SectionType, SectionsSay, Says, Enter

LEMMA LeaveSays ==
    ASSUME SectionType, SectionsSay, NEW p \in Processes, section' = [section EXCEPT ![p] = None], UNCHANGED record
    PROVE  SectionsSay'
BY DEF SectionType, SectionsSay, Says

LEMMA SaysStep ==
    ASSUME IInv, SectionsSay, [Next]_vars
    PROVE  SectionsSay'
<1>0. SectionType /\ SectionsFit /\ record \in Records /\ Api \in Processes /\ Workers \subseteq Processes
      BY DEF IInv, TypeOK, SectionType, Processes
<1>1. CASE UNCHANGED <<record, section>>
      BY <1>1 DEF SectionsSay, Says
<1>2. CASE Submit
  <2>1. \A p \in Processes : section[p] = None
        BY <1>2 DEF Submit, IInv, JobIsFirst, Free
  <2>2. section' = [section EXCEPT ![Api] = [op |-> "enqueue", new |-> [record EXCEPT !.status = "failed"], late |-> FALSE]]
        BY <1>2 DEF Submit, Enter
  <2> QED
        BY <1>0, <2>1, <2>2 DEF SectionType, SectionsSay, Says, Records
<1>3. CASE Cancel \/ Pause
      BY <1>3, <1>0, EnterSays DEF Cancel, Pause, Says, Records
<1>4. CASE Resume \/ Expire
      BY <1>4, <1>0, EnterSays DEF Resume, Expire, Says, Records
<1>5. CASE Judge
      BY <1>5, <1>0, <1>1, EnterSays DEF Judge, Says, Records, Paused
<1>6. CASE Enqueue
      BY <1>6, <1>0 DEF Enqueue, SectionsSay, Says, SectionType, Sections, Free
<1>7. CASE CrashApi
      BY <1>7, <1>0, LeaveSays DEF CrashApi
<1>8. ASSUME NEW w \in Workers, Takeable(w) PROVE SectionsSay'
      BY <1>8, <1>0, <1>1, EnterSays DEF Takeable, Says, Records, Paused
<1>9. ASSUME NEW w \in Workers, Claim(w) \/ Beat(w) PROVE SectionsSay'
      BY <1>9, <1>0, <1>1, EnterSays DEF Claim, Beat, Says
<1>10. ASSUME NEW w \in Workers, FetchFails(w) \/ Finish(w) PROVE SectionsSay'
      BY <1>10, <1>0, EnterSays DEF FetchFails, Finish, Says, Records, Paused, Settled
<1>11. ASSUME NEW w \in Workers, ClaimFails(w) \/ Crash(w) \/ Quit(w) \/ Done(w) PROVE SectionsSay'
      BY <1>11, <1>0, <1>1, LeaveSays DEF ClaimFails, Crash, Quit, Done
<1>14. ASSUME NEW p \in Processes, WriteFails(p) PROVE SectionsSay'
      BY <1>14, <1>0, LeaveSays DEF WriteFails
<1>12. ASSUME NEW p \in Processes, Write(p) PROVE SectionsSay'
  <2>1. record' = section[p].new /\ section[p] \in Sections
        BY <1>12, <1>0 DEF Write, SectionType, Free
  <2>2. ASSUME NEW q \in Processes, q # p PROVE Says(section[q])'
        BY <1>12, <1>0, <2>1, <2>2 DEF Write, Leave, SectionsSay, Says, SectionType, Sections
  <2>3. Says(section[p])'
        BY <1>12, <1>0, <2>1 DEF Write, Leave, Says, Sections, Records, Paused
  <2> QED
        BY <2>2, <2>3 DEF SectionsSay, Processes
<1>13. CASE List \/ Age \/ UNCHANGED vars \/ (\E i \in DOMAIN messages : Lapse(i))
            \/ \E v \in Workers : \/ Begin(v) \/ Receive(v) \/ Drop(v) \/ Fetch(v) \/ EndRun(v) \/ FinishUnread(v)
                                  \/ Renew(v) \/ Look(v) \/ Stall(v) \/ Wake(v)
       BY <1>1, <1>13 DEF List, Age, vars, Lapse, Begin, Receive, Drop, Fetch, EndRun, FinishUnread, Renew, Look, Stall,
          Wake
<1> QED
    BY <1>2, <1>3, <1>4, <1>5, <1>6, <1>7, <1>8, <1>9, <1>10, <1>11, <1>12, <1>13, <1>14 DEF Next, Serve, Follow, Processes

\* What a worker on the job works with is not taken from it.
LEMMA DataStays ==
    ASSUME IInv, [Next]_vars, NEW w \in Workers, OnIt(w), scratch, ~Robbed'
    PROVE  scratch'
<1>1. record.status = "running"
      BY ExcusesStay DEF IInv, OnItIsRunning, Robbed
<1>2. ASSUME NEW v \in Workers, Begin(v) \/ Drop(v) PROVE scratch'
      BY <1>1, <1>2 DEF Begin, Drop, Unneeded
<1>3. ASSUME NEW v \in Workers, Done(v) PROVE scratch'
      BY <1>3 DEF Done, Robbed
<1> QED
    BY <1>2, <1>3 DEF Next, Serve, Follow, Submit, Cancel, Pause, Resume, Expire, Enqueue, List, Judge,
       CrashApi, Age, Lapse, vars, Receive, Takeable, Claim, ClaimFails, Beat, Fetch, FetchFails, EndRun, Finish,
       FinishUnread, Write, WriteFails, Renew, Look, Quit, Crash, Stall, Wake

\* Only the end of a run that ran says that it succeeded.
LEMMA Succeeds ==
    ASSUME IInv, [Next]_vars, NEW w \in Workers, Pending(w, {"finish"})', section'[w].new.status = "succeeded"
    PROVE  \/ Pending(w, {"finish"}) /\ section[w].new.status = "succeeded"
           \/ work[w].at = "end" /\ UNCHANGED scratch
<1>0. SectionType /\ record \in Records /\ w \in Processes /\ Api \in Processes /\ Api \notin Workers
      BY ProcessesAssumption DEF IInv, TypeOK, SectionType, Processes
<1>1. CASE section'[w] = section[w]
      BY <1>1 DEF Pending, Free
<1>2. CASE UNCHANGED section
      BY <1>1, <1>2
<1>3. CASE Submit \/ Cancel \/ Pause \/ Resume \/ Expire \/ Judge \/ Enqueue \/ CrashApi
  <2>1. section'[w] = section[w]
        BY <1>3, <1>0 DEF Submit, Cancel, Pause, Resume, Expire, Judge, Enqueue, CrashApi, Enter, SectionType
  <2> QED
      BY <2>1, <1>1
<1>4. ASSUME NEW v \in Workers, Takeable(v) \/ Claim(v) \/ Beat(v)
      PROVE  section'[w] = section[w]
  <2>1. v # w => section'[w] = section[w]
        BY <1>4, <1>0 DEF Takeable, Claim, Beat, Enter, SectionType
  <2>2. v = w => section'[w] = section[w]
        BY <1>4, <1>0 DEF Takeable, Claim, Beat, Enter, SectionType, Pending
  <2> QED
      BY <2>1, <2>2
<1>5. ASSUME NEW v \in Workers, ClaimFails(v) \/ Crash(v) \/ Quit(v) \/ Done(v)
      PROVE  section'[w] = section[w]
      BY <1>5, <1>0 DEF ClaimFails, Crash, Quit, Done, SectionType, Pending, Free
<1>10. ASSUME NEW p \in Processes, WriteFails(p)
      PROVE  section'[w] = section[w]
      BY <1>10, <1>0 DEF WriteFails, SectionType, Pending, Free
<1>6. ASSUME NEW v \in Workers, FetchFails(v)
      PROVE  section'[w] = section[w]
  <2>1. v # w
        BY <1>6, <1>0 DEF FetchFails, Enter, SectionType, Records, Paused
  <2> QED
      BY <2>1, <1>6, <1>0 DEF FetchFails, Enter, SectionType
<1>7. ASSUME NEW v \in Workers, Finish(v)
      PROVE  section'[w] = section[w] \/ (work[w].at = "end" /\ UNCHANGED scratch)
      BY <1>7, <1>0 DEF Finish, Enter, SectionType
<1>8. ASSUME NEW p \in Processes, Write(p)
      PROVE  Pending(w, {"finish"}) /\ section[w].new.status = "succeeded"
  <2>1. section'[p] # None => section'[p].op = "enqueue"
        BY <1>8 DEF Write, Leave
  <2>2. w # p
        BY <2>1 DEF Pending, Free
  <2>3. section'[w] \in {section[w], [section[w] EXCEPT !.late = TRUE]} /\ (section[w] = None => section'[w] = None)
        BY <1>8, <1>0, <2>2 DEF Write, Leave
  <2>4. section[w] \in Sections
        BY <1>0, <2>3 DEF SectionType, Pending, Free
  <2> QED
      BY <2>3, <2>4, NoneAssumption DEF Pending, Free, Sections
<1>9. CASE List \/ Age \/ UNCHANGED vars \/ (\E i \in DOMAIN messages : Lapse(i))
            \/ \E v \in Workers : \/ Begin(v) \/ Receive(v) \/ Drop(v) \/ Fetch(v) \/ EndRun(v) \/ FinishUnread(v)
                                  \/ Renew(v) \/ Look(v) \/ Stall(v) \/ Wake(v)
       BY <1>2, <1>9 DEF List, Age, vars, Lapse, Begin, Receive, Drop, Fetch, EndRun, FinishUnread, Renew, Look, Stall,
          Wake
<1> QED
    BY <1>1, <1>3, <1>4, <1>5, <1>6, <1>7, <1>8, <1>9, <1>10 DEF Next, Serve, Follow, Processes

\* A worker is at a run only after it fetched what it runs on.
LEMMA RunBegins ==
    ASSUME IInv, [Next]_vars, NEW w \in Workers, work'[w].at \in {"run", "end"}
    PROVE  work[w].at \in {"run", "end"} \/ scratch'
<1>0. WorkType
      BY DEF IInv, TypeOK, WorkType
<1>1. CASE UNCHANGED work
      BY <1>1
<1>2. ASSUME NEW v \in Workers,
             \/ Begin(v) \/ Receive(v) \/ Takeable(v) \/ Drop(v) \/ Claim(v) \/ ClaimFails(v) \/ Beat(v) \/ Fetch(v)
             \/ FetchFails(v) \/ EndRun(v) \/ Finish(v) \/ Done(v) \/ Renew(v)
             \/ Look(v) \/ Quit(v) \/ Stall(v) \/ Wake(v)
      PROVE  work[w].at \in {"run", "end"} \/ scratch'
  <2>1. Fetch(v) => scratch'
        BY DEF Fetch
  <2> QED
      BY <1>2, <2>1, RunsOn
<1>3. ASSUME NEW v \in Workers, Crash(v)
      PROVE  work[w].at \in {"run", "end"}
      BY <1>0, <1>3 DEF Crash, Off, Set, WorkType
<1>4. ASSUME NEW p \in Processes, Write(p)
      PROVE  work[w].at \in {"run", "end"}
      BY <1>4, WriteRuns
<1>5. ASSUME NEW v \in Workers, FinishUnread(v)
      PROVE  work[w].at \in {"run", "end"}
  <2>1. v # w => work'[w] = work[w]
        BY <1>0, <1>5 DEF FinishUnread, Set, WorkType
  <2>2. v = w => work'[w].at = "unsaid"
        BY <1>0, <1>5 DEF FinishUnread, Set, WorkType, Works
  <2> QED
      BY <2>1, <2>2
<1>6. ASSUME NEW p \in Processes, WriteFails(p)
      PROVE  work[w].at \in {"run", "end"}
  <2>1. work[w] \in Works
        BY <1>0 DEF WorkType
  <2> QED
      BY <1>0, <1>6, <2>1, FailedWrite DEF Works
<1> QED
    BY <1>1, <1>2, <1>3, <1>4, <1>5, <1>6 DEF Next, Serve, Follow, Submit, Cancel, Pause, Resume, Expire, Enqueue, List, Judge,
       CrashApi, Age, Lapse, vars, Processes

LEMMA RobberyStays ==
    ASSUME TypeOK, [Next]_vars
    PROVE  Robbed => Robbed'
BY ExcusesStay, HistoryGrows DEF Robbed

LEMMA LeasedStep ==
    ASSUME IInv, Leased, [Next]_vars
    PROVE  Leased'
<1>1. SectionsSay'
      BY SaysStep DEF Leased
<1>2. RunHasData'
  <2> SUFFICES ASSUME NEW w \in Workers, HasRun(w)', ~Robbed'
               PROVE  scratch'
      BY DEF RunHasData
  <2>1. ~Robbed
        BY RobberyStays DEF IInv
  <2>2. CASE work'[w].at \in {"run", "end"}
    <3>1. CASE work[w].at \in {"run", "end"}
          BY <2>1, <3>1, DataStays DEF Leased, RunHasData, HasRun, OnIt
    <3> QED
        BY <2>2, <3>1, RunBegins
  <2>3. CASE Pending(w, {"finish"})' /\ section'[w].new.status = "succeeded"
    <3>1. CASE Pending(w, {"finish"}) /\ section[w].new.status = "succeeded"
      <4>1. OnIt(w)
            BY <3>1 DEF IInv, WorkersFit, OnIt
      <4> QED
          BY <2>1, <3>1, <4>1, DataStays DEF Leased, RunHasData, HasRun
    <3>2. CASE work[w].at = "end" /\ UNCHANGED scratch
          BY <2>1, <3>2 DEF Leased, RunHasData, HasRun
    <3> QED
        BY <2>3, <3>1, <3>2, Succeeds
  <2> QED
      BY <2>2, <2>3 DEF HasRun
<1> QED
    BY <1>1, <1>2 DEF Leased

---------------------------------------------------------------------------
(* Every step is one of the lease's.                                       *)

\* A step that changes neither the status, nor who is on the job or has left it
\* with its end not recorded, nor what is kept is none of the lease's.
SameUnsaid == \A w \in Workers : work'[w].at = "unsaid" <=> work[w].at = "unsaid"
LEMMA Unseen ==
    ASSUME record'.status = record.status, UNCHANGED scratch, \A w \in Workers : OnIt(w)' <=> OnIt(w), SameUnsaid
    PROVE  UNCHANGED Lease!vars
BY DEF Lease!vars, SameUnsaid

\* A status moves while nobody is on the job, and nothing else does.
LEMMA Moving ==
    ASSUME NEW from, NEW to, record.status \in from, record'.status = to, UNCHANGED scratch,
           \A w \in Workers : ~OnIt(w) /\ ~OnIt(w)', SameUnsaid
    PROVE  Lease!Moves(from, to)
BY DEF Lease!Moves, SameUnsaid

LEMMA WriteLeases ==
    ASSUME IInv, Leased, [Next]_vars, NEW p \in Processes, Write(p), ~Robbed'
    PROVE  [Lease!Next]_(Lease!vars)
<1>0. /\ section[p] # None /\ section[p] \in Sections /\ record' = section[p].new /\ UNCHANGED scratch
      /\ section[p].op # "enqueue"
      BY DEF IInv, TypeOK, Write, Free
<1>1. ~Robbed /\ ~Harmed /\ ~section[p].late /\ (section[p].op = "dead" => \A w \in Workers : ~OnIt(w))
      BY WriteHarms, ExcusesStay, RobberyStays DEF IInv, Robbed
<1>u. SameUnsaid /\ {w \in Workers : work'[w].at = "unsaid"} = {w \in Workers : work[w].at = "unsaid"}
      BY WriteRuns DEF SameUnsaid
<1>2. Fits(section[p]) /\ Says(section[p])
      BY DEF IInv, SectionsFit, Leased, SectionsSay
<1>3. record.status # "running" => \A w \in Workers : ~OnIt(w)
      BY <1>1 DEF IInv, OnItIsRunning
<1>4. CASE section[p].op = "claim"
  <2>1. p \in Workers /\ record.status = "queued" /\ record'.status = "running" /\ \A w \in Workers : OnIt(w)' <=> w = p
        BY <1>0, <1>1, <1>2, <1>3, <1>4, WriteRuns DEF Fits
  <2>2. {w \in Workers : OnIt(w)} = {} /\ {w \in Workers : OnIt(w)'} = {p}
        BY <1>3, <2>1
  <2>3. Lease!Take(p)
        BY <1>0, <1>u, <2>1, <2>2 DEF Lease!Take
  <2> QED
      BY <2>1, <2>3 DEF Lease!Next
<1>5. CASE section[p].op = "finish"
  <2>1. /\ p \in Workers /\ OnIt(p) /\ record.status = "running"
        /\ \A w \in Workers : OnIt(w)' <=> OnIt(w) /\ w # p
        BY <1>3, <1>5, WriteRuns
  <2>2. {w \in Workers : OnIt(w)'} = {w \in Workers : OnIt(w)} \ {p}
        BY <2>1
  <2>3. record'.status = "succeeded" => scratch
        BY <1>0, <1>1, <1>5, <2>1 DEF Leased, RunHasData, HasRun, Pending, Free
  <2>4. record'.status \in {"paused", "cancelled", "failed", "succeeded"}
        BY <1>0, <1>2, <1>5 DEF Says, Settled
  <2>5. Lease!End(p)
        BY <1>0, <1>u, <2>1, <2>2, <2>3, <2>4 DEF Lease!End
  <2> QED
      BY <2>1, <2>5 DEF Lease!Next
<1>6. CASE section[p].op \notin {"claim", "finish"}
  <2>1. \A w \in Workers : OnIt(w)' <=> OnIt(w)
        BY <1>6, WriteRuns
  <2>2. CASE record'.status = record.status
        BY <1>0, <1>u, <2>1, <2>2, Unseen
  <2>3. CASE record'.status # record.status
    <3>1. \/ record.status = "queued" /\ record'.status \in {"failed", "paused", "cancelled"}
          \/ record.status \in {"paused", "interrupted"} /\ record'.status \in {"cancelled", "queued"}
          \/ record.status = "running" /\ record'.status = "paused" /\ section[p].op = "dead"
          BY <1>0, <1>1, <1>2, <1>6, <2>3 DEF Fits, Says, Sections
    <3>2. \A w \in Workers : ~OnIt(w) /\ ~OnIt(w)'
          BY <1>1, <1>3, <2>1, <3>1
    <3>3. CASE record.status = "queued"
      <4>1. Lease!Refuse \/ Lease!Pause \/ Lease!Cancel
            BY <1>0, <1>u, <3>1, <3>2, <3>3, Moving DEF Lease!Refuse, Lease!Pause, Lease!Cancel
      <4> QED
          BY <4>1 DEF Lease!Next
    <3>4. CASE record.status \in {"paused", "interrupted"}
      <4>1. Lease!Cancel \/ Lease!Resume
            BY <1>0, <1>u, <3>1, <3>2, <3>4, Moving DEF Lease!Cancel, Lease!Resume
      <4> QED
          BY <4>1 DEF Lease!Next
    <3>5. CASE record.status = "running"
      <4>1. Lease!Rescue
            BY <1>0, <1>u, <3>1, <3>2, <3>5, Moving DEF Lease!Rescue
      <4> QED
          BY <4>1 DEF Lease!Next
    <3> QED
        BY <3>1, <3>3, <3>4, <3>5
  <2> QED
      BY <2>2, <2>3
<1> QED
    BY <1>4, <1>5, <1>6

\* A run whose end is not recorded is lost to the lease.
LEMMA Losing ==
    ASSUME UNCHANGED record, UNCHANGED scratch, NEW v \in Workers, OnIt(v), work'[v].at = "unsaid",
           \A w \in Workers : w # v => work'[w] = work[w]
    PROVE  [Lease!Next]_(Lease!vars)
<1>1. {w \in Workers : OnIt(w)'} = {w \in Workers : OnIt(w)} \ {v}
      /\ {w \in Workers : work'[w].at = "unsaid"} = {w \in Workers : work[w].at = "unsaid"} \cup {v}
      BY DEF OnIt
<1>2. Lease!Lose(v)
      BY <1>1 DEF Lease!Lose
<1> QED
    BY <1>2 DEF Lease!Next

\* Whatever a worker does between two writes is unseen, but that it fetches
\* what it runs on, dies, cannot record its end, cleans up after that, or
\* deletes what a settled job has left.
LEMMA WorkLeases ==
    ASSUME IInv, [Next]_vars, ~Robbed', NEW v \in Workers,
           \/ Begin(v) \/ Receive(v) \/ Takeable(v) \/ Drop(v) \/ Claim(v) \/ ClaimFails(v) \/ Beat(v) \/ Fetch(v)
           \/ FetchFails(v) \/ EndRun(v) \/ Finish(v) \/ FinishUnread(v) \/ Done(v) \/ Renew(v)
           \/ Look(v) \/ Quit(v) \/ Crash(v) \/ Stall(v) \/ Wake(v)
    PROVE  [Lease!Next]_(Lease!vars)
<1>0. WorkType /\ UNCHANGED record /\ scratch \in BOOLEAN /\ scratch' \in BOOLEAN
      BY OnItStep, StepIsInductive DEF IInv, TypeOK, WorkType
<1>h. ~Robbed /\ ~Harmed
      BY RobberyStays DEF IInv, Robbed
<1>1. ASSUME scratch, ~scratch', record.status \in Settled \cup {"interrupted"},
             \A w \in Workers : OnIt(w)' <=> OnIt(w), SameUnsaid
      PROVE  Lease!Discard
  <2>1. {w \in Workers : OnIt(w)'} = {w \in Workers : OnIt(w)}
        /\ {w \in Workers : work'[w].at = "unsaid"} = {w \in Workers : work[w].at = "unsaid"}
        BY <1>1 DEF SameUnsaid
  <2> QED
      BY <1>0, <1>1, <2>1 DEF Lease!Discard, Lease!Settled, Settled
<1>2. ASSUME \A w \in Workers : w # v => work'[w] = work[w], work[v].at = "unsaid",
             work'[v].at \in {"off", "idle"}, UNCHANGED scratch \/ (~scratch' /\ \A w \in Workers : ~OnIt(w))
      PROVE  Lease!Vanish(v)
  <2>1. {w \in Workers : work'[w].at = "unsaid"} = {w \in Workers : work[w].at = "unsaid"} \ {v}
        /\ v \in {w \in Workers : work[w].at = "unsaid"}
        BY <1>2
  <2>2. {w \in Workers : OnIt(w)'} = {w \in Workers : OnIt(w)}
        BY <1>2 DEF OnIt
  <2>3. UNCHANGED scratch \/ (~scratch' /\ {w \in Workers : OnIt(w)} = {})
        BY <1>2
  <2> QED
      BY <1>0, <2>1, <2>2, <2>3 DEF Lease!Vanish
<1>3. CASE Crash(v)
  <2>1. UNCHANGED scratch /\ work'[v].at = "off" /\ \A w \in Workers : w # v => work'[w] = work[w]
        BY <1>0, <1>3 DEF Crash, Off, Set, WorkType
  <2>2. CASE OnIt(v)
    <3>1. {w \in Workers : OnIt(w)'} = {w \in Workers : OnIt(w)} \ {v}
          /\ {w \in Workers : work'[w].at = "unsaid"} = {w \in Workers : work[w].at = "unsaid"}
          BY <2>1, <2>2 DEF OnIt
    <3>2. Lease!Die(v)
          BY <1>0, <2>1, <2>2, <3>1 DEF Lease!Die
    <3> QED
        BY <3>2 DEF Lease!Next
  <2>3. CASE work[v].at = "unsaid"
        BY <1>2, <2>1, <2>3 DEF Lease!Next
  <2>4. CASE ~OnIt(v) /\ work[v].at # "unsaid"
        BY <1>0, <2>1, <2>4, Unseen DEF OnIt, SameUnsaid
  <2> QED
      BY <2>2, <2>3, <2>4
<1>4. CASE FinishUnread(v)
      BY <1>0, <1>4, Losing DEF FinishUnread, Set, WorkType, Works, OnIt
<1>5. CASE Done(v)
  <2>1. /\ work[v].at \in {"done", "unsaid"} /\ work'[v].at \in {"off", "idle"}
        /\ \A w \in Workers : w # v => work'[w] = work[w]
        BY <1>0, <1>5 DEF Done, Over, Off, Set, WorkType
  <2>2. UNCHANGED scratch \/ (scratch /\ ~scratch' /\ ~work[v].keep /\ \A w \in Workers : ~OnIt(w))
        BY <1>0, <1>5 DEF Done, Robbed
  <2>3. CASE work[v].at = "unsaid"
        BY <1>2, <2>1, <2>2, <2>3 DEF Lease!Next
  <2>4. CASE work[v].at = "done"
    <3>1. SameUnsaid /\ \A w \in Workers : OnIt(w)' <=> OnIt(w)
          BY <2>1, <2>4 DEF OnIt, SameUnsaid
    <3>2. CASE UNCHANGED scratch
          BY <1>0, <3>1, <3>2, Unseen
    <3>3. CASE scratch /\ ~scratch' /\ ~work[v].keep
      <4>1. record.status \in Settled
            BY <1>h, <2>4, <3>3 DEF IInv, DoneIsSettled
      <4> QED
          BY <1>1, <3>1, <3>3, <4>1 DEF Lease!Next
    <3> QED
        BY <2>2, <3>2, <3>3
  <2> QED
      BY <2>1, <2>3, <2>4
<1>6. CASE ~Crash(v) /\ ~FinishUnread(v) /\ ~Done(v)
  <2>1. SameUnsaid /\ \A w \in Workers : OnIt(w)' <=> OnIt(w)
        BY <1>0, <1>6, OnItStep, RunsOn DEF SameUnsaid
  <2>2. CASE UNCHANGED scratch
        BY <1>0, <2>1, <2>2, Unseen
  <2>4. CASE Fetch(v)
    <3>1. OnIt(v) /\ scratch' = TRUE /\ record.status = "running"
          BY <1>h, <2>4 DEF Fetch, OnIt, IInv, OnItIsRunning
    <3>3. {w \in Workers : OnIt(w)'} = {w \in Workers : OnIt(w)}
          /\ {w \in Workers : work'[w].at = "unsaid"} = {w \in Workers : work[w].at = "unsaid"}
          BY <2>1 DEF SameUnsaid
    <3>2. Lease!Store(v)
          BY <1>0, <3>1, <3>3 DEF Lease!Store
    <3> QED
        BY <3>2 DEF Lease!Next
  <2>5. CASE (Begin(v) \/ Drop(v)) /\ ~UNCHANGED scratch
    <3>1. scratch /\ ~scratch' /\ Unneeded
          BY <1>0, <2>5 DEF Begin, Drop
    <3>2. record.status \in Settled \cup {"interrupted"}
          BY <3>1 DEF Unneeded, IInv, TypeOK, Records, Statuses, JobIsFirst
    <3> QED
        BY <1>1, <2>1, <3>1, <3>2 DEF Lease!Next
  <2>6. UNCHANGED scratch \/ Fetch(v) \/ Begin(v) \/ Drop(v)
        BY <1>6 DEF Receive, Takeable, Claim, ClaimFails, Beat, FetchFails, EndRun, Finish, Renew, Look, Quit,
           Stall, Wake
  <2> QED
      BY <2>2, <2>4, <2>5, <2>6
<1> QED
    BY <1>3, <1>4, <1>5, <1>6

\* Every step is a step of the lease, or unseen, or harm was done.
LEMMA LeaseStep ==
    ASSUME IInv, Leased, [Next]_vars
    PROVE  Robbed' \/ [Lease!Next]_(Lease!vars)
<1> SUFFICES ASSUME ~Robbed'
             PROVE  [Lease!Next]_(Lease!vars)
    OBVIOUS
<1>1. CASE Submit
  <2>1. record'.status = "queued" /\ record.status = "none" /\ UNCHANGED scratch
        /\ SameUnsaid /\ \A w \in Workers : ~OnIt(w) /\ ~OnIt(w)'
        BY <1>1 DEF Submit, IInv, TypeOK, Records, JobIsFirst, OnIt, SameUnsaid
  <2>2. Lease!Submit
        BY <2>1, Moving DEF Lease!Submit
  <2> QED
      BY <2>2 DEF Lease!Next
<1>2. ASSUME NEW p \in Processes, Write(p) PROVE [Lease!Next]_(Lease!vars)
      BY <1>2, WriteLeases
<1>3. ASSUME NEW v \in Workers,
             \/ Begin(v) \/ Receive(v) \/ Takeable(v) \/ Drop(v) \/ Claim(v) \/ ClaimFails(v) \/ Beat(v) \/ Fetch(v)
             \/ FetchFails(v) \/ EndRun(v) \/ Finish(v) \/ FinishUnread(v) \/ Done(v) \/ Renew(v)
             \/ Look(v) \/ Quit(v) \/ Crash(v) \/ Stall(v) \/ Wake(v)
      PROVE  [Lease!Next]_(Lease!vars)
      BY <1>3, WorkLeases
<1>4. CASE UNCHANGED <<record, scratch, work>>
      BY <1>4, Unseen DEF OnIt, SameUnsaid
<1>5. ASSUME NEW p \in Processes, WriteFails(p) PROVE [Lease!Next]_(Lease!vars)
  <2>0. WorkType /\ WorkersFit /\ ~Free(p) /\ UNCHANGED record /\ UNCHANGED scratch
        /\ \A w \in Workers : w # p => work'[w] = work[w]
        BY <1>5, FailedWrite DEF IInv, TypeOK, WorkType, WriteFails
  <2>1. CASE p \notin Workers \/ work'[p] = work[p]
        BY <2>0, <2>1, Unseen DEF OnIt, SameUnsaid
  <2>2. CASE p \in Workers /\ work'[p] # work[p]
    <3>0. work[p] \in Works
          BY <2>0, <2>2 DEF WorkType
    <3>1. CASE section[p].op = "finish"
      <4>1. OnIt(p) /\ work'[p].at = "unsaid"
            BY <1>5, <2>0, <2>2, <3>0, <3>1, FailedWrite DEF WorkersFit, Pending, OnIt, Works
      <4> QED
          BY <2>0, <2>2, <4>1, Losing
    <3>2. CASE section[p].op # "finish"
      <4>1. work[p].at = "took" /\ work'[p].at = "drop"
            BY <1>5, <2>0, <2>2, <3>0, <3>2, FailedWrite DEF WorkersFit, Pending, Works
      <4> QED
          BY <2>0, <2>2, <4>1, Unseen DEF OnIt, SameUnsaid
    <3> QED
        BY <3>1, <3>2
  <2> QED
      BY <2>1, <2>2
<1> QED
    BY <1>1, <1>2, <1>3, <1>4, <1>5 DEF Next, Serve, Follow, Cancel, Pause, Resume, Expire, Enqueue, List, Judge, CrashApi,
       Age, Lapse, vars, Processes

LEMMA LeaseInit == ASSUME Init PROVE Lease!Init /\ Leased
<1>1. Lease!Init
  <2>1. \A w \in Workers : ~OnIt(w)
        BY DEF Init, OnIt, Off
  <2>2. {w \in Workers : OnIt(w)} = {}
        BY <2>1
  <2>3. {w \in Workers : work[w].at = "unsaid"} = {}
        BY DEF Init, Off
  <2>4. record.status \in {"none", "interrupted"} /\ scratch = (record.status = "interrupted")
    <3>1. PICK s \in {"none", "interrupted"} :
            record = [status |-> s, cancel |-> FALSE, pause |-> FALSE] /\ scratch = (s = "interrupted")
          BY DEF Init
    <3> QED BY <3>1
  <2> QED
      BY <2>2, <2>3, <2>4 DEF Lease!Init
<1>2. SectionsSay
      BY DEF Init, SectionsSay, Says
<1>3. RunHasData
  <2>1. \A w \in Workers : work[w].at = "off" /\ section[w] = None
        BY DEF Init, Off, Processes
  <2> QED
      BY <2>1 DEF RunHasData, HasRun, Pending, Free
<1> QED
    BY <1>1, <1>2, <1>3 DEF Leased

\* The shared queue implements the lease, whatever the processes do and whichever
\* of them die: one worker at a time has the job, and what is recorded of its end
\* is what the job comes to (claim, finish, takeable, pauseDead, the requests).
\* Short of a live worker declared dead, a lost write, and a run that deletes the
\* scratch directory under the next one as its end could not be recorded.
THEOREM LeaseKept == Spec => KeepsLease
<1>1. Init => Lease!Init /\ Leased
      BY LeaseInit
<1>2. IInv /\ Leased /\ [Next]_vars => Leased'
      BY LeasedStep
<1>3. IInv /\ Leased /\ [Next]_vars => [Lease!Next \/ Robbed']_(Lease!vars)
      BY LeaseStep
<1> QED
    BY <1>1, <1>2, <1>3, Invariance, PTL DEF Spec, KeepsLease
=============================================================================
