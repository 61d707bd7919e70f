-------------------------- MODULE SharedQueue_proofs --------------------------
(***************************************************************************)
(* What holds of the shared queue for any number of worker processes, of   *)
(* requests and of faults: the inductive invariant IInv of SharedQueue and *)
(* what follows from it.                                                   *)
(***************************************************************************)
EXTENDS SharedQueue, TLAPS

---------------------------------------------------------------------------
(* Types: what the parts every action is made of leave behind.             *)

SectionType == section \in [Processes -> Sections \cup {None}]
WorkType == work \in [Workers -> Works]
SpentType == spent \in [DOMAIN Limit -> Nat] /\ \A f \in DOMAIN Limit : spent[f] <= Limit[f]
MessagesType ==
    /\ sent \in Nat /\ DOMAIN messages \subseteq 1..sent
    /\ messages \in [DOMAIN messages -> [takes : Nat, hidden : BOOLEAN]]

\* A record stays one when a request or a section edits it.
LEMMA RecordEdits ==
    ASSUME NEW r \in Records, NEW s \in Statuses
    PROVE  /\ [r EXCEPT !.status = s] \in Records
           /\ [r EXCEPT !.cancel = TRUE] \in Records
           /\ [r EXCEPT !.pause = TRUE] \in Records
           /\ Paused(r) \in Records
           /\ [status |-> s, cancel |-> FALSE, pause |-> FALSE] \in Records
BY DEF Records, Statuses, Paused

LEMMA Entered ==
    ASSUME SectionType, NEW p \in Processes, NEW new \in Records,
           NEW op \in {"enqueue", "unqueue", "write", "discard", "resume", "dead", "refuse", "claim", "beat", "finish"},
           Enter(p, op, new)
    PROVE  SectionType'
<1>1. [op |-> op, new |-> new, late |-> FALSE] \in Sections
      BY DEF Sections
<1> QED
      BY <1>1 DEF SectionType, Enter

LEMMA Left ==
    ASSUME SectionType, NEW p \in Processes, section' = [section EXCEPT ![p] = None]
    PROVE  SectionType'
BY DEF SectionType

LEMMA Placed ==
    ASSUME WorkType, NEW w \in Workers, NEW new \in Works, Set(w, new)
    PROVE  WorkType'
BY DEF WorkType, Set

LEMMA Spending ==
    ASSUME SpentType, NEW kind \in {"request", "fault"}, Spend(kind)
    PROVE  SpentType'
BY BoundsAssumption DEF SpentType, Spend, Limit

LEMMA Adding ==
    ASSUME MessagesType, Add
    PROVE  MessagesType'
BY DEF MessagesType, Add

LEMMA Removing ==
    ASSUME MessagesType, NEW w \in Workers, Remove(w), UNCHANGED sent
    PROVE  MessagesType'
BY DEF MessagesType, Remove

LEMMA TypeParts ==
    ASSUME record' \in Records, fresh' \in BOOLEAN, scratch' \in BOOLEAN, suspect' \in BOOLEAN, asked' \in BOOLEAN,
           scars' \subseteq Scars, SectionType', WorkType', SpentType', MessagesType'
    PROVE  TypeOK'
BY DEF TypeOK, SectionType, WorkType, SpentType, MessagesType

\* Every action keeps the types.
LEMMA TypeStep ==
    ASSUME TypeOK, [Next]_vars
    PROVE  TypeOK'
<1>0. /\ record \in Records /\ fresh \in BOOLEAN /\ scratch \in BOOLEAN /\ suspect \in BOOLEAN /\ asked \in BOOLEAN
      /\ scars \subseteq Scars /\ SectionType /\ WorkType /\ SpentType /\ MessagesType
      BY DEF TypeOK, SectionType, WorkType, SpentType, MessagesType
<1>s. Api \in Processes /\ Workers \subseteq Processes
      BY DEF Processes
<1>1. CASE Submit
  <2>1. SectionType'
        BY <1>1, <1>0, <1>s, RecordEdits, Entered DEF Submit, Statuses, Settled
  <2>2. record' \in Records
        BY <1>1, <1>0, RecordEdits DEF Submit, Statuses, Settled
  <2> QED
        BY <1>0, <1>1, <2>1, <2>2, TypeParts DEF Submit, SectionType, WorkType, SpentType, MessagesType
<1>2. CASE Cancel
  <2>1. SectionType'
        BY <1>2, <1>0, <1>s, RecordEdits, Entered DEF Cancel, Statuses, Settled
  <2>2. SpentType'
        BY <1>2, <1>0, Spending DEF Cancel
  <2> QED
        BY <1>0, <1>2, <2>1, <2>2, TypeParts DEF Cancel, SectionType, WorkType, SpentType, MessagesType
<1>3. CASE Expire
  <2>1. SectionType'
        BY <1>3, <1>0, <1>s, RecordEdits, Entered DEF Expire, Statuses, Settled
  <2>2. SpentType'
        BY <1>3, <1>0, Spending DEF Expire
  <2> QED
        BY <1>0, <1>3, <2>1, <2>2, TypeParts DEF Expire, SectionType, WorkType, SpentType, MessagesType
<1>4. CASE Pause
  <2>1. SectionType'
        BY <1>4, <1>0, <1>s, RecordEdits, Entered DEF Pause, Statuses, Settled
  <2>2. SpentType'
        BY <1>4, <1>0, Spending DEF Pause
  <2> QED
        BY <1>0, <1>4, <2>1, <2>2, TypeParts DEF Pause, SectionType, WorkType, SpentType, MessagesType
<1>5. CASE Resume
  <2>1. SectionType'
        BY <1>5, <1>0, <1>s, RecordEdits, Entered DEF Resume, Statuses, Settled
  <2>2. SpentType'
        BY <1>5, <1>0, Spending DEF Resume
  <2> QED
        BY <1>0, <1>5, <2>1, <2>2, TypeParts DEF Resume, SectionType, WorkType, SpentType, MessagesType
<1>6. CASE Enqueue
  <2>1. SectionType'
        BY <1>6, <1>0, <1>s DEF Enqueue, SectionType, Sections, Free
  <2>2. MessagesType'
        BY <1>6, <1>0, Adding DEF Enqueue, MessagesType
  <2> QED
        BY <1>0, <1>6, <2>1, <2>2, TypeParts DEF Enqueue, WorkType, SpentType
<1>7. CASE List
      BY <1>0, <1>7, TypeParts DEF List, SectionType, WorkType, SpentType, MessagesType
<1>8. CASE Judge
  <2>1. SectionType'
        BY <1>8, <1>0, <1>s, RecordEdits, Entered DEF Judge, Statuses, SectionType
  <2> QED
        BY <1>0, <1>8, <2>1, TypeParts DEF Judge, SectionType, WorkType, SpentType, MessagesType, Scars
<1>9. CASE CrashApi
  <2>1. SectionType'
        BY <1>9, <1>0, <1>s, Left DEF CrashApi
  <2>2. SpentType'
        BY <1>9, <1>0, Spending DEF CrashApi
  <2> QED
        BY <1>0, <1>9, <2>1, <2>2, TypeParts DEF CrashApi, SectionType, WorkType, SpentType, MessagesType, Scars
<1>10. CASE Age
      BY <1>0, <1>10, TypeParts DEF Age, SectionType, WorkType, SpentType, MessagesType, Scars
<1>11. ASSUME NEW w \in Workers, Begin(w) PROVE TypeOK'
  <2>1. work[w] \in Works
        BY <1>11, <1>0 DEF WorkType
  <2>2. WorkType'
        BY <1>11, <2>1, <1>0, Placed DEF Begin, Works, Off
  <2> QED
        BY <1>0, <1>11, <2>2, TypeParts DEF Begin, SectionType, WorkType, SpentType, MessagesType, Scars
<1>12. ASSUME NEW w \in Workers, Receive(w) PROVE TypeOK'
  <2>1. PICK i \in DOMAIN messages :
             /\ messages' = [messages EXCEPT ![i] = [takes |-> messages[i].takes + 1, hidden |-> TRUE]]
             /\ Set(w, [work[w] EXCEPT !.at = "took", !.id = i, !.takes = messages[i].takes + 1])
        BY <1>12 DEF Receive
  <2>2. i \in Nat /\ messages[i].takes + 1 \in Nat
        BY <1>0 DEF MessagesType
  <2>6. work[w] \in Works
        BY <1>0 DEF WorkType
  <2>3. [work[w] EXCEPT !.at = "took", !.id = i, !.takes = messages[i].takes + 1] \in Works
        BY <2>2, <2>6 DEF Works
  <2>4. WorkType'
        BY <1>0, <2>1, <2>3, Placed
  <2>5. MessagesType'
        BY <1>12, <1>0, <2>1, <2>2 DEF Receive, MessagesType
  <2> QED
        BY <1>12, <1>0, <2>4, <2>5, TypeParts DEF Receive, SectionType, SpentType
<1>13. ASSUME NEW w \in Workers, Takeable(w) PROVE TypeOK'
  <2>1. work[w] \in Works
        BY <1>13, <1>0 DEF WorkType
  <2>2. WorkType'
        BY <1>13, <2>1, <1>0, Placed DEF Takeable, Works, WorkType
  <2>3. SectionType'
        BY <1>13, <1>0, <1>s, RecordEdits, Entered DEF Takeable, Statuses, Settled, SectionType
  <2>4. SpentType'
        BY <1>13, <1>0, Spending DEF Takeable, SpentType
  <2> QED
        BY <1>0, <1>13, <2>2, <2>3, <2>4, TypeParts DEF Takeable, SectionType, WorkType, SpentType, MessagesType,
           Scars
<1>14. ASSUME NEW w \in Workers, Drop(w) PROVE TypeOK'
  <2>1. work[w] \in Works
        BY <1>14, <1>0 DEF WorkType
  <2>2. WorkType'
        BY <1>14, <2>1, <1>0, Placed DEF Drop, Works
  <2>3. MessagesType'
        BY <1>14, <1>0, Removing DEF Drop
  <2> QED
        BY <1>0, <1>14, <2>2, <2>3, TypeParts DEF Drop, SectionType, WorkType, SpentType, MessagesType, Scars
<1>15. ASSUME NEW w \in Workers, Claim(w) PROVE TypeOK'
  <2>1. work[w] \in Works
        BY <1>15, <1>0 DEF WorkType
  <2>2. WorkType'
        BY <1>15, <2>1, <1>0, Placed DEF Claim, Works, WorkType
  <2>3. SectionType'
        BY <1>15, <1>0, <1>s, RecordEdits, Entered DEF Claim, Statuses, Settled, SectionType
  <2> QED
        BY <1>0, <1>15, <2>2, <2>3, TypeParts DEF Claim, SectionType, WorkType, SpentType, MessagesType, Scars
<1>16. ASSUME NEW w \in Workers, ClaimFails(w) PROVE TypeOK'
  <2>1. work[w] \in Works
        BY <1>16, <1>0 DEF WorkType
  <2>2. WorkType'
        BY <1>16, <2>1, <1>0, Placed DEF ClaimFails, Works
  <2>3. SectionType'
        BY <1>16, <1>0, <1>s, Left DEF ClaimFails
  <2>4. SpentType'
        BY <1>16, <1>0, Spending DEF ClaimFails, SpentType
  <2> QED
        BY <1>0, <1>16, <2>2, <2>3, <2>4, TypeParts DEF ClaimFails, SectionType, WorkType, SpentType, MessagesType,
           Scars
<1>17. ASSUME NEW w \in Workers, Beat(w) PROVE TypeOK'
  <2>1. work[w] \in Works
        BY <1>17, <1>0 DEF WorkType
  <2>2. SectionType'
        BY <1>17, <1>0, <1>s, Entered DEF Beat
  <2> QED
        BY <1>0, <1>17, <2>2, TypeParts DEF Beat, SectionType, WorkType, SpentType, MessagesType, Scars
<1>18. ASSUME NEW w \in Workers, Fetch(w) PROVE TypeOK'
  <2>1. work[w] \in Works
        BY <1>18, <1>0 DEF WorkType
  <2>2. WorkType'
        BY <1>18, <2>1, <1>0, Placed DEF Fetch, Works
  <2> QED
        BY <1>0, <1>18, <2>2, TypeParts DEF Fetch, SectionType, WorkType, SpentType, MessagesType, Scars
<1>19. ASSUME NEW w \in Workers, FetchFails(w) PROVE TypeOK'
  <2>1. work[w] \in Works
        BY <1>19, <1>0 DEF WorkType
  <2>2. WorkType'
        BY <1>19, <2>1, <1>0, Placed DEF FetchFails, Works
  <2>3. SectionType'
        BY <1>19, <1>0, <1>s, RecordEdits, Entered DEF FetchFails, Statuses, Settled, SectionType
  <2> QED
        BY <1>0, <1>19, <2>2, <2>3, TypeParts DEF FetchFails, SectionType, WorkType, SpentType, MessagesType, Scars
<1>20. ASSUME NEW w \in Workers, EndRun(w) PROVE TypeOK'
  <2>1. work[w] \in Works
        BY <1>20, <1>0 DEF WorkType
  <2>2. WorkType'
        BY <1>20, <2>1, <1>0, Placed DEF EndRun, Works
  <2> QED
        BY <1>0, <1>20, <2>2, TypeParts DEF EndRun, SectionType, WorkType, SpentType, MessagesType, Scars
<1>21. ASSUME NEW w \in Workers, Finish(w) PROVE TypeOK'
  <2>1. work[w] \in Works
        BY <1>21, <1>0 DEF WorkType
  <2>2. WorkType'
        BY <1>21, <2>1, <1>0, Placed DEF Finish, Works, WorkType
  <2>3. SectionType'
        BY <1>21, <1>0, <1>s, RecordEdits, Entered DEF Finish, Statuses, Settled, SectionType
  <2> QED
        BY <1>0, <1>21, <2>2, <2>3, TypeParts DEF Finish, SectionType, WorkType, SpentType, MessagesType, Scars
<1>22. ASSUME NEW w \in Workers, Done(w) PROVE TypeOK'
  <2>1. work[w] \in Works
        BY <1>22, <1>0 DEF WorkType
  <2>5. Off \in Works /\ [Off EXCEPT !.at = "idle", !.pausing = work[w].pausing, !.handle = work[w].handle] \in Works
        BY <2>1 DEF Works, Off
  <2>2. WorkType'
        BY <1>22, <2>5, <1>0, Placed DEF Done
  <2>3. MessagesType'
        BY <1>22, <1>0, Removing DEF Done
  <2>4. SectionType'
        BY <1>22, <1>0, <1>s, Left DEF Done
  <2> QED
        BY <1>0, <1>22, <2>2, <2>3, <2>4, TypeParts DEF Done, SpentType, Scars
<1>23. ASSUME NEW w \in Workers, Renew(w) PROVE TypeOK'
  <2>1. work[w] \in Works
        BY <1>23, <1>0 DEF WorkType
  <2>2. WorkType'
        BY <1>23, <2>1, <1>0, Placed DEF Renew, Works, WorkType
  <2>3. MessagesType'
        BY <1>23, <1>0 DEF Renew, MessagesType, Holds
  <2> QED
        BY <1>0, <1>23, <2>2, <2>3, TypeParts DEF Renew, SectionType, WorkType, SpentType, MessagesType, Scars
<1>24. ASSUME NEW w \in Workers, Look(w) PROVE TypeOK'
  <2>1. work[w] \in Works
        BY <1>24, <1>0 DEF WorkType
  <2>2. WorkType'
        BY <1>24, <2>1, <1>0, Placed DEF Look, Works
  <2> QED
        BY <1>0, <1>24, <2>2, TypeParts DEF Look, SectionType, WorkType, SpentType, MessagesType, Scars
<1>25. ASSUME NEW w \in Workers, Quit(w) PROVE TypeOK'
  <2>1. work[w] \in Works
        BY <1>25, <1>0 DEF WorkType
  <2>2. WorkType'
        BY <1>25, <2>1, <1>0, Placed DEF Quit, Works, Off
  <2>3. SectionType'
        BY <1>25, <1>0, <1>s, Left DEF Quit, SectionType
  <2>4. SpentType'
        BY <1>25, <1>0, Spending DEF Quit
  <2> QED
        BY <1>0, <1>25, <2>2, <2>3, <2>4, TypeParts DEF Quit, SectionType, WorkType, SpentType, MessagesType, Scars
<1>26. ASSUME NEW w \in Workers, Crash(w) PROVE TypeOK'
  <2>1. work[w] \in Works
        BY <1>26, <1>0 DEF WorkType
  <2>2. WorkType'
        BY <1>26, <2>1, <1>0, Placed DEF Crash, Works, Off
  <2>3. SectionType'
        BY <1>26, <1>0, <1>s, Left DEF Crash
  <2>4. SpentType'
        BY <1>26, <1>0, Spending DEF Crash
  <2> QED
        BY <1>0, <1>26, <2>2, <2>3, <2>4, TypeParts DEF Crash, SectionType, WorkType, SpentType, MessagesType, Scars
<1>27. ASSUME NEW w \in Workers, Stall(w) PROVE TypeOK'
  <2>1. work[w] \in Works
        BY <1>27, <1>0 DEF WorkType
  <2>2. WorkType'
        BY <1>27, <2>1, <1>0, Placed DEF Stall, Works
  <2>3. SpentType'
        BY <1>27, <1>0, Spending DEF Stall
  <2> QED
        BY <1>0, <1>27, <2>2, <2>3, TypeParts DEF Stall, SectionType, WorkType, SpentType, MessagesType, Scars
<1>28. ASSUME NEW w \in Workers, Wake(w) PROVE TypeOK'
  <2>1. work[w] \in Works
        BY <1>28, <1>0 DEF WorkType
  <2>2. WorkType'
        BY <1>28, <2>1, <1>0, Placed DEF Wake, Works
  <2> QED
        BY <1>0, <1>28, <2>2, TypeParts DEF Wake, SectionType, WorkType, SpentType, MessagesType, Scars
<1>29. ASSUME NEW i \in DOMAIN messages, Lapse(i) PROVE TypeOK'
  <2>1. MessagesType'
        BY <1>29, <1>0 DEF Lapse, MessagesType
  <2> QED
        BY <1>0, <1>29, <2>1, TypeParts DEF Lapse, SectionType, WorkType, SpentType, Scars
<1>30. ASSUME NEW p \in Processes, Write(p) PROVE TypeOK'
  <2>1. section[p] \in Sections /\ record' \in Records
        BY <1>30, <1>0 DEF Write, SectionType, Sections, Free
  <2>2. WorkType'
    <3>1. CASE UNCHANGED work
          BY <1>0, <3>1 DEF WorkType
    <3>2. CASE ~UNCHANGED work
      <4>1. p \in Workers
            BY <1>30, <1>0, <3>2 DEF Write, After, Processes, Set, WorkType
      <4>2. work[p] \in Works
            BY <1>0, <4>1 DEF WorkType
      <4> QED
            BY <1>30, <1>0, <3>2, <4>1, <4>2, Placed DEF Write, After, Works
    <3> QED BY <3>1, <3>2
  <2>3. SectionType'
    <3>1. [op |-> "enqueue", new |-> Paused(section[p].new), late |-> FALSE] \in Sections
          BY <2>1, RecordEdits DEF Sections, Statuses
    <3>2. \A q \in Processes : section[q] # None => [section[q] EXCEPT !.late = TRUE] \in Sections
          BY <1>0 DEF SectionType, Sections
    <3> QED
          BY <1>30, <1>0, <3>1, <3>2 DEF Write, Leave, SectionType
  <2>4. scars' \subseteq Scars
        BY <1>30, <1>0 DEF Write, Harm, Scars
  <2>6. SpentType'
    <3>1. CASE UNCHANGED spent
          BY <1>0, <3>1 DEF SpentType, Limit
    <3>2. CASE spent' = Limit
          BY <3>2, BoundsAssumption DEF SpentType, Limit
    <3> QED BY <1>30, <3>1, <3>2 DEF Write, Harm
  <2>5. MessagesType'
        BY <1>30, <1>0, Adding DEF Write, MessagesType
  <2> QED
        BY <1>30, <1>0, <2>1, <2>2, <2>3, <2>4, <2>5, <2>6, TypeParts DEF Write
<1>31. CASE UNCHANGED vars
      BY <1>0, <1>31, TypeParts DEF vars, SectionType, WorkType, SpentType, MessagesType
<1>32. ASSUME NEW w \in Workers, FinishUnread(w) PROVE TypeOK'
  <2>1. work[w] \in Works
        BY <1>32, <1>0 DEF WorkType
  <2>2. WorkType'
        BY <1>32, <2>1, <1>0, Placed DEF FinishUnread, Works
  <2>3. SpentType'
        BY <1>32, <1>0, Spending DEF FinishUnread
  <2> QED
        BY <1>0, <1>32, <2>2, <2>3, TypeParts DEF FinishUnread, SectionType, MessagesType
<1>33. ASSUME NEW p \in Processes, WriteFails(p) PROVE TypeOK'
  <2>1. SectionType'
        BY <1>33, <1>0, Left DEF WriteFails
  <2>2. SpentType'
        BY <1>33, <1>0, Spending DEF WriteFails
  <2>3. WorkType'
    <3>1. CASE UNCHANGED work
          BY <1>0, <3>1 DEF WorkType
    <3>2. CASE ~UNCHANGED work
      <4>1. p \in Workers
            BY <1>33, <1>0, <3>2 DEF WriteFails, After, Processes, Set, WorkType
      <4>2. work[p] \in Works
            BY <1>0, <4>1 DEF WorkType
      <4> QED
            BY <1>33, <1>0, <3>2, <4>1, <4>2, Placed DEF WriteFails, After, Works
    <3> QED BY <3>1, <3>2
  <2> QED
        BY <1>0, <1>33, <2>1, <2>2, <2>3, TypeParts DEF WriteFails, MessagesType, Scars
<1> QED
      BY <1>1, <1>2, <1>3, <1>4, <1>5, <1>6, <1>7, <1>8, <1>9, <1>10, <1>11, <1>12, <1>13, <1>14, <1>15, <1>16,
         <1>17, <1>18, <1>19, <1>20, <1>21, <1>22, <1>23, <1>24, <1>25, <1>26, <1>27, <1>28, <1>29, <1>30, <1>31,
         <1>32, <1>33, <1>s DEF Next, Serve, Follow

---------------------------------------------------------------------------
(* Sections fit the record they read.                                      *)

\* A record that does not change leaves the other sections as they fit.
LEMMA EnterFits ==
    ASSUME SectionType, SectionsFit, NEW p \in Processes, NEW op, NEW new, Enter(p, op, new), UNCHANGED record,
           Fits([op |-> op, new |-> new, late |-> FALSE])
    PROVE  SectionsFit'
BY DEF SectionType, SectionsFit, Fits, Enter

LEMMA LeaveFits ==
    ASSUME SectionType, SectionsFit, NEW p \in Processes, section' = [section EXCEPT ![p] = None], UNCHANGED record
    PROVE  SectionsFit'
BY DEF SectionType, SectionsFit, Fits

LEMMA FitStep ==
    ASSUME IInv, [Next]_vars
    PROVE  SectionsFit'
<1>0. SectionType /\ SectionsFit /\ record \in Records
      BY DEF IInv, TypeOK, SectionType
<1>s. Api \in Processes /\ Workers \subseteq Processes
      BY DEF Processes
<1>1. CASE UNCHANGED <<record, section>>
      BY <1>0, <1>1 DEF SectionsFit, Fits
<1>2. CASE Submit
  <2>1. \A p \in Processes : section[p] = None
        BY <1>2 DEF Submit, IInv, JobIsFirst, Free
  <2>2. record'.status = "queued"
        BY <1>0, <1>2 DEF Submit, Records
  <2> QED
        BY <1>0, <1>2, <2>1, <2>2 DEF Submit, Enter, SectionType, SectionsFit, Fits
<1>3. CASE Cancel
      BY <1>3, <1>0, <1>s, <1>1, EnterFits DEF Cancel, Fits, Records
<1>4. CASE Pause
      BY <1>4, <1>0, <1>s, <1>1, EnterFits DEF Pause, Fits, Records
<1>5. CASE Resume
      BY <1>5, <1>0, <1>s, <1>1, EnterFits DEF Resume, Fits
<1>6. CASE Expire
      BY <1>6, <1>0, <1>s, <1>1, EnterFits DEF Expire, Fits, Records
<1>7. CASE Judge
      BY <1>7, <1>0, <1>s, <1>1, EnterFits DEF Judge, Fits, Records, Paused
<1>8. CASE Enqueue
      BY <1>8, <1>0, <1>s DEF Enqueue, SectionsFit, Fits, SectionType, Sections, Free
<1>9. CASE CrashApi
      BY <1>9, <1>0, <1>s, LeaveFits DEF CrashApi
<1>10. ASSUME NEW w \in Workers, Takeable(w) PROVE SectionsFit'
      BY <1>10, <1>0, <1>s, <1>1, EnterFits DEF Takeable, Fits, Records, LeftRunning
<1>11. ASSUME NEW w \in Workers, Claim(w) PROVE SectionsFit'
      BY <1>11, <1>0, <1>s, <1>1, EnterFits DEF Claim, Fits, Records
<1>12. ASSUME NEW w \in Workers, Beat(w) PROVE SectionsFit'
      BY <1>12, <1>0, <1>s, <1>1, EnterFits DEF Beat, Fits
<1>13. ASSUME NEW w \in Workers, FetchFails(w) PROVE SectionsFit'
      BY <1>13, <1>0, <1>s, <1>1, EnterFits DEF FetchFails, Fits, Records
<1>14. ASSUME NEW w \in Workers, Finish(w) PROVE SectionsFit'
      BY <1>14, <1>0, <1>s, <1>1, EnterFits DEF Finish, Fits, Records
<1>15. ASSUME NEW w \in Workers, ClaimFails(w) \/ Crash(w) \/ Done(w) PROVE SectionsFit'
      BY <1>15, <1>0, <1>s, LeaveFits DEF ClaimFails, Crash, Done
<1>16. ASSUME NEW w \in Workers, Quit(w) PROVE SectionsFit'
      BY <1>16, <1>0, <1>s, <1>1, LeaveFits DEF Quit
<1>17. ASSUME NEW p \in Processes, Write(p) PROVE SectionsFit'
  <2>1. record' = section[p].new /\ section[p] \in Sections
        BY <1>17, <1>0 DEF Write, SectionType, Free
  <2>2. ASSUME NEW q \in Processes, q # p PROVE Fits(section[q])'
        BY <1>17, <1>0, <2>1, <2>2 DEF Write, Leave, SectionsFit, Fits, SectionType, Sections
  <2>3. Fits(section[p])'
        BY <1>17, <1>0, <2>1 DEF Write, Leave, SectionsFit, Fits, Free
  <2> QED
        BY <2>2, <2>3 DEF SectionsFit, Processes
<1>18. ASSUME NEW p \in Processes, WriteFails(p) PROVE SectionsFit'
      BY <1>18, <1>0, LeaveFits DEF WriteFails
<1> QED
      BY <1>1, <1>2, <1>3, <1>4, <1>5, <1>6, <1>7, <1>8, <1>9, <1>10, <1>11, <1>12, <1>13, <1>14, <1>15, <1>16,
         <1>17, <1>18, <1>s
      DEF Next, Serve, Follow, vars, List, Age, Begin, Receive, Drop, Fetch, EndRun, FinishUnread, Renew, Look, Stall,
          Wake, Lapse

---------------------------------------------------------------------------
(* Workers and their sections; the job and its first record.               *)

LEMMA WorkersStep ==
    ASSUME IInv, [Next]_vars
    PROVE  WorkersFit'
<1>0. SectionType /\ WorkType /\ WorkersFit
      BY DEF IInv, TypeOK, SectionType, WorkType
<1>s. Api \in Processes /\ Workers \subseteq Processes /\ Api \notin Workers
      BY ProcessesAssumption DEF Processes
<1> USE DEF WorkersFit, Pending, Free, SectionType, WorkType, FromClaim
<1>1. CASE UNCHANGED <<section, work>>
      BY <1>1, <1>0
<1>2. CASE Submit \/ Cancel \/ Pause \/ Resume \/ Expire \/ Judge
      BY <1>2, <1>0, <1>s DEF Submit, Cancel, Pause, Resume, Expire, Judge, Enter
<1>3. CASE Enqueue
      BY <1>3, <1>0, <1>s DEF Enqueue, Sections
<1>4. CASE CrashApi
      BY <1>4, <1>0, <1>s DEF CrashApi
<1>5. ASSUME NEW w \in Workers, Begin(w) PROVE WorkersFit'
      BY <1>5, <1>0, <1>s DEF Begin, Set, Off, Sections
<1>6. ASSUME NEW w \in Workers, Receive(w) PROVE WorkersFit'
      BY <1>6, <1>0, <1>s DEF Receive, Set, Sections
<1>7. ASSUME NEW w \in Workers, Drop(w) PROVE WorkersFit'
      BY <1>7, <1>0, <1>s DEF Drop, Set, Sections
<1>8. ASSUME NEW w \in Workers, Fetch(w) PROVE WorkersFit'
      BY <1>8, <1>0, <1>s DEF Fetch, Set, Sections
<1>9. ASSUME NEW w \in Workers, EndRun(w) PROVE WorkersFit'
      BY <1>9, <1>0, <1>s DEF EndRun, Set, Sections
<1>10. ASSUME NEW w \in Workers, Done(w) PROVE WorkersFit'
      BY <1>10, <1>0, <1>s DEF Done, Set, Off
<1>11. ASSUME NEW w \in Workers, Renew(w) PROVE WorkersFit'
      BY <1>11, <1>0, <1>s DEF Renew, Set, Sections
<1>12. ASSUME NEW w \in Workers, Look(w) PROVE WorkersFit'
      BY <1>12, <1>0, <1>s DEF Look, Set, Sections
<1>13. ASSUME NEW w \in Workers, Stall(w) PROVE WorkersFit'
      BY <1>13, <1>0, <1>s DEF Stall, Set, Sections
<1>14. ASSUME NEW w \in Workers, Wake(w) PROVE WorkersFit'
      BY <1>14, <1>0, <1>s DEF Wake, Set, Sections
<1>15. ASSUME NEW w \in Workers, Takeable(w) PROVE WorkersFit'
      BY <1>15, <1>0, <1>s DEF Takeable, Set, Enter, Sections
<1>16. ASSUME NEW w \in Workers, Claim(w) PROVE WorkersFit'
      BY <1>16, <1>0, <1>s DEF Claim, Set, Enter, Sections
<1>17. ASSUME NEW w \in Workers, Beat(w) PROVE WorkersFit'
  <2>1. work[w].at \in FromClaim
        BY <1>17 DEF Beat, Watching, IInv, WatchesFit
  <2> QED
        BY <1>17, <1>0, <1>s, <2>1 DEF Beat, Enter
<1>18. ASSUME NEW w \in Workers, FetchFails(w) PROVE WorkersFit'
      BY <1>18, <1>0, <1>s DEF FetchFails, Set, Enter, Sections
<1>19. ASSUME NEW w \in Workers, Finish(w) PROVE WorkersFit'
  <2>1. CASE UNCHANGED work
        BY <1>19, <2>1, <1>0, <1>s DEF Finish, Set, Enter, Sections
  <2>2. CASE Set(w, [work[w] EXCEPT !.keep = TRUE])
        BY <1>19, <2>2, <1>0, <1>s DEF Finish, Set, Enter, Sections
  <2> QED BY <1>19, <2>1, <2>2 DEF Finish
<1>20. ASSUME NEW w \in Workers, ClaimFails(w) PROVE WorkersFit'
      BY <1>20, <1>0, <1>s DEF ClaimFails, Set, Sections
<1>21. ASSUME NEW w \in Workers, Crash(w) PROVE WorkersFit'
      BY <1>21, <1>0, <1>s DEF Crash, Set, Off, Sections
<1>22. ASSUME NEW w \in Workers, Quit(w) PROVE WorkersFit'
  <2>1. CASE Set(w, Off)
        BY <1>22, <2>1, <1>0, <1>s DEF Quit, Set, Off, Sections
  <2>2. CASE Set(w, [work[w] EXCEPT !.ctx = "quit"])
        BY <1>22, <2>2, <1>0, <1>s DEF Quit, Set, Off, Sections
  <2> QED BY <1>22, <2>1, <2>2 DEF Quit
<1>23. ASSUME NEW p \in Processes, Write(p) PROVE WorkersFit'
  <2>1. ASSUME NEW q \in Processes, q # p PROVE (section'[q] # None => section[q] # None /\ section'[q].op = section[q].op)
        BY <1>23, <1>0, <2>1 DEF Write, Leave, Sections
  <2>2. section'[p] # None => p = Api /\ section'[p].op = "enqueue"
        BY <1>23, <1>0, <1>s DEF Write, Leave, Processes
  <2>3. \A w \in Workers : w # p => work'[w] = work[w]
        BY <1>23, <1>0 DEF Write, After, Set
  <2> QED
        BY <1>0, <1>s, <2>1, <2>2, <2>3
<1>24. ASSUME NEW w \in Workers, FinishUnread(w) PROVE WorkersFit'
      BY <1>24, <1>0, <1>s DEF FinishUnread, Set, Sections
<1>25. ASSUME NEW p \in Processes, WriteFails(p) PROVE WorkersFit'
  <2>1. \A w \in Workers : w # p => work'[w] = work[w]
        BY <1>25, <1>0 DEF WriteFails, After, Set
  <2> QED
        BY <1>25, <1>0, <1>s, <2>1 DEF WriteFails
<1> QED
      BY <1>1, <1>2, <1>3, <1>4, <1>5, <1>6, <1>7, <1>8, <1>9, <1>10, <1>11, <1>12, <1>13, <1>14, <1>15, <1>16,
         <1>17, <1>18, <1>19, <1>20, <1>21, <1>22, <1>23, <1>24, <1>25, <1>s DEF Next, Serve, Follow, vars, List, Age, Lapse

\* Only the write of a claim puts a worker on the job.
LEMMA OnItStep ==
    ASSUME WorkType, NEW w \in Workers,
           \/ Begin(w) \/ Receive(w) \/ Takeable(w) \/ Drop(w) \/ Claim(w) \/ ClaimFails(w) \/ Beat(w) \/ Fetch(w)
           \/ FetchFails(w) \/ EndRun(w) \/ Finish(w) \/ FinishUnread(w) \/ Done(w) \/ Renew(w) \/ Look(w) \/ Quit(w)
           \/ Crash(w) \/ Stall(w) \/ Wake(w)
    PROVE  /\ \A v \in Workers : OnIt(v)' => OnIt(v)
           /\ UNCHANGED record
<1> USE DEF WorkType, OnIt, Set
<1>1. CASE UNCHANGED <<work, record>>
      BY <1>1
<1>2. CASE Begin(w)
      BY <1>2 DEF Begin, Off
<1>3. CASE Receive(w)
  <2>1. PICK i : Set(w, [work[w] EXCEPT !.at = "took", !.id = i, !.takes = messages[i].takes + 1])
        BY <1>3 DEF Receive
  <2>2. work[w] \in Works
        OBVIOUS
  <2>3. work'[w].at = "took" /\ \A v \in Workers : v # w => work'[v] = work[v]
        BY <2>1, <2>2 DEF Works
  <2> QED BY <1>3, <2>3 DEF Receive
<1>4. CASE Drop(w)
      BY <1>4 DEF Drop
<1>5. CASE Fetch(w)
      BY <1>5 DEF Fetch
<1>6. CASE EndRun(w)
      BY <1>6 DEF EndRun
<1>7. CASE Done(w)
      BY <1>7 DEF Done, Off
<1>8. CASE Renew(w)
  <2>1. CASE Set(w, [work[w] EXCEPT !.watch = FALSE, !.ctx = IF @ = "open" /\ OnIt(w) THEN "cancelled" ELSE @])
        BY <1>8, <2>1 DEF Renew
  <2> QED BY <1>8, <2>1, <1>1 DEF Renew
<1>9. CASE Look(w)
  <2>1. CASE Set(w, [work[w] EXCEPT !.ctx = "cancelled"])
        BY <1>9, <2>1 DEF Look
  <2>2. CASE Set(w, [work[w] EXCEPT !.pausing = TRUE, !.ctx = IF @ = "open" /\ OnIt(w) THEN "cancelled" ELSE @])
        BY <1>9, <2>2 DEF Look
  <2> QED BY <1>9, <2>1, <2>2, <1>1 DEF Look
<1>10. CASE Stall(w)
      BY <1>10 DEF Stall
<1>11. CASE Wake(w)
      BY <1>11 DEF Wake
<1>12. CASE Takeable(w)
  <2>1. CASE Set(w, [work[w] EXCEPT !.at = "drop"])
        BY <1>12, <2>1 DEF Takeable
  <2>2. CASE Set(w, [work[w] EXCEPT !.at = "claim", !.watch = TRUE])
        BY <1>12, <2>2 DEF Takeable
  <2> QED BY <1>12, <2>1, <2>2, <1>1 DEF Takeable
<1>13. CASE Claim(w)
  <2>1. CASE Set(w, [work[w] EXCEPT !.at = "done", !.keep = TRUE])
        BY <1>13, <2>1 DEF Claim
  <2> QED BY <1>13, <2>1, <1>1 DEF Claim
<1>14. CASE Beat(w)
      BY <1>14 DEF Beat
<1>15. CASE FetchFails(w)
      BY <1>15 DEF FetchFails
<1>16. CASE Finish(w)
  <2>1. CASE Set(w, [work[w] EXCEPT !.keep = TRUE])
        BY <1>16, <2>1 DEF Finish
  <2> QED BY <1>16, <2>1, <1>1 DEF Finish
<1>17. CASE ClaimFails(w)
      BY <1>17 DEF ClaimFails
<1>18. CASE Crash(w)
      BY <1>18 DEF Crash, Off
<1>19. CASE Quit(w)
  <2>1. CASE Set(w, Off)
        BY <1>19, <2>1 DEF Quit, Off
  <2>2. CASE Set(w, [work[w] EXCEPT !.ctx = "quit"])
        BY <1>19, <2>2 DEF Quit, Off
  <2> QED BY <1>19, <2>1, <2>2, <1>1 DEF Quit
<1>20. CASE FinishUnread(w)
      BY <1>20 DEF FinishUnread
<1> QED BY <1>1, <1>2, <1>3, <1>4, <1>5, <1>6, <1>7, <1>8, <1>9, <1>10, <1>11, <1>12, <1>13, <1>14, <1>15, <1>16,
           <1>17, <1>18, <1>19, <1>20

\* A failed write puts nobody on it either, and changes no record.
LEMMA FailedWrite ==
    ASSUME WorkType, NEW p \in Processes, WriteFails(p)
    PROVE  /\ UNCHANGED record /\ section' = [section EXCEPT ![p] = None]
           /\ \A w \in Workers : w # p => work'[w] = work[w]
           /\ p \in Workers =>
                \/ work'[p] = work[p]
                \/ section[p].op \in {"dead", "refuse"} /\ work'[p] = [work[p] EXCEPT !.at = "drop"]
                \/ section[p].op = "finish" /\ work'[p] = [work[p] EXCEPT !.at = "unsaid", !.handle = FALSE]
           /\ \A w \in Workers : OnIt(w)' => OnIt(w)
<1>1. \A w \in Workers : w # p => work'[w] = work[w]
      BY DEF WriteFails, After, Set, WorkType
<1>2. p \in Workers =>
        \/ work'[p] = work[p]
        \/ section[p].op \in {"dead", "refuse"} /\ work'[p] = [work[p] EXCEPT !.at = "drop"]
        \/ section[p].op = "finish" /\ work'[p] = [work[p] EXCEPT !.at = "unsaid", !.handle = FALSE]
      BY DEF WriteFails, After, Set, WorkType
<1>3. ASSUME NEW w \in Workers, OnIt(w)' PROVE OnIt(w)
  <2>1. w = p => work'[p] = work[p] \/ work'[p].at \in {"drop", "unsaid"}
        BY <1>2 DEF WorkType, Works
  <2> QED BY <1>1, <1>3, <2>1 DEF OnIt
<1> QED BY <1>1, <1>2, <1>3 DEF WriteFails

\* A section is begun only on a job that is there.
LEMMA EnterFirst ==
    ASSUME SectionType, JobIsFirst, NEW p \in Processes, NEW op, NEW new, Enter(p, op, new), UNCHANGED record,
           \A w \in Workers : OnIt(w)' => OnIt(w), record.status # "none", new.status # "none"
    PROVE  JobIsFirst'
BY DEF SectionType, JobIsFirst, Enter, Free

LEMMA FirstStep ==
    ASSUME IInv, [Next]_vars
    PROVE  JobIsFirst'
<1>0. SectionType /\ WorkType /\ JobIsFirst /\ WorkersFit /\ record \in Records
      BY DEF IInv, TypeOK, SectionType, WorkType
<1>s. Api \in Processes /\ Workers \subseteq Processes /\ Api \notin Workers
      BY ProcessesAssumption DEF Processes
<1>q. ASSUME UNCHANGED <<record, section>>, \A w \in Workers : OnIt(w)' => OnIt(w), scratch' => scratch
      PROVE  JobIsFirst'
      BY <1>0, <1>q DEF JobIsFirst, Free
<1>l. ASSUME NEW p \in Processes, section' = [section EXCEPT ![p] = None], UNCHANGED record,
             \A w \in Workers : OnIt(w)' => OnIt(w), scratch' => scratch
      PROVE  JobIsFirst'
      BY <1>0, <1>l DEF JobIsFirst, Free, SectionType
<1>1. CASE UNCHANGED vars
      BY <1>1, <1>q DEF vars, OnIt
<1>2. CASE Submit
      BY <1>2, <1>0, <1>s DEF Submit, Enter, Records, JobIsFirst, Free, SectionType, OnIt
<1>3. CASE Cancel
      BY <1>3, <1>0, <1>s, <1>q, EnterFirst DEF Cancel, Records, OnIt
<1>4. CASE Pause
      BY <1>4, <1>0, <1>s, <1>q, EnterFirst DEF Pause, Records, OnIt
<1>5. CASE Resume
      BY <1>5, <1>0, <1>s, <1>q, EnterFirst DEF Resume, OnIt
<1>6. CASE Expire
      BY <1>6, <1>0, <1>s, <1>q, EnterFirst DEF Expire, Records, OnIt
<1>7. CASE Judge
      BY <1>7, <1>0, <1>s, <1>q, EnterFirst DEF Judge, Records, Paused, OnIt
<1>8. CASE Enqueue
      BY <1>8, <1>0, <1>s DEF Enqueue, Sections, JobIsFirst, Free, SectionType, OnIt
<1>9. CASE List \/ Age
      BY <1>9, <1>q DEF List, Age, OnIt
<1>10. CASE CrashApi
      BY <1>10, <1>0, <1>s, <1>l DEF CrashApi, OnIt
<1>11. ASSUME NEW i \in DOMAIN messages, Lapse(i) PROVE JobIsFirst'
      BY <1>11, <1>q DEF Lapse, OnIt
<1>12. ASSUME NEW w \in Workers, \/ Begin(w) \/ Receive(w) \/ Drop(w) \/ EndRun(w) \/ FinishUnread(w) \/ Renew(w)
                                 \/ Look(w) \/ Stall(w) \/ Wake(w)
      PROVE  JobIsFirst'
  <2>1. scratch' => scratch
        BY <1>12 DEF Begin, Receive, Drop, EndRun, FinishUnread, Renew, Look, Stall, Wake
  <2>2. UNCHANGED <<record, section>>
        BY <1>12 DEF Begin, Receive, Drop, EndRun, FinishUnread, Renew, Look, Stall, Wake
  <2> QED
        BY <1>12, <1>0, <1>q, <2>1, <2>2, OnItStep
<1>13. ASSUME NEW w \in Workers, ClaimFails(w) \/ Crash(w) \/ Quit(w) \/ Done(w) PROVE JobIsFirst'
  <2>1. scratch' => scratch
        BY <1>13 DEF ClaimFails, Crash, Quit, Done
  <2>2. (section' = [section EXCEPT ![w] = None] \/ UNCHANGED section) /\ UNCHANGED record
        BY <1>13 DEF ClaimFails, Crash, Quit, Done
  <2> QED
        BY <1>13, <1>0, <1>s, <1>q, <1>l, <2>1, <2>2, OnItStep
<1>20. ASSUME NEW w \in Workers, Fetch(w) PROVE JobIsFirst'
  <2>1. record.status # "none"
        BY <1>20, <1>0 DEF Fetch, JobIsFirst, OnIt
  <2> QED
        BY <1>20, <1>0, <2>1, OnItStep DEF Fetch, JobIsFirst, Free
<1>21. ASSUME NEW p \in Processes, WriteFails(p) PROVE JobIsFirst'
      BY <1>21, <1>0, <1>l, FailedWrite DEF WriteFails
<1>14. ASSUME NEW w \in Workers, Takeable(w) PROVE JobIsFirst'
  <2>1. UNCHANGED <<record, scratch>> /\ \A v \in Workers : OnIt(v)' => OnIt(v)
        BY <1>14, <1>0, OnItStep DEF Takeable
  <2>2. CASE UNCHANGED section
        BY <1>q, <2>1, <2>2
  <2>3. CASE ~UNCHANGED section
    <3>1. record.status # "none"
          BY <1>14, <1>0, <2>3 DEF Takeable, JobIsFirst, OnIt, LeftRunning
    <3> QED
          BY <1>14, <1>0, <1>s, <2>1, <2>3, <3>1, EnterFirst DEF Takeable, Records, Paused
  <2> QED BY <2>2, <2>3
<1>15. ASSUME NEW w \in Workers, Claim(w) PROVE JobIsFirst'
  <2>1. UNCHANGED <<record, scratch>> /\ \A v \in Workers : OnIt(v)' => OnIt(v)
        BY <1>15, <1>0, OnItStep DEF Claim
  <2>2. CASE UNCHANGED section
        BY <1>q, <2>1, <2>2
  <2>3. CASE ~UNCHANGED section
    <3>1. record.status # "none"
          BY <1>15, <1>0, <2>3 DEF Claim, JobIsFirst, OnIt
    <3> QED
          BY <1>15, <1>0, <1>s, <2>1, <2>3, <3>1, EnterFirst DEF Claim, Records
  <2> QED BY <2>2, <2>3
<1>16. ASSUME NEW w \in Workers, Beat(w) PROVE JobIsFirst'
  <2>1. UNCHANGED <<record, scratch>> /\ \A v \in Workers : OnIt(v)' => OnIt(v)
        BY <1>16, <1>0, OnItStep DEF Beat
  <2>2. CASE UNCHANGED section
        BY <1>q, <2>1, <2>2
  <2>3. CASE ~UNCHANGED section
    <3>1. record.status # "none"
          BY <1>16, <1>0, <2>3 DEF Beat, JobIsFirst, OnIt
    <3> QED
          BY <1>16, <1>0, <1>s, <2>1, <2>3, <3>1, EnterFirst DEF Beat
  <2> QED BY <2>2, <2>3
<1>17. ASSUME NEW w \in Workers, FetchFails(w) PROVE JobIsFirst'
  <2>1. UNCHANGED <<record, scratch>> /\ \A v \in Workers : OnIt(v)' => OnIt(v)
        BY <1>17, <1>0, OnItStep DEF FetchFails
  <2>2. CASE UNCHANGED section
        BY <1>q, <2>1, <2>2
  <2>3. CASE ~UNCHANGED section
    <3>1. record.status # "none"
          BY <1>17, <1>0, <2>3 DEF FetchFails, JobIsFirst, OnIt
    <3> QED
          BY <1>17, <1>0, <1>s, <2>1, <2>3, <3>1, EnterFirst DEF FetchFails, Records, Paused
  <2> QED BY <2>2, <2>3
<1>18. ASSUME NEW w \in Workers, Finish(w) PROVE JobIsFirst'
  <2>1. UNCHANGED <<record, scratch>> /\ \A v \in Workers : OnIt(v)' => OnIt(v)
        BY <1>18, <1>0, OnItStep DEF Finish
  <2>2. CASE UNCHANGED section
        BY <1>q, <2>1, <2>2
  <2>3. CASE ~UNCHANGED section
    <3>1. record.status # "none"
          BY <1>18, <1>0, <2>3 DEF Finish, JobIsFirst, OnIt
    <3> QED
          BY <1>18, <1>0, <1>s, <2>1, <2>3, <3>1, EnterFirst DEF Finish, Records, Paused
  <2> QED BY <2>2, <2>3
<1>19. ASSUME NEW p \in Processes, Write(p) PROVE JobIsFirst'
  <2>1. record'.status # "none"
        BY <1>19, <1>0 DEF Write, JobIsFirst
  <2>2. ASSUME NEW q \in Processes, section'[q] # None PROVE section'[q].new.status # "none"
        BY <1>19, <1>0, <2>2 DEF Write, Leave, Sections, Records, Paused, JobIsFirst, SectionType, Free
  <2> QED
        BY <2>1, <2>2 DEF JobIsFirst, Free
<1> QED
      BY <1>1, <1>2, <1>3, <1>4, <1>5, <1>6, <1>7, <1>8, <1>9, <1>10, <1>11, <1>12, <1>13, <1>14, <1>15, <1>16,
         <1>17, <1>18, <1>19, <1>20, <1>21, <1>s DEF Next, Serve, Follow

---------------------------------------------------------------------------
(* Harm and excuses do not go away; a settled record stays.                *)

LEMMA WriteHarms ==
    ASSUME NEW p \in Processes, Write(p)
    PROVE  /\ scars \subseteq scars'
           /\ section[p].late => Harmed'
           /\ section[p].op = "dead" /\ (\E w \in Workers : OnIt(w)) => Harmed'
BY DEF Write, Harm, Harmed

\* The history only grows.
LEMMA HistoryGrows ==
    ASSUME TypeOK, [Next]_vars
    PROVE  scars \subseteq scars' /\ (asked => asked')
<1>s. Api \in Processes /\ Workers \subseteq Processes
      BY DEF Processes
<1>1. ASSUME NEW p \in Processes, Write(p) PROVE scars \subseteq scars' /\ (asked => asked')
      BY <1>1, WriteHarms DEF Write
<1>2. ASSUME NEW w \in Workers, \/ Begin(w) \/ Receive(w) \/ Takeable(w) \/ Drop(w) \/ Claim(w) \/ ClaimFails(w)
                                \/ Beat(w) \/ Fetch(w) \/ FetchFails(w) \/ EndRun(w) \/ Finish(w) \/ FinishUnread(w)
                                \/ Done(w)
      PROVE  scars \subseteq scars' /\ (asked => asked')
  <2>1. CASE Takeable(w)
        BY <2>1 DEF Takeable
  <2>2. CASE Claim(w) \/ ClaimFails(w)
        BY <2>2 DEF Claim, ClaimFails
  <2>3. CASE Receive(w)
        BY <2>3 DEF Receive
  <2>4. CASE Begin(w) \/ Drop(w) \/ Beat(w) \/ Fetch(w) \/ FetchFails(w) \/ EndRun(w) \/ Finish(w) \/ FinishUnread(w) \/ Done(w)
        BY <2>4 DEF Begin, Drop, Beat, Fetch, FetchFails, EndRun, Finish, FinishUnread, Done
  <2> QED BY <1>2, <2>1, <2>2, <2>3, <2>4
<1>3. ASSUME NEW w \in Workers, Renew(w) \/ Look(w) \/ Quit(w) \/ Crash(w) \/ Stall(w) \/ Wake(w)
      PROVE  scars \subseteq scars' /\ (asked => asked')
      BY <1>3 DEF Renew, Look, Quit, Crash, Stall, Wake
<1>4. ASSUME NEW i \in DOMAIN messages, Lapse(i) PROVE scars \subseteq scars' /\ (asked => asked')
      BY <1>4 DEF Lapse
<1>5. CASE Serve \/ Follow \/ CrashApi \/ Age \/ UNCHANGED vars
      BY <1>5 DEF Serve, Follow, Submit, Cancel, Pause, Resume, Expire, Enqueue, List, Judge, CrashApi, Age, vars
<1>6. ASSUME NEW p \in Processes, WriteFails(p) PROVE scars \subseteq scars' /\ (asked => asked')
      BY <1>6 DEF WriteFails
<1> QED
      BY <1>1, <1>2, <1>3, <1>4, <1>5, <1>6, <1>s DEF Next

LEMMA ExcusesStay ==
    ASSUME TypeOK, [Next]_vars
    PROVE  (Harmed => Harmed') /\ (Excused => Excused')
BY HistoryGrows DEF Harmed, Excused

\* Besides the first record, a record changes by a write only.
LEMMA RecordMoves ==
    ASSUME TypeOK, [Next]_vars
    PROVE  Submit \/ (\E p \in Processes : Write(p)) \/ UNCHANGED record
<1>0. WorkType
      BY DEF TypeOK, WorkType
<1> QED
      BY <1>0, OnItStep DEF Next, Processes, Serve, Follow, Cancel, Pause, Resume, Expire, Enqueue, List, Judge,
         CrashApi, WriteFails, Age, Lapse, vars

\* A write that changes the status of a settled record is late, or comes of a
\* run that another worker's end, or a verdict, has overtaken.
LEMMA SettledStep ==
    ASSUME IInv, [Next]_vars, record.status \in Settled
    PROVE  record'.status = record.status \/ Harmed'
<1>0. TypeOK /\ SectionsFit /\ WorkersFit /\ OnItIsRunning
      BY DEF IInv
<1>1. CASE Submit
      BY <1>1 DEF Submit, Settled
<1>2. ASSUME NEW p \in Processes, Write(p), ~Harmed' PROVE record'.status = record.status
  <2>1. ~Harmed /\ ~section[p].late
        BY <1>0, <1>2, WriteHarms DEF Harmed
  <2>2. section[p] # None /\ section[p] \in Sections /\ Fits(section[p])
        BY <1>0, <1>2 DEF Write, Free, TypeOK, SectionsFit
  <2>3. CASE section[p].op = "finish"
    <3>1. p \in Workers /\ OnIt(p)
          BY <1>0, <2>2, <2>3 DEF WorkersFit, Pending, Free, OnIt, Processes
    <3> QED
          BY <1>0, <2>1, <3>1 DEF OnItIsRunning, Settled
  <2>4. CASE section[p].op # "finish"
        BY <1>2, <2>1, <2>2, <2>4 DEF Fits, Sections, Settled, Write
  <2> QED BY <2>3, <2>4
<1> QED
      BY <1>0, <1>1, <1>2, RecordMoves

---------------------------------------------------------------------------
(* One analysis at a time.                                                 *)

\* What the write of each kind of section does to the workers.
LEMMA AfterWorks ==
    ASSUME WorkType, NEW p \in Processes, After(p)
    PROVE  /\ \A w \in Workers : w # p => work'[w] = work[w]
           /\ p \in Workers =>
                /\ section[p].op = "finish" => work'[p] = [work[p] EXCEPT !.at = "done", !.handle = FALSE]
                /\ section[p].op = "claim" => work'[p] = [work[p] EXCEPT !.at = "fetch", !.handle = TRUE]
                /\ section[p].op \notin {"claim", "finish"} =>
                     work'[p] = work[p] \/ work'[p] = [work[p] EXCEPT !.at = "drop"]
<1> USE DEF WorkType, Set
<1>1. CASE section[p].op = "claim"
      BY <1>1 DEF After
<1>2. CASE section[p].op = "finish"
      BY <1>2 DEF After
<1>3. CASE section[p].op \in {"dead", "refuse"} /\ p # Api
      BY <1>3 DEF After
<1>4. CASE section[p].op \notin {"claim", "finish"} /\ ~(section[p].op \in {"dead", "refuse"} /\ p # Api)
      BY <1>4 DEF After
<1> QED BY <1>1, <1>2, <1>3, <1>4

LEMMA WatchesStep ==
    ASSUME IInv, [Next]_vars
    PROVE  WatchesFit'
<1>0. TypeOK /\ WorkType /\ WatchesFit /\ WorkersFit
      BY DEF IInv, TypeOK, WorkType
<1> USE DEF WorkType, WatchesFit, FromClaim
<1>1. CASE UNCHANGED work
      BY <1>0, <1>1
<1>2. ASSUME NEW w \in Workers, \A v \in Workers : v # w => UNCHANGED work[v], work'[w].watch => work'[w].at \in FromClaim
      PROVE  WatchesFit'
      BY <1>0, <1>2
<1>3. ASSUME NEW w \in Workers, NEW new, Set(w, new), new.watch => new.at \in FromClaim PROVE WatchesFit'
      BY <1>0, <1>2, <1>3 DEF Set
<1>w. ASSUME NEW w \in Workers
      PROVE  work[w] \in Works /\ (work[w].watch => work[w].at \in {"claim", "fetch", "run", "end", "done", "unsaid"})
      BY <1>0
<1>6. ASSUME NEW w \in Workers, Begin(w) PROVE WatchesFit'
      BY <1>1, <1>3, <1>6, <1>w DEF Begin, Off, Works
<1>7. ASSUME NEW w \in Workers, Drop(w) PROVE WatchesFit'
      BY <1>1, <1>3, <1>7, <1>w DEF Drop, Works
<1>8. ASSUME NEW w \in Workers, ClaimFails(w) PROVE WatchesFit'
      BY <1>1, <1>3, <1>8, <1>w DEF ClaimFails, Works
<1>9. ASSUME NEW w \in Workers, Fetch(w) PROVE WatchesFit'
      BY <1>1, <1>3, <1>9, <1>w DEF Fetch, Works
<1>10. ASSUME NEW w \in Workers, FetchFails(w) PROVE WatchesFit'
      BY <1>1, <1>3, <1>10, <1>w DEF FetchFails, Works
<1>11. ASSUME NEW w \in Workers, EndRun(w) PROVE WatchesFit'
      BY <1>1, <1>3, <1>11, <1>w DEF EndRun, Works
<1>12. ASSUME NEW w \in Workers, Receive(w) PROVE WatchesFit'
  <2>1. PICK i : Set(w, [work[w] EXCEPT !.at = "took", !.id = i, !.takes = messages[i].takes + 1])
        BY <1>12 DEF Receive
  <2> QED BY <1>3, <1>12, <1>w, <2>1 DEF Receive, Works
<1>13. ASSUME NEW w \in Workers, Takeable(w) PROVE WatchesFit'
      BY <1>1, <1>3, <1>13, <1>w DEF Takeable, Works
<1>14. ASSUME NEW w \in Workers, Claim(w) PROVE WatchesFit'
      BY <1>1, <1>3, <1>14, <1>w DEF Claim, Works
<1>15. ASSUME NEW w \in Workers, Finish(w) PROVE WatchesFit'
      BY <1>1, <1>3, <1>15, <1>w DEF Finish, Works
<1>16. ASSUME NEW w \in Workers, FinishUnread(w) PROVE WatchesFit'
      BY <1>1, <1>3, <1>16, <1>w DEF FinishUnread, Works
<1>17. ASSUME NEW w \in Workers, Done(w) PROVE WatchesFit'
      BY <1>1, <1>3, <1>17, <1>w DEF Done, Off, Works
<1>18. ASSUME NEW w \in Workers, Renew(w) PROVE WatchesFit'
      BY <1>1, <1>3, <1>18, <1>w DEF Renew, Works
<1>19. ASSUME NEW w \in Workers, Look(w) PROVE WatchesFit'
      BY <1>1, <1>3, <1>19, <1>w DEF Look, Works
<1>20. ASSUME NEW w \in Workers, Quit(w) PROVE WatchesFit'
      BY <1>1, <1>3, <1>20, <1>w DEF Quit, Off, Works
<1>21. ASSUME NEW w \in Workers, Crash(w) PROVE WatchesFit'
      BY <1>1, <1>3, <1>21, <1>w DEF Crash, Off, Works
<1>22. ASSUME NEW w \in Workers, Stall(w) PROVE WatchesFit'
      BY <1>1, <1>3, <1>22, <1>w DEF Stall, Works
<1>23. ASSUME NEW w \in Workers, Wake(w) PROVE WatchesFit'
      BY <1>1, <1>3, <1>23, <1>w DEF Wake, Works
<1>5. ASSUME NEW p \in Processes, Write(p) \/ WriteFails(p) PROVE WatchesFit'
  <2>1. CASE UNCHANGED work
        BY <1>1, <2>1
  <2>2. CASE ~UNCHANGED work
    <3>1. /\ section[p] # None /\ \A v \in Workers : v # p => UNCHANGED work[v]
          /\ p \in Workers =>
               \/ UNCHANGED work[p]
               \/ section[p].op = "finish" /\ work'[p] = [work[p] EXCEPT !.at = "done", !.handle = FALSE]
               \/ section[p].op = "finish" /\ work'[p] = [work[p] EXCEPT !.at = "unsaid", !.handle = FALSE]
               \/ section[p].op = "claim" /\ work'[p] = [work[p] EXCEPT !.at = "fetch", !.handle = TRUE]
               \/ section[p].op \in {"dead", "refuse"} /\ work'[p] = [work[p] EXCEPT !.at = "drop"]
          BY <1>5, <1>0 DEF Write, WriteFails, After, Set, Free
    <3>2. CASE p \notin Workers
          BY <1>0, <2>2, <3>1, <3>2
    <3>3. CASE p \in Workers
      <4>1. work[p] \in Works /\ (work[p].watch => work[p].at \in FromClaim)
            BY <1>0, <3>3
      <4>2. section[p].op \in {"dead", "refuse"} => ~work[p].watch
            BY <1>0, <3>1, <3>3, <4>1 DEF WorkersFit, Pending, Free
      <4>3. work'[p].watch => work'[p].at \in FromClaim
            BY <3>1, <3>3, <4>1, <4>2 DEF Works
      <4> QED BY <1>2, <3>1, <3>3, <4>3
    <3> QED BY <3>2, <3>3
  <2> QED BY <2>1, <2>2
<1> QED
      BY <1>1, <1>5, <1>6, <1>7, <1>8, <1>9, <1>10, <1>11, <1>12, <1>13, <1>14, <1>15, <1>16, <1>17, <1>18, <1>19, <1>20, <1>21, <1>22, <1>23
      DEF Next, Processes, Serve, Follow, Submit, Cancel, Pause, Resume, Expire, Enqueue, List, Judge, CrashApi, Age,
          Lapse, Beat, vars

LEMMA AloneStep ==
    ASSUME IInv, [Next]_vars
    PROVE  OnItIsRunning' /\ OneAnalysis'
<1> SUFFICES ASSUME ~Harmed'
             PROVE  /\ \A w \in Workers : OnIt(w)' => record'.status = "running"
                    /\ \A v, w \in Workers : OnIt(v)' /\ OnIt(w)' => v = w
    BY DEF OnItIsRunning, OneAnalysis, Harmed
<1>0. TypeOK /\ SectionsFit /\ WorkersFit /\ SectionType /\ WorkType
      BY DEF IInv, TypeOK, SectionType, WorkType
<1>1. ~Harmed /\ (\A w \in Workers : OnIt(w) => record.status = "running")
              /\ (\A v, w \in Workers : OnIt(v) /\ OnIt(w) => v = w)
      BY <1>0, ExcusesStay DEF IInv, OnItIsRunning, OneAnalysis, Harmed
<1>2. CASE Submit
      BY <1>1, <1>2 DEF Submit, OnIt
<1>3. ASSUME UNCHANGED record, \A w \in Workers : OnIt(w)' => OnIt(w)
      PROVE  /\ \A w \in Workers : OnIt(w)' => record'.status = "running"
             /\ \A v, w \in Workers : OnIt(v)' /\ OnIt(w)' => v = w
      BY <1>1, <1>3
<1>4. ASSUME NEW p \in Processes, Write(p)
      PROVE  /\ \A w \in Workers : OnIt(w)' => record'.status = "running"
             /\ \A v, w \in Workers : OnIt(v)' /\ OnIt(w)' => v = w
  <2>1. /\ section[p] # None /\ section[p] \in Sections /\ Fits(section[p]) /\ ~section[p].late
        /\ section[p].op = "dead" => \A w \in Workers : ~OnIt(w)
        /\ record' = section[p].new
        BY <1>0, <1>4, WriteHarms DEF Write, Free, SectionType, SectionsFit
  <2>2. CASE section[p].op = "claim"
    <3>1. record'.status = "running" /\ \A w \in Workers : ~OnIt(w)
          BY <1>1, <2>1, <2>2 DEF Fits
    <3>2. \A w \in Workers : OnIt(w)' => w = p
          BY <1>0, <1>4, <3>1, AfterWorks DEF Write, OnIt
    <3> QED BY <3>1, <3>2
  <2>3. CASE section[p].op = "finish"
    <3>1. p \in Workers /\ OnIt(p)
          BY <1>0, <2>1, <2>3 DEF WorkersFit, Pending, Free, OnIt, Processes
    <3>2. \A w \in Workers : ~OnIt(w)'
      <4>1. work'[p].at = "done" /\ \A w \in Workers : w # p => work'[w] = work[w]
            BY <1>0, <1>4, <2>3, <3>1, AfterWorks DEF Write, WorkType, Works
      <4> QED BY <1>1, <3>1, <4>1 DEF OnIt
    <3> QED BY <3>2
  <2>4. CASE section[p].op \notin {"claim", "finish"}
    <3>1. \A w \in Workers : OnIt(w)' => OnIt(w)
      <4>1. \A w \in Workers : work'[w] = work[w] \/ work'[w].at = "drop"
        <5>1. \A w \in Workers : w # p => work'[w] = work[w]
              BY <1>0, <1>4, AfterWorks DEF Write
        <5>2. p \in Workers => work'[p] = work[p] \/ work'[p].at = "drop"
              BY <1>0, <1>4, <2>4, AfterWorks DEF Write, WorkType, Works
        <5> QED BY <5>1, <5>2
      <4> QED BY <4>1 DEF OnIt
    <3>2. ASSUME NEW w \in Workers, OnIt(w) PROVE record'.status = "running"
          BY <1>1, <2>1, <2>4, <3>2 DEF Fits, Sections
    <3> QED BY <1>1, <3>1, <3>2
  <2> QED BY <2>2, <2>3, <2>4
<1>5. CASE UNCHANGED <<record, work>>
      BY <1>3, <1>5 DEF OnIt
<1>6. ASSUME NEW p \in Processes, WriteFails(p)
      PROVE  /\ \A w \in Workers : OnIt(w)' => record'.status = "running"
             /\ \A v, w \in Workers : OnIt(v)' /\ OnIt(w)' => v = w
      BY <1>0, <1>3, <1>6, FailedWrite
<1> QED
      BY <1>0, <1>2, <1>3, <1>4, <1>5, <1>6, OnItStep
      DEF Next, Processes, Serve, Follow, Cancel, Pause, Resume, Expire, Enqueue, List, Judge, CrashApi, Age, Lapse, vars


---------------------------------------------------------------------------
(* What a run leaves behind.                                               *)

\* A settled job stays settled, and a run that keeps nothing writes that it is.
LEMMA DoneStep ==
    ASSUME IInv, [Next]_vars
    PROVE  DoneIsSettled'
<1>0. TypeOK /\ DoneIsSettled /\ WorkersFit /\ SectionType /\ WorkType
      BY DEF IInv, TypeOK, SectionType, WorkType
<1>s. Api \in Processes /\ Workers \subseteq Processes /\ Api \notin Workers
      BY ProcessesAssumption DEF Processes
<1>r. record.status \in Settled \/ Harmed => record'.status \in Settled \/ Harmed'
      BY <1>0, SettledStep, ExcusesStay
<1>v. ASSUME NEW v \in Workers, UNCHANGED section[v], UNCHANGED work[v]
      PROVE  /\ Pending(v, {"finish"})' /\ ~work'[v].keep => section'[v].new.status \in Settled
             /\ work'[v].at = "done" /\ ~work'[v].keep => record'.status \in Settled \/ Harmed'
      BY <1>0, <1>r, <1>v DEF DoneIsSettled, Pending, Free
<1> USE DEF SectionType, WorkType
<1>1. CASE UNCHANGED <<section, work>>
      BY <1>1, <1>v DEF DoneIsSettled
<1>2. CASE Submit \/ Cancel \/ Pause \/ Resume \/ Expire \/ Judge
      BY <1>2, <1>0, <1>s, <1>v DEF Submit, Cancel, Pause, Resume, Expire, Judge, Enter, DoneIsSettled
<1>3. CASE Enqueue \/ CrashApi
      BY <1>3, <1>0, <1>s, <1>v DEF Enqueue, CrashApi, DoneIsSettled
<1>4. ASSUME NEW w \in Workers, Begin(w) PROVE DoneIsSettled'
  <2>1. \A v \in Workers : v # w => UNCHANGED section[v] /\ UNCHANGED work[v]
        BY <1>4, <1>0, <1>s DEF Begin, Set
  <2>2. work[w] \in Works
        BY <1>0
  <2>3. /\ Pending(w, {"finish"})' /\ ~work'[w].keep => section'[w].new.status \in Settled
        /\ work'[w].at = "done" /\ ~work'[w].keep => record'.status \in Settled \/ Harmed'
        BY <1>4, <1>0, <1>s, <1>r, <1>v, <2>2 DEF Begin, Set, Off, Pending, Free, DoneIsSettled, WorkersFit, Works
  <2> QED BY <1>v, <2>1, <2>3 DEF DoneIsSettled
<1>5. ASSUME NEW w \in Workers, Receive(w) PROVE DoneIsSettled'
  <2>1. \A v \in Workers : v # w => UNCHANGED section[v] /\ UNCHANGED work[v]
        BY <1>5, <1>0, <1>s DEF Receive, Set
  <2>2. work[w] \in Works
        BY <1>0
  <2>3. /\ Pending(w, {"finish"})' /\ ~work'[w].keep => section'[w].new.status \in Settled
        /\ work'[w].at = "done" /\ ~work'[w].keep => record'.status \in Settled \/ Harmed'
        BY <1>5, <1>0, <1>s, <1>r, <1>v, <2>2 DEF Receive, Set, Pending, Free, DoneIsSettled, WorkersFit, Works
  <2> QED BY <1>v, <2>1, <2>3 DEF DoneIsSettled
<1>6. ASSUME NEW w \in Workers, Drop(w) PROVE DoneIsSettled'
  <2>1. \A v \in Workers : v # w => UNCHANGED section[v] /\ UNCHANGED work[v]
        BY <1>6, <1>0, <1>s DEF Drop, Set
  <2>2. work[w] \in Works
        BY <1>0
  <2>3. /\ Pending(w, {"finish"})' /\ ~work'[w].keep => section'[w].new.status \in Settled
        /\ work'[w].at = "done" /\ ~work'[w].keep => record'.status \in Settled \/ Harmed'
        BY <1>6, <1>0, <1>s, <1>r, <1>v, <2>2 DEF Drop, Set, Pending, Free, DoneIsSettled, WorkersFit, Works
  <2> QED BY <1>v, <2>1, <2>3 DEF DoneIsSettled
<1>7. ASSUME NEW w \in Workers, Fetch(w) PROVE DoneIsSettled'
  <2>1. \A v \in Workers : v # w => UNCHANGED section[v] /\ UNCHANGED work[v]
        BY <1>7, <1>0, <1>s DEF Fetch, Set
  <2>2. work[w] \in Works
        BY <1>0
  <2>3. /\ Pending(w, {"finish"})' /\ ~work'[w].keep => section'[w].new.status \in Settled
        /\ work'[w].at = "done" /\ ~work'[w].keep => record'.status \in Settled \/ Harmed'
        BY <1>7, <1>0, <1>s, <1>r, <1>v, <2>2 DEF Fetch, Set, Pending, Free, DoneIsSettled, WorkersFit, Works
  <2> QED BY <1>v, <2>1, <2>3 DEF DoneIsSettled
<1>8. ASSUME NEW w \in Workers, EndRun(w) PROVE DoneIsSettled'
  <2>1. \A v \in Workers : v # w => UNCHANGED section[v] /\ UNCHANGED work[v]
        BY <1>8, <1>0, <1>s DEF EndRun, Set
  <2>2. work[w] \in Works
        BY <1>0
  <2>3. /\ Pending(w, {"finish"})' /\ ~work'[w].keep => section'[w].new.status \in Settled
        /\ work'[w].at = "done" /\ ~work'[w].keep => record'.status \in Settled \/ Harmed'
        BY <1>8, <1>0, <1>s, <1>r, <1>v, <2>2 DEF EndRun, Set, Pending, Free, DoneIsSettled, WorkersFit, Works
  <2> QED BY <1>v, <2>1, <2>3 DEF DoneIsSettled
<1>9. ASSUME NEW w \in Workers, Done(w) PROVE DoneIsSettled'
  <2>1. \A v \in Workers : v # w => UNCHANGED section[v] /\ UNCHANGED work[v]
        BY <1>9, <1>0, <1>s DEF Done, Set
  <2>2. work[w] \in Works
        BY <1>0
  <2>3. /\ Pending(w, {"finish"})' /\ ~work'[w].keep => section'[w].new.status \in Settled
        /\ work'[w].at = "done" /\ ~work'[w].keep => record'.status \in Settled \/ Harmed'
        BY <1>9, <1>0, <1>s, <1>r, <1>v, <2>2 DEF Done, Set, Off, Pending, Free, DoneIsSettled, WorkersFit, Works
  <2> QED BY <1>v, <2>1, <2>3 DEF DoneIsSettled
<1>10. ASSUME NEW w \in Workers, Renew(w) PROVE DoneIsSettled'
  <2>1. \A v \in Workers : v # w => UNCHANGED section[v] /\ UNCHANGED work[v]
        BY <1>10, <1>0, <1>s DEF Renew, Set
  <2>2. work[w] \in Works /\ record \in Records
        BY <1>0 DEF TypeOK
  <2>3. /\ Pending(w, {"finish"})' /\ ~work'[w].keep => section'[w].new.status \in Settled
        /\ work'[w].at = "done" /\ ~work'[w].keep => record'.status \in Settled \/ Harmed'
    <3>1. CASE UNCHANGED work
          BY <1>10, <3>1, <1>0, <1>s, <1>r, <1>v, <2>2 DEF Renew, Set, Pending, Free, DoneIsSettled, WorkersFit,
             Works, Settled, Records
    <3>2. CASE Set(w, [work[w] EXCEPT !.watch = FALSE, !.ctx = IF @ = "open" /\ OnIt(w) THEN "cancelled" ELSE @])
          BY <1>10, <3>2, <1>0, <1>s, <1>r, <1>v, <2>2 DEF Renew, Set, Pending, Free, DoneIsSettled, WorkersFit,
             Works, Settled, Records
    <3> QED BY <1>10, <3>1, <3>2 DEF Renew
  <2> QED BY <1>v, <2>1, <2>3 DEF DoneIsSettled
<1>11. ASSUME NEW w \in Workers, Look(w) PROVE DoneIsSettled'
  <2>1. \A v \in Workers : v # w => UNCHANGED section[v] /\ UNCHANGED work[v]
        BY <1>11, <1>0, <1>s DEF Look, Set
  <2>2. work[w] \in Works /\ record \in Records
        BY <1>0 DEF TypeOK
  <2>3. /\ Pending(w, {"finish"})' /\ ~work'[w].keep => section'[w].new.status \in Settled
        /\ work'[w].at = "done" /\ ~work'[w].keep => record'.status \in Settled \/ Harmed'
    <3>1. CASE Set(w, [work[w] EXCEPT !.ctx = "cancelled"])
          BY <1>11, <3>1, <1>0, <1>s, <1>r, <1>v, <2>2 DEF Look, Set, Pending, Free, DoneIsSettled, WorkersFit,
             Works, Settled, Records
    <3>2. CASE Set(w, [work[w] EXCEPT !.pausing = TRUE, !.ctx = IF @ = "open" /\ OnIt(w) THEN "cancelled" ELSE @])
          BY <1>11, <3>2, <1>0, <1>s, <1>r, <1>v, <2>2 DEF Look, Set, Pending, Free, DoneIsSettled, WorkersFit,
             Works, Settled, Records
    <3> QED BY <1>11, <3>1, <3>2 DEF Look
  <2> QED BY <1>v, <2>1, <2>3 DEF DoneIsSettled
<1>12. ASSUME NEW w \in Workers, Stall(w) PROVE DoneIsSettled'
  <2>1. \A v \in Workers : v # w => UNCHANGED section[v] /\ UNCHANGED work[v]
        BY <1>12, <1>0, <1>s DEF Stall, Set
  <2>2. work[w] \in Works
        BY <1>0
  <2>3. /\ Pending(w, {"finish"})' /\ ~work'[w].keep => section'[w].new.status \in Settled
        /\ work'[w].at = "done" /\ ~work'[w].keep => record'.status \in Settled \/ Harmed'
        BY <1>12, <1>0, <1>s, <1>r, <1>v, <2>2 DEF Stall, Set, Pending, Free, DoneIsSettled, WorkersFit, Works
  <2> QED BY <1>v, <2>1, <2>3 DEF DoneIsSettled
<1>13. ASSUME NEW w \in Workers, Wake(w) PROVE DoneIsSettled'
  <2>1. \A v \in Workers : v # w => UNCHANGED section[v] /\ UNCHANGED work[v]
        BY <1>13, <1>0, <1>s DEF Wake, Set
  <2>2. work[w] \in Works
        BY <1>0
  <2>3. /\ Pending(w, {"finish"})' /\ ~work'[w].keep => section'[w].new.status \in Settled
        /\ work'[w].at = "done" /\ ~work'[w].keep => record'.status \in Settled \/ Harmed'
        BY <1>13, <1>0, <1>s, <1>r, <1>v, <2>2 DEF Wake, Set, Pending, Free, DoneIsSettled, WorkersFit, Works
  <2> QED BY <1>v, <2>1, <2>3 DEF DoneIsSettled
<1>14. ASSUME NEW w \in Workers, Takeable(w) PROVE DoneIsSettled'
  <2>1. \A v \in Workers : v # w => UNCHANGED section[v] /\ UNCHANGED work[v]
        BY <1>14, <1>0, <1>s DEF Takeable, Set, Enter
  <2>2. work[w] \in Works
        BY <1>0
  <2>3. /\ Pending(w, {"finish"})' /\ ~work'[w].keep => section'[w].new.status \in Settled
        /\ work'[w].at = "done" /\ ~work'[w].keep => record'.status \in Settled \/ Harmed'
    <3>1. CASE UNCHANGED work
      <4>1. work'[w].at = "took"
            BY <1>14, <3>1 DEF Takeable
      <4>2. ~Pending(w, {"finish"})'
            BY <1>14, <3>1, <1>0, <1>s DEF Takeable, Enter, Pending, Free
      <4> QED BY <4>1, <4>2
    <3>2. CASE UNCHANGED section /\ work'[w].at \in {"drop", "claim"}
          BY <1>14, <3>2 DEF Takeable, Pending, Free
    <3>3. CASE UNCHANGED section /\ ~UNCHANGED work
      <4>1. work'[w].at \in {"drop", "claim"}
            BY <1>14, <3>3, <1>0, <2>2 DEF Takeable, Set, Works
      <4> QED BY <3>2, <3>3, <4>1
    <3> QED BY <1>14, <3>1, <3>3 DEF Takeable
  <2> QED BY <1>v, <2>1, <2>3 DEF DoneIsSettled
<1>15. ASSUME NEW w \in Workers, Claim(w) PROVE DoneIsSettled'
  <2>1. \A v \in Workers : v # w => UNCHANGED section[v] /\ UNCHANGED work[v]
        BY <1>15, <1>0, <1>s DEF Claim, Set, Enter
  <2>2. work[w] \in Works /\ record \in Records
        BY <1>0 DEF TypeOK
  <2>3. /\ Pending(w, {"finish"})' /\ ~work'[w].keep => section'[w].new.status \in Settled
        /\ work'[w].at = "done" /\ ~work'[w].keep => record'.status \in Settled \/ Harmed'
    <3>1. CASE UNCHANGED work
          BY <1>15, <3>1, <1>0, <1>s, <1>r, <1>v, <2>2 DEF Claim, Set, Enter, Pending, Free, DoneIsSettled,
             WorkersFit, Works, Settled, Records
    <3>2. CASE Set(w, [work[w] EXCEPT !.at = "done", !.keep = TRUE])
          BY <1>15, <3>2, <1>0, <1>s, <1>r, <1>v, <2>2 DEF Claim, Set, Enter, Pending, Free, DoneIsSettled,
             WorkersFit, Works, Settled, Records
    <3> QED BY <1>15, <3>1, <3>2 DEF Claim
  <2> QED BY <1>v, <2>1, <2>3 DEF DoneIsSettled
<1>16. ASSUME NEW w \in Workers, Beat(w) PROVE DoneIsSettled'
  <2>1. \A v \in Workers : v # w => UNCHANGED section[v] /\ UNCHANGED work[v]
        BY <1>16, <1>0, <1>s DEF Beat, Enter
  <2>2. work[w] \in Works
        BY <1>0
  <2>3. /\ Pending(w, {"finish"})' /\ ~work'[w].keep => section'[w].new.status \in Settled
        /\ work'[w].at = "done" /\ ~work'[w].keep => record'.status \in Settled \/ Harmed'
        BY <1>16, <1>0, <1>s, <1>r, <1>v, <2>2 DEF Beat, Enter, Pending, Free, DoneIsSettled, WorkersFit, Works
  <2> QED BY <1>v, <2>1, <2>3 DEF DoneIsSettled
<1>17. ASSUME NEW w \in Workers, FetchFails(w) PROVE DoneIsSettled'
  <2>1. \A v \in Workers : v # w => UNCHANGED section[v] /\ UNCHANGED work[v]
        BY <1>17, <1>0, <1>s DEF FetchFails, Set, Enter
  <2>2. work[w] \in Works
        BY <1>0
  <2>3. /\ Pending(w, {"finish"})' /\ ~work'[w].keep => section'[w].new.status \in Settled
        /\ work'[w].at = "done" /\ ~work'[w].keep => record'.status \in Settled \/ Harmed'
        BY <1>17, <1>0, <1>s, <1>r, <1>v, <2>2 DEF FetchFails, Set, Enter, Pending, Free, DoneIsSettled, WorkersFit,
           Works
  <2> QED BY <1>v, <2>1, <2>3 DEF DoneIsSettled
<1>18. ASSUME NEW w \in Workers, Finish(w) PROVE DoneIsSettled'
  <2>1. \A v \in Workers : v # w => UNCHANGED section[v] /\ UNCHANGED work[v]
        BY <1>18, <1>0, <1>s DEF Finish, Set, Enter
  <2>2. work[w] \in Works /\ record \in Records
        BY <1>0 DEF TypeOK
  <2>3. /\ Pending(w, {"finish"})' /\ ~work'[w].keep => section'[w].new.status \in Settled
        /\ work'[w].at = "done" /\ ~work'[w].keep => record'.status \in Settled \/ Harmed'
    <3>1. CASE Enter(w, "finish", Paused(record)) /\ Set(w, [work[w] EXCEPT !.keep = TRUE])
          BY <1>18, <3>1, <1>0, <1>s, <1>r, <1>v, <2>2 DEF Finish, Set, Enter, Pending, Free, DoneIsSettled,
             WorkersFit, Works, Settled, Records
    <3>2. CASE Enter(w, "finish", [record EXCEPT !.status = "cancelled"]) /\ UNCHANGED work
          BY <1>18, <3>2, <1>0, <1>s, <1>r, <1>v, <2>2 DEF Finish, Set, Enter, Pending, Free, DoneIsSettled,
             WorkersFit, Works, Settled, Records
    <3>3. CASE (\E s \in {"succeeded", "failed"} : Enter(w, "finish", [record EXCEPT !.status = s])) /\ UNCHANGED work
          BY <1>18, <3>3, <1>0, <1>s, <1>r, <1>v, <2>2 DEF Finish, Set, Enter, Pending, Free, DoneIsSettled,
             WorkersFit, Works, Settled, Records
    <3> QED BY <1>18, <3>1, <3>2, <3>3 DEF Finish
  <2> QED BY <1>v, <2>1, <2>3 DEF DoneIsSettled
<1>19. ASSUME NEW w \in Workers, ClaimFails(w) PROVE DoneIsSettled'
  <2>1. \A v \in Workers : v # w => UNCHANGED section[v] /\ UNCHANGED work[v]
        BY <1>19, <1>0, <1>s DEF ClaimFails, Set
  <2>2. work[w] \in Works
        BY <1>0
  <2>3. /\ Pending(w, {"finish"})' /\ ~work'[w].keep => section'[w].new.status \in Settled
        /\ work'[w].at = "done" /\ ~work'[w].keep => record'.status \in Settled \/ Harmed'
        BY <1>19, <1>0, <1>s, <1>r, <1>v, <2>2 DEF ClaimFails, Set, Pending, Free, DoneIsSettled, WorkersFit, Works
  <2> QED BY <1>v, <2>1, <2>3 DEF DoneIsSettled
<1>20. ASSUME NEW w \in Workers, Crash(w) PROVE DoneIsSettled'
  <2>1. \A v \in Workers : v # w => UNCHANGED section[v] /\ UNCHANGED work[v]
        BY <1>20, <1>0, <1>s DEF Crash, Set
  <2>2. work[w] \in Works
        BY <1>0
  <2>3. /\ Pending(w, {"finish"})' /\ ~work'[w].keep => section'[w].new.status \in Settled
        /\ work'[w].at = "done" /\ ~work'[w].keep => record'.status \in Settled \/ Harmed'
        BY <1>20, <1>0, <1>s, <1>r, <1>v, <2>2 DEF Crash, Set, Off, Pending, Free, DoneIsSettled, WorkersFit, Works
  <2> QED BY <1>v, <2>1, <2>3 DEF DoneIsSettled
<1>21. ASSUME NEW w \in Workers, Quit(w) PROVE DoneIsSettled'
  <2>1. \A v \in Workers : v # w => UNCHANGED section[v] /\ UNCHANGED work[v]
        BY <1>21, <1>0, <1>s DEF Quit, Set
  <2>2. work[w] \in Works
        BY <1>0
  <2>3. /\ Pending(w, {"finish"})' /\ ~work'[w].keep => section'[w].new.status \in Settled
        /\ work'[w].at = "done" /\ ~work'[w].keep => record'.status \in Settled \/ Harmed'
        BY <1>21, <1>0, <1>s, <1>r, <1>v, <2>2 DEF Quit, Set, Off, Pending, Free, DoneIsSettled, WorkersFit, Works
  <2> QED BY <1>v, <2>1, <2>3 DEF DoneIsSettled
<1>22. ASSUME NEW p \in Processes, Write(p) PROVE DoneIsSettled'
  <2>1. ASSUME NEW v \in Workers, v # p
        PROVE  /\ Pending(v, {"finish"})' /\ ~work'[v].keep => section'[v].new.status \in Settled
               /\ work'[v].at = "done" /\ ~work'[v].keep => record'.status \in Settled \/ Harmed'
    <3>1. UNCHANGED work[v]
          BY <1>22, <1>0, <2>1, AfterWorks DEF Write
    <3>2. Pending(v, {"finish"})' => Pending(v, {"finish"}) /\ section'[v].new = section[v].new
          BY <1>22, <1>0, <1>s, <2>1 DEF Write, Leave, Pending, Free, Sections
    <3> QED BY <1>0, <1>r, <2>1, <3>1, <3>2 DEF DoneIsSettled
  <2>2. ASSUME p \in Workers
        PROVE  /\ ~Pending(p, {"finish"})'
               /\ work'[p].at = "done" /\ ~work'[p].keep => record'.status \in Settled \/ Harmed'
    <3>1. ~Pending(p, {"finish"})'
          BY <1>22, <1>0 DEF Write, Leave, Pending, Free
    <3>2. record' = section[p].new /\ section[p] # None
          BY <1>22 DEF Write, Free
    <3>3. CASE section[p].op = "finish"
          BY <1>22, <1>0, <2>2, <3>1, <3>2, <3>3, AfterWorks DEF Write, DoneIsSettled, Pending, Free, Works
    <3>4. CASE section[p].op # "finish"
      <4>1. UNCHANGED work[p] \/ work'[p].at \in {"fetch", "drop"}
            BY <1>22, <1>0, <2>2, <3>4, AfterWorks DEF Write, Works
      <4> QED BY <1>0, <1>r, <2>2, <3>1, <4>1 DEF DoneIsSettled
    <3> QED BY <3>3, <3>4
  <2> QED BY <2>1, <2>2 DEF DoneIsSettled
<1>23. ASSUME NEW w \in Workers, FinishUnread(w) PROVE DoneIsSettled'
  <2>1. \A v \in Workers : v # w => UNCHANGED section[v] /\ UNCHANGED work[v]
        BY <1>23, <1>0, <1>s DEF FinishUnread, Set
  <2>2. work'[w].at = "unsaid" /\ ~Pending(w, {"finish"})'
        BY <1>23, <1>0 DEF FinishUnread, Set, Works, Pending, Free
  <2> QED BY <1>v, <2>1, <2>2 DEF DoneIsSettled
<1>24. ASSUME NEW p \in Processes, WriteFails(p) PROVE DoneIsSettled'
  <2>1. ASSUME NEW v \in Workers, v # p PROVE UNCHANGED section[v] /\ UNCHANGED work[v]
        BY <1>24, <1>0, <1>s, <2>1, FailedWrite
  <2>2. ASSUME p \in Workers
        PROVE  ~Pending(p, {"finish"})' /\ (UNCHANGED work[p] \/ work'[p].at \in {"drop", "unsaid"})
    <3>1. section'[p] = None
          BY <1>24, <1>0, FailedWrite
    <3>2. UNCHANGED work[p] \/ work'[p].at \in {"drop", "unsaid"}
      <4>1. work[p] \in Works
            BY <1>0, <2>2
      <4>2. \/ UNCHANGED work[p]
            \/ work'[p] = [work[p] EXCEPT !.at = "drop"]
            \/ work'[p] = [work[p] EXCEPT !.at = "unsaid", !.handle = FALSE]
            BY <1>24, <1>0, <2>2, FailedWrite
      <4> QED BY <4>1, <4>2 DEF Works
    <3> QED BY <3>1, <3>2 DEF Pending, Free
  <2> QED BY <1>0, <1>r, <1>v, <2>1, <2>2 DEF DoneIsSettled
<1> QED
      BY <1>1, <1>2, <1>3, <1>4, <1>5, <1>6, <1>7, <1>8, <1>9, <1>10, <1>11, <1>12, <1>13, <1>14, <1>15, <1>16,
         <1>17, <1>18, <1>19, <1>20, <1>21, <1>22, <1>23, <1>24, <1>s DEF Next, Serve, Follow, vars, List, Age, Lapse

---------------------------------------------------------------------------
(* Who asked for a cancel.                                                 *)

\* No step brings a cancel nearer that nobody asked for.
LEMMA AskedStep ==
    ASSUME IInv, [Next]_vars
    PROVE  CancelsAreAsked' /\ CancelIsAsked'
<1>0. TypeOK /\ CancelsAreAsked /\ WorkersFit /\ SectionType /\ WorkType /\ record \in Records
      BY DEF IInv, TypeOK, SectionType, WorkType
<1>s. Api \in Processes /\ Workers \subseteq Processes /\ Api \notin Workers
      BY ProcessesAssumption DEF Processes
<1>x. (asked => asked') /\ (Excused => Excused') /\ (asked => Excused)
      BY <1>0, HistoryGrows, ExcusesStay DEF Excused
<1>c. record.status = "cancelled" => Excused
      BY DEF IInv, CancelIsAsked, Excused
<1>f. Paused(record).status = "paused" /\ Paused(record).cancel = record.cancel
      BY <1>0 DEF Paused, Records
<1> DEFINE Right(s) == s # None => (s.new.cancel => asked') /\ (s.new.status = "cancelled" => Excused')
           Ends(w) == /\ work'[w].at \in {"fetch", "run"} /\ work'[w].ctx = "cancelled"
                            => Excused' \/ work'[w].pausing \/ Pending(w, {"finish"})'
                      /\ work'[w].at = "end" /\ work'[w].ctx = "cancelled" => Excused' \/ work'[w].mark
           All == /\ record'.cancel => asked'
                  /\ record'.status = "cancelled" => Excused'
                  /\ \A p \in Processes : Right(section'[p])
                  /\ \A w \in Workers : Ends(w)
<1>g. SUFFICES All
      BY DEF CancelsAreAsked, CancelIsAsked, Excused, Free
<1>k. ASSUME UNCHANGED record PROVE (record'.cancel => asked') /\ (record'.status = "cancelled" => Excused')
      BY <1>0, <1>x, <1>c, <1>k DEF CancelsAreAsked
<1>p. ASSUME NEW p \in Processes, UNCHANGED section[p] PROVE Right(section'[p])
      BY <1>0, <1>x, <1>p DEF CancelsAreAsked, Free
<1>w. ASSUME NEW w \in Workers, UNCHANGED section[w], UNCHANGED work[w] PROVE Ends(w)
      BY <1>0, <1>x, <1>w DEF CancelsAreAsked, Pending, Free
<1> USE DEF SectionType, WorkType
<1>1. CASE UNCHANGED <<record, section, work>>
      BY <1>1, <1>k, <1>p, <1>w
<1>2. CASE Submit
  <2>1. (record'.cancel => asked') /\ (record'.status = "cancelled" => Excused')
        BY <1>2, <1>0, <1>x, <1>k DEF Submit, Records, CancelsAreAsked
  <2>2. Right(section'[Api])
        BY <1>2, <1>0, <1>s, <1>x, <1>p, <1>c, <1>f DEF Submit, Enter, Records, CancelsAreAsked
  <2>3. \A p \in Processes : p # Api => UNCHANGED section[p]
        BY <1>2, <1>0, <1>s DEF Submit, Enter
  <2> HIDE DEF Right, Ends
  <2> QED BY <1>2, <1>s, <1>p, <1>w, <2>1, <2>2, <2>3 DEF Submit
<1>3. CASE Cancel
  <2>1. (record'.cancel => asked') /\ (record'.status = "cancelled" => Excused')
        BY <1>3, <1>0, <1>x, <1>k DEF Cancel, Records, CancelsAreAsked
  <2>2. Right(section'[Api])
        BY <1>3, <1>0, <1>s, <1>x, <1>p, <1>c, <1>f DEF Cancel, Enter, Records, CancelsAreAsked, Excused
  <2>3. \A p \in Processes : p # Api => UNCHANGED section[p]
        BY <1>3, <1>0, <1>s DEF Cancel, Enter
  <2> HIDE DEF Right, Ends
  <2> QED BY <1>3, <1>s, <1>p, <1>w, <2>1, <2>2, <2>3 DEF Cancel
<1>4. CASE Pause
  <2>1. (record'.cancel => asked') /\ (record'.status = "cancelled" => Excused')
        BY <1>4, <1>0, <1>x, <1>k DEF Pause, Records, CancelsAreAsked
  <2>2. Right(section'[Api])
        BY <1>4, <1>0, <1>s, <1>x, <1>p, <1>c, <1>f DEF Pause, Enter, Records, CancelsAreAsked
  <2>3. \A p \in Processes : p # Api => UNCHANGED section[p]
        BY <1>4, <1>0, <1>s DEF Pause, Enter
  <2> HIDE DEF Right, Ends
  <2> QED BY <1>4, <1>s, <1>p, <1>w, <2>1, <2>2, <2>3 DEF Pause
<1>5. CASE Resume
  <2>1. (record'.cancel => asked') /\ (record'.status = "cancelled" => Excused')
        BY <1>5, <1>0, <1>x, <1>k DEF Resume, CancelsAreAsked
  <2>2. Right(section'[Api])
        BY <1>5, <1>0, <1>s, <1>x, <1>p, <1>c, <1>f DEF Resume, Enter, CancelsAreAsked
  <2>3. \A p \in Processes : p # Api => UNCHANGED section[p]
        BY <1>5, <1>0, <1>s DEF Resume, Enter
  <2> HIDE DEF Right, Ends
  <2> QED BY <1>5, <1>s, <1>p, <1>w, <2>1, <2>2, <2>3 DEF Resume
<1>6. CASE Expire
  <2>1. (record'.cancel => asked') /\ (record'.status = "cancelled" => Excused')
        BY <1>6, <1>0, <1>x, <1>k DEF Expire, Records, CancelsAreAsked
  <2>2. Right(section'[Api])
        BY <1>6, <1>0, <1>s, <1>x, <1>p, <1>c, <1>f DEF Expire, Enter, Records, CancelsAreAsked, Excused
  <2>3. \A p \in Processes : p # Api => UNCHANGED section[p]
        BY <1>6, <1>0, <1>s DEF Expire, Enter
  <2> HIDE DEF Right, Ends
  <2> QED BY <1>6, <1>s, <1>p, <1>w, <2>1, <2>2, <2>3 DEF Expire
<1>7. CASE Judge
  <2>1. (record'.cancel => asked') /\ (record'.status = "cancelled" => Excused')
        BY <1>7, <1>0, <1>x, <1>k DEF Judge, Records, CancelsAreAsked
  <2>2. Right(section'[Api])
        BY <1>7, <1>0, <1>s, <1>x, <1>p, <1>c, <1>f DEF Judge, Enter, Records, CancelsAreAsked
  <2>3. \A p \in Processes : p # Api => UNCHANGED section[p]
        BY <1>7, <1>0, <1>s DEF Judge, Enter
  <2> HIDE DEF Right, Ends
  <2> QED BY <1>7, <1>s, <1>p, <1>w, <2>1, <2>2, <2>3 DEF Judge
<1>8. CASE Enqueue \/ CrashApi
  <2>1. Right(section'[Api])
        BY <1>8, <1>0, <1>s, <1>x DEF Enqueue, CrashApi, CancelsAreAsked, Free, Sections
  <2>2. \A p \in Processes : p # Api => UNCHANGED section[p]
        BY <1>8, <1>0, <1>s DEF Enqueue, CrashApi
  <2> HIDE DEF Right, Ends
  <2> QED BY <1>8, <1>s, <1>k, <1>p, <1>w, <2>1, <2>2 DEF Enqueue, CrashApi
<1>9. ASSUME NEW w \in Workers, Begin(w)
      PROVE  (\A p \in Processes : Right(section'[p])) /\ (\A v \in Workers : Ends(v)) /\ UNCHANGED record
  <2>1. \A v \in Workers : v # w => UNCHANGED section[v] /\ UNCHANGED work[v]
        BY <1>9, <1>0, <1>s DEF Begin, Set
  <2>2. work[w] \in Works /\ UNCHANGED record /\ UNCHANGED section[Api]
        BY <1>9, <1>0, <1>s DEF Begin
  <2>3. Right(section'[w]) /\ Ends(w)
        BY <1>9, <1>0, <1>s, <1>x, <1>c, <1>f, <1>p, <2>2 DEF Begin, Set, Off, Pending, Free, CancelsAreAsked,
           WorkersFit, Works, Records
  <2> HIDE DEF Right, Ends
  <2> QED BY <1>p, <1>w, <2>1, <2>2, <2>3 DEF Processes
<1>10. ASSUME NEW w \in Workers, Receive(w)
      PROVE  (\A p \in Processes : Right(section'[p])) /\ (\A v \in Workers : Ends(v)) /\ UNCHANGED record
  <2>1. \A v \in Workers : v # w => UNCHANGED section[v] /\ UNCHANGED work[v]
        BY <1>10, <1>0, <1>s DEF Receive, Set
  <2>2. work[w] \in Works /\ UNCHANGED record /\ UNCHANGED section[Api]
        BY <1>10, <1>0, <1>s DEF Receive
  <2>3. Right(section'[w]) /\ Ends(w)
        BY <1>10, <1>0, <1>s, <1>x, <1>c, <1>f, <1>p, <2>2 DEF Receive, Set, Pending, Free, CancelsAreAsked,
           WorkersFit, Works, Records
  <2> HIDE DEF Right, Ends
  <2> QED BY <1>p, <1>w, <2>1, <2>2, <2>3 DEF Processes
<1>11. ASSUME NEW w \in Workers, Drop(w)
      PROVE  (\A p \in Processes : Right(section'[p])) /\ (\A v \in Workers : Ends(v)) /\ UNCHANGED record
  <2>1. \A v \in Workers : v # w => UNCHANGED section[v] /\ UNCHANGED work[v]
        BY <1>11, <1>0, <1>s DEF Drop, Set
  <2>2. work[w] \in Works /\ UNCHANGED record /\ UNCHANGED section[Api]
        BY <1>11, <1>0, <1>s DEF Drop
  <2>3. Right(section'[w]) /\ Ends(w)
        BY <1>11, <1>0, <1>s, <1>x, <1>c, <1>f, <1>p, <2>2 DEF Drop, Set, Pending, Free, CancelsAreAsked,
           WorkersFit, Works, Records
  <2> HIDE DEF Right, Ends
  <2> QED BY <1>p, <1>w, <2>1, <2>2, <2>3 DEF Processes
<1>12. ASSUME NEW w \in Workers, Fetch(w)
      PROVE  (\A p \in Processes : Right(section'[p])) /\ (\A v \in Workers : Ends(v)) /\ UNCHANGED record
  <2>1. \A v \in Workers : v # w => UNCHANGED section[v] /\ UNCHANGED work[v]
        BY <1>12, <1>0, <1>s DEF Fetch, Set
  <2>2. work[w] \in Works /\ UNCHANGED record /\ UNCHANGED section[Api]
        BY <1>12, <1>0, <1>s DEF Fetch
  <2>3. Right(section'[w]) /\ Ends(w)
        BY <1>12, <1>0, <1>s, <1>x, <1>c, <1>f, <1>p, <2>2 DEF Fetch, Set, Pending, Free, CancelsAreAsked,
           WorkersFit, Works, Records
  <2> HIDE DEF Right, Ends
  <2> QED BY <1>p, <1>w, <2>1, <2>2, <2>3 DEF Processes
<1>13. ASSUME NEW w \in Workers, EndRun(w)
      PROVE  (\A p \in Processes : Right(section'[p])) /\ (\A v \in Workers : Ends(v)) /\ UNCHANGED record
  <2>1. \A v \in Workers : v # w => UNCHANGED section[v] /\ UNCHANGED work[v]
        BY <1>13, <1>0, <1>s DEF EndRun, Set
  <2>2. work[w] \in Works /\ UNCHANGED record /\ UNCHANGED section[Api]
        BY <1>13, <1>0, <1>s DEF EndRun
  <2>3. Right(section'[w]) /\ Ends(w)
        BY <1>13, <1>0, <1>s, <1>x, <1>c, <1>f, <1>p, <2>2 DEF EndRun, Set, Pending, Free, CancelsAreAsked,
           WorkersFit, Works, Records
  <2> HIDE DEF Right, Ends
  <2> QED BY <1>p, <1>w, <2>1, <2>2, <2>3 DEF Processes
<1>14. ASSUME NEW w \in Workers, Done(w)
      PROVE  (\A p \in Processes : Right(section'[p])) /\ (\A v \in Workers : Ends(v)) /\ UNCHANGED record
  <2>1. \A v \in Workers : v # w => UNCHANGED section[v] /\ UNCHANGED work[v]
        BY <1>14, <1>0, <1>s DEF Done, Set
  <2>2. work[w] \in Works /\ UNCHANGED record /\ UNCHANGED section[Api]
        BY <1>14, <1>0, <1>s DEF Done
  <2>3. Right(section'[w]) /\ Ends(w)
        BY <1>14, <1>0, <1>s, <1>x, <1>c, <1>f, <1>p, <2>2 DEF Done, Set, Off, Pending, Free, CancelsAreAsked,
           WorkersFit, Works, Records
  <2> HIDE DEF Right, Ends
  <2> QED BY <1>p, <1>w, <2>1, <2>2, <2>3 DEF Processes
<1>15. ASSUME NEW w \in Workers, Renew(w)
      PROVE  (\A p \in Processes : Right(section'[p])) /\ (\A v \in Workers : Ends(v)) /\ UNCHANGED record
  <2>1. \A v \in Workers : v # w => UNCHANGED section[v] /\ UNCHANGED work[v]
        BY <1>15, <1>0, <1>s DEF Renew, Set
  <2>2. work[w] \in Works /\ UNCHANGED record /\ UNCHANGED section[Api]
        BY <1>15, <1>0, <1>s DEF Renew
  <2>3. Right(section'[w]) /\ Ends(w)
    <3>1. UNCHANGED section[w]
          BY <1>15 DEF Renew
    <3>2. CASE Holds(w)
      <4>1. UNCHANGED work[w]
            BY <1>15, <3>2 DEF Renew
      <4> QED BY <1>p, <1>w, <1>s, <3>1, <4>1
    <3>3. CASE ~Holds(w)
      <4>1. /\ Set(w, [work[w] EXCEPT !.watch = FALSE, !.ctx = IF @ = "open" /\ OnIt(w) THEN "cancelled" ELSE @])
            /\ OnIt(w) => "lost" \in scars'
            BY <1>15, <3>3 DEF Renew
      <4>2. work'[w].at = work[w].at
            BY <1>0, <2>2, <4>1 DEF Set, Works
      <4>3. OnIt(w) => Excused'
            BY <4>1 DEF Excused
      <4>4. Ends(w)
            BY <4>2, <4>3 DEF OnIt
      <4> QED BY <1>p, <1>s, <3>1, <4>4
    <3> QED BY <3>2, <3>3
  <2> HIDE DEF Right, Ends
  <2> QED BY <1>p, <1>w, <2>1, <2>2, <2>3 DEF Processes
<1>16. ASSUME NEW w \in Workers, Look(w)
      PROVE  (\A p \in Processes : Right(section'[p])) /\ (\A v \in Workers : Ends(v)) /\ UNCHANGED record
  <2>1. \A v \in Workers : v # w => UNCHANGED section[v] /\ UNCHANGED work[v]
        BY <1>16, <1>0, <1>s DEF Look, Set
  <2>2. work[w] \in Works /\ UNCHANGED record /\ UNCHANGED section[Api]
        BY <1>16, <1>0, <1>s DEF Look
  <2>3. Right(section'[w]) /\ Ends(w)
    <3>1. CASE record.cancel /\ Set(w, [work[w] EXCEPT !.ctx = "cancelled"])
          BY <1>16, <1>0, <1>s, <1>x, <1>c, <1>f, <1>p, <2>2, <3>1 DEF Look, Set, Pending, Free, CancelsAreAsked,
             WorkersFit, Works, Records, Excused, Watching, OnIt
    <3>2. CASE Look(w) /\ ~record.cancel
      <4>1. work'[w].at = work[w].at /\ work'[w].pausing
        <5>1. PICK c : Set(w, [work[w] EXCEPT !.pausing = TRUE, !.ctx = c])
              BY <3>2 DEF Look
        <5> QED BY <1>0, <2>2, <5>1 DEF Set, Works
      <4>2. work[w].at = "end" => Excused'
            BY <3>2 DEF Look, Excused
      <4>3. UNCHANGED section[w]
            BY <3>2 DEF Look
      <4> QED BY <1>p, <1>s, <4>1, <4>2, <4>3
    <3> QED BY <1>16, <3>1, <3>2 DEF Look
  <2> HIDE DEF Right, Ends
  <2> QED BY <1>p, <1>w, <2>1, <2>2, <2>3 DEF Processes
<1>17. ASSUME NEW w \in Workers, Stall(w)
      PROVE  (\A p \in Processes : Right(section'[p])) /\ (\A v \in Workers : Ends(v)) /\ UNCHANGED record
  <2>1. \A v \in Workers : v # w => UNCHANGED section[v] /\ UNCHANGED work[v]
        BY <1>17, <1>0, <1>s DEF Stall, Set
  <2>2. work[w] \in Works /\ UNCHANGED record /\ UNCHANGED section[Api]
        BY <1>17, <1>0, <1>s DEF Stall
  <2>3. Right(section'[w]) /\ Ends(w)
        BY <1>17, <1>0, <1>s, <1>x, <1>c, <1>f, <1>p, <2>2 DEF Stall, Set, Pending, Free, CancelsAreAsked,
           WorkersFit, Works, Records
  <2> HIDE DEF Right, Ends
  <2> QED BY <1>p, <1>w, <2>1, <2>2, <2>3 DEF Processes
<1>18. ASSUME NEW w \in Workers, Wake(w)
      PROVE  (\A p \in Processes : Right(section'[p])) /\ (\A v \in Workers : Ends(v)) /\ UNCHANGED record
  <2>1. \A v \in Workers : v # w => UNCHANGED section[v] /\ UNCHANGED work[v]
        BY <1>18, <1>0, <1>s DEF Wake, Set
  <2>2. work[w] \in Works /\ UNCHANGED record /\ UNCHANGED section[Api]
        BY <1>18, <1>0, <1>s DEF Wake
  <2>3. Right(section'[w]) /\ Ends(w)
        BY <1>18, <1>0, <1>s, <1>x, <1>c, <1>f, <1>p, <2>2 DEF Wake, Set, Pending, Free, CancelsAreAsked,
           WorkersFit, Works, Records
  <2> HIDE DEF Right, Ends
  <2> QED BY <1>p, <1>w, <2>1, <2>2, <2>3 DEF Processes
<1>19. ASSUME NEW w \in Workers, Takeable(w)
      PROVE  (\A p \in Processes : Right(section'[p])) /\ (\A v \in Workers : Ends(v)) /\ UNCHANGED record
  <2>1. \A v \in Workers : v # w => UNCHANGED section[v] /\ UNCHANGED work[v]
        BY <1>19, <1>0, <1>s DEF Takeable, Set, Enter
  <2>2. work[w] \in Works /\ UNCHANGED record /\ UNCHANGED section[Api]
        BY <1>19, <1>0, <1>s DEF Takeable, Enter
  <2>3. Right(section'[w]) /\ Ends(w)
    <3>1. CASE Enter(w, "dead", Paused(record)) /\ UNCHANGED work
          BY <1>19, <1>0, <1>s, <1>x, <1>c, <1>f, <1>p, <2>2, <3>1 DEF Takeable, Set, Enter, Pending, Free,
             CancelsAreAsked, WorkersFit, Works, Records
    <3>2. CASE Enter(w, "refuse", [record EXCEPT !.status = "failed"]) /\ UNCHANGED work
          BY <1>19, <1>0, <1>s, <1>x, <1>c, <1>f, <1>p, <2>2, <3>2 DEF Takeable, Set, Enter, Pending, Free,
             CancelsAreAsked, WorkersFit, Works, Records
    <3>3. CASE UNCHANGED section /\ Set(w, [work[w] EXCEPT !.at = "drop"])
          BY <1>19, <1>0, <1>s, <1>x, <1>c, <1>f, <1>p, <2>2, <3>3 DEF Takeable, Set, Enter, Pending, Free,
             CancelsAreAsked, WorkersFit, Works, Records
    <3>4. CASE UNCHANGED section /\ Set(w, [work[w] EXCEPT !.at = "claim", !.watch = TRUE])
          BY <1>19, <1>0, <1>s, <1>x, <1>c, <1>f, <1>p, <2>2, <3>4 DEF Takeable, Set, Enter, Pending, Free,
             CancelsAreAsked, WorkersFit, Works, Records
    <3> QED BY <1>19, <3>1, <3>2, <3>3, <3>4 DEF Takeable
  <2> HIDE DEF Right, Ends
  <2> QED BY <1>p, <1>w, <2>1, <2>2, <2>3 DEF Processes
<1>20. ASSUME NEW w \in Workers, Claim(w)
      PROVE  (\A p \in Processes : Right(section'[p])) /\ (\A v \in Workers : Ends(v)) /\ UNCHANGED record
  <2>1. \A v \in Workers : v # w => UNCHANGED section[v] /\ UNCHANGED work[v]
        BY <1>20, <1>0, <1>s DEF Claim, Set, Enter
  <2>2. work[w] \in Works /\ UNCHANGED record /\ UNCHANGED section[Api]
        BY <1>20, <1>0, <1>s DEF Claim, Enter
  <2>3. Right(section'[w]) /\ Ends(w)
    <3>1. CASE UNCHANGED work
          BY <1>20, <1>0, <1>s, <1>x, <1>c, <1>f, <1>p, <2>2, <3>1 DEF Claim, Set, Enter, Pending, Free,
             CancelsAreAsked, WorkersFit, Works, Records
    <3>2. CASE Set(w, [work[w] EXCEPT !.at = "done", !.keep = TRUE])
          BY <1>20, <1>0, <1>s, <1>x, <1>c, <1>f, <1>p, <2>2, <3>2 DEF Claim, Set, Enter, Pending, Free,
             CancelsAreAsked, WorkersFit, Works, Records
    <3> QED BY <1>20, <3>1, <3>2 DEF Claim
  <2> HIDE DEF Right, Ends
  <2> QED BY <1>p, <1>w, <2>1, <2>2, <2>3 DEF Processes
<1>21. ASSUME NEW w \in Workers, Beat(w)
      PROVE  (\A p \in Processes : Right(section'[p])) /\ (\A v \in Workers : Ends(v)) /\ UNCHANGED record
  <2>1. \A v \in Workers : v # w => UNCHANGED section[v] /\ UNCHANGED work[v]
        BY <1>21, <1>0, <1>s DEF Beat, Enter
  <2>2. work[w] \in Works /\ UNCHANGED record /\ UNCHANGED section[Api]
        BY <1>21, <1>0, <1>s DEF Beat, Enter
  <2>3. Right(section'[w]) /\ Ends(w)
        BY <1>21, <1>0, <1>s, <1>x, <1>c, <1>f, <1>p, <2>2 DEF Beat, Enter, Pending, Free, CancelsAreAsked,
           WorkersFit, Works
  <2> HIDE DEF Right, Ends
  <2> QED BY <1>p, <1>w, <2>1, <2>2, <2>3 DEF Processes
<1>22. ASSUME NEW w \in Workers, FetchFails(w)
      PROVE  (\A p \in Processes : Right(section'[p])) /\ (\A v \in Workers : Ends(v)) /\ UNCHANGED record
  <2>1. \A v \in Workers : v # w => UNCHANGED section[v] /\ UNCHANGED work[v]
        BY <1>22, <1>0, <1>s DEF FetchFails, Set, Enter
  <2>2. work[w] \in Works /\ UNCHANGED record /\ UNCHANGED section[Api]
        BY <1>22, <1>0, <1>s DEF FetchFails, Enter
  <2>3. Right(section'[w]) /\ Ends(w)
    <3>1. PICK new : /\ new \in {Paused(record), [record EXCEPT !.status = "failed"]}
                     /\ Enter(w, "finish", new)
          BY <1>22 DEF FetchFails
    <3>2. new.cancel = record.cancel /\ new.status \in {"paused", "failed"}
          BY <1>0, <1>f, <3>1 DEF Records
    <3>3. section'[w] = [op |-> "finish", new |-> new, late |-> FALSE]
          BY <1>0, <1>s, <3>1 DEF Enter
    <3>7. "failed" \in Statuses
          BY DEF Statuses, Settled
    <3>4. section'[w] \in Sections
      <4>1. new \in Records
            BY <1>0, <3>1, <3>7, RecordEdits
      <4> QED BY <3>3, <4>1 DEF Sections
    <3>5. Pending(w, {"finish"})'
      <4>1. section'[w] # None
            BY <3>4, NoneAssumption
      <4>2. section'[w].op = "finish"
            BY <3>3
      <4> QED BY <4>1, <4>2 DEF Pending, Free
    <3>6. work'[w].at = "fetch"
          BY <1>22, <1>0, <2>2 DEF FetchFails, Set, Works
    <3> QED BY <1>0, <1>x, <3>2, <3>3, <3>5, <3>6 DEF CancelsAreAsked
  <2> HIDE DEF Right, Ends
  <2> QED BY <1>p, <1>w, <2>1, <2>2, <2>3 DEF Processes
<1>23. ASSUME NEW w \in Workers, Finish(w)
      PROVE  (\A p \in Processes : Right(section'[p])) /\ (\A v \in Workers : Ends(v)) /\ UNCHANGED record
  <2>1. \A v \in Workers : v # w => UNCHANGED section[v] /\ UNCHANGED work[v]
        BY <1>23, <1>0, <1>s DEF Finish, Set, Enter
  <2>2. work[w] \in Works /\ UNCHANGED record /\ UNCHANGED section[Api]
        BY <1>23, <1>0, <1>s DEF Finish, Enter
  <2>3. Right(section'[w]) /\ Ends(w)
    <3>1. CASE Enter(w, "finish", Paused(record)) /\ Set(w, [work[w] EXCEPT !.keep = TRUE])
          BY <1>23, <1>0, <1>s, <1>x, <1>c, <1>f, <1>p, <2>2, <3>1 DEF Finish, Set, Enter, Pending, Free,
             CancelsAreAsked, WorkersFit, Works, Records
    <3>2. CASE Enter(w, "finish", [record EXCEPT !.status = "cancelled"]) /\ UNCHANGED work
          BY <1>23, <1>0, <1>s, <1>x, <1>c, <1>f, <1>p, <2>2, <3>2 DEF Finish, Set, Enter, Pending, Free,
             CancelsAreAsked, WorkersFit, Works, Records
    <3>3. CASE (\E s \in {"succeeded", "failed"} : Enter(w, "finish", [record EXCEPT !.status = s])) /\ UNCHANGED work
          BY <1>23, <1>0, <1>s, <1>x, <1>c, <1>f, <1>p, <2>2, <3>3 DEF Finish, Set, Enter, Pending, Free,
             CancelsAreAsked, WorkersFit, Works, Records
    <3> QED BY <1>23, <3>1, <3>2, <3>3 DEF Finish
  <2> HIDE DEF Right, Ends
  <2> QED BY <1>p, <1>w, <2>1, <2>2, <2>3 DEF Processes
<1>24. ASSUME NEW w \in Workers, ClaimFails(w)
      PROVE  (\A p \in Processes : Right(section'[p])) /\ (\A v \in Workers : Ends(v)) /\ UNCHANGED record
  <2>1. \A v \in Workers : v # w => UNCHANGED section[v] /\ UNCHANGED work[v]
        BY <1>24, <1>0, <1>s DEF ClaimFails, Set
  <2>2. work[w] \in Works /\ UNCHANGED record /\ UNCHANGED section[Api]
        BY <1>24, <1>0, <1>s DEF ClaimFails
  <2>3. Right(section'[w]) /\ Ends(w)
        BY <1>24, <1>0, <1>s, <1>x, <1>c, <1>f, <1>p, <2>2 DEF ClaimFails, Set, Pending, Free, CancelsAreAsked,
           WorkersFit, Works, Records
  <2> HIDE DEF Right, Ends
  <2> QED BY <1>p, <1>w, <2>1, <2>2, <2>3 DEF Processes
<1>25. ASSUME NEW w \in Workers, Crash(w)
      PROVE  (\A p \in Processes : Right(section'[p])) /\ (\A v \in Workers : Ends(v)) /\ UNCHANGED record
  <2>1. \A v \in Workers : v # w => UNCHANGED section[v] /\ UNCHANGED work[v]
        BY <1>25, <1>0, <1>s DEF Crash, Set
  <2>2. work[w] \in Works /\ UNCHANGED record /\ UNCHANGED section[Api]
        BY <1>25, <1>0, <1>s DEF Crash
  <2>3. Right(section'[w]) /\ Ends(w)
        BY <1>25, <1>0, <1>s, <1>x, <1>c, <1>f, <1>p, <2>2 DEF Crash, Set, Off, Pending, Free, CancelsAreAsked,
           WorkersFit, Works, Records
  <2> HIDE DEF Right, Ends
  <2> QED BY <1>p, <1>w, <2>1, <2>2, <2>3 DEF Processes
<1>26. ASSUME NEW w \in Workers, Quit(w)
      PROVE  (\A p \in Processes : Right(section'[p])) /\ (\A v \in Workers : Ends(v)) /\ UNCHANGED record
  <2>1. \A v \in Workers : v # w => UNCHANGED section[v] /\ UNCHANGED work[v]
        BY <1>26, <1>0, <1>s DEF Quit, Set
  <2>2. work[w] \in Works /\ UNCHANGED record /\ UNCHANGED section[Api]
        BY <1>26, <1>0, <1>s DEF Quit
  <2>3. Right(section'[w]) /\ Ends(w)
    <3>1. CASE Set(w, Off)
          BY <1>26, <1>0, <1>s, <1>x, <1>c, <1>f, <1>p, <2>2, <3>1 DEF Quit, Set, Off, Pending, Free,
             CancelsAreAsked, WorkersFit, Works, Records
    <3>2. CASE Set(w, [work[w] EXCEPT !.ctx = "quit"])
          BY <1>26, <1>0, <1>s, <1>x, <1>c, <1>f, <1>p, <2>2, <3>2 DEF Quit, Set, Off, Pending, Free,
             CancelsAreAsked, WorkersFit, Works, Records
    <3> QED BY <1>26, <3>1, <3>2 DEF Quit
  <2> HIDE DEF Right, Ends
  <2> QED BY <1>p, <1>w, <2>1, <2>2, <2>3 DEF Processes
<1>27. ASSUME NEW p \in Processes, Write(p) PROVE All
  <2>1. (record'.cancel => asked') /\ (record'.status = "cancelled" => Excused')
        BY <1>27, <1>0, <1>x DEF Write, CancelsAreAsked, Free
  <2>2. ASSUME NEW q \in Processes, q # p PROVE Right(section'[q])
        BY <1>27, <1>0, <1>x, <2>2 DEF Write, Leave, CancelsAreAsked, Free, Sections
  <2>3. Right(section'[p])
        BY <1>27, <1>0, <1>x DEF Write, Leave, CancelsAreAsked, Free, Sections, Records, Paused
  <2>4. ASSUME NEW v \in Workers, v # p PROVE Ends(v)
    <3>1. UNCHANGED work[v]
          BY <1>27, <1>0, <2>4, AfterWorks DEF Write
    <3>2. Pending(v, {"finish"}) => Pending(v, {"finish"})'
          BY <1>27, <1>0, <1>s, <2>4, NoneAssumption DEF Write, Leave, Pending, Free, Sections
    <3> QED BY <1>0, <1>x, <3>1, <3>2 DEF CancelsAreAsked
  <2>5. ASSUME p \in Workers PROVE Ends(p)
    <3>1. work[p] \in Works /\ section[p] # None
          BY <1>27, <1>0, <2>5 DEF Write, Free
    <3>2. CASE section[p].op = "claim"
          BY <1>27, <1>0, <2>5, <3>1, <3>2, AfterWorks, ProcessesAssumption DEF Write, Works
    <3>3. CASE section[p].op = "finish"
          BY <1>27, <1>0, <2>5, <3>1, <3>3, AfterWorks DEF Write, Works
    <3>4. CASE section[p].op \notin {"claim", "finish"}
      <4>1. UNCHANGED work[p] \/ work'[p].at = "drop"
            BY <1>27, <1>0, <2>5, <3>1, <3>4, AfterWorks DEF Write, Works
      <4> QED BY <1>0, <1>x, <2>5, <3>1, <3>4, <4>1 DEF CancelsAreAsked, Pending, Free
    <3> QED BY <3>2, <3>3, <3>4
  <2> HIDE DEF Right, Ends
  <2> QED BY <2>1, <2>2, <2>3, <2>4, <2>5
<1>28. ASSUME NEW w \in Workers, FinishUnread(w)
      PROVE  (\A p \in Processes : Right(section'[p])) /\ (\A v \in Workers : Ends(v)) /\ UNCHANGED record
  <2>1. \A v \in Workers : v # w => UNCHANGED section[v] /\ UNCHANGED work[v]
        BY <1>28, <1>0, <1>s DEF FinishUnread, Set
  <2>2. UNCHANGED record /\ UNCHANGED section
        BY <1>28 DEF FinishUnread
  <2>3. Ends(w)
        BY <1>28, <1>0 DEF FinishUnread, Set, Works
  <2> HIDE DEF Right, Ends
  <2> QED BY <1>p, <1>w, <2>1, <2>2, <2>3 DEF Processes
<1>29. ASSUME NEW p \in Processes, WriteFails(p)
      PROVE  (\A q \in Processes : Right(section'[q])) /\ (\A v \in Workers : Ends(v)) /\ UNCHANGED record
  <2>1. /\ UNCHANGED record /\ section' = [section EXCEPT ![p] = None]
        /\ \A w \in Workers : w # p => work'[w] = work[w]
        BY <1>29, <1>0, FailedWrite
  <2>2. \A q \in Processes : Right(section'[q])
        BY <1>0, <1>x, <2>1 DEF CancelsAreAsked, Free
  <2>3. ASSUME p \in Workers PROVE Ends(p)
    <3>1. \/ work'[p].at \in {"drop", "unsaid"}
          \/ section[p].op # "finish" /\ UNCHANGED work[p]
          BY <1>29, <1>0, <2>3 DEF WriteFails, After, Set, Works
    <3> QED BY <1>0, <1>x, <2>3, <3>1 DEF CancelsAreAsked, Pending, Free
  <2>4. \A v \in Workers : v # p => Ends(v)
        BY <1>s, <1>w, <2>1
  <2> HIDE DEF Right, Ends
  <2> QED BY <2>1, <2>2, <2>3, <2>4
<1> HIDE DEF Right, Ends
<1> QED
      BY <1>1, <1>2, <1>3, <1>4, <1>5, <1>6, <1>7, <1>8, <1>9, <1>10, <1>11, <1>12, <1>13, <1>14, <1>15, <1>16,
         <1>17, <1>18, <1>19, <1>20, <1>21, <1>22, <1>23, <1>24, <1>25, <1>26, <1>27, <1>28, <1>29, <1>s, <1>k
      DEF Next, Serve, Follow, vars, List, Age, Lapse

---------------------------------------------------------------------------
(* The theorems.                                                           *)

LEMMA InitIsInductive == Init => IInv
<1> SUFFICES ASSUME Init PROVE IInv
    OBVIOUS
<1>1. TypeOK
  <2>1. work \in [Workers -> Works] /\ section \in [Processes -> Sections \cup {None}]
        BY DEF Init, Works, Off
  <2>2. messages \in [DOMAIN messages -> [takes : Nat, hidden : BOOLEAN]] /\ DOMAIN messages \subseteq 1..sent
        BY DEF Init
  <2>3. spent \in [DOMAIN Limit -> Nat] /\ \A f \in DOMAIN Limit : spent[f] <= Limit[f]
        BY BoundsAssumption DEF Init, Limit
  <2>4. record \in Records /\ scratch \in BOOLEAN
        BY DEF Init, Records, Statuses
  <2> QED BY <2>1, <2>2, <2>3, <2>4 DEF Init, TypeOK
<1>2. \A w \in Workers : work[w].at = "off" /\ ~work[w].watch
      BY DEF Init, Off
<1>3. \A p \in Processes : section[p] = None
      BY DEF Init
<1>4. record.status \in {"none", "interrupted"} /\ ~record.cancel /\ (record.status = "none" => ~scratch)
  <2>1. PICK s \in {"none", "interrupted"} :
          record = [status |-> s, cancel |-> FALSE, pause |-> FALSE] /\ scratch = (s = "interrupted")
        BY DEF Init
  <2> QED BY <2>1
<1>5. Api \in Processes /\ Workers \subseteq Processes
      BY DEF Processes
<1> QED
      BY <1>1, <1>2, <1>3, <1>4, <1>5 DEF IInv, SectionsFit, Fits, WorkersFit, WatchesFit, Pending, Free, JobIsFirst, OnIt,
         OnItIsRunning, OneAnalysis, DoneIsSettled, CancelIsAsked, CancelsAreAsked

LEMMA StepIsInductive == IInv /\ [Next]_vars => IInv'
<1> SUFFICES ASSUME IInv, [Next]_vars PROVE IInv'
    OBVIOUS
<1>1. TypeOK'
      BY TypeStep DEF IInv
<1> QED
      BY <1>1, FitStep, WorkersStep, WatchesStep, FirstStep, AloneStep, DoneStep, AskedStep DEF IInv

\* The inductive invariant holds in every behaviour, fair or not.
THEOREM Invariance == Spec => []IInv
BY InitIsInductive, StepIsInductive, PTL DEF Spec

\* Every variable keeps its type.
THEOREM TypeCorrect == Spec => []TypeOK
<1>1. IInv => TypeOK
      BY DEF IInv
<1> QED BY <1>1, Invariance, PTL

\* Two workers never analyze the job at one time, short of a lost write or a
\* worker declared dead while it is on the job (claim, takeable, pauseDead).
THEOREM OneAnalysisCorrect == Spec => []OneAnalysis
<1>1. IInv => OneAnalysis
      BY DEF IInv
<1> QED BY <1>1, Invariance, PTL

\* Nothing but a request cancels a job, short of a lost hold, a pause that came
\* too late and a lost write (finish, watch, Cancel, ExpirePaused).
THEOREM CancelCorrect == Spec => []CancelIsAsked
<1>1. IInv => CancelIsAsked
      BY DEF IInv
<1> QED BY <1>1, Invariance, PTL

\* A settled record stays as it is: the checks of the state under the lock are
\* enough, short of a lost write or a live worker declared dead.
THEOREM SettledCorrect == Spec => SettledStays
<1>1. IInv /\ [Next]_vars => [record.status \in Settled => record'.status = record.status
                                                           \/ scars' \cap {"misjudged", "overwritten"} # {}]_vars
      BY SettledStep DEF Harmed
<1> QED BY <1>1, Invariance, PTL DEF Spec, SettledStays

\* The scratch directory goes only when the job is settled (Begin's sweep,
\* dropSettled, the end of runOne), short of a run that could not record its
\* end, and of an interrupted job, which the sweeps do not know.
LEMMA RemovalStep ==
    ASSUME IInv, [Next]_vars, scratch, ~scratch'
    PROVE  record.status \in Settled \cup {"interrupted"} \/ Harmed \/ \E w \in Workers : Ousts(w)
<1>0. TypeOK /\ DoneIsSettled /\ JobIsFirst
      BY DEF IInv
<1>1. ASSUME NEW w \in Workers, Begin(w) \/ Drop(w) PROVE record.status \in Settled \cup {"interrupted"}
  <2>1. record.status \in Statuses \ {"none", "queued", "running", "paused"}
        BY <1>0, <1>1 DEF Begin, Drop, Unneeded, JobIsFirst, TypeOK, Records
  <2> QED BY <2>1 DEF Statuses
<1>2. ASSUME NEW w \in Workers, Done(w) PROVE record.status \in Settled \/ Harmed \/ Ousts(w)
  <2>1. work[w].at \in {"done", "unsaid"} /\ ~work[w].keep /\ work'[w].at # "unsaid"
        BY <1>0, <1>2 DEF Done, Over, TypeOK, Works, Set, Off
  <2> QED BY <1>0, <2>1 DEF DoneIsSettled, Ousts
<1>3. CASE scratch' = TRUE \/ UNCHANGED scratch
      BY <1>3
<1> QED
      BY <1>1, <1>2, <1>3 DEF Next, Serve, Follow, Submit, Cancel, Pause, Resume, Expire, Enqueue, List, Judge,
         CrashApi, Age, Lapse, vars, Receive, Takeable, Claim, ClaimFails, Beat, Fetch, FetchFails, EndRun, Finish,
         FinishUnread, Write, WriteFails, Renew, Look, Quit, Crash, Stall, Wake

\* What a run has done is deleted only once its job is settled, or by a run
\* that could not record its end, or by a sweep that finds it interrupted.
THEOREM RemovalCorrect == Spec => RemovalIsSafe
<1>1. IInv /\ [Next]_vars =>
        [scratch /\ ~scratch' => \/ record.status \in Settled \cup {"interrupted"} \/ Harmed
                                 \/ \E w \in Workers : Ousts(w)]_vars
      BY RemovalStep
<1> QED BY <1>1, Invariance, PTL DEF Spec, RemovalIsSafe
=============================================================================
