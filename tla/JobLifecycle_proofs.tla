------------------------ MODULE JobLifecycle_proofs ------------------------
(* The promise itself keeps reports: what JobManager_proofs!Refinement     *)
(* carries over to the manager.                                            *)
EXTENDS JobLifecycle, TLAPS

Kept == TypeOK /\ Delivered

\* What holds at the start; every job is absent or an old interruption.
LEMMA InitKept == Init => Kept
BY DEF Init, Kept, TypeOK, Status, Delivered

\* The files of a completed job are not touched, and its row stays.
LEMMA StepKept == Kept /\ [Next]_vars => Kept'
<1> SUFFICES ASSUME Kept, [Next]_vars PROVE Kept'
      OBVIOUS
<1> USE DEF Kept, TypeOK, Status, Content, Delivered
<1>1. ASSUME NEW j \in Jobs, NEW from, NEW to \in Status \ {"completed"}, Moves(j, from, to)
      PROVE  Kept'
      BY <1>1 DEF Moves
<1>2. ASSUME NEW j \in Jobs,
             \/ Submit(j) \/ Take(j) \/ Resume(j) \/ Fail(j) \/ Pause(j) \/ Cancel(j)
      PROVE  Kept'
      BY <1>1, <1>2 DEF Submit, Take, Resume, Fail, Pause, Cancel
<1>3. ASSUME NEW j \in Jobs, Touch(j) \/ Delete(j) PROVE Kept'
      BY <1>3 DEF Touch, Delete
<1>4. ASSUME NEW j \in Jobs, RecordReport(j) \/ Complete(j) PROVE Kept'
      BY <1>4 DEF RecordReport, Complete, Moves
<1>5. ASSUME NEW some \in SUBSET Jobs, PauseAll(some) PROVE Kept'
      BY <1>5 DEF PauseAll
<1>6. CASE UNCHANGED vars
      BY <1>6 DEF vars
<1> QED
      BY <1>2, <1>3, <1>4, <1>5, <1>6 DEF Next

\* A completed job produced a viewable report and keeps it (Status.Completed,
\* job.go), by the transitions of the lifecycle alone.
THEOREM DeliveredCorrect == Spec => []Delivered
<1>1. Kept => Delivered
      BY DEF Kept
<1> QED
      BY <1>1, InitKept, StepKept, PTL DEF Spec
=============================================================================
