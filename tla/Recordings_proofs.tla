-------------------------- MODULE Recordings_proofs --------------------------
(***************************************************************************)
(* What holds of the recordings of a service for any number of uploads,    *)
(* users, analyses and requests: types, and the bound on recordings.       *)
(***************************************************************************)
EXTENDS Recordings, TLAPS, FiniteSetTheorems

---------------------------------------------------------------------------
(* Types of the parts that the actions share.                              *)

RowsType == rows \in [Ids -> Rows \cup {None}]
PlaceType == place \in [Ids -> SUBSET {"disk", "originals", "kept"}]
JobsType == jobs \in [Jobs -> [status : Active \cup {"none", "ended", "gone"}, of : Ids \cup {None}, worker : {"no", "on", "copied"}]]
RequestType == request \in [Requests -> Serving]
SweepType == sweep \in {[at |-> "idle"]} \cup Expiring \cup Orphaning
ScarsType == scars \subseteq {"overlap", "raced", "busy", "untold", "cut"}
SpentType == spent \in [calls : 0..MaxCalls, faults : 0..MaxFaults]

\* What a request is doing says what it carries.
LEMMA Shapes ==
    ASSUME RequestType, NEW r \in Requests
    PROVE  /\ request[r] \in Serving
           /\ request[r].op = "upload" => request[r] \in Uploads
           /\ request[r].op = "complete" => request[r] \in Completes
           /\ request[r].op = "submit" => request[r] \in Submits
           /\ request[r].op = "delete" => request[r] \in Deletes
           /\ request[r].op = "account" => request[r] \in Closings
BY DEF RequestType, Serving, Idle, Uploads, Completes, Submits, Deletes, Closings

LEMMA Served ==
    ASSUME RequestType, NEW r \in Requests, NEW new \in Serving, Set(r, new)
    PROVE  RequestType'
BY DEF RequestType, Set

LEMMA Ended ==
    ASSUME RequestType, NEW r \in Requests, Ends(r)
    PROVE  RequestType'
BY Served DEF Ends, Serving

\* A request moves on within what its operation knows.
LEMMA Gone ==
    ASSUME RequestType, NEW r \in Requests, NEW at, Goes(r, at),
           \/ request[r].op = "upload" /\ at \in {"copy", "local", "create"}
           \/ request[r].op = "complete" /\ at \in {"stat", "quota", "probe", "drop", "create"}
           \/ request[r].op = "delete" /\ at \in {"look", "row", "bytes"}
    PROVE  RequestType'
<1>1. [request[r] EXCEPT !.at = at] \in Serving
  <2>1. CASE request[r].op = "upload"
        BY <2>1, Shapes DEF Serving, Uploads
  <2>2. CASE request[r].op = "complete"
        BY <2>2, Shapes DEF Serving, Completes
  <2>3. CASE request[r].op = "delete"
        BY <2>3, Shapes DEF Serving, Deletes
  <2> QED
      BY <2>1, <2>2, <2>3
<1> QED
    BY <1>1, Served DEF Goes

LEMMA CallCounts ==
    ASSUME SpentType, Called \/ Fault
    PROVE  SpentType'
<1>1. MaxCalls \in Nat /\ MaxFaults \in Nat
      BY QuotaAssumption
<1> QED
    BY <1>1 DEF SpentType, Called, Fault

LEMMA MarksKeep ==
    ASSUME ScarsType, NEW scar \in {"overlap", "raced", "busy", "untold", "cut"}, NEW when, Marked(scar, when)
    PROVE  ScarsType'
BY DEF ScarsType, Marked

\* What is removed or added leaves places.
LEMMA PlaceChanges ==
    ASSUME PlaceType, NEW i, NEW S
    PROVE  /\ [place EXCEPT ![i] = @ \ S] \in [Ids -> SUBSET {"disk", "originals", "kept"}]
           /\ S \subseteq {"disk", "originals", "kept"} =>
                [place EXCEPT ![i] = @ \cup S] \in [Ids -> SUBSET {"disk", "originals", "kept"}]
BY DEF PlaceType

\* A recorded upload is a row.
LEMMA RowMade ==
    ASSUME RowsType, NEW i
    PROVE  [rows EXCEPT ![i] = [old |-> FALSE, kept |-> FALSE]] \in [Ids -> Rows \cup {None}]
<1>1. [old |-> FALSE, kept |-> FALSE] \in Rows
      BY DEF Rows
<1> QED
    BY <1>1 DEF RowsType

LEMMA TypesApart ==
    TypeOK <=> /\ objects \in BOOLEAN /\ accounts \subseteq Users /\ RowsType /\ PlaceType
               /\ used \subseteq Ids /\ signed \subseteq used /\ aged \subseteq Ids
               /\ JobsType /\ RequestType /\ SweepType /\ ScarsType /\ SpentType
BY DEF TypeOK, RowsType, PlaceType, JobsType, RequestType, SweepType, ScarsType, SpentType

---------------------------------------------------------------------------
(* Each action keeps the types.                                            *)

LEMMA UploadTypes ==
    ASSUME TypeOK, NEW r \in Requests,
           \/ (\E i \in Ids : Upload(r, i)) \/ UploadRefused(r) \/ UploadStored(r)
           \/ DropLocal(r) \/ UploadCreate(r)
    PROVE  TypeOK'
<1> USE TypesApart
<1>1. ASSUME NEW i \in Ids, Upload(r, i)
      PROVE  TypeOK'
  <2>1. [op |-> "upload", at |-> "copy", id |-> i] \in Serving
        BY <1>1 DEF Upload, Serving, Uploads
  <2>2. RequestType'
        BY <1>1, <2>1, Served DEF Upload, RequestType
  <2>3. SpentType'
        BY <1>1, CallCounts DEF Upload, SpentType
  <2>4. PlaceType'
        BY <1>1, PlaceChanges DEF Upload, PlaceType
  <2>5. ScarsType'
        BY <1>1, MarksKeep DEF Upload, ScarsType
  <2> QED
      BY <1>1, <2>2, <2>3, <2>4, <2>5 DEF Upload, TypeOK, RequestType, SpentType, PlaceType, ScarsType
<1>2. CASE UploadRefused(r)
  <2>1. RequestType'
        BY <1>2, Ended DEF UploadRefused, RequestType
  <2>2. PlaceType'
        BY <1>2, PlaceChanges DEF UploadRefused, PlaceType
  <2> QED
      BY <1>2, <2>1, <2>2 DEF UploadRefused, TypeOK, RequestType, PlaceType
<1>3. CASE UploadStored(r)
  <2>1. RequestType'
        BY <1>3, Gone, Shapes DEF UploadStored, RequestType, At
  <2>2. PlaceType'
        BY <1>3, PlaceChanges DEF UploadStored, PlaceType
  <2> QED
      BY <1>3, <2>1, <2>2 DEF UploadStored, TypeOK, RequestType, PlaceType
<1>4. CASE DropLocal(r)
  <2>1. RequestType'
        BY <1>4, Gone, Shapes DEF DropLocal, RequestType, At
  <2>2. PlaceType'
        BY <1>4, PlaceChanges DEF DropLocal, PlaceType
  <2> QED
      BY <1>4, <2>1, <2>2 DEF DropLocal, TypeOK, RequestType, PlaceType
<1>5. CASE UploadCreate(r)
  <2>1. RequestType'
        BY <1>5, Ended DEF UploadCreate, RequestType
  <2>2. rows' = rows \/ rows' = [rows EXCEPT ![request[r].id] = [old |-> FALSE, kept |-> FALSE]]
        BY <1>5 DEF UploadCreate
  <2>3. RowsType'
        BY <2>2, RowMade DEF RowsType
  <2>4. PlaceType'
        BY <1>5, PlaceChanges DEF UploadCreate, PlaceType
  <2>5. ScarsType'
        BY <1>5, MarksKeep DEF UploadCreate, ScarsType
  <2> QED
      BY <1>5, <2>1, <2>3, <2>4, <2>5 DEF UploadCreate, TypeOK, RequestType, RowsType, PlaceType, ScarsType
<1> QED
    BY <1>1, <1>2, <1>3, <1>4, <1>5

LEMMA ObjectTypes ==
    ASSUME TypeOK, NEW i \in Ids,
           BeginUpload(i) \/ Put(i) \/ ObjectAges(i) \/ RowAges(i)
    PROVE  TypeOK'
<1> USE TypesApart
<1>1. CASE BeginUpload(i)
  <2>1. SpentType'
        BY <1>1, CallCounts DEF BeginUpload, SpentType
  <2> QED
      BY <1>1, <2>1 DEF BeginUpload, TypeOK, SpentType
<1>2. CASE Put(i)
  <2>1. PlaceType'
        BY <1>2, PlaceChanges DEF Put, PlaceType
  <2> QED
      BY <1>2, <2>1 DEF Put, TypeOK, PlaceType
<1>3. CASE ObjectAges(i)
      BY <1>3 DEF ObjectAges, TypeOK
<1>4. CASE RowAges(i)
  <2>1. RowsType'
        BY <1>4 DEF RowAges, RowsType, Rows
  <2> QED
      BY <1>4, <2>1 DEF RowAges, TypeOK, RowsType
<1> QED
    BY <1>1, <1>2, <1>3, <1>4

LEMMA CompleteTypes ==
    ASSUME TypeOK, NEW r \in Requests,
           \/ (\E i \in Ids : CompleteUpload(r, i)) \/ CompleteStat(r) \/ CompleteQuota(r)
           \/ CompleteProbe(r) \/ CompleteDrop(r) \/ CompleteCreate(r)
    PROVE  TypeOK'
<1> USE TypesApart
<1>1. ASSUME NEW i \in Ids, CompleteUpload(r, i)
      PROVE  TypeOK'
  <2>1. [op |-> "complete", at |-> "stat", id |-> i] \in Serving
        BY <1>1 DEF CompleteUpload, Serving, Completes
  <2>2. RequestType'
        BY <1>1, <2>1, Served DEF CompleteUpload, RequestType
  <2>3. SpentType'
        BY <1>1, CallCounts DEF CompleteUpload, SpentType
  <2>4. ScarsType'
        BY <1>1, MarksKeep DEF CompleteUpload, ScarsType
  <2> QED
      BY <1>1, <2>2, <2>3, <2>4 DEF CompleteUpload, TypeOK, RequestType, SpentType, ScarsType
<1>2. CASE CompleteStat(r)
  <2>1. RequestType'
        BY <1>2, Ended, Gone DEF CompleteStat, RequestType, At
  <2> QED
      BY <1>2, <2>1 DEF CompleteStat, TypeOK, RequestType
<1>3. CASE CompleteQuota(r)
  <2>1. RequestType'
        BY <1>3, Gone, Shapes DEF CompleteQuota, RequestType, At
  <2>2. ScarsType'
        BY <1>3, MarksKeep DEF CompleteQuota, ScarsType
  <2> QED
      BY <1>3, <2>1, <2>2 DEF CompleteQuota, TypeOK, RequestType, ScarsType
<1>4. CASE CompleteProbe(r)
  <2>1. RequestType'
        BY <1>4, Ended, Gone DEF CompleteProbe, RequestType, At
  <2> QED
      BY <1>4, <2>1 DEF CompleteProbe, TypeOK, RequestType
<1>5. CASE CompleteDrop(r)
  <2>1. RequestType'
        BY <1>5, Ended DEF CompleteDrop, RequestType
  <2>2. PlaceType'
        BY <1>5, PlaceChanges DEF CompleteDrop, PlaceType
  <2> QED
      BY <1>5, <2>1, <2>2 DEF CompleteDrop, TypeOK, RequestType, PlaceType
<1>6. CASE CompleteCreate(r)
  <2>1. RequestType'
        BY <1>6, Ended DEF CompleteCreate, RequestType
  <2>2. rows' = rows \/ rows' = [rows EXCEPT ![request[r].id] = [old |-> FALSE, kept |-> FALSE]]
        BY <1>6 DEF CompleteCreate
  <2>3. RowsType'
        BY <2>2, RowMade DEF RowsType
  <2>4. ScarsType'
        BY <1>6, MarksKeep DEF CompleteCreate, ScarsType
  <2> QED
      BY <1>6, <2>1, <2>3, <2>4 DEF CompleteCreate, TypeOK, RequestType, RowsType, ScarsType
<1> QED
    BY <1>1, <1>2, <1>3, <1>4, <1>5, <1>6

LEMMA DeleteTypes ==
    ASSUME TypeOK, NEW r \in Requests,
           (\E i \in Ids : Delete(r, i)) \/ DeleteLook(r) \/ DeleteRow(r) \/ DeleteBytes(r)
    PROVE  TypeOK'
<1> USE TypesApart
<1>1. ASSUME NEW i \in Ids, Delete(r, i)
      PROVE  TypeOK'
  <2>1. [op |-> "delete", at |-> "look", id |-> i, kept |-> rows[i].kept] \in Serving
        BY <1>1 DEF Delete, Serving, Deletes, Rows, RowsType
  <2>2. RequestType'
        BY <1>1, <2>1, Served DEF Delete, RequestType
  <2>3. SpentType'
        BY <1>1, CallCounts DEF Delete, SpentType
  <2> QED
      BY <1>1, <2>2, <2>3 DEF Delete, TypeOK, RequestType, SpentType
<1>2. CASE DeleteLook(r)
  <2>1. RequestType'
        BY <1>2, Ended, Gone DEF DeleteLook, RequestType, At
  <2> QED
      BY <1>2, <2>1 DEF DeleteLook, TypeOK, RequestType
<1>3. CASE DeleteRow(r)
  <2>1. RequestType'
        BY <1>3, Ended, Gone DEF DeleteRow, RequestType, At
  <2>2. RowsType'
        BY <1>3 DEF DeleteRow, RowsType, Rows
  <2> QED
      BY <1>3, <2>1, <2>2 DEF DeleteRow, TypeOK, RequestType, RowsType
<1>4. CASE DeleteBytes(r)
  <2>1. RequestType'
        BY <1>4, Ended DEF DeleteBytes, RequestType
  <2>2. PlaceType'
        BY <1>4, PlaceChanges DEF DeleteBytes, PlaceType
  <2> QED
      BY <1>4, <2>1, <2>2 DEF DeleteBytes, TypeOK, RequestType, PlaceType
<1> QED
    BY <1>1, <1>2, <1>3, <1>4

LEMMA AccountTypes ==
    ASSUME TypeOK, NEW r \in Requests,
           \/ (\E u \in Users : DeleteAccount(r, u)) \/ CancelPaused(r) \/ ListRecordings(r)
           \/ AccountBytes(r) \/ DeleteUser(r)
    PROVE  TypeOK'
<1> USE TypesApart
<1>1. ASSUME NEW u \in Users, DeleteAccount(r, u)
      PROVE  TypeOK'
  <2>1. [op |-> "account", at |-> "cancel", user |-> u, listed |-> {}, todo |-> {}, paused |-> {j \in OwnedBy(u) : jobs[j].status = "paused"}] \in Serving
        BY <1>1 DEF DeleteAccount, Serving, Closings, OwnedBy
  <2>2. RequestType'
        BY <1>1, <2>1, Served DEF DeleteAccount, RequestType
  <2>3. SpentType'
        BY <1>1, CallCounts DEF DeleteAccount, SpentType
  <2> QED
      BY <1>1, <2>2, <2>3 DEF DeleteAccount, TypeOK, RequestType, SpentType
<1>2. CASE CancelPaused(r)
  <2>1. request[r] \in Closings
        BY <1>2, Shapes DEF CancelPaused, At
  <2>2. RequestType'
        BY <1>2, <2>1, Served DEF CancelPaused, RequestType, Serving, Closings, Set
  <2>3. JobsType'
        BY <1>2 DEF CancelPaused, JobsType
  <2>4. ScarsType'
        BY <1>2, MarksKeep DEF CancelPaused, ScarsType
  <2> QED
      BY <1>2, <2>2, <2>3, <2>4 DEF CancelPaused, TypeOK, RequestType, JobsType, ScarsType
<1>3. CASE ListRecordings(r)
  <2>1. request[r] \in Closings
        BY <1>3, Shapes DEF ListRecordings, At
  <2> DEFINE mine == {Snapshot(i) : i \in Mine(request[r].user)}
  <2>2. mine \in SUBSET Snapshots
        BY DEF Mine, Snapshot, Snapshots, Rows, RowsType
  <2> HIDE DEF mine
  <2>3. [request[r] EXCEPT !.at = "bytes", !.listed = mine, !.todo = mine] \in Serving
        BY <2>1, <2>2 DEF Serving, Closings
  <2>4. RequestType'
        BY <1>3, <2>3, Served DEF ListRecordings, mine
  <2> QED
      BY <1>3, <2>4 DEF ListRecordings, TypeOK, RequestType
<1>4. CASE AccountBytes(r)
  <2>1. request[r] \in Closings
        BY <1>4, Shapes DEF AccountBytes, At
  <2>2. RequestType'
        BY <1>4, <2>1, Served DEF AccountBytes, RequestType, Serving, Closings, Set
  <2>3. PICK s \in request[r].todo : place' = [place EXCEPT ![s.id] = @ \ Bytes(s)]
        BY <1>4 DEF AccountBytes
  <2>4. PlaceType'
        BY <2>3, PlaceChanges DEF PlaceType
  <2> QED
      BY <1>4, <2>2, <2>4 DEF AccountBytes, TypeOK, RequestType, PlaceType
<1>5. CASE DeleteUser(r)
  <2>1. RequestType'
        BY <1>5, Ended DEF DeleteUser, RequestType
  <2>2. RowsType'
        BY <1>5 DEF DeleteUser, RowsType, Rows
  <2>3. JobsType'
        BY <1>5 DEF DeleteUser, JobsType
  <2>4. ScarsType'
        BY <1>5, MarksKeep DEF DeleteUser, ScarsType
  <2> QED
      BY <1>5, <2>1, <2>2, <2>3, <2>4 DEF DeleteUser, TypeOK, RequestType, RowsType, JobsType, ScarsType
<1> QED
    BY <1>1, <1>2, <1>3, <1>4, <1>5

LEMMA SweepTypes ==
    ASSUME TypeOK,
           \/ SweepList \/ SweepPick \/ SweepBytes \/ SweepRow \/ ListObjects \/ ListNames
           \/ SweepOrphan \/ SweepEnds
    PROVE  TypeOK'
<1> USE TypesApart
<1>1. CASE SweepList
  <2>1. SweepType'
        BY <1>1 DEF SweepList, SweepType, Sweeps, Expiring, Snapshot, Snapshots, Rows, RowsType
  <2> QED
      BY <1>1, <2>1 DEF SweepList, Sweeps, TypeOK, SweepType
<1>2. CASE SweepPick
  <2>1. SweepType'
        BY <1>2 DEF SweepPick, SweepType, Sweeps, Expiring, Orphaning
  <2>2. ScarsType'
        BY <1>2, MarksKeep DEF SweepPick, ScarsType, Sweeps
  <2> QED
      BY <1>2, <2>1, <2>2 DEF SweepPick, Sweeps, TypeOK, SweepType, ScarsType
<1>3. CASE SweepBytes
  <2>1. SweepType'
        BY <1>3 DEF SweepBytes, SweepType, Sweeps, Expiring, Orphaning
  <2>2. PlaceType'
        BY <1>3, PlaceChanges DEF SweepBytes, PlaceType
  <2> QED
      BY <1>3, <2>1, <2>2 DEF SweepBytes, Sweeps, TypeOK, SweepType, PlaceType
<1>4. CASE SweepRow
  <2>1. SweepType'
        BY <1>4 DEF SweepRow, SweepType, Sweeps, Expiring, Orphaning
  <2>2. RowsType'
        BY <1>4 DEF SweepRow, RowsType, Rows
  <2> QED
      BY <1>4, <2>1, <2>2 DEF SweepRow, Sweeps, TypeOK, SweepType, RowsType
<1>5. CASE ListObjects
  <2>1. SweepType'
        BY <1>5 DEF ListObjects, SweepType, Sweeps, Orphaning
  <2> QED
      BY <1>5, <2>1 DEF ListObjects, Sweeps, TypeOK, SweepType
<1>6. CASE ListNames
  <2>1. SweepType'
        BY <1>6 DEF ListNames, SweepType, Sweeps, Expiring, Orphaning
  <2> QED
      BY <1>6, <2>1 DEF ListNames, Sweeps, TypeOK, SweepType
<1>7. CASE SweepOrphan
  <2>1. SweepType'
        BY <1>7 DEF SweepOrphan, SweepType, Sweeps, Expiring, Orphaning
  <2>2. PlaceType'
        BY <1>7, PlaceChanges DEF SweepOrphan, PlaceType
  <2> QED
      BY <1>7, <2>1, <2>2 DEF SweepOrphan, Sweeps, TypeOK, SweepType, PlaceType
<1>8. CASE SweepEnds
  <2>1. SweepType'
        BY <1>8 DEF SweepEnds, SweepType, Sweeps
  <2> QED
      BY <1>8, <2>1 DEF SweepEnds, Sweeps, TypeOK, SweepType
<1> QED
    BY <1>1, <1>2, <1>3, <1>4, <1>5, <1>6, <1>7, <1>8

LEMMA SubmitTypes ==
    ASSUME TypeOK, NEW r \in Requests,
           \/ (\E i \in Ids : Submit(r, i)) \/ SubmitRefused(r)
           \/ (\E j \in Jobs : CreateJob(r, j))
    PROVE  TypeOK'
<1> USE TypesApart
<1>1. ASSUME NEW i \in Ids, Submit(r, i)
      PROVE  TypeOK'
  <2>1. [op |-> "submit", at |-> "create", id |-> i] \in Serving
        BY <1>1 DEF Submit, Serving, Submits
  <2>2. RequestType'
        BY <1>1, <2>1, Served DEF Submit, RequestType
  <2>3. SpentType'
        BY <1>1, CallCounts DEF Submit, SpentType
  <2> QED
      BY <1>1, <2>2, <2>3 DEF Submit, TypeOK, RequestType, SpentType
<1>2. CASE SubmitRefused(r)
  <2>1. RequestType'
        BY <1>2, Ended DEF SubmitRefused, RequestType
  <2> QED
      BY <1>2, <2>1 DEF SubmitRefused, TypeOK, RequestType
<1>3. ASSUME NEW j \in Jobs, CreateJob(r, j)
      PROVE  TypeOK'
  <2>1. RequestType'
        BY <1>3, Ended DEF CreateJob, RequestType
  <2>2. JobsType'
        BY <1>3, Shapes DEF CreateJob, JobsType, At, Submits, Active
  <2>3. ScarsType'
        BY <1>3, MarksKeep DEF CreateJob, ScarsType
  <2> QED
      BY <1>3, <2>1, <2>2, <2>3 DEF CreateJob, TypeOK, RequestType, JobsType, ScarsType
<1> QED
    BY <1>1, <1>2, <1>3

LEMMA JobTypes ==
    ASSUME TypeOK, NEW j \in Jobs,
           \/ (\E from \in {"queued", "paused"}, to \in {"queued", "paused", "ended"} : Waits(j, from, to))
           \/ Take(j) \/ KeepCopy(j) \/ Succeed(j) \/ Stop(j)
    PROVE  TypeOK'
<1> USE TypesApart
<1>1. CASE (\E from \in {"queued", "paused"}, to \in {"queued", "paused", "ended"} : Waits(j, from, to))
  <2>1. JobsType'
        BY <1>1 DEF Waits, JobsType, Active
  <2> QED
      BY <1>1, <2>1 DEF Waits, TypeOK, JobsType
<1>2. CASE Take(j)
  <2>1. JobsType'
        BY <1>2 DEF Take, JobsType, Active
  <2> QED
      BY <1>2, <2>1 DEF Take, TypeOK, JobsType
<1>3. CASE KeepCopy(j)
  <2>1. JobsType'
        BY <1>3 DEF KeepCopy, JobsType
  <2>2. PlaceType'
        BY <1>3, PlaceChanges DEF KeepCopy, PlaceType
  <2> QED
      BY <1>3, <2>1, <2>2 DEF KeepCopy, TypeOK, JobsType, PlaceType
<1>4. CASE Succeed(j)
  <2>1. JobsType'
        BY <1>4 DEF Succeed, JobsType
  <2>2. RowsType'
        BY <1>4 DEF Succeed, RowsType, Rows
  <2>3. ScarsType'
        BY <1>4, MarksKeep DEF Succeed, ScarsType
  <2> QED
      BY <1>4, <2>1, <2>2, <2>3 DEF Succeed, TypeOK, JobsType, RowsType, ScarsType
<1>5. CASE Stop(j)
  <2>1. PICK to \in {"ended", "paused", jobs[j].status} : jobs' = [jobs EXCEPT ![j].status = to, ![j].worker = "no"]
        BY <1>5 DEF Stop
  <2>2. JobsType'
        BY <2>1 DEF JobsType, Active
  <2>3. ScarsType'
        BY <1>5, MarksKeep DEF Stop, ScarsType
  <2> QED
      BY <1>5, <2>2, <2>3 DEF Stop, TypeOK, JobsType, ScarsType
<1> QED
    BY <1>1, <1>2, <1>3, <1>4, <1>5

LEMMA FaultTypes ==
    ASSUME TypeOK,
           (\E r \in Requests : GoesAway(r)) \/ Crash
    PROVE  TypeOK'
<1> USE TypesApart
<1>1. ASSUME NEW r \in Requests, GoesAway(r)
      PROVE  TypeOK'
  <2>1. RequestType'
        BY <1>1, Ended DEF GoesAway, RequestType
  <2>2. SpentType'
        BY <1>1, CallCounts DEF GoesAway, SpentType
  <2>3. ScarsType'
        BY <1>1, MarksKeep DEF GoesAway, ScarsType
  <2> QED
      BY <1>1, <2>1, <2>2, <2>3 DEF GoesAway, TypeOK, RequestType, SpentType, ScarsType
<1>2. CASE Crash
  <2>1. RequestType'
        BY <1>2 DEF Crash, RequestType, Serving
  <2>2. SweepType'
        BY <1>2 DEF Crash, SweepType
  <2>3. SpentType'
        BY <1>2, CallCounts DEF Crash, SpentType
  <2>4. ScarsType'
        BY <1>2, MarksKeep DEF Crash, ScarsType
  <2> QED
      BY <1>2, <2>1, <2>2, <2>3, <2>4 DEF Crash, TypeOK, RequestType, SweepType, SpentType, ScarsType
<1> QED
    BY <1>1, <1>2

LEMMA Typing ==
    TypeOK /\ [Next]_vars => TypeOK'
<1> SUFFICES ASSUME TypeOK, [Next]_vars PROVE TypeOK'
    OBVIOUS
<1>1. ASSUME NEW r \in Requests, Serve(r) PROVE TypeOK'
      BY <1>1, UploadTypes, CompleteTypes, DeleteTypes, AccountTypes, SubmitTypes DEF Serve
<1>2. ASSUME NEW i \in Ids, BeginUpload(i) \/ Put(i) \/ ObjectAges(i) \/ RowAges(i) PROVE TypeOK'
      BY <1>2, ObjectTypes
<1>3. ASSUME NEW j \in Jobs, Job(j) PROVE TypeOK'
      BY <1>3, JobTypes DEF Job
<1>4. CASE Sweep
      BY <1>4, SweepTypes DEF Sweep
<1>5. CASE Crash \/ \E r \in Requests : GoesAway(r)
      BY <1>5, FaultTypes
<1>6. CASE UNCHANGED vars
      BY <1>6 DEF vars, TypeOK, Snapshots, Serving, Expiring, Orphaning
<1> QED
    BY <1>1, <1>2, <1>3, <1>4, <1>5, <1>6 DEF Next

LEMMA InitTypes ==
    Init => TypeOK
<1> SUFFICES ASSUME Init PROVE TypeOK
    OBVIOUS
<1>1. objects \in BOOLEAN /\ accounts \subseteq Users /\ RowsType /\ PlaceType
      BY DEF Init, RowsType, PlaceType
<1>2. used \subseteq Ids /\ signed \subseteq used /\ aged \subseteq Ids
      BY DEF Init
<1>3. JobsType /\ RequestType
      BY DEF Init, JobsType, RequestType, Serving
<1>4. SweepType /\ ScarsType /\ SpentType
      BY QuotaAssumption DEF Init, SweepType, ScarsType, SpentType
<1> QED
    BY <1>1, <1>2, <1>3, <1>4, TypesApart

\* Every variable keeps its type.
THEOREM TypeCorrect ==
    Spec => []TypeOK
<1> QED
    BY InitTypes, Typing, PTL DEF Spec

---------------------------------------------------------------------------
(* The bound on recordings.                                                *)

LEMMA Sizes ==
    /\ \A S \in SUBSET Ids : IsFiniteSet(S) /\ Cardinality(S) \in Nat
    /\ \A S \in SUBSET Requests : IsFiniteSet(S) /\ Cardinality(S) \in Nat /\ Cardinality(S) <= Cardinality(Requests)
    /\ Cardinality(Requests) \in Nat
<1>1. IsFiniteSet(Ids) /\ IsFiniteSet(Requests)
      BY UsersAssumption, RequestsAssumption
<1> QED
    BY <1>1, FS_Subset, FS_CardinalityType

\* A part of a set is no larger, and one more member adds at most one.
LEMMA SmallerSize ==
    ASSUME NEW T, IsFiniteSet(T), NEW S \in SUBSET T
    PROVE  Cardinality(S) <= Cardinality(T)
BY FS_Subset

LEMMA OneMoreSize ==
    ASSUME NEW T, IsFiniteSet(T), NEW x, NEW S \in SUBSET (T \cup {x})
    PROVE  IsFiniteSet(S) /\ Cardinality(S) <= Cardinality(T) + 1
<1>1. IsFiniteSet(T \cup {x}) /\ Cardinality(T \cup {x}) <= Cardinality(T) + 1
  <2>1. IsFiniteSet(T \cup {x})
           /\ Cardinality(T \cup {x}) = IF x \in T THEN Cardinality(T) ELSE Cardinality(T) + 1
        BY FS_AddElement
  <2>2. Cardinality(T) \in Nat
        BY FS_CardinalityType
  <2> QED
      BY <2>1, <2>2
<1>2. IsFiniteSet(S) /\ Cardinality(S) <= Cardinality(T \cup {x})
      BY <1>1, FS_Subset
<1>3. Cardinality(T) \in Nat /\ Cardinality(T \cup {x}) \in Nat /\ Cardinality(S) \in Nat
      BY <1>1, <1>2, FS_CardinalityType
<1> QED
    BY <1>1, <1>2, <1>3

LEMMA OneLessSize ==
    ASSUME NEW T, IsFiniteSet(T), NEW x \in T, NEW S \in SUBSET (T \ {x})
    PROVE  Cardinality(S) + 1 <= Cardinality(T)
<1>1. IsFiniteSet(T \ {x}) /\ Cardinality(T \ {x}) = Cardinality(T) - 1
      BY FS_RemoveElement
<1>2. IsFiniteSet(S) /\ Cardinality(S) <= Cardinality(T \ {x})
      BY <1>1, FS_Subset
<1>3. Cardinality(T) \in Nat /\ Cardinality(T \ {x}) \in Nat /\ Cardinality(S) \in Nat
      BY <1>1, <1>2, FS_CardinalityType
<1> QED
    BY <1>1, <1>2, <1>3

\* The three ways a step can go for one user: neither rows nor pending
\* uploads become more, a pending upload may become a row, or an upload is
\* admitted under the quota.
NotMore(u) == Mine(u)' \subseteq Mine(u) /\ Pending(u)' \subseteq Pending(u)
Recorded(u) ==
    \E i \in Ids, r \in Pending(u) : Mine(u)' \subseteq Mine(u) \cup {i} /\ Pending(u)' \subseteq Pending(u) \ {r}
Admitted(u) ==
    /\ WithinQuota(u) /\ Mine(u)' = Mine(u)
    /\ \E r \in Requests : Pending(u)' \subseteq Pending(u) \cup {r}
    /\ Pending(u) # {} => "overlap" \in scars'

LEMMA CountedStep ==
    ASSUME Counted, scars \subseteq scars', \A u \in Users : NotMore(u) \/ Recorded(u) \/ Admitted(u)
    PROVE  Counted'
<1> SUFFICES ASSUME NEW u \in Users
             PROVE  /\ Kept(u)' < MaxRecordingsPerUser + Cardinality(Requests)
                    /\ "overlap" \notin scars' => Kept(u)' <= MaxRecordingsPerUser
    BY DEF Counted
<1>1. /\ Mine(u) \in SUBSET Ids /\ Mine(u)' \in SUBSET Ids
      /\ Pending(u) \in SUBSET Requests /\ Pending(u)' \in SUBSET Requests
      BY DEF Mine, Pending
<1>2. /\ IsFiniteSet(Mine(u)) /\ Cardinality(Mine(u)) \in Nat /\ Cardinality(Mine(u)') \in Nat
      /\ IsFiniteSet(Pending(u)) /\ Cardinality(Pending(u)) \in Nat /\ Cardinality(Pending(u)') \in Nat
      /\ Cardinality(Pending(u)') <= Cardinality(Requests)
      /\ Cardinality(Requests) \in Nat /\ MaxRecordingsPerUser \in Nat
      BY <1>1, Sizes, QuotaAssumption
<1>3. /\ Kept(u) = Cardinality(Mine(u)) + Cardinality(Pending(u))
      /\ Kept(u)' = Cardinality(Mine(u)') + Cardinality(Pending(u)')
      BY DEF Kept
<1>4. ASSUME Kept(u)' <= Kept(u)
      PROVE  /\ Kept(u)' < MaxRecordingsPerUser + Cardinality(Requests)
             /\ "overlap" \notin scars' => Kept(u)' <= MaxRecordingsPerUser
      BY <1>2, <1>3, <1>4 DEF Counted
<1>5. CASE NotMore(u)
  <2>1. Cardinality(Mine(u)') <= Cardinality(Mine(u)) /\ Cardinality(Pending(u)') <= Cardinality(Pending(u))
        BY <1>2, <1>5, SmallerSize DEF NotMore
  <2> QED
      BY <1>2, <1>3, <1>4, <2>1
<1>6. CASE Recorded(u)
  <2>1. PICK i \in Ids, r \in Pending(u) :
            Mine(u)' \subseteq Mine(u) \cup {i} /\ Pending(u)' \subseteq Pending(u) \ {r}
        BY <1>6 DEF Recorded
  <2>2. Cardinality(Mine(u)') <= Cardinality(Mine(u)) + 1
        BY <1>2, <2>1, OneMoreSize
  <2>3. Cardinality(Pending(u)') + 1 <= Cardinality(Pending(u))
        BY <1>2, <2>1, OneLessSize
  <2> QED
      BY <1>2, <1>3, <1>4, <2>2, <2>3
<1>7. CASE Admitted(u)
  <2>1. Cardinality(Mine(u)') < MaxRecordingsPerUser
        BY <1>7 DEF Admitted, WithinQuota
  <2>2. ASSUME "overlap" \notin scars'
        PROVE  Cardinality(Pending(u)') <= 1
    <3>1. PICK r \in Requests : Pending(u)' \subseteq {} \cup {r}
          BY <1>7, <2>2 DEF Admitted
    <3>2. IsFiniteSet({}) /\ Cardinality({}) = 0
          BY FS_EmptySet
    <3> QED
        BY <3>1, <3>2, OneMoreSize
  <2> QED
      BY <1>2, <1>3, <2>1, <2>2
<1> QED
    BY <1>5, <1>6, <1>7

\* Whose rows stay or go, and whose pending requests end, go on or stay.
LEMMA FewerRows ==
    ASSUME NEW u \in Users, \A i \in Ids : rows[i] = None => rows'[i] = None
    PROVE  Mine(u)' \subseteq Mine(u)
BY DEF Mine

LEMMA NoneAdmitted ==
    ASSUME NEW u \in Users, RequestType, NEW r \in Requests, NEW new, Set(r, new),
           new.op = "upload" \/ (new.op = "complete" /\ new.at \in {"probe", "create"}) =>
               /\ request[r].op = "upload" \/ (request[r].op = "complete" /\ request[r].at \in {"probe", "create"})
               /\ request[r].id = new.id
    PROVE  Pending(u)' \subseteq Pending(u)
BY DEF Pending, Passed, Set, RequestType

LEMMA QuietStep ==
    ASSUME Counted, scars \subseteq scars',
           \A i \in Ids : rows[i] = None => rows'[i] = None,
           \A u \in Users : Pending(u)' \subseteq Pending(u)
    PROVE  Counted'
BY CountedStep, FewerRows DEF NotMore

\* What ends or begins uncounted admits nothing, nor does a step of a request
\* that is counted already.
LEMMA EndsUncounted ==
    ASSUME RequestType, NEW r \in Requests, Ends(r), NEW u \in Users
    PROVE  Pending(u)' \subseteq Pending(u) \ {r}
BY DEF Pending, Passed, Ends, Set, Idle, RequestType

LEMMA GoesUncounted ==
    ASSUME RequestType, NEW r \in Requests, NEW at, Goes(r, at), NEW u \in Users,
           request[r].op = "complete" => at \notin {"probe", "create"} \/ request[r].at = "probe"
    PROVE  Pending(u)' \subseteq Pending(u)
<1> DEFINE new == [request[r] EXCEPT !.at = at]
<1>1. /\ new.op = request[r].op
      /\ request[r].op \in {"upload", "complete"} => new.id = request[r].id /\ new.at = at
      BY Shapes DEF Serving, Uploads, Completes, Submits, Deletes, Closings, Idle
<1>2. request' = [request EXCEPT ![r] = new]
      BY DEF Goes, Set
<1> HIDE DEF new
<1> QED
    BY <1>1, <1>2 DEF Pending, Passed, RequestType

LEMMA BeginsUncounted ==
    ASSUME RequestType, NEW r \in Requests, NEW new, Set(r, new), NEW u \in Users,
           new.op # "upload", new.op = "complete" => new.at \notin {"probe", "create"}
    PROVE  Pending(u)' \subseteq Pending(u)
BY DEF Pending, Passed, Set, RequestType

LEMMA MarksGrow ==
    ASSUME NEW scar, NEW when, Marked(scar, when)
    PROVE  scars \subseteq scars'
BY DEF Marked

\* A recorded upload was pending, and is a row of its owner at most.
LEMMA RecordedStep ==
    ASSUME TypeOK, Counted, NEW r \in Requests, Ends(r), scars \subseteq scars',
           request[r].op = "upload" \/ (request[r].op = "complete" /\ request[r].at = "create"),
           NEW row, rows' = [rows EXCEPT ![request[r].id] = row]
    PROVE  Counted'
<1> USE TypesApart
<1> DEFINE i == request[r].id
<1>1. i \in Ids
      BY Shapes DEF Uploads, Completes
<1>2. ASSUME NEW u \in Users, Owner[i] = u
      PROVE  Recorded(u)
  <2>1. r \in Pending(u)
        BY <1>2 DEF Pending, Passed
  <2>2. Mine(u)' \subseteq Mine(u) \cup {i}
        BY <1>1 DEF Mine, RowsType
  <2> QED
      BY <1>1, <2>1, <2>2, EndsUncounted DEF Recorded
<1>3. ASSUME NEW u \in Users, Owner[i] # u
      PROVE  NotMore(u)
  <2>1. Mine(u)' \subseteq Mine(u)
        BY <1>1, <1>3 DEF Mine, RowsType
  <2>2. Pending(u)' \subseteq Pending(u)
        BY EndsUncounted
  <2> QED
      BY <2>1, <2>2 DEF NotMore
<1> QED
    BY <1>2, <1>3, CountedStep

\* An upload is admitted for one user, under the quota, and the history is
\* told when another one has passed.
LEMMA AdmittedStep ==
    ASSUME TypeOK, Counted, NEW r \in Requests, NEW i \in Ids, NEW new, Set(r, new), new.id = i,
           rows' = rows, WithinQuota(Owner[i]),
           Marked("overlap", \E q \in Requests : Passed(q, Owner[i]))
    PROVE  Counted'
<1> USE TypesApart
<1>1. scars \subseteq scars'
      BY MarksGrow
<1>2. ASSUME NEW u \in Users
      PROVE  /\ Mine(u)' = Mine(u)
             /\ Pending(u)' \subseteq Pending(u) \cup {r}
             /\ u # Owner[i] => Pending(u)' \subseteq Pending(u)
      BY DEF Mine, Pending, Passed, Set, RequestType
<1>3. ASSUME NEW u \in Users, u = Owner[i]
      PROVE  Admitted(u)
  <2>1. Pending(u) # {} => "overlap" \in scars'
        BY <1>3 DEF Marked, Pending
  <2> QED
      BY <1>2, <1>3, <2>1 DEF Admitted
<1>4. ASSUME NEW u \in Users, u # Owner[i]
      PROVE  NotMore(u)
      BY <1>2, <1>4 DEF NotMore
<1> QED
    BY <1>1, <1>3, <1>4, CountedStep

LEMMA ServedCounted ==
    ASSUME TypeOK, Counted, NEW r \in Requests, Serve(r)
    PROVE  Counted'
<1> USE TypesApart
<1>1. CASE UploadRefused(r) \/ CompleteDrop(r) \/ DeleteBytes(r) \/ SubmitRefused(r) \/ \E j \in Jobs : CreateJob(r, j)
  <2>1. Ends(r) /\ rows' = rows
        BY <1>1 DEF UploadRefused, CompleteDrop, DeleteBytes, SubmitRefused, CreateJob
  <2>2. scars \subseteq scars'
        BY <1>1, MarksGrow DEF UploadRefused, CompleteDrop, DeleteBytes, SubmitRefused, CreateJob
  <2> QED
      BY <2>1, <2>2, EndsUncounted, QuietStep
<1>2. CASE UploadStored(r) \/ DropLocal(r)
  <2>1. PICK at : Goes(r, at) /\ request[r].op = "upload" /\ rows' = rows /\ scars' = scars
        BY <1>2 DEF UploadStored, DropLocal, At
  <2> QED
      BY <2>1, GoesUncounted, QuietStep
<1>3. CASE CompleteStat(r) \/ CompleteProbe(r)
  <2>1. rows' = rows /\ scars' = scars
        BY <1>3 DEF CompleteStat, CompleteProbe
  <2>2. CASE Ends(r)
        BY <2>1, <2>2, EndsUncounted, QuietStep
  <2>3. CASE ~Ends(r)
    <3>1. \E at : Goes(r, at) /\ (at \notin {"probe", "create"} \/ request[r].at = "probe")
          BY <1>3, <2>3 DEF CompleteStat, CompleteProbe, At
    <3> QED
        BY <2>1, <3>1, GoesUncounted, QuietStep
  <2> QED
      BY <2>2, <2>3
<1>4. ASSUME NEW i \in Ids, Upload(r, i)
      PROVE  Counted'
  <2> DEFINE new == [op |-> "upload", at |-> "copy", id |-> i]
  <2>1. Set(r, new) /\ new.id = i /\ rows' = rows /\ WithinQuota(Owner[i])
        BY <1>4 DEF Upload
  <2>2. Marked("overlap", \E q \in Requests : Passed(q, Owner[i]))
        BY <1>4 DEF Upload
  <2> QED
      BY <2>1, <2>2, AdmittedStep
<1>5. CASE UploadCreate(r) \/ CompleteCreate(r)
  <2>1. Ends(r)
        BY <1>5 DEF UploadCreate, CompleteCreate
  <2>2. request[r].op = "upload" \/ (request[r].op = "complete" /\ request[r].at = "create")
        BY <1>5 DEF UploadCreate, CompleteCreate, At
  <2>3. \/ rows' = rows
        \/ rows' = [rows EXCEPT ![request[r].id] = [old |-> FALSE, kept |-> FALSE]]
        BY <1>5 DEF UploadCreate, CompleteCreate
  <2>4. scars \subseteq scars'
        BY <1>5, MarksGrow DEF UploadCreate, CompleteCreate
  <2> QED
      BY <2>1, <2>2, <2>3, <2>4, RecordedStep, EndsUncounted, QuietStep
<1>6. ASSUME NEW i \in Ids, CompleteUpload(r, i) \/ Delete(r, i) \/ Submit(r, i)
      PROVE  Counted'
  <2>1. PICK new : Set(r, new) /\ new.op # "upload" /\ (new.op = "complete" => new.at \notin {"probe", "create"})
        BY <1>6 DEF CompleteUpload, Delete, Submit
  <2>2. rows' = rows /\ scars \subseteq scars'
        BY <1>6, MarksGrow DEF CompleteUpload, Delete, Submit
  <2> QED
      BY <2>1, <2>2, BeginsUncounted, QuietStep
<1>7. CASE CompleteQuota(r)
  <2>1. request[r] \in Completes /\ request[r].at = "quota" /\ rows' = rows
        BY <1>7, Shapes DEF CompleteQuota, At
  <2>2. CASE WithinQuota(Owner[request[r].id]) /\ Goes(r, "probe")
             /\ Marked("overlap", \E q \in Requests : Passed(q, Owner[request[r].id]))
    <3> DEFINE new == [request[r] EXCEPT !.at = "probe"]
    <3>1. Set(r, new) /\ new.id = request[r].id /\ request[r].id \in Ids
          BY <2>1, <2>2 DEF Goes, Completes
    <3> HIDE DEF new
    <3> QED
        BY <2>1, <2>2, <3>1, AdmittedStep
  <2>3. CASE Goes(r, "drop") /\ scars' = scars
      BY <2>1, <2>3, GoesUncounted, QuietStep
  <2> QED
      BY <1>7, <2>2, <2>3 DEF CompleteQuota
<1>8. CASE DeleteLook(r) \/ DeleteRow(r)
  <2>1. request[r].op = "delete" /\ scars' = scars
        BY <1>8 DEF DeleteLook, DeleteRow, At
  <2>2. \A i \in Ids : rows[i] = None => rows'[i] = None
        BY <1>8 DEF DeleteLook, DeleteRow, RowsType
  <2>3. Ends(r) \/ \E at : Goes(r, at)
        BY <1>8 DEF DeleteLook, DeleteRow
  <2> QED
      BY <2>1, <2>2, <2>3, EndsUncounted, GoesUncounted, QuietStep
<1>9. CASE (\E u \in Users : DeleteAccount(r, u)) \/ CancelPaused(r) \/ ListRecordings(r) \/ AccountBytes(r)
  <2>1. PICK new : Set(r, new) /\ new.op = "account"
    <3>1. CASE \E u \in Users : DeleteAccount(r, u)
          BY <3>1 DEF DeleteAccount
    <3>2. CASE CancelPaused(r) \/ ListRecordings(r) \/ AccountBytes(r)
      <4>1. request[r] \in Closings
            BY <3>2, Shapes DEF CancelPaused, ListRecordings, AccountBytes, At
      <4>2. CASE CancelPaused(r)
        <5>1. PICK j : Set(r, [request[r] EXCEPT !.paused = @ \ {j}])
              BY <4>2 DEF CancelPaused
        <5>2. [request[r] EXCEPT !.paused = @ \ {j}].op = "account"
              BY <4>1 DEF Closings
        <5> QED
            BY <5>1, <5>2
      <4>3. CASE AccountBytes(r)
        <5>1. PICK s : Set(r, [request[r] EXCEPT !.todo = @ \ {s}])
              BY <4>3 DEF AccountBytes
        <5>2. [request[r] EXCEPT !.todo = @ \ {s}].op = "account"
              BY <4>1 DEF Closings
        <5> QED
            BY <5>1, <5>2
      <4>4. CASE ListRecordings(r)
        <5>1. PICK mine : Set(r, [request[r] EXCEPT !.at = "bytes", !.listed = mine, !.todo = mine])
              BY <4>4 DEF ListRecordings
        <5>2. [request[r] EXCEPT !.at = "bytes", !.listed = mine, !.todo = mine].op = "account"
              BY <4>1 DEF Closings
        <5> QED
            BY <5>1, <5>2
      <4> QED
          BY <3>2, <4>2, <4>3, <4>4
    <3> QED
        BY <1>9, <3>1, <3>2
  <2>2. rows' = rows /\ scars \subseteq scars'
        BY <1>9, MarksGrow DEF DeleteAccount, CancelPaused, ListRecordings, AccountBytes
  <2> QED
      BY <2>1, <2>2, BeginsUncounted, QuietStep
<1>10. CASE DeleteUser(r)
  <2>1. Ends(r) /\ \A i \in Ids : rows[i] = None => rows'[i] = None
        BY <1>10 DEF DeleteUser
  <2>2. scars \subseteq scars'
        BY <1>10, MarksGrow DEF DeleteUser
  <2> QED
      BY <2>1, <2>2, EndsUncounted, QuietStep
<1> QED
    BY <1>1, <1>2, <1>3, <1>4, <1>5, <1>6, <1>7, <1>8, <1>9, <1>10 DEF Serve

\* Nothing outside the requests makes a row or admits an upload.
LEMMA OthersCounted ==
    ASSUME TypeOK, Counted,
           \/ \E i \in Ids : BeginUpload(i) \/ Put(i) \/ ObjectAges(i) \/ RowAges(i)
           \/ \E j \in Jobs : Job(j)
           \/ Sweep \/ Crash
           \/ \E r \in Requests : GoesAway(r)
    PROVE  Counted'
<1> USE TypesApart
<1>1. ASSUME NEW i \in Ids, BeginUpload(i) \/ Put(i) \/ ObjectAges(i) \/ RowAges(i)
      PROVE  Counted'
  <2>1. request' = request /\ scars' = scars /\ \A k \in Ids : rows[k] = None => rows'[k] = None
        BY <1>1 DEF BeginUpload, Put, ObjectAges, RowAges, RowsType
  <2> QED
      BY <2>1, QuietStep DEF Pending, Passed
<1>2. ASSUME NEW j \in Jobs, Job(j)
      PROVE  Counted'
  <2>1. request' = request
        BY <1>2 DEF Job, Waits, Take, KeepCopy, Succeed, Stop
  <2>2. \A k \in Ids : rows[k] = None => rows'[k] = None
        BY <1>2 DEF Job, Waits, Take, KeepCopy, Succeed, Stop, RowsType
  <2>3. scars \subseteq scars'
        BY <1>2, MarksGrow DEF Job, Waits, Take, KeepCopy, Succeed, Stop
  <2> QED
      BY <2>1, <2>2, <2>3, QuietStep DEF Pending, Passed
<1>3. CASE Sweep
  <2>1. request' = request
        BY <1>3 DEF Sweep, SweepList, SweepPick, SweepBytes, SweepRow, ListObjects, ListNames, SweepOrphan, SweepEnds, Sweeps
  <2>2. \A k \in Ids : rows[k] = None => rows'[k] = None
        BY <1>3 DEF Sweep, SweepList, SweepPick, SweepBytes, SweepRow, ListObjects, ListNames, SweepOrphan, SweepEnds, RowsType
  <2>3. scars \subseteq scars'
        BY <1>3, MarksGrow DEF Sweep, SweepList, SweepPick, SweepBytes, SweepRow, ListObjects, ListNames, SweepOrphan, SweepEnds
  <2> QED
      BY <2>1, <2>2, <2>3, QuietStep DEF Pending, Passed
<1>4. CASE Crash
  <2>1. \A u \in Users : Pending(u)' = {}
        BY <1>4 DEF Crash, Pending, Passed, Idle
  <2>2. rows' = rows /\ scars \subseteq scars'
        BY <1>4, MarksGrow DEF Crash
  <2> QED
      BY <2>1, <2>2, QuietStep
<1>5. ASSUME NEW r \in Requests, GoesAway(r)
      PROVE  Counted'
  <2>1. Ends(r) /\ rows' = rows /\ scars \subseteq scars'
        BY <1>5, MarksGrow DEF GoesAway
  <2> QED
      BY <2>1, EndsUncounted, QuietStep
<1> QED
    BY <1>1, <1>2, <1>3, <1>4, <1>5

LEMMA InitCounted ==
    Init => Counted
<1> SUFFICES ASSUME Init, NEW u \in Users
             PROVE  /\ Kept(u) < MaxRecordingsPerUser + Cardinality(Requests)
                    /\ Kept(u) <= MaxRecordingsPerUser
    BY DEF Counted
<1>1. Mine(u) = {} /\ Pending(u) = {}
      BY DEF Init, Mine, Pending, Passed, Idle
<1>2. Cardinality({}) = 0
      BY FS_EmptySet
<1> QED
    BY <1>1, <1>2, Sizes, QuotaAssumption DEF Kept

\* The types and the count together are inductive.
THEOREM Invariance ==
    Spec => [](TypeOK /\ Counted)
<1>1. Init => TypeOK /\ Counted
      BY InitTypes, InitCounted
<1>2. TypeOK /\ Counted /\ [Next]_vars => (TypeOK /\ Counted)'
  <2> SUFFICES ASSUME TypeOK, Counted, [Next]_vars PROVE Counted'
      BY Typing
  <2>1. CASE UNCHANGED vars
        BY <2>1 DEF vars, Counted, Kept, Mine, Pending, Passed
  <2> QED
      BY <2>1, ServedCounted, OthersCounted DEF Next
<1> QED
    BY <1>1, <1>2, PTL DEF Spec

\* However many uploads are checked at one time, a user passes the bound by
\* less than the service serves requests, and without such uploads not at all
\* (RecordingUsage and CreateRecording are two statements).
THEOREM QuotaCorrect ==
    Spec => []QuotaHolds
<1>1. TypeOK /\ Counted => QuotaHolds
  <2> SUFFICES ASSUME Counted, NEW u \in Users
               PROVE  /\ Cardinality(Mine(u)) < MaxRecordingsPerUser + Cardinality(Requests)
                      /\ "overlap" \notin scars => Cardinality(Mine(u)) <= MaxRecordingsPerUser
      BY DEF QuotaHolds
  <2>1. Mine(u) \in SUBSET Ids /\ Pending(u) \in SUBSET Requests
        BY DEF Mine, Pending
  <2>2. /\ Cardinality(Mine(u)) \in Nat /\ Cardinality(Pending(u)) \in Nat
        /\ Cardinality(Requests) \in Nat /\ MaxRecordingsPerUser \in Nat
        BY <2>1, Sizes, QuotaAssumption
  <2> QED
      BY <2>2 DEF Counted, Kept
<1> QED
    BY <1>1, Invariance, PTL
=============================================================================
